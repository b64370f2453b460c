---------------------------- MODULE HyDFSProofs ----------------------------
(***************************************************************************)
(* Proofs about the ring, the block store and HyDFS, for any ring, file,   *)
(* number of replicas, commands, crashes and joins, and for whatever may   *)
(* happen while a merge goes on.                                           *)
(*                                                                         *)
(* First the operators: ranks in an ordered finite set, of which both the  *)
(* successors of a point on the ring and the sorted blocks of a merge are  *)
(* made; induction over Nat in the form of sets, and with it the content   *)
(* of a file, which FlattenSeq puts together. Then the invariant Sound,    *)
(* one lemma per action. It has the types, that no block store holds a key *)
(* twice, that a message has a receiver, and that a file on its way along  *)
(* the chain was stored by all nodes before. Then Alone: the stages of a   *)
(* merge that nothing has met, from its command to identical replicas.     *)
(* Then Kept: a write a replica has taken in is on its disk, or in an      *)
(* update on its way to a replica that has deleted its file for it, while  *)
(* a merge goes on that only crashes meet. Then Alive: of the replicas     *)
(* there were when the system was last Whole those that live have the      *)
(* file, and the first of them has yet to learn of a failure, or to scan,  *)
(* or has sent the missing copies, unless it has learned of the failure in *)
(* a Probe. Last, Lined: what the blocks of the stores are                 *)
(* made of and which appends are still under way, so that the blocks a     *)
(* merge collects are sorted into the order in which the writes were       *)
(* issued.                                                                 *)
(***************************************************************************)
EXTENDS HyDFS, FunctionTheorems, FiniteSetTheorems, SequenceTheorems, WellFoundedInduction, TLAPS

----------------------------------------------------------------------------
(* Orders on finite sets *)

\* R orders S strictly and completely.
Orders(R, S) ==
  /\ \A x \in S : <<x, x>> \notin R
  /\ \A x, y, z \in S : <<x, y>> \in R /\ <<y, z>> \in R => <<x, z>> \in R
  /\ \A x, y \in S : x = y \/ <<x, y>> \in R \/ <<y, x>> \in R

\* What comes before x.
Below(R, S, x) == {y \in S : <<y, x>> \in R}

\* Elements of an ordered set come at different places,
LEMMA BelowGrows ==
  ASSUME NEW S, IsFiniteSet(S), NEW R, Orders(R, S), NEW x \in S, NEW y \in S, <<x, y>> \in R
  PROVE  /\ Cardinality(Below(R, S, x)) \in Nat /\ Cardinality(Below(R, S, y)) \in Nat
         /\ Cardinality(Below(R, S, x)) < Cardinality(Below(R, S, y))
<1>. DEFINE A == Below(R, S, x)
            B == Below(R, S, y)
<1>1. A \in SUBSET B /\ x \in B /\ x \notin A /\ B \in SUBSET S BY DEF Below, Orders
<1>. HIDE DEF A, B
<1>2. IsFiniteSet(B) BY <1>1, FS_Subset
<1>3. IsFiniteSet(A) /\ Cardinality(A) <= Cardinality(B) /\ (Cardinality(B) = Cardinality(A) => B = A)
  BY <1>1, <1>2, FS_Subset
<1>4. Cardinality(A) \in Nat /\ Cardinality(B) \in Nat BY <1>2, <1>3, FS_CardinalityType
<1>5. A # B BY <1>1
<1>6. Cardinality(A) < Cardinality(B) BY <1>3, <1>4, <1>5
<1>. QED BY <1>4, <1>6 DEF A, B

\* and there is one at each of them.
LEMMA Places ==
  ASSUME NEW S, IsFiniteSet(S), NEW R, Orders(R, S)
  PROVE  /\ Cardinality(S) \in Nat
         /\ \A x \in S : Cardinality(Below(R, S, x)) \in 0..(Cardinality(S) - 1)
         /\ \A x, y \in S : Cardinality(Below(R, S, x)) = Cardinality(Below(R, S, y)) => x = y
         /\ \A k \in 0..(Cardinality(S) - 1) : \E x \in S : Cardinality(Below(R, S, x)) = k
<1>. DEFINE n == Cardinality(S)
            r == [x \in S |-> Cardinality(Below(R, S, x))]
            K == 0..(n - 1)
<1>1. n \in Nat BY FS_CardinalityType
<1>2. ASSUME NEW x \in S PROVE Cardinality(Below(R, S, x)) \in K
  <2>. DEFINE B == Below(R, S, x)
  <2>1. B \in SUBSET S /\ x \in S \ B BY DEF Below, Orders
  <2>. HIDE DEF B
  <2>2. IsFiniteSet(B) /\ Cardinality(B) <= n /\ (n = Cardinality(B) => S = B) BY <2>1, FS_Subset
  <2>3. Cardinality(B) \in Nat BY <2>2, FS_CardinalityType
  <2>4. n # Cardinality(B) BY <2>1, <2>2
  <2>5. Cardinality(B) \in K BY <1>1, <2>2, <2>3, <2>4
  <2>. QED BY <2>5 DEF B
<1>3. ASSUME NEW x \in S, NEW y \in S, Cardinality(Below(R, S, x)) = Cardinality(Below(R, S, y))
      PROVE  x = y
  <2>1. CASE <<x, y>> \in R BY <1>3, <2>1, BelowGrows
  <2>2. CASE <<y, x>> \in R BY <1>3, <2>2, BelowGrows
  <2>. QED BY <2>1, <2>2 DEF Orders
<1>4. r \in [S -> K] BY <1>2
<1>5. \A x, y \in S : r[x] = r[y] => x = y BY <1>3
<1>6. IsFiniteSet(K) /\ Cardinality(K) = n
  <2>1. 0 \in Int /\ n - 1 \in Int BY <1>1
  <2>2. IsFiniteSet(K) /\ Cardinality(K) = IF 0 > n - 1 THEN 0 ELSE (n - 1) - 0 + 1 BY <2>1, FS_Interval
  <2>. QED BY <1>1, <2>2
<1>. HIDE DEF r, K
<1>7. r \in Injection(S, K) BY <1>4, <1>5, Fun_IsInj
<1>8. r \in Surjection(S, K) BY <1>6, <1>7, FS_Injection
<1>9. \A k \in K : \E x \in S : r[x] = k BY <1>8, Fun_SurjectionProperties
<1>. QED BY <1>1, <1>2, <1>3, <1>9 DEF r, K
----------------------------------------------------------------------------
\* There is an element at place k.
Taken(R, S, k) == \E x \in S : Cardinality(Below(R, S, x)) = k

\* Every place below the size is taken.
LEMMA PlaceTaken ==
  ASSUME NEW S, IsFiniteSet(S), NEW R, Orders(R, S), NEW k \in 0..(Cardinality(S) - 1)
  PROVE  Taken(R, S, k)
BY Places DEF Taken
----------------------------------------------------------------------------
(* The ring *)

\* The order of the ids seen from the point h.
Circle(h, S) == {p \in S \X S : Before(h, p[1], p[2])}

\* Going round from a point orders the ids,
LEMMA CircleOrders ==
  ASSUME NEW S \in SUBSET Nat, NEW h \in Nat PROVE Orders(Circle(h, S), S)
BY DEF Orders, Circle, Before

\* and Rank is the place of an id in that order.
LEMMA RankIsPlace ==
  ASSUME NEW S \in SUBSET Nat, NEW h \in Nat, NEW id \in S
  PROVE  Rank(h, S, id) = Cardinality(Below(Circle(h, S), S, id))
<1>1. {i \in S : Before(h, i, id)} = Below(Circle(h, S), S, id) BY DEF Below, Circle
<1>. QED BY <1>1 DEF Rank

\* Every member has a rank of its own and no rank is left out.
LEMMA Ranks ==
  ASSUME NEW S \in SUBSET Nat, IsFiniteSet(S), NEW h \in Nat
  PROVE  /\ Cardinality(S) \in Nat
         /\ \A id \in S : Rank(h, S, id) \in 0..(Cardinality(S) - 1)
         /\ \A id, jd \in S : Rank(h, S, id) = Rank(h, S, jd) => id = jd
         /\ \A k \in 0..(Cardinality(S) - 1) : \E id \in S : Rank(h, S, id) = k
<1>. DEFINE R == Circle(h, S)
<1>1. Orders(R, S) BY CircleOrders
<1>2. \A id \in S : Rank(h, S, id) = Cardinality(Below(R, S, id)) BY RankIsPlace
<1>. HIDE DEF R
<1>3. Cardinality(S) \in Nat BY FS_CardinalityType
<1>4. ASSUME NEW id \in S PROVE Rank(h, S, id) \in 0..(Cardinality(S) - 1)
  <2>1. Cardinality(Below(R, S, id)) \in 0..(Cardinality(S) - 1) BY <1>1, Places
  <2>. QED BY <1>2, <2>1
<1>5. ASSUME NEW id \in S, NEW jd \in S, Rank(h, S, id) = Rank(h, S, jd) PROVE id = jd
  <2>1. Cardinality(Below(R, S, id)) = Cardinality(Below(R, S, jd)) BY <1>2, <1>5
  <2>. QED BY <1>1, <2>1, Places
<1>6. ASSUME NEW k \in 0..(Cardinality(S) - 1) PROVE \E id \in S : Rank(h, S, id) = k
  <2>1. Taken(R, S, k) BY <1>1, PlaceTaken
  <2>2. PICK id \in S : Cardinality(Below(R, S, id)) = k BY <2>1 DEF Taken
  <2>3. Rank(h, S, id) = k BY <1>2, <2>2
  <2>. QED BY <2>3
<1>. QED BY <1>3, <1>4, <1>5, <1>6

\* successors[0] of a non-empty ring is the member of rank 0,
LEMMA PrimaryFirst ==
  ASSUME NEW S \in SUBSET Nat, IsFiniteSet(S), S # {}, NEW h \in Nat
  PROVE  Primary(h, S) \in S /\ Rank(h, S, Primary(h, S)) = 0
<1>1. Cardinality(S) \in Nat /\ Cardinality(S) # 0 BY FS_CardinalityType, FS_EmptySet
<1>2. 0 \in 0..(Cardinality(S) - 1) BY <1>1
<1>3. \E id \in S : Rank(h, S, id) = 0 BY <1>2, Ranks
<1>. QED BY <1>3 DEF Primary

\* and k ids come before the one at index k of GetSuccessors.
LEMMA SuccessorsInOrder ==
  ASSUME NEW S \in SUBSET Nat, IsFiniteSet(S), NEW h \in Nat, NEW n \in Nat
  PROVE  /\ GetSuccessors(h, S, n) \in Seq(S)
         /\ Len(GetSuccessors(h, S, n)) = Cardinality(Successors(h, S, n))
         /\ Len(GetSuccessors(h, S, n)) <= n /\ Len(GetSuccessors(h, S, n)) <= Cardinality(S)
         /\ \A k \in 1..Len(GetSuccessors(h, S, n)) : Rank(h, S, GetSuccessors(h, S, n)[k]) = k - 1
         /\ Successors(h, S, n) = {GetSuccessors(h, S, n)[k] : k \in 1..Len(GetSuccessors(h, S, n))}
<1>. DEFINE T == Successors(h, S, n)
            s == GetSuccessors(h, S, n)
            c == Cardinality(T)
            r == [id \in T |-> Rank(h, S, id)]
            K == 0..(n - 1)
<1>1. T \in SUBSET S /\ \A id \in T : Rank(h, S, id) < n BY DEF Successors
<1>a. \A id \in S : Rank(h, S, id) < n => id \in T BY DEF Successors
<1>b. s = [k \in 1..c |-> CHOOSE id \in S : Rank(h, S, id) = k - 1] BY DEF GetSuccessors
<1>. HIDE DEF T, s
<1>2. IsFiniteSet(T) /\ c <= Cardinality(S) BY <1>1, FS_Subset
<1>3. c \in Nat /\ Cardinality(S) \in Nat BY <1>2, FS_CardinalityType
<1>4. r \in Injection(T, K)
  <2>1. \A id \in T : Rank(h, S, id) \in K
    <3>1. ASSUME NEW id \in T PROVE Rank(h, S, id) \in K
      <4>1. id \in S /\ Rank(h, S, id) < n BY <1>1
      <4>2. Rank(h, S, id) \in 0..(Cardinality(S) - 1) BY <4>1, Ranks
      <4>. QED BY <1>3, <4>1, <4>2
    <3>. QED BY <3>1
  <2>2. r \in [T -> K] BY <2>1
  <2>3. \A x, y \in T : r[x] = r[y] => x = y
    <3>1. \A x, y \in S : Rank(h, S, x) = Rank(h, S, y) => x = y BY Ranks
    <3>. QED BY <1>1, <3>1
  <2>. HIDE DEF r, K
  <2>. QED BY <2>2, <2>3, Fun_IsInj
<1>5. IsFiniteSet(K) /\ Cardinality(K) = n
  <2>1. 0 \in Int /\ n - 1 \in Int OBVIOUS
  <2>2. IsFiniteSet(K) /\ Cardinality(K) = IF 0 > n - 1 THEN 0 ELSE (n - 1) - 0 + 1 BY <2>1, FS_Interval
  <2>. QED BY <2>2
<1>6. c <= n
  <2>. HIDE DEF r, K
  <2>. QED BY <1>2, <1>4, <1>5, FS_Injection
<1>7. ASSUME NEW k \in 1..c PROVE s[k] \in S /\ Rank(h, S, s[k]) = k - 1
  <2>1. k - 1 \in 0..(Cardinality(S) - 1) BY <1>2, <1>3
  <2>2. \E id \in S : Rank(h, S, id) = k - 1 BY <2>1, Ranks
  <2>3. s[k] = CHOOSE id \in S : Rank(h, S, id) = k - 1 BY <1>b
  <2>. QED BY <2>2, <2>3
<1>8. s \in Seq(S) /\ Len(s) = c
  <2>1. s \in [1..c -> S] BY <1>7, <1>b
  <2>. QED BY <1>3, <2>1
<1>9. \A k \in 1..c : s[k] \in T
  <2>1. ASSUME NEW k \in 1..c PROVE s[k] \in T
    <3>1. s[k] \in S /\ Rank(h, S, s[k]) = k - 1 BY <1>7
    <3>2. k - 1 < n BY <1>3, <1>6
    <3>. QED BY <1>a, <3>1, <3>2
  <2>. QED BY <2>1
<1>10. ASSUME NEW id \in T PROVE \E k \in 1..c : s[k] = id
  <2>. DEFINE t == [k \in 1..c |-> s[k]]
  <2>2. t \in Injection(1..c, T)
    <3>1. t \in [1..c -> T] BY <1>9
    <3>2. ASSUME NEW j \in 1..c, NEW k \in 1..c, t[j] = t[k] PROVE j = k
      <4>1. s[j] = s[k] BY <3>2
      <4>2. Rank(h, S, s[j]) = j - 1 /\ Rank(h, S, s[k]) = k - 1 BY <1>7
      <4>. QED BY <1>3, <4>1, <4>2
    <3>. HIDE DEF t
    <3>. QED BY <3>1, <3>2, Fun_IsInj
  <2>3. IsFiniteSet(1..c) /\ Cardinality(1..c) = c
    <3>1. 1 \in Int /\ c \in Int BY <1>3
    <3>2. IsFiniteSet(1..c) /\ Cardinality(1..c) = IF 1 > c THEN 0 ELSE c - 1 + 1 BY <3>1, FS_Interval
    <3>. QED BY <1>3, <3>2
  <2>4. \E k \in 1..c : t[k] = id
    <3>. HIDE DEF t
    <3>1. t \in Surjection(1..c, T) BY <1>2, <2>2, <2>3, FS_Injection
    <3>. DEFINE I == 1..c
    <3>2. t \in Surjection(I, T) BY <3>1
    <3>. HIDE DEF I
    <3>3. \A x \in T : \E k \in I : t[k] = x BY <3>2, Fun_SurjectionProperties
    <3>. QED BY <3>3 DEF I
  <2>. QED BY <2>4
<1>11. T = {s[k] : k \in 1..c} BY <1>9, <1>10
<1>. QED BY <1>2, <1>6, <1>7, <1>8, <1>11 DEF T, s

\* A failure takes nobody off the successors but the failed nodes, and a join
\* puts nobody on them but the new ones: T are the members left, or those
\* before the join.
THEOREM SuccessorsStable ==
  ASSUME NEW S \in SUBSET Nat, IsFiniteSet(S), NEW T \in SUBSET S, NEW h \in Nat, NEW n \in Nat
  PROVE  Successors(h, S, n) \cap T \subseteq Successors(h, T, n)
<1>1. IsFiniteSet(T) BY FS_Subset
<1>2. ASSUME NEW id \in T, Rank(h, S, id) < n PROVE Rank(h, T, id) < n
  <2>. DEFINE A == {i \in T : Before(h, i, id)}
              B == {i \in S : Before(h, i, id)}
  <2>1. A \in SUBSET B /\ B \in SUBSET S OBVIOUS
  <2>. HIDE DEF A, B
  <2>2. IsFiniteSet(B) BY <2>1, FS_Subset
  <2>3. IsFiniteSet(A) /\ Cardinality(A) <= Cardinality(B) BY <2>1, <2>2, FS_Subset
  <2>4. Cardinality(A) \in Nat /\ Cardinality(B) \in Nat BY <2>2, <2>3, FS_CardinalityType
  <2>5. Cardinality(B) < n BY <1>2 DEF Rank, B
  <2>6. Cardinality(A) < n BY <2>3, <2>4, <2>5
  <2>. QED BY <2>6 DEF Rank, A
<1>. QED BY <1>2 DEF Successors

----------------------------------------------------------------------------
(* Induction *)

\* The order of the naturals is well founded.
LEMMA Less == \E R : IsWellFoundedOn(R, Nat) /\ \A i, j \in Nat : i < j => <<i, j>> \in R
<1>. DEFINE R == OpToRel(<, Nat)
<1>1. IsWellFoundedOn(R, Nat) BY NatLessThanWellFounded
<1>2. \A i, j \in Nat : i < j => <<i, j>> \in R BY DEF OpToRel
<1>. HIDE DEF R
<1>. QED BY <1>1, <1>2

\* A well-founded relation has minimal elements,
LEMMA Minimal ==
  ASSUME NEW R, NEW T, IsWellFoundedOn(R, Nat), T \subseteq Nat, T # {}
  PROVE \E m \in T : \A k \in T : ~(<<k, m>> \in R)
BY WFMin

\* so a set of naturals has a least element,
LEMMA Least ==
  ASSUME NEW T \in SUBSET Nat, T # {} PROVE \E m \in T : \A k \in T : m <= k
<1>1. PICK R : IsWellFoundedOn(R, Nat) /\ \A i, j \in Nat : i < j => <<i, j>> \in R BY Less
<1>3. T \subseteq Nat OBVIOUS
<1>4. \E m \in T : \A k \in T : ~(<<k, m>> \in R) BY <1>1, <1>3, Minimal
<1>2. PICK m \in T : \A k \in T : ~(<<k, m>> \in R) BY <1>4
<1>5. \A k \in T : k \in Nat /\ m \in Nat /\ ~(k < m) BY <1>1, <1>2
<1>. QED BY <1>5

\* and a set that has 0 and the successors of its elements has all naturals.
LEMMA Induction ==
  ASSUME NEW T \in SUBSET Nat, 0 \in T, \A n \in T : n + 1 \in T PROVE T = Nat
<1>. DEFINE C == Nat \ T
<1>1. ASSUME C # {} PROVE FALSE
  <2>1. PICK m \in C : \A k \in C : m <= k BY <1>1, Least
  <2>2. m \in Nat /\ m # 0 BY <2>1
  <2>3. m - 1 \in Nat /\ m - 1 \notin C BY <2>1, <2>2
  <2>4. m - 1 \in T BY <2>3
  <2>5. (m - 1) + 1 = m BY <2>2
  <2>. QED BY <2>1, <2>4, <2>5
<1>. QED BY <1>1
----------------------------------------------------------------------------
(* FlattenSeq *)

\* f concatenates the sequences of ss up to its argument.
Flattens(f, ss, n) ==
  \A i \in 1..n : f[i] = IF i = 1 THEN ss[i] ELSE f[i - 1] \o ss[i]

\* There is such a function,
LEMMA FlattenExists ==
  ASSUME NEW X, NEW ss \in Seq(Seq(X)), NEW n \in 0..Len(ss)
  PROVE  \E f \in [1..n -> Seq(X)] : Flattens(f, ss, n)
<1>. DEFINE T == {m \in Nat : m <= Len(ss) => \E f \in [1..m -> Seq(X)] : Flattens(f, ss, m)}
<1>1. 0 \in T
  <2>1. [i \in 1..0 |-> <<>>] \in [1..0 -> Seq(X)] OBVIOUS
  <2>2. \A f : Flattens(f, ss, 0) BY DEF Flattens
  <2>. QED BY <2>1, <2>2
<1>2. ASSUME NEW m \in T PROVE m + 1 \in T
  <2>1. m + 1 \in Nat OBVIOUS
  <2>2. ASSUME m + 1 <= Len(ss) PROVE \E f \in [1..(m + 1) -> Seq(X)] : Flattens(f, ss, m + 1)
    <3>1. m <= Len(ss) BY <2>2
    <3>2. PICK f \in [1..m -> Seq(X)] : Flattens(f, ss, m) BY <3>1
    <3>3. ss[m + 1] \in Seq(X) BY <2>2
    <3>. DEFINE last == IF m + 1 = 1 THEN ss[1] ELSE f[m] \o ss[m + 1]
                g == [i \in 1..(m + 1) |-> IF i = m + 1 THEN last ELSE f[i]]
    <3>4. last \in Seq(X)
      <4>1. CASE m = 0 BY <3>3, <4>1
      <4>2. CASE m # 0
        <5>1. f[m] \in Seq(X) BY <3>2, <4>2
        <5>2. f[m] \o ss[m + 1] \in Seq(X) BY <3>3, <5>1
        <5>. QED BY <4>2, <5>2
      <4>. QED BY <4>1, <4>2
    <3>. HIDE DEF last
    <3>5. g \in [1..(m + 1) -> Seq(X)]
      <4>1. ASSUME NEW i \in 1..(m + 1) PROVE g[i] \in Seq(X) BY <3>2, <3>4
      <4>. QED BY <4>1
    <3>6. ASSUME NEW i \in 1..(m + 1)
          PROVE  g[i] = IF i = 1 THEN ss[i] ELSE g[i - 1] \o ss[i]
      <4>1. CASE i = m + 1 BY <4>1 DEF last
      <4>2. CASE i # m + 1
        <5>1. i \in 1..m BY <4>2
        <5>2. f[i] = IF i = 1 THEN ss[i] ELSE f[i - 1] \o ss[i] BY <3>2, <5>1 DEF Flattens
        <5>3. g[i] = f[i] BY <5>1
        <5>4. i # 1 => g[i - 1] = f[i - 1] BY <5>1
        <5>. QED BY <5>2, <5>3, <5>4
      <4>. QED BY <4>1, <4>2
    <3>7. Flattens(g, ss, m + 1) BY <3>6 DEF Flattens
    <3>. QED BY <3>5, <3>7
  <2>. QED BY <2>1, <2>2
<1>. HIDE DEF T
<1>3. T \in SUBSET Nat BY DEF T
<1>4. T = Nat BY <1>1, <1>2, <1>3, Induction
<1>5. n \in T BY <1>4
<1>. QED BY <1>5 DEF T

\* The recursive function in FlattenSeq is well defined.
LEMMA FlattenDefined ==
  ASSUME NEW X, NEW ss \in Seq(Seq(X)), Len(ss) # 0
  PROVE  \E f : Flattens(f, ss, Len(ss)) /\ FlattenSeq(ss) = f[Len(ss)]
<1>. DEFINE G(f) == [i \in 1..Len(ss) |-> IF i = 1 THEN ss[i] ELSE f[i - 1] \o ss[i]]
            g == CHOOSE f : f = G(f)
<1>1. \E f : f = G(f)
  <2>1. Len(ss) \in 0..Len(ss) OBVIOUS
  <2>2. PICK f \in [1..Len(ss) -> Seq(X)] : Flattens(f, ss, Len(ss)) BY <2>1, FlattenExists
  <2>3. \A i \in 1..Len(ss) : f[i] = G(f)[i] BY <2>2 DEF Flattens
  <2>4. DOMAIN f = 1..Len(ss) /\ f = [i \in 1..Len(ss) |-> f[i]] BY <2>2
  <2>5. f = G(f) BY <2>3, <2>4
  <2>. QED BY <2>5
<1>2. g = G(g) BY <1>1
<1>3. FlattenSeq(ss) = g[Len(ss)] BY DEF FlattenSeq
<1>. HIDE DEF g
<1>4. Flattens(g, ss, Len(ss))
  <2>1. ASSUME NEW i \in 1..Len(ss) PROVE g[i] = IF i = 1 THEN ss[i] ELSE g[i - 1] \o ss[i]
    BY <1>2
  <2>. QED BY <2>1 DEF Flattens
<1>. QED BY <1>3, <1>4

\* What a concatenation holds.
LEMMA ConcatItems ==
  ASSUME NEW X, NEW s \in Seq(X), NEW t \in Seq(X)
  PROVE  s \o t \in Seq(X) /\ ToSet(s \o t) = ToSet(s) \cup ToSet(t)
<1>1. /\ s \o t \in Seq(X) /\ Len(s \o t) = Len(s) + Len(t)
      /\ \A i \in 1..Len(s) + Len(t) : (s \o t)[i] = IF i <= Len(s) THEN s[i] ELSE t[i - Len(s)]
  OBVIOUS
<1>2. DOMAIN (s \o t) = 1..Len(s) + Len(t) /\ DOMAIN s = 1..Len(s) /\ DOMAIN t = 1..Len(t)
      /\ Len(s) \in Nat /\ Len(t) \in Nat
  BY <1>1
<1>3. ASSUME NEW x \in ToSet(s \o t) PROVE x \in ToSet(s) \cup ToSet(t)
  <2>1. PICK i \in 1..Len(s) + Len(t) : (s \o t)[i] = x BY <1>2 DEF ToSet
  <2>2. CASE i <= Len(s)
    <3>1. i \in 1..Len(s) /\ s[i] = x BY <1>1, <1>2, <2>1, <2>2
    <3>. QED BY <1>2, <3>1 DEF ToSet
  <2>3. CASE ~(i <= Len(s))
    <3>1. i - Len(s) \in 1..Len(t) /\ t[i - Len(s)] = x BY <1>1, <1>2, <2>1, <2>3
    <3>. QED BY <1>2, <3>1 DEF ToSet
  <2>. QED BY <2>2, <2>3
<1>4. ASSUME NEW x \in ToSet(s) PROVE x \in ToSet(s \o t)
  <2>1. PICK i \in 1..Len(s) : s[i] = x BY <1>2 DEF ToSet
  <2>2. i \in 1..Len(s) + Len(t) /\ (s \o t)[i] = x BY <1>1, <1>2, <2>1
  <2>. QED BY <1>2, <2>2 DEF ToSet
<1>5. ASSUME NEW x \in ToSet(t) PROVE x \in ToSet(s \o t)
  <2>1. PICK i \in 1..Len(t) : t[i] = x BY <1>2 DEF ToSet
  <2>2. i + Len(s) \in 1..Len(s) + Len(t) /\ ~(i + Len(s) <= Len(s)) /\ i + Len(s) - Len(s) = i
    BY <1>2, <2>1
  <2>3. (s \o t)[i + Len(s)] = x BY <1>1, <2>1, <2>2
  <2>. QED BY <1>2, <2>2, <2>3 DEF ToSet
<1>. QED BY <1>1, <1>3, <1>4, <1>5

\* One more sequence.
LEMMA UnionMore ==
  ASSUME NEW ss, NEW I, NEW q, NEW J, J = I \cup {q}
  PROVE  UNION {ToSet(ss[i]) : i \in J} = (UNION {ToSet(ss[i]) : i \in I}) \cup ToSet(ss[q])
OBVIOUS

\* ReadFile loses and invents nothing: the items are those of the blocks.
LEMMA FlattenItems ==
  ASSUME NEW X, NEW ss \in Seq(Seq(X))
  PROVE  /\ FlattenSeq(ss) \in Seq(X)
         /\ ToSet(FlattenSeq(ss)) = UNION {ToSet(ss[i]) : i \in 1..Len(ss)}
<1>1. CASE Len(ss) = 0
  <2>1. ss = <<>> /\ FlattenSeq(ss) = ss BY <1>1 DEF FlattenSeq
  <2>2. ToSet(<<>>) = {} BY DEF ToSet
  <2>3. UNION {ToSet(ss[i]) : i \in 1..Len(ss)} = {} BY <1>1
  <2>4. FlattenSeq(ss) = <<>> BY <2>1
  <2>5. FlattenSeq(ss) \in Seq(X) BY <2>4
  <2>6. ToSet(FlattenSeq(ss)) = {} BY <2>2, <2>4
  <2>. QED BY <2>3, <2>5, <2>6
<1>2. CASE Len(ss) # 0
  <2>1. PICK f : Flattens(f, ss, Len(ss)) /\ FlattenSeq(ss) = f[Len(ss)] BY <1>2, FlattenDefined
  <2>. DEFINE U(m) == UNION {ToSet(ss[i]) : i \in 1..m}
              Done(m) == f[m] \in Seq(X) /\ ToSet(f[m]) = U(m)
              T == {m \in Nat : m + 1 <= Len(ss) => Done(m + 1)}
  <2>2. \A i \in 1..Len(ss) : ss[i] \in Seq(X) OBVIOUS
  <2>3. 0 \in T
    <3>1. f[1] = ss[1] BY <1>2, <2>1 DEF Flattens
    <3>2. U(1) = ToSet(ss[1])
      <4>1. 1..1 = {1} OBVIOUS
      <4>. QED BY <4>1
    <3>3. Done(1) BY <1>2, <2>2, <3>1, <3>2
    <3>. HIDE DEF Done
    <3>. QED BY <3>3
  <2>4. ASSUME NEW m \in T PROVE m + 1 \in T
    <3>1. ASSUME m + 2 <= Len(ss) PROVE Done(m + 2)
      <4>1. m + 1 <= Len(ss) /\ m \in Nat BY <3>1
      <4>2. Done(m + 1)
        <5>. HIDE DEF Done
        <5>. QED BY <4>1
      <4>3. m + 2 \in 1..Len(ss) /\ m + 2 # 1 /\ m + 2 - 1 = m + 1 BY <3>1, <4>1
      <4>a. PICK j \in 1..Len(ss) : j = m + 2 /\ j # 1 /\ j - 1 = m + 1 BY <4>3
      <4>b. f[j] = f[j - 1] \o ss[j] BY <2>1, <4>a DEF Flattens
      <4>4. f[m + 2] = f[m + 1] \o ss[m + 2] BY <4>a, <4>b
      <4>5. ss[m + 2] \in Seq(X) BY <2>2, <4>3
      <4>6. f[m + 2] \in Seq(X) /\ ToSet(f[m + 2]) = ToSet(f[m + 1]) \cup ToSet(ss[m + 2])
        <5>1. PICK s \in Seq(X), t \in Seq(X) : s = f[m + 1] /\ t = ss[m + 2] BY <4>2, <4>5
        <5>2. s \o t \in Seq(X) /\ ToSet(s \o t) = ToSet(s) \cup ToSet(t) BY ConcatItems
        <5>3. f[m + 2] = s \o t BY <4>4, <5>1
        <5>. QED BY <5>1, <5>2, <5>3, Zenon
      <4>7. 1..(m + 2) = 1..(m + 1) \cup {m + 2} BY <4>1
      <4>8. U(m + 2) = U(m + 1) \cup ToSet(ss[m + 2])
        <5>1. PICK I, J, q : I = 1..(m + 1) /\ J = 1..(m + 2) /\ q = m + 2 OBVIOUS
        <5>2. J = I \cup {q} BY <4>7, <5>1
        <5>3. PICK A, B : A = UNION {ToSet(ss[i]) : i \in I} /\ B = UNION {ToSet(ss[i]) : i \in J} OBVIOUS
        <5>4. U(m + 1) = A /\ U(m + 2) = B BY <5>1, <5>3, Zenon
        <5>5. B = A \cup ToSet(ss[q]) BY <5>2, <5>3, UnionMore
        <5>. HIDE DEF U
        <5>. QED BY <5>1, <5>4, <5>5
      <4>. QED BY <4>2, <4>6, <4>8
    <3>. HIDE DEF Done
    <3>2. m \in Nat /\ (m + 1) + 1 = m + 2 OBVIOUS
    <3>. QED BY <3>1, <3>2
  <2>5. T \in SUBSET Nat OBVIOUS
  <2>. HIDE DEF T
  <2>6. T = Nat BY <2>3, <2>4, <2>5, Induction
  <2>7. Len(ss) - 1 \in Nat /\ (Len(ss) - 1) + 1 = Len(ss) BY <1>2
  <2>8. Len(ss) - 1 \in T BY <2>6, <2>7
  <2>9. Done(Len(ss))
    <3>. HIDE DEF Done
    <3>1. (Len(ss) - 1) + 1 <= Len(ss) => Done((Len(ss) - 1) + 1) BY <2>8 DEF T
    <3>. QED BY <2>7, <3>1
  <2>. QED BY <2>1, <2>9
<1>. QED BY <1>1, <1>2
----------------------------------------------------------------------------
(* The block store *)

\* Client ids.
Clientele == Nat \X Nat \X Nat

\* No key twice: MergeFile sorts by it.
KeysApart(f) == \A i, j \in 1..Len(f.blocks) : Key(f.blocks[i]) = Key(f.blocks[j]) => i = j
\* No two blocks of one key.
KeysDiffer(S) == \A b, c \in S : Key(b) = Key(c) => b = c

\* The elements of a sequence are finitely many.
LEMMA FiniteRange ==
  ASSUME NEW X, NEW s \in Seq(X) PROVE IsFiniteSet(ToSet(s))
<1>. DEFINE I == 1..Len(s)
            T == ToSet(s)
<1>1. s \in [I -> X] /\ DOMAIN s = I /\ Len(s) \in Nat OBVIOUS
<1>2. IsFiniteSet(I)
  <2>1. 1 \in Int /\ Len(s) \in Int BY <1>1
  <2>. QED BY <2>1, FS_Interval
<1>3. T = {s[i] : i \in I} BY <1>1 DEF ToSet
<1>. HIDE DEF I, T
<1>4. s \in [I -> T] /\ \A t \in T : \E i \in I : s[i] = t
  <2>1. s = [i \in I |-> s[i]] BY <1>1
  <2>2. \A i \in I : s[i] \in T BY <1>3
  <2>. QED BY <1>1, <1>3, <2>1, <2>2
<1>5. s \in Surjection(I, T) BY <1>4, Fun_IsSurj
<1>6. IsFiniteSet(T) BY <1>2, <1>5, FS_Surjection
<1>. QED BY <1>6 DEF T

\* Max returns the largest element.
LEMMA MaxOf ==
  ASSUME NEW S \in SUBSET Nat, IsFiniteSet(S), S # {}
  PROVE  Max(S) \in S /\ \A y \in S : Max(S) >= y
<1>. DEFINE R == {p \in S \X S : p[1] < p[2]}
            k == Cardinality(S) - 1
<1>1. Orders(R, S) BY DEF Orders
<1>2. Cardinality(S) \in Nat /\ Cardinality(S) # 0 BY FS_CardinalityType, FS_EmptySet
<1>3. \A x \in S : Below(R, S, x) = {y \in S : y < x} BY DEF Below
<1>. HIDE DEF R
<1>4. k \in 0..(Cardinality(S) - 1) BY <1>2
<1>5. Taken(R, S, k) BY <1>1, <1>4, PlaceTaken
<1>6. PICK x \in S : Cardinality(Below(R, S, x)) = k BY <1>5 DEF Taken
<1>. DEFINE B == {y \in S : y < x}
            C == S \ {x}
<1>7. B \in SUBSET C /\ Cardinality(B) = k BY <1>3, <1>6
<1>8. IsFiniteSet(C) /\ Cardinality(C) = k BY FS_RemoveElement
<1>. HIDE DEF B, C
<1>9. B = C BY <1>7, <1>8, FS_Subset
<1>10. \A y \in S : x >= y BY <1>9 DEF B, C
<1>. QED BY <1>10 DEF Max

\* The parts of a file.
LEMMA FileBlocks ==
  ASSUME NEW f \in Files
  PROVE  /\ f.blocks \in Seq(Blocks) /\ Len(f.blocks) \in Nat /\ f.id \in Nat /\ f.exists \in BOOLEAN
         /\ \A i \in 1..Len(f.blocks) :
              /\ f.blocks[i] \in Blocks /\ f.blocks[i].client \in Clientele
              /\ f.blocks[i].seq \in Nat /\ f.blocks[i].data \in Seq(Nat)
<1>1. f.blocks \in Seq(Blocks) /\ f.id \in Nat /\ f.exists \in BOOLEAN BY DEF Files
<1>2. PICK b \in Seq(Blocks) : b = f.blocks BY <1>1
<1>3. \A x \in Blocks : x.client \in Clientele /\ x.seq \in Nat /\ x.data \in Seq(Nat)
  BY DEF Blocks, Clientele
<1>4. Len(b) \in Nat /\ \A i \in 1..Len(b) : b[i] \in Blocks OBVIOUS
<1>5. \A i \in 1..Len(b) : b[i] \in Blocks /\ b[i].client \in Clientele /\ b[i].seq \in Nat /\ b[i].data \in Seq(Nat)
  BY <1>3, <1>4
<1>. QED BY <1>1, <1>2, <1>4, <1>5

\* NextSequence returns a number no block of the client has.
LEMMA NextIsNew ==
  ASSUME NEW f \in Files, NEW client
  PROVE  /\ NextSequence(f, client) \in Nat
         /\ \A i \in 1..Len(f.blocks) : f.blocks[i].client = client => f.blocks[i].seq < NextSequence(f, client)
<1>. DEFINE b == f.blocks
            q == [i \in 1..Len(b) |-> b[i].seq]
            S == {b[i].seq : i \in {j \in 1..Len(b) : b[j].client = client}}
            Z == {0} \cup S
<1>1. b \in Seq(Blocks) BY DEF Files
<1>2. q \in Seq(Nat) /\ DOMAIN q = 1..Len(b)
  <2>1. \A i \in 1..Len(b) : b[i].seq \in Nat BY FileBlocks
  <2>2. Len(b) \in Nat BY <1>1
  <2>. HIDE DEF b
  <2>. QED BY <2>1, <2>2
<1>3. S \in SUBSET ToSet(q) /\ S \in SUBSET Nat /\ \A i \in 1..Len(b) : b[i].client = client => b[i].seq \in S
  <2>1. ToSet(q) = {b[i].seq : i \in 1..Len(b)} BY <1>2 DEF ToSet
  <2>2. \A i \in 1..Len(b) : b[i].seq \in Nat BY FileBlocks
  <2>. HIDE DEF b, q
  <2>. QED BY <2>1, <2>2
<1>4. NextSequence(f, client) = 1 + Max(Z) BY DEF NextSequence
<1>. HIDE DEF S, q, b
<1>5. IsFiniteSet(S)
  <2>1. IsFiniteSet(ToSet(q)) BY <1>2, FiniteRange
  <2>. QED BY <1>3, <2>1, FS_Subset
<1>6. IsFiniteSet(Z)
  <2>1. Z = S \cup {0} OBVIOUS
  <2>2. IsFiniteSet(S \cup {0}) BY <1>5, FS_AddElement
  <2>. QED BY <2>1, <2>2
<1>7. Z \in SUBSET Nat /\ Z # {} BY <1>3
<1>. HIDE DEF Z
<1>8. Max(Z) \in Z /\ \A y \in Z : Max(Z) >= y BY <1>6, <1>7, MaxOf
<1>9. Max(Z) \in Nat BY <1>7, <1>8
<1>10. \A i \in 1..Len(b) : b[i].client = client => b[i].seq \in Z BY <1>3 DEF Z
<1>11. \A i \in 1..Len(b) : b[i].client = client => b[i].seq < 1 + Max(Z)
  <2>1. ASSUME NEW y \in Z PROVE y < 1 + Max(Z)
    <3>1. y \in Nat /\ Max(Z) >= y BY <1>7, <1>8
    <3>. QED BY <1>9, <3>1
  <2>. QED BY <1>10, <2>1
<1>12. 1 + Max(Z) \in Nat BY <1>9
<1>. QED BY <1>4, <1>11, <1>12 DEF b

\* ReadFile returns the writes of the blocks.
LEMMA ReadItems ==
  ASSUME NEW f \in Files
  PROVE  /\ ReadFile(f) \in Seq(Nat)
         /\ Items(f) = UNION {ToSet(f.blocks[i].data) : i \in 1..Len(f.blocks)}
<1>. DEFINE b == f.blocks
            ss == [i \in 1..Len(b) |-> b[i].data]
<1>1. b \in Seq(Blocks) BY DEF Files
<1>2. \A i \in 1..Len(b) : b[i].data \in Seq(Nat) BY FileBlocks
<1>3. Len(b) \in Nat BY <1>1
<1>4. ReadFile(f) = FlattenSeq(ss) BY DEF ReadFile
<1>. HIDE DEF b
<1>5. ss \in Seq(Seq(Nat)) /\ Len(ss) = Len(b) /\ \A i \in 1..Len(b) : ss[i] = b[i].data
  BY <1>2, <1>3
<1>. HIDE DEF ss
<1>6. FlattenSeq(ss) \in Seq(Nat) /\ ToSet(FlattenSeq(ss)) = UNION {ToSet(ss[i]) : i \in 1..Len(ss)}
  BY <1>5, FlattenItems
<1>7. UNION {ToSet(ss[i]) : i \in 1..Len(ss)} = UNION {ToSet(b[i].data) : i \in 1..Len(b)} BY <1>5
<1>8. Items(f) = ToSet(FlattenSeq(ss)) BY <1>4 DEF Items
<1>. QED BY <1>4, <1>6, <1>7, <1>8 DEF b

\* A file of these parts.
File(id, blocks, exists) == [id |-> id, blocks |-> blocks, exists |-> exists]

\* It is a file,
LEMMA FileType ==
  ASSUME NEW id \in Nat, NEW blocks \in Seq(Blocks), NEW exists \in BOOLEAN
  PROVE  /\ File(id, blocks, exists) \in Files
         /\ File(id, blocks, exists).id = id /\ File(id, blocks, exists).blocks = blocks
         /\ File(id, blocks, exists).exists = exists
BY DEF File, Files

\* and so is the absent one, which holds nothing.
LEMMA NoFileType == NoFile \in Files /\ KeysApart(NoFile) /\ ~NoFile.exists /\ Items(NoFile) = {}
<1>1. NoFile = File(0, <<>>, FALSE) BY DEF NoFile, File
<1>2. <<>> \in Seq(Blocks) OBVIOUS
<1>3. NoFile \in Files /\ NoFile.blocks = <<>> /\ NoFile.exists = FALSE BY <1>1, <1>2, FileType
<1>4. KeysApart(NoFile) BY <1>3 DEF KeysApart
<1>5. Items(NoFile) = UNION {ToSet(NoFile.blocks[i].data) : i \in 1..Len(NoFile.blocks)} BY <1>3, ReadItems
<1>6. 1..Len(NoFile.blocks) = {} BY <1>3
<1>7. Items(NoFile) = {} BY <1>5, <1>6
<1>. QED BY <1>3, <1>4, <1>7

\* A function on an initial interval is a sequence.
LEMMA FunctionSeq ==
  ASSUME NEW Y, NEW n \in Nat, NEW s \in [1..n -> Y] PROVE s \in Seq(Y) /\ Len(s) = n
OBVIOUS

\* What a file of one block holds,
LEMMA OneBlock ==
  ASSUME NEW id \in Nat, NEW b \in Blocks
  PROVE  /\ File(id, <<b>>, TRUE) \in Files /\ KeysApart(File(id, <<b>>, TRUE))
         /\ File(id, <<b>>, TRUE).exists /\ File(id, <<b>>, TRUE).id = id
         /\ ReadFile(File(id, <<b>>, TRUE)) = b.data
<1>1. PICK bs : bs = <<b>> OBVIOUS
<1>2. bs \in Seq(Blocks) /\ Len(bs) = 1 /\ bs[1] = b BY <1>1
<1>3. PICK g : g = File(id, <<b>>, TRUE) OBVIOUS
<1>4. g = File(id, bs, TRUE) BY <1>1, <1>3
<1>5. g \in Files /\ g.blocks = bs /\ g.exists = TRUE /\ g.id = id BY <1>2, <1>4 DEF File, Files
<1>6. KeysApart(g)
  <2>1. Len(g.blocks) = 1 BY <1>2, <1>5
  <2>2. \A i, j \in 1..1 : i = j OBVIOUS
  <2>. QED BY <2>1, <2>2 DEF KeysApart
<1>7. ReadFile(g) = b.data
  <2>1. PICK ss : ss = [i \in 1..Len(g.blocks) |-> g.blocks[i].data] OBVIOUS
  <2>2. b.data \in Seq(Nat) BY DEF Blocks
  <2>3. Len(g.blocks) = 1 BY <1>2, <1>5
  <2>4. ss \in Seq(Seq(Nat)) /\ Len(ss) = 1 /\ ss[1] = b.data
    <3>1. ss = [i \in 1..1 |-> g.blocks[i].data] BY <2>1, <2>3
    <3>2. \A i \in 1..1 : g.blocks[i].data = b.data BY <1>2, <1>5
    <3>3. ss \in [1..1 -> Seq(Nat)] /\ ss[1] = b.data BY <2>2, <3>1, <3>2
    <3>4. 1 \in Nat OBVIOUS
    <3>. QED BY <3>3, <3>4, FunctionSeq
  <2>a. ss \in Seq(Seq(Nat)) /\ Len(ss) # 0 BY <2>4
  <2>5. PICK h : Flattens(h, ss, Len(ss)) /\ FlattenSeq(ss) = h[Len(ss)] BY <2>a, FlattenDefined
  <2>6. FlattenSeq(ss) = h[1] /\ h[1] = ss[1] BY <2>4, <2>5 DEF Flattens
  <2>7. ReadFile(g) = FlattenSeq(ss) BY <2>1 DEF ReadFile
  <2>. QED BY <2>4, <2>6, <2>7
<1>. QED BY <1>3, <1>5, <1>6, <1>7

\* and what a further block adds.
LEMMA OneMore ==
  ASSUME NEW f \in Files, KeysApart(f), NEW b \in Blocks,
         \A i \in 1..Len(f.blocks) : Key(f.blocks[i]) # Key(b)
  PROVE  /\ File(f.id, Append(f.blocks, b), TRUE) \in Files /\ KeysApart(File(f.id, Append(f.blocks, b), TRUE))
         /\ File(f.id, Append(f.blocks, b), TRUE).exists /\ File(f.id, Append(f.blocks, b), TRUE).id = f.id
         /\ Items(File(f.id, Append(f.blocks, b), TRUE)) = Items(f) \cup ToSet(b.data)
<1>1. f.blocks \in Seq(Blocks) /\ f.id \in Nat BY FileBlocks
<1>2. PICK c \in Seq(Blocks) : c = f.blocks BY <1>1
<1>3. PICK n \in Nat : n = Len(c) OBVIOUS
<1>4. PICK bs : bs = Append(c, b) OBVIOUS
<1>5. bs \in Seq(Blocks) /\ Len(bs) = n + 1 /\ bs[n + 1] = b /\ \A i \in 1..n : bs[i] = c[i] BY <1>3, <1>4
<1>6. PICK g : g = File(f.id, bs, TRUE) OBVIOUS
<1>7. g \in Files /\ g.blocks = bs /\ g.exists = TRUE /\ g.id = f.id
  <2>1. PICK id \in Nat : id = f.id BY <1>1
  <2>2. g = File(id, bs, TRUE) BY <1>6, <2>1
  <2>3. g \in Files /\ g.blocks = bs /\ g.exists = TRUE /\ g.id = id BY <1>5, <2>2 DEF File, Files
  <2>. QED BY <2>1, <2>3
<1>8. \A i \in 1..n : Key(c[i]) # Key(b) BY <1>2, <1>3
<1>9. \A i, j \in 1..n : Key(c[i]) = Key(c[j]) => i = j BY <1>2, <1>3 DEF KeysApart
<1>10. ASSUME NEW i \in 1..(n + 1), NEW j \in 1..(n + 1), Key(bs[i]) = Key(bs[j]) PROVE i = j
  <2>1. i \in 1..n \/ i = n + 1 OBVIOUS
  <2>2. j \in 1..n \/ j = n + 1 OBVIOUS
  <2>. QED BY <1>5, <1>8, <1>9, <1>10, <2>1, <2>2
<1>11. KeysApart(g) BY <1>5, <1>7, <1>10 DEF KeysApart
<1>12. Items(g) = Items(f) \cup ToSet(b.data)
  <2>1. Items(f) = UNION {ToSet(c[i].data) : i \in 1..n} BY <1>2, <1>3, ReadItems
  <2>2. Items(g) = UNION {ToSet(g.blocks[i].data) : i \in 1..Len(g.blocks)} BY <1>7, ReadItems
  <2>3. Items(g) = UNION {ToSet(bs[i].data) : i \in 1..(n + 1)} BY <1>5, <1>7, <2>2
  <2>4. \A i : i \in 1..(n + 1) <=> i \in 1..n \/ i = n + 1 OBVIOUS
  <2>5. ASSUME NEW x \in Items(g) PROVE x \in Items(f) \cup ToSet(b.data)
    <3>1. PICK i \in 1..(n + 1) : x \in ToSet(bs[i].data) BY <2>3
    <3>2. CASE i \in 1..n
      <4>1. x \in ToSet(c[i].data) BY <1>5, <3>1, <3>2
      <4>. QED BY <2>1, <3>2, <4>1
    <3>3. CASE i = n + 1 BY <1>5, <3>1, <3>3
    <3>. QED BY <2>4, <3>2, <3>3
  <2>6. ASSUME NEW x \in Items(f) PROVE x \in Items(g)
    <3>1. PICK i \in 1..n : x \in ToSet(c[i].data) BY <2>1
    <3>2. i \in 1..(n + 1) /\ x \in ToSet(bs[i].data) BY <1>5, <2>4, <3>1
    <3>. QED BY <2>3, <3>2
  <2>7. ASSUME NEW x \in ToSet(b.data) PROVE x \in Items(g)
    <3>1. n + 1 \in 1..(n + 1) /\ x \in ToSet(bs[n + 1].data) BY <1>5, <2>7
    <3>. QED BY <2>3, <3>1
  <2>. QED BY <2>5, <2>6, <2>7
<1>13. g = File(f.id, Append(f.blocks, b), TRUE) BY <1>2, <1>4, <1>6
<1>. QED BY <1>7, <1>11, <1>12, <1>13

\* CreateFile makes a file of one block with the data, if there is none.
LEMMA CreateMakes ==
  ASSUME NEW f \in Files, KeysApart(f), NEW id \in Nat, NEW client \in Clientele, NEW data \in Seq(Nat)
  PROVE  /\ CreateFile(f, id, client, data) \in Files /\ KeysApart(CreateFile(f, id, client, data))
         /\ CreateFile(f, id, client, data).exists
         /\ f.exists => CreateFile(f, id, client, data) = f
         /\ ~f.exists => /\ ReadFile(CreateFile(f, id, client, data)) = data
                         /\ CreateFile(f, id, client, data).id = id
<1>1. CASE f.exists BY <1>1 DEF CreateFile
<1>2. CASE ~f.exists
  <2>1. PICK b : b = [client |-> client, seq |-> 1, data |-> data] OBVIOUS
  <2>2. b \in Blocks /\ b.data = data BY <2>1 DEF Blocks, Clientele
  <2>3. CreateFile(f, id, client, data) = File(id, <<b>>, TRUE) BY <1>2, <2>1 DEF CreateFile, NewFile, File
  <2>4. PICK g : g = CreateFile(f, id, client, data) OBVIOUS
  <2>5. g = File(id, <<b>>, TRUE) BY <2>3, <2>4
  <2>6. g \in Files /\ KeysApart(g) /\ g.exists /\ g.id = id /\ ReadFile(g) = b.data BY <2>2, <2>5, OneBlock
  <2>. QED BY <1>2, <2>2, <2>4, <2>6
<1>. QED BY <1>1, <1>2

\* AppendFile adds the data, under a key of its own.
LEMMA AppendAdds ==
  ASSUME NEW f \in Files, KeysApart(f), NEW client \in Clientele, NEW data \in Seq(Nat)
  PROVE  /\ AppendFile(f, client, data) \in Files /\ KeysApart(AppendFile(f, client, data))
         /\ AppendFile(f, client, data).exists /\ AppendFile(f, client, data).id = f.id
         /\ Items(AppendFile(f, client, data)) = Items(f) \cup ToSet(data)
<1>1. PICK s : s = NextSequence(f, client) OBVIOUS
<1>2. s \in Nat /\ \A i \in 1..Len(f.blocks) : f.blocks[i].client = client => f.blocks[i].seq < s
  BY <1>1, NextIsNew
<1>3. PICK b : b = [client |-> client, seq |-> s, data |-> data] OBVIOUS
<1>4. b \in Blocks /\ b.client = client /\ b.seq = s /\ b.data = data BY <1>2, <1>3 DEF Blocks, Clientele
<1>5. AppendFile(f, client, data) = File(f.id, Append(f.blocks, b), TRUE)
  <2>1. AppendFile(f, client, data) = [f EXCEPT !.exists = TRUE, !.blocks = Append(@, b)]
    BY <1>1, <1>3 DEF AppendFile
  <2>2. f = [id |-> f.id, blocks |-> f.blocks, exists |-> f.exists] BY DEF Files
  <2>. QED BY <2>1, <2>2 DEF File
<1>6. ASSUME NEW k \in 1..Len(f.blocks) PROVE Key(f.blocks[k]) # Key(b)
  <2>1. f.blocks[k].client = client => f.blocks[k].seq < s BY <1>2
  <2>2. f.blocks[k].seq \in Nat BY FileBlocks
  <2>3. f.blocks[k].client = client => f.blocks[k].seq # s BY <1>2, <2>1, <2>2
  <2>4. <<f.blocks[k].client, f.blocks[k].seq>> # <<client, s>> BY <2>3
  <2>. QED BY <1>4, <2>4 DEF Key
<1>7. PICK g : g = AppendFile(f, client, data) OBVIOUS
<1>8. g = File(f.id, Append(f.blocks, b), TRUE) BY <1>5, <1>7
<1>9. g \in Files /\ KeysApart(g) /\ g.exists /\ g.id = f.id /\ Items(g) = Items(f) \cup ToSet(b.data)
  BY <1>4, <1>6, <1>8, OneMore
<1>. QED BY <1>4, <1>7, <1>9

\* Sorting: the sequence that has every element at its place.
LEMMA ByPlace ==
  ASSUME NEW S, IsFiniteSet(S), NEW R, Orders(R, S),
         NEW q, q = [k \in 1..Cardinality(S) |-> q[k]],
         \A k \in 1..Cardinality(S) :
           Taken(R, S, k - 1) => q[k] \in S /\ Cardinality(Below(R, S, q[k])) = k - 1
  PROVE  /\ q \in Seq(S) /\ Len(q) = Cardinality(S) /\ ToSet(q) = S
         /\ \A i, j \in 1..Len(q) : i < j => <<q[i], q[j]>> \in R /\ q[i] # q[j]
<1>1. PICK n \in Nat : n = Cardinality(S) BY FS_CardinalityType
<1>2. ASSUME NEW k \in 1..n PROVE q[k] \in S /\ Cardinality(Below(R, S, q[k])) = k - 1
  <2>1. k - 1 \in 0..(n - 1) BY <1>1
  <2>2. Taken(R, S, k - 1) BY <1>1, <2>1, PlaceTaken
  <2>. QED BY <1>1, <2>2
<1>3. q \in [1..n -> S] BY <1>1, <1>2
<1>4. q \in Seq(S) /\ Len(q) = n BY <1>3, FunctionSeq
<1>5. DOMAIN q = 1..n BY <1>3
<1>6. \A x \in S : Cardinality(Below(R, S, x)) \in 0..(n - 1) BY <1>1, Places
<1>7. \A x, y \in S : Cardinality(Below(R, S, x)) = Cardinality(Below(R, S, y)) => x = y BY Places
<1>8. ASSUME NEW x \in S PROVE x \in ToSet(q)
  <2>1. PICK k \in 1..n : k - 1 = Cardinality(Below(R, S, x))
    <3>1. PICK c \in 0..(n - 1) : c = Cardinality(Below(R, S, x)) BY <1>6
    <3>2. c + 1 \in 1..n /\ (c + 1) - 1 = c OBVIOUS
    <3>. QED BY <3>1, <3>2
  <2>2. q[k] = x BY <1>2, <1>7, <2>1
  <2>. QED BY <1>5, <2>2 DEF ToSet
<1>9. ToSet(q) = S
  <2>1. \A x \in ToSet(q) : x \in S BY <1>2, <1>5 DEF ToSet
  <2>. QED BY <1>8, <2>1
<1>10. ASSUME NEW i \in 1..n, NEW j \in 1..n, i < j PROVE <<q[i], q[j]>> \in R /\ q[i] # q[j]
  <2>1. q[i] \in S /\ q[j] \in S /\ Cardinality(Below(R, S, q[i])) = i - 1 /\ Cardinality(Below(R, S, q[j])) = j - 1
    BY <1>2
  <2>2. q[i] # q[j] BY <1>10, <2>1
  <2>3. CASE <<q[j], q[i]>> \in R
    <3>1. Cardinality(Below(R, S, q[j])) < Cardinality(Below(R, S, q[i])) BY <2>1, <2>3, BelowGrows
    <3>. QED BY <1>10, <2>1, <3>1
  <2>. QED BY <2>1, <2>2, <2>3 DEF Orders
<1>. QED BY <1>1, <1>4, <1>9, <1>10

\* The order of clients, component by component,
LEMMA ClientOrder ==
  ASSUME NEW c \in Clientele, NEW d \in Clientele
  PROVE  ClientLess(c, d) <=> \/ c[1] < d[1]
                              \/ c[1] = d[1] /\ c[2] < d[2]
                              \/ c[1] = d[1] /\ c[2] = d[2] /\ c[3] < d[3]
<1>1. 1..3 = {1, 2, 3} /\ 1..(1 - 1) = {} /\ 1..(2 - 1) = {1} /\ 1..(3 - 1) = {1, 2} OBVIOUS
<1>2. ClientLess(c, d) <=> \/ c[1] < d[1] /\ \A j \in 1..(1 - 1) : c[j] = d[j]
                           \/ c[2] < d[2] /\ \A j \in 1..(2 - 1) : c[j] = d[j]
                           \/ c[3] < d[3] /\ \A j \in 1..(3 - 1) : c[j] = d[j]
  BY <1>1 DEF ClientLess
<1>. QED BY <1>1, <1>2

\* The order of the blocks, as a relation.
BlockOrder(S) == {p \in S \X S : BlockLess(p[1], p[2])}

\* is strict and complete.
LEMMA ClientOrders ==
  ASSUME NEW c \in Clientele, NEW d \in Clientele, NEW e \in Clientele
  PROVE  /\ ~ClientLess(c, c) /\ (ClientLess(c, d) /\ ClientLess(d, e) => ClientLess(c, e))
         /\ c = d \/ ClientLess(c, d) \/ ClientLess(d, c)
<1>1. PICK c1, c2, c3 \in Nat : c = <<c1, c2, c3>> BY DEF Clientele
<1>2. PICK d1, d2, d3 \in Nat : d = <<d1, d2, d3>> BY DEF Clientele
<1>3. PICK e1, e2, e3 \in Nat : e = <<e1, e2, e3>> BY DEF Clientele
<1>4. ClientLess(c, d) <=> \/ c1 < d1 \/ (c1 = d1 /\ c2 < d2) \/ (c1 = d1 /\ c2 = d2 /\ c3 < d3)
  BY <1>1, <1>2, ClientOrder
<1>5. ClientLess(d, c) <=> \/ d1 < c1 \/ (d1 = c1 /\ d2 < c2) \/ (d1 = c1 /\ d2 = c2 /\ d3 < c3)
  BY <1>1, <1>2, ClientOrder
<1>6. ClientLess(d, e) <=> \/ d1 < e1 \/ (d1 = e1 /\ d2 < e2) \/ (d1 = e1 /\ d2 = e2 /\ d3 < e3)
  BY <1>2, <1>3, ClientOrder
<1>7. ClientLess(c, e) <=> \/ c1 < e1 \/ (c1 = e1 /\ c2 < e2) \/ (c1 = e1 /\ c2 = e2 /\ c3 < e3)
  BY <1>1, <1>3, ClientOrder
<1>8. ClientLess(c, c) <=> \/ c1 < c1 \/ (c1 = c1 /\ c2 < c2) \/ (c1 = c1 /\ c2 = c2 /\ c3 < c3)
  BY <1>1, ClientOrder
<1>9. ~ClientLess(c, c) BY <1>8
<1>10. ClientLess(c, d) /\ ClientLess(d, e) => ClientLess(c, e) BY <1>4, <1>6, <1>7
<1>11. c = d \/ ClientLess(c, d) \/ ClientLess(d, c)
  <2>1. CASE c1 = d1 /\ c2 = d2 /\ c3 = d3 BY <1>1, <1>2, <2>1
  <2>. QED BY <1>4, <1>5, <2>1
<1>. QED BY <1>9, <1>10, <1>11

\* Blocks with different keys are ordered by them.
LEMMA BlocksOrdered ==
  ASSUME NEW S \in SUBSET Blocks, KeysDiffer(S) PROVE Orders(BlockOrder(S), S)
<1>. DEFINE R == BlockOrder(S)
<1>1. \A x \in S : x.client \in Clientele /\ x.seq \in Nat BY DEF Blocks, Clientele
<1>2. \A x, y \in S : <<x, y>> \in R <=> ClientLess(x.client, y.client) \/ (x.client = y.client /\ x.seq < y.seq)
  BY DEF BlockOrder, BlockLess
<1>. HIDE DEF R
<1>3. \A x \in S : <<x, x>> \notin R BY <1>1, <1>2, ClientOrders
<1>4. ASSUME NEW x \in S, NEW y \in S, NEW z \in S, <<x, y>> \in R, <<y, z>> \in R PROVE <<x, z>> \in R
  <2>1. PICK a, b, c \in Clientele : a = x.client /\ b = y.client /\ c = z.client BY <1>1
  <2>2. PICK i, j, k \in Nat : i = x.seq /\ j = y.seq /\ k = z.seq BY <1>1
  <2>3. ClientLess(a, b) /\ ClientLess(b, c) => ClientLess(a, c) BY ClientOrders
  <2>4. ClientLess(a, b) \/ (a = b /\ i < j) BY <1>2, <1>4, <2>1, <2>2
  <2>5. ClientLess(b, c) \/ (b = c /\ j < k) BY <1>2, <1>4, <2>1, <2>2
  <2>6. ClientLess(a, c) \/ (a = c /\ i < k) BY <2>3, <2>4, <2>5
  <2>. QED BY <1>2, <2>1, <2>2, <2>6
<1>5. ASSUME NEW x \in S, NEW y \in S PROVE x = y \/ <<x, y>> \in R \/ <<y, x>> \in R
  <2>1. PICK a, b \in Clientele : a = x.client /\ b = y.client BY <1>1
  <2>2. PICK i, j \in Nat : i = x.seq /\ j = y.seq BY <1>1
  <2>3. a = b \/ ClientLess(a, b) \/ ClientLess(b, a) BY ClientOrders
  <2>4. CASE a = b /\ i = j
    <3>1. Key(x) = Key(y) BY <2>1, <2>2, <2>4 DEF Key
    <3>. QED BY <3>1 DEF KeysDiffer
  <2>5. i < j \/ j < i \/ i = j OBVIOUS
  <2>. QED BY <1>2, <2>1, <2>2, <2>3, <2>4, <2>5
<1>. QED BY <1>3, <1>4, <1>5 DEF Orders, R

\* Sorted lists each of these blocks once, each client's by sequence number.
LEMMA SortedBlocks ==
  ASSUME NEW S \in SUBSET Blocks, KeysDiffer(S), IsFiniteSet(S)
  PROVE  /\ Sorted(S) \in Seq(S) /\ Len(Sorted(S)) = Cardinality(S) /\ ToSet(Sorted(S)) = S
         /\ \A i, j \in 1..Len(Sorted(S)) :
              i < j => BlockLess(Sorted(S)[i], Sorted(S)[j]) /\ Sorted(S)[i] # Sorted(S)[j]
<1>1. PICK R : R = BlockOrder(S) OBVIOUS
<1>2. Orders(R, S) BY <1>1, BlocksOrdered
<1>3. PICK q : q = Sorted(S) OBVIOUS
<1>4. ASSUME NEW b \in S PROVE {c \in S : BlockLess(c, b)} = Below(R, S, b)
  BY <1>1 DEF Below, BlockOrder
<1>5. ASSUME NEW k \in 1..Cardinality(S), Taken(R, S, k - 1)
      PROVE  q[k] \in S /\ Cardinality(Below(R, S, q[k])) = k - 1
  <2>1. PICK x \in S : Cardinality(Below(R, S, x)) = k - 1 BY <1>5 DEF Taken
  <2>2. Cardinality({c \in S : BlockLess(c, x)}) = k - 1 BY <1>4, <2>1
  <2>3. q[k] = CHOOSE b \in S : Cardinality({c \in S : BlockLess(c, b)}) = k - 1 BY <1>3 DEF Sorted
  <2>4. q[k] \in S /\ Cardinality({c \in S : BlockLess(c, q[k])}) = k - 1 BY <2>2, <2>3
  <2>. QED BY <1>4, <2>4
<1>a. q = [k \in 1..Cardinality(S) |-> q[k]]
  <2>. DEFINE P(k) == CHOOSE b \in S : Cardinality({c \in S : BlockLess(c, b)}) = k - 1
  <2>1. q = [k \in 1..Cardinality(S) |-> P(k)] BY <1>3 DEF Sorted
  <2>. HIDE DEF P
  <2>. QED BY <2>1
<1>6. /\ q \in Seq(S) /\ Len(q) = Cardinality(S) /\ ToSet(q) = S
      /\ \A i, j \in 1..Len(q) : i < j => <<q[i], q[j]>> \in R /\ q[i] # q[j]
  BY <1>2, <1>5, <1>a, ByPlace
<1>7. \A x, y : <<x, y>> \in R => BlockLess(x, y) BY <1>1 DEF BlockOrder
<1>. QED BY <1>3, <1>6, <1>7

\* What the blocks of a set hold.
Contents(S) == UNION {ToSet(b.data) : b \in S}

\* GetAllBlocks returns what the file holds.
LEMMA BlocksOf ==
  ASSUME NEW f \in Files, KeysApart(f)
  PROVE  /\ GetAllBlocks(f) \in SUBSET Blocks /\ IsFiniteSet(GetAllBlocks(f)) /\ KeysDiffer(GetAllBlocks(f))
         /\ Items(f) = Contents(GetAllBlocks(f))
<1>1. PICK c \in Seq(Blocks) : c = f.blocks BY FileBlocks
<1>2. DOMAIN c = 1..Len(c) /\ \A i \in 1..Len(c) : c[i] \in Blocks OBVIOUS
<1>3. ToSet(c) = {c[i] : i \in 1..Len(c)} BY <1>2 DEF ToSet
<1>4. ToSet(c) \in SUBSET Blocks BY <1>2, <1>3
<1>5. IsFiniteSet(ToSet(c)) BY FiniteRange
<1>6. KeysDiffer(ToSet(c)) BY <1>1, <1>3 DEF KeysDiffer, KeysApart
<1>7. Items(f) = UNION {ToSet(c[i].data) : i \in 1..Len(c)} BY <1>1, ReadItems
<1>8. Items(f) = Contents(ToSet(c)) BY <1>3, <1>7 DEF Contents
<1>9. GetAllBlocks(f) = ToSet(c) BY <1>1 DEF GetAllBlocks
<1>. QED BY <1>4, <1>5, <1>6, <1>8, <1>9

\* Collecting keeps one block of each key.
LEMMA CollectedKeys ==
  ASSUME NEW S \in SUBSET Blocks, NEW T \in SUBSET Blocks, IsFiniteSet(S), IsFiniteSet(T),
         KeysDiffer(S), KeysDiffer(T)
  PROVE  Collected(S, T) \in SUBSET Blocks /\ IsFiniteSet(Collected(S, T)) /\ KeysDiffer(Collected(S, T))
<1>1. PICK K : K = {b \in S : \A c \in T : Key(b) # Key(c)} OBVIOUS
<1>2. K \in SUBSET S /\ Collected(S, T) = K \cup T BY <1>1 DEF Collected
<1>3. IsFiniteSet(K) BY <1>2, FS_Subset
<1>4. IsFiniteSet(K \cup T) BY <1>3, FS_Union
<1>5. KeysDiffer(K \cup T) BY <1>1, <1>2 DEF KeysDiffer
<1>. QED BY <1>2, <1>4, <1>5

\* MergeFile makes a file of the blocks.
LEMMA MergeMakes ==
  ASSUME NEW f \in Files, NEW S \in SUBSET Blocks, KeysDiffer(S), IsFiniteSet(S)
  PROVE  /\ MergeFile(f, S) \in Files /\ KeysApart(MergeFile(f, S))
         /\ MergeFile(f, S).exists = f.exists /\ MergeFile(f, S).id = f.id
         /\ MergeFile(f, S).blocks = Sorted(S) /\ GetAllBlocks(MergeFile(f, S)) = S
<1>1. PICK q : q = Sorted(S) OBVIOUS
<1>2. /\ q \in Seq(S) /\ ToSet(q) = S
      /\ \A i, j \in 1..Len(q) : i < j => BlockLess(q[i], q[j]) /\ q[i] # q[j]
  BY <1>1, SortedBlocks
<1>3. q \in Seq(Blocks) BY <1>2
<1>4. PICK g : g = MergeFile(f, S) OBVIOUS
<1>5. f.id \in Nat /\ f.exists \in BOOLEAN /\ f = [id |-> f.id, blocks |-> f.blocks, exists |-> f.exists]
  BY DEF Files
<1>6. g = File(f.id, q, f.exists) BY <1>1, <1>4, <1>5 DEF MergeFile, File
<1>7. g \in Files /\ g.blocks = q /\ g.exists = f.exists /\ g.id = f.id
  <2>1. PICK id \in Nat, e \in BOOLEAN : id = f.id /\ e = f.exists BY <1>5
  <2>2. g = File(id, q, e) BY <1>6, <2>1
  <2>3. g \in Files /\ g.blocks = q /\ g.exists = e /\ g.id = id BY <1>3, <2>2, FileType
  <2>. QED BY <2>1, <2>3
<1>8. ASSUME NEW i \in 1..Len(q), NEW j \in 1..Len(q), Key(q[i]) = Key(q[j]) PROVE i = j
  <2>1. q[i] \in S /\ q[j] \in S /\ Len(q) \in Nat BY <1>2
  <2>2. q[i] = q[j] BY <1>8, <2>1 DEF KeysDiffer
  <2>3. ~(i < j) /\ ~(j < i) BY <1>2, <2>2
  <2>. QED BY <2>1, <2>3
<1>9. KeysApart(g) BY <1>7, <1>8 DEF KeysApart
<1>10. GetAllBlocks(g) = S BY <1>2, <1>7 DEF GetAllBlocks
<1>. QED BY <1>1, <1>4, <1>7, <1>9, <1>10
----------------------------------------------------------------------------
(* Types *)

\* The messages, with the fields their handlers read.
Replications ==
  [type : {"replicate_file"}, from : Nodes, to : Nodes, succ : Seq(Nodes), index : Nat, next : BOOLEAN,
   ack : Nodes \cup {0}, write : Nat, client : Clientele]
\* ... acks and requests, which say only from whom,
Calls == [type : {"replication_ack", "merge_request"}, from : Nodes, to : Nodes]
\* ... appends, with client and write,
Appends == [type : {"append_file"}, from : Nodes, to : Nodes, client : Clientele, write : Nat]
\* ... merge updates, with the merged content,
Updates == [type : {"merge_update", "merge_recreate"}, from : Nodes, to : Nodes, data : Seq(Nat)]
\* ... and copies of the file, with their id.
Copies == [type : {"rereplicate_file"}, from : Nodes, to : Nodes, id : Nat, data : Seq(Nat)]
\* Whatever may be under way.
Messages == Replications \cup Calls \cup Appends \cup Updates \cup Copies

\* Tables: a node that is up is in its own.
Tables ==
  /\ up \in [Nodes -> BOOLEAN] /\ view \in [Nodes -> SUBSET Nodes]
  /\ \A n \in Nodes : up[n] => n \in view[n]

\* Block stores keep no key twice.
Shelf == store \in [Nodes -> Files] /\ \A n \in Nodes : KeysApart(store[n])

\* The same of what merges have collected; only live nodes drive one.
Driving ==
  /\ merge \in [Nodes -> Merges]
  /\ \A n \in Nodes : /\ KeysDiffer(merge[n].blocks) /\ IsFiniteSet(merge[n].blocks)
                      /\ merge[n].phase # "idle" => up[n]

\* Only live nodes scan.
Scanning == scans \subseteq [node : Nodes, view : SUBSET Nodes] /\ \A s \in scans : up[s.node]

\* The types of bookkeeping and history.
Records ==
  /\ fileStore \subseteq Nodes /\ pendingAck \in [Nodes -> Nodes \cup {0}]
  /\ writes \in Seq([by : Nodes, kind : {"create", "append"}])
  /\ chains \subseteq [write : Nat, succ : Seq(Nodes), acked : BOOLEAN] /\ landed \subseteq Nat \X Nodes

\* Where a file is on its way along its chain.
Linked(m) ==
  m.type = "replicate_file" =>
    /\ m.index \in 1..Len(m.succ) /\ m.to = m.succ[m.index]
    /\ m.next => m.index < Len(m.succ) /\ m.ack # 0
    /\ m.ack # 0 => /\ [write |-> m.write, succ |-> m.succ, acked |-> TRUE] \in chains
                    /\ \A i \in 1..(m.index - 1) : <<m.write, m.succ[i]>> \in landed

\* A create was stored by its whole chain.
Complete == \E c \in chains : c.acked /\ Stored(c)

\* A message to a live node that says the truth about its chain.
Fine(m) ==
  /\ m \in Messages /\ up[m.to] /\ Linked(m)
  /\ m.type = "replication_ack" => Complete

\* ... every one.
Mail == \A m \in net : Fine(m)

\* The invariant.
Sound == Tables /\ Shelf /\ Driving /\ Scanning /\ Records /\ Mail

\* It is what the properties need.
LEMMA SoundImplies == ASSUME Sound PROVE TypeOK /\ AckMeansStored
<1>1. up \in [Nodes -> BOOLEAN] /\ view \in [Nodes -> SUBSET Nodes] BY DEF Sound, Tables
<1>2. store \in [Nodes -> Files] /\ merge \in [Nodes -> Merges] BY DEF Sound, Shelf, Driving
<1>3. fileStore \subseteq Nodes /\ pendingAck \in [Nodes -> Nodes \cup {0}] BY DEF Sound, Records
<1>4. \A m \in net : up[m.to] BY DEF Sound, Mail, Fine
<1>5. scans \subseteq [node : Up, view : SUBSET Nodes] BY DEF Sound, Scanning, Up
<1>6. AckMeansStored BY DEF Sound, Mail, Fine, Complete, AckMeansStored
<1>. QED BY <1>1, <1>2, <1>3, <1>4, <1>5, <1>6 DEF TypeOK

\* No merge is a state of a merge.
LEMMA IdleType == /\ Idle \in Merges /\ Idle.phase = "idle" /\ Idle.blocks = {}
                  /\ KeysDiffer({}) /\ IsFiniteSet({})
BY FS_EmptySet DEF Idle, Merges, KeysDiffer

\* The invariant holds at first.
LEMMA InitSound == Init => Sound
<1>. SUFFICES ASSUME Init PROVE Sound OBVIOUS
<1>1. Tables
  <2>1. Started \subseteq Nodes BY RingAssumption
  <2>a. \A n : (n \in Started) \in BOOLEAN OBVIOUS
  <2>b. up = [n \in Nodes |-> n \in Started] BY DEF Init
  <2>2. up \in [Nodes -> BOOLEAN] BY <2>a, <2>b, Zenon
  <2>3. view \in [Nodes -> SUBSET Nodes] BY <2>1 DEF Init
  <2>4. \A n \in Nodes : up[n] <=> n \in Started BY Zenon DEF Init
  <2>5. \A n \in Started : n \in view[n] BY <2>1 DEF Init
  <2>. QED BY <2>2, <2>3, <2>4, <2>5 DEF Tables
<1>2. Shelf BY NoFileType DEF Init, Shelf
<1>3. Driving BY IdleType DEF Init, Driving
<1>4. Scanning /\ Mail BY DEF Init, Scanning, Mail
<1>5. Records
  <2>1. <<>> \in Seq([by : Nodes, kind : {"create", "append"}]) OBVIOUS
  <2>. QED BY <2>1 DEF Init, Records
<1>. QED BY <1>1, <1>2, <1>3, <1>4, <1>5 DEF Sound
----------------------------------------------------------------------------
(* Facts every step uses *)

\* The ring as node n sees it.
LEMMA RingFacts ==
  ASSUME Tables, NEW n \in Nodes, up[n], NEW h \in Nat
  PROVE  /\ Primary(h, view[n]) \in Nodes
         /\ Successors(h, view[n], NumReplicas) \in SUBSET Nodes
         /\ GetSuccessors(h, view[n], NumReplicas) \in Seq(Nodes)
         /\ Len(GetSuccessors(h, view[n], NumReplicas)) >= 1
<1>1. PICK v : v = view[n] OBVIOUS
<1>2. v \in SUBSET Nodes /\ v # {} BY <1>1 DEF Tables
<1>3. Nodes \subseteq Nat /\ IsFiniteSet(Nodes) /\ NumReplicas \in Nat /\ NumReplicas # 0 BY RingAssumption
<1>4. v \in SUBSET Nat BY <1>2, <1>3
<1>a. IsFiniteSet(v) BY <1>2, <1>3, FS_Subset
<1>5. Primary(h, v) \in v /\ Rank(h, v, Primary(h, v)) = 0 BY <1>2, <1>4, <1>a, PrimaryFirst
<1>6. Successors(h, v, NumReplicas) \in SUBSET v BY DEF Successors
<1>7. PICK s : s = GetSuccessors(h, v, NumReplicas) OBVIOUS
<1>8. s \in Seq(v) /\ Len(s) = Cardinality(Successors(h, v, NumReplicas)) BY <1>3, <1>4, <1>a, <1>7, SuccessorsInOrder
<1>9. Primary(h, v) \in Successors(h, v, NumReplicas) BY <1>3, <1>5 DEF Successors
<1>10. IsFiniteSet(Successors(h, v, NumReplicas)) BY <1>6, <1>a, FS_Subset
<1>11. Cardinality(Successors(h, v, NumReplicas)) \in Nat /\ Cardinality(Successors(h, v, NumReplicas)) # 0
  BY <1>9, <1>10, FS_CardinalityType, FS_EmptySet
<1>12. Len(s) >= 1 BY <1>8, <1>11
<1>13. s \in Seq(Nodes) BY <1>2, <1>8
<1>14. Primary(h, v) \in Nodes BY <1>2, <1>5
<1>. QED BY <1>1, <1>2, <1>6, <1>7, <1>12, <1>13, <1>14

\* Histories only grow, so what a message says stays true.
LEMMA FineStays ==
  ASSUME NEW m, Fine(m), chains \subseteq chains', landed \subseteq landed', up[m.to] => up'[m.to]
  PROVE  Fine(m)'
BY DEF Fine, Linked, Complete, Stored

\* Mail that is sent off.
LEMMA MailSent ==
  ASSUME Mail, NEW rest, rest \subseteq net, NEW new, Send(rest, new), up' = up,
         chains \subseteq chains', landed \subseteq landed',
         \A m \in new : up[m.to] => Fine(m)'
  PROVE  Mail'
<1>1. ASSUME NEW m \in net' PROVE Fine(m)'
  <2>1. m \in rest \/ (m \in new /\ up[m.to]) BY DEF Send, Reachable
  <2>2. CASE m \in rest
    <3>1. Fine(m) BY <2>2 DEF Mail
    <3>. QED BY <3>1, FineStays
  <2>. QED BY <2>1, <2>2
<1>. QED BY <1>1 DEF Mail

\* A file of a node that changes.
LEMMA ShelfStep ==
  ASSUME Shelf, NEW n \in Nodes, NEW g \in Files, KeysApart(g), store' = [store EXCEPT ![n] = g]
  PROVE  Shelf'
BY DEF Shelf

\* A merge that goes on.
LEMMA DrivingStep ==
  ASSUME Driving, NEW n \in Nodes, NEW g \in Merges, KeysDiffer(g.blocks), IsFiniteSet(g.blocks),
         g.phase # "idle" => up'[n], \A k \in Nodes \ {n} : up[k] => up'[k],
         merge' = [merge EXCEPT ![n] = g]
  PROVE  Driving'
<1>1. merge' \in [Nodes -> Merges] BY DEF Driving
<1>2. ASSUME NEW k \in Nodes
      PROVE  /\ KeysDiffer(merge'[k].blocks) /\ IsFiniteSet(merge'[k].blocks)
             /\ merge'[k].phase # "idle" => up'[k]
  <2>1. CASE k = n
    <3>1. merge'[k] = g BY <2>1 DEF Driving
    <3>. QED BY <2>1, <3>1
  <2>2. CASE k # n
    <3>1. merge'[k] = merge[k] BY <2>2 DEF Driving
    <3>. QED BY <2>2, <3>1 DEF Driving
  <2>. QED BY <2>1, <2>2
<1>. QED BY <1>1, <1>2 DEF Driving

\* What stays when nothing it speaks of changes.
LEMMA Stay ==
  /\ Tables /\ UNCHANGED <<up, view>> => Tables'
  /\ Shelf /\ UNCHANGED store => Shelf'
  /\ Driving /\ UNCHANGED <<up, merge>> => Driving'
  /\ Scanning /\ UNCHANGED <<up, scans>> => Scanning'
  /\ Records /\ UNCHANGED <<fileStore, pendingAck, writes, chains, landed>> => Records'
BY DEF Tables, Shelf, Driving, Scanning, Records

----------------------------------------------------------------------------
(* create and its chain *)

\* A link of the chain: all nodes before it have stored the file.
LEMMA LinkFine ==
  ASSUME NEW from \in Nodes, NEW succ \in Seq(Nodes), NEW k \in 1..Len(succ), NEW next \in BOOLEAN,
         NEW ack \in Nodes \cup {0}, NEW w \in Nat, NEW client \in Clientele,
         NEW m, m = Replicate(from, succ, k, next, ack, w, client),
         up'[m.to], next => k < Len(succ) /\ ack # 0,
         ack # 0 => /\ [write |-> w, succ |-> succ, acked |-> TRUE] \in chains'
                    /\ \A i \in 1..(k - 1) : <<w, succ[i]>> \in landed'
  PROVE  Fine(m)'
<1>1. m = [type |-> "replicate_file", from |-> from, to |-> succ[k], succ |-> succ, index |-> k, next |-> next,
           ack |-> ack, write |-> w, client |-> client]
  BY DEF Replicate
<1>2. PICK to \in Nodes : to = succ[k] OBVIOUS
<1>3. k \in Nat OBVIOUS
<1>4. m \in Replications BY <1>1, <1>2, <1>3 DEF Replications
<1>5. /\ m \in Messages /\ m.type = "replicate_file" /\ m.to = succ[k] /\ m.succ = succ /\ m.index = k
      /\ m.next = next /\ m.ack = ack /\ m.write = w
  BY <1>1, <1>4 DEF Messages
<1>. QED BY <1>5 DEF Fine, Linked

\* The clients the code makes up are clients.
LEMMA ClientTypes ==
  ASSUME NEW n \in Nodes
  PROVE  /\ CreateClient(n) \in Clientele /\ NoClient \in Clientele /\ RereplicateClient(n) \in Clientele
         /\ MergedClient \in Clientele /\ \A w \in Nat : AppendClient(n, w) \in Clientele
<1>1. n \in Nat BY RingAssumption
<1>. QED BY <1>1 DEF CreateClient, NoClient, RereplicateClient, MergedClient, AppendClient, Clientele

\* A file id rounded to a float64 is a number again.
LEMMA HashTypes == FileHash \in Nat /\ \A id \in Nat : Float64(id) \in Nat
<1>1. FileHash \in Nat /\ Grain \in Nat \ {0} BY RingAssumption
<1>2. ASSUME NEW id \in Nat PROVE Float64(id) \in Nat
  <2>1. Grain \div 2 \in Nat BY <1>1
  <2>2. (id + Grain \div 2) \div Grain \in Nat BY <1>1, <2>1
  <2>3. \A a, b \in Nat : a * b \in Nat OBVIOUS
  <2>4. PICK a \in Nat : a = (id + Grain \div 2) \div Grain BY <2>2
  <2>5. Float64(id) = a * Grain BY <2>4 DEF Float64
  <2>. QED BY <1>1, <2>3, <2>5
<1>. QED BY <1>1, <1>2

\* A new command keeps the records.
LEMMA AppendWrite ==
  ASSUME Records, NEW n \in Nodes, NEW kind \in {"create", "append"},
         writes' = Append(writes, [by |-> n, kind |-> kind])
  PROVE  writes' \in Seq([by : Nodes, kind : {"create", "append"}])
<1>1. PICK ws \in Seq([by : Nodes, kind : {"create", "append"}]) : ws = writes BY DEF Records
<1>2. PICK r \in [by : Nodes, kind : {"create", "append"}] : r = [by |-> n, kind |-> kind] OBVIOUS
<1>3. Append(ws, r) \in Seq([by : Nodes, kind : {"create", "append"}]) OBVIOUS
<1>. QED BY <1>1, <1>2, <1>3

\* A create.
LEMMA CreateSound == ASSUME Sound, NEW n \in Nodes, Create(n) PROVE Sound'
<1>1. up[n] /\ UNCHANGED <<up, view, pendingAck, scans, merge>> BY DEF Create
<1>2. PICK succ : succ = GetSuccessors(FileHash, view[n], NumReplicas) OBVIOUS
<1>3. PICK w : w = Len(writes) + 1 OBVIOUS
<1>4. w \in Nat BY <1>3 DEF Sound, Records
<1>5. succ \in Seq(Nodes) /\ Len(succ) >= 1 BY <1>1, <1>2, HashTypes, RingFacts DEF Sound
<1>a. (Len(succ) > 1) \in BOOLEAN /\ (Len(succ) > 2) \in BOOLEAN BY <1>5
<1>6. PICK next \in BOOLEAN : next = (Len(succ) > 1) BY <1>a, Zenon
<1>7. PICK client \in Clientele : client = CreateClient(n) BY ClientTypes
<1>8. PICK c : c = [write |-> w, succ |-> succ, acked |-> TRUE] OBVIOUS
<1>9. chains' = chains \cup {c} /\ writes' = Append(writes, [by |-> n, kind |-> "create"])
  BY <1>2, <1>3, <1>8 DEF Create
<1>10. \/ /\ succ[1] = n /\ ~store[n].exists
          /\ store' = [store EXCEPT ![n] = CreateFile(@, FileHash, client, <<w>>)]
          /\ fileStore' = fileStore \cup {n}
          /\ landed' = landed \cup {<<w, n>>}
          /\ Send(net, IF next THEN {Replicate(n, succ, 2, Len(succ) > 2, n, w, client)} ELSE {})
       \/ /\ Send(net, {Replicate(n, succ, 1, next, n, w, client)})
          /\ UNCHANGED <<store, fileStore, landed>>
  BY <1>2, <1>3, <1>6, <1>7 DEF Create, Holds
<1>11. n # 0 /\ n \in Nodes \cup {0} BY RingAssumption
<1>12. Tables' /\ Driving' /\ Scanning' BY <1>1, Stay DEF Sound
<1>13. writes' \in Seq([by : Nodes, kind : {"create", "append"}]) BY <1>9, AppendWrite DEF Sound
<1>14. chains' \subseteq [write : Nat, succ : Seq(Nodes), acked : BOOLEAN]
  <2>1. c \in [write : Nat, succ : Seq(Nodes), acked : BOOLEAN] BY <1>4, <1>5, <1>8
  <2>. QED BY <1>9, <2>1 DEF Sound, Records
<1>15. Records'
  <2>1. fileStore' \subseteq Nodes /\ landed' \subseteq Nat \X Nodes BY <1>4, <1>10 DEF Sound, Records
  <2>2. pendingAck' \in [Nodes -> Nodes \cup {0}] BY <1>1 DEF Sound, Records
  <2>. QED BY <1>13, <1>14, <2>1, <2>2 DEF Records
<1>16. c \in chains' /\ chains \subseteq chains' /\ landed \subseteq landed' BY <1>9, <1>10
<1>17. CASE /\ succ[1] = n
            /\ store' = [store EXCEPT ![n] = CreateFile(@, FileHash, client, <<w>>)]
            /\ landed' = landed \cup {<<w, n>>}
            /\ Send(net, IF next THEN {Replicate(n, succ, 2, Len(succ) > 2, n, w, client)} ELSE {})
  <2>1. Shelf'
    <3>1. <<w>> \in Seq(Nat) BY <1>4
    <3>2. store[n] \in Files /\ KeysApart(store[n]) BY DEF Sound, Shelf
    <3>3. PICK g : g = CreateFile(store[n], FileHash, client, <<w>>) OBVIOUS
    <3>4. g \in Files /\ KeysApart(g) BY <3>1, <3>2, <3>3, HashTypes, CreateMakes
    <3>5. store' = [store EXCEPT ![n] = g] BY <1>17, <3>3
    <3>. QED BY <3>4, <3>5, ShelfStep DEF Sound
  <2>2. PICK more \in BOOLEAN : more = (Len(succ) > 2) BY <1>a, Zenon
  <2>3. PICK new : new = IF next THEN {Replicate(n, succ, 2, more, n, w, client)} ELSE {} OBVIOUS
  <2>4. ASSUME NEW m \in new, up[m.to] PROVE Fine(m)'
    <3>1. m = Replicate(n, succ, 2, more, n, w, client) /\ next BY <2>3, <2>4
    <3>a. Len(succ) > 1 BY <1>6, <3>1, Zenon
    <3>2. 2 \in 1..Len(succ) BY <1>5, <3>a
    <3>3. \A i \in 1..(2 - 1) : <<w, succ[i]>> \in landed' BY <1>17
    <3>4. more => 2 < Len(succ) BY <1>5, <2>2
    <3>5. up'[m.to] BY <1>1, <2>4
    <3>. QED BY <1>4, <1>5, <1>8, <1>11, <1>16, <3>1, <3>2, <3>3, <3>4, <3>5, LinkFine
  <2>5. Send(net, new) BY <1>17, <2>2, <2>3
  <2>6. PICK rest : rest = net OBVIOUS
  <2>7. rest \subseteq net /\ Send(rest, new) BY <2>5, <2>6
  <2>8. Mail' BY <1>1, <1>16, <2>4, <2>7, MailSent DEF Sound
  <2>. QED BY <1>12, <1>15, <2>1, <2>8 DEF Sound
<1>18. CASE Send(net, {Replicate(n, succ, 1, next, n, w, client)}) /\ UNCHANGED store
  <2>1. Shelf' BY <1>18, Stay DEF Sound
  <2>2. PICK new : new = {Replicate(n, succ, 1, next, n, w, client)} OBVIOUS
  <2>3. ASSUME NEW m \in new, up[m.to] PROVE Fine(m)'
    <3>1. m = Replicate(n, succ, 1, next, n, w, client) BY <2>2, <2>3
    <3>2. 1 \in 1..Len(succ) BY <1>5
    <3>3. \A i \in 1..(1 - 1) : <<w, succ[i]>> \in landed' OBVIOUS
    <3>4. next => 1 < Len(succ) BY <1>5, <1>6
    <3>5. up'[m.to] BY <1>1, <2>3
    <3>. QED BY <1>4, <1>5, <1>8, <1>11, <1>16, <3>1, <3>2, <3>3, <3>4, <3>5, LinkFine
  <2>4. PICK rest : rest = net OBVIOUS
  <2>5. rest \subseteq net /\ Send(rest, new) BY <1>18, <2>2, <2>4
  <2>6. Mail' BY <1>1, <1>16, <2>3, <2>5, MailSent DEF Sound
  <2>. QED BY <1>12, <1>15, <2>1, <2>6 DEF Sound
<1>. QED BY <1>10, <1>17, <1>18

\* The CLI's messages belong to no chain and ask for no answer.
LEMMA CLICreateSound == ASSUME Sound, NEW n \in Nodes, CLICreate(n) PROVE Sound'
<1>1. up[n] /\ UNCHANGED <<up, view, store, pendingAck, scans, merge, landed>> BY DEF CLICreate
<1>2. PICK succ : succ = Successors(FileHash, view[n], NumReplicas) OBVIOUS
<1>3. PICK w : w = Len(writes) + 1 OBVIOUS
<1>4. w \in Nat BY <1>3 DEF Sound, Records
<1>5. succ \in SUBSET Nodes BY <1>1, <1>2, HashTypes, RingFacts DEF Sound
<1>6. PICK new : new = {Replicate(n, <<r>>, 1, FALSE, 0, w, NoClient) : r \in succ \ {n}} OBVIOUS
<1>7. /\ Send(net, new) /\ writes' = Append(writes, [by |-> n, kind |-> "create"])
      /\ fileStore' = IF n \in succ THEN fileStore \cup {n} ELSE fileStore
  BY <1>2, <1>3, <1>6 DEF CLICreate
<1>8. Tables' /\ Shelf' /\ Driving' /\ Scanning' BY <1>1, Stay DEF Sound
<1>9. writes' \in Seq([by : Nodes, kind : {"create", "append"}]) BY <1>7, AppendWrite DEF Sound
<1>a. chains \subseteq chains' /\ chains' \subseteq [write : Nat, succ : Seq(Nodes), acked : BOOLEAN]
  <2>1. PICK s : s = GetSuccessors(FileHash, view[n], NumReplicas) OBVIOUS
  <2>2. s \in Seq(Nodes) BY <1>1, <2>1, HashTypes, RingFacts DEF Sound
  <2>3. PICK c : c = [write |-> w, succ |-> s, acked |-> FALSE] OBVIOUS
  <2>4. c \in [write : Nat, succ : Seq(Nodes), acked : BOOLEAN] BY <1>4, <2>2, <2>3
  <2>5. chains' = chains \cup {c} BY <1>3, <2>1, <2>3 DEF CLICreate
  <2>. QED BY <2>4, <2>5 DEF Sound, Records
<1>10. Records' BY <1>1, <1>7, <1>9, <1>a DEF Sound, Records
<1>11. ASSUME NEW m \in new, up[m.to] PROVE Fine(m)'
  <2>1. PICK r \in succ \ {n} : m = Replicate(n, <<r>>, 1, FALSE, 0, w, NoClient) BY <1>6, <1>11
  <2>2. PICK s : s = <<r>> OBVIOUS
  <2>3. s \in Seq(Nodes) /\ 1 \in 1..Len(s) BY <1>5, <2>2
  <2>4. m = Replicate(n, s, 1, FALSE, 0, w, NoClient) /\ up'[m.to] BY <1>1, <1>11, <2>1, <2>2
  <2>5. FALSE \in BOOLEAN /\ 0 \in Nodes \cup {0} OBVIOUS
  <2>. QED BY <1>4, <2>3, <2>4, <2>5, ClientTypes, LinkFine
<1>12. PICK rest : rest = net OBVIOUS
<1>13. rest \subseteq net /\ Send(rest, new) BY <1>7, <1>12
<1>14. Mail' BY <1>1, <1>a, <1>11, <1>13, MailSent DEF Sound
<1>. QED BY <1>8, <1>10, <1>14 DEF Sound

\* What the handlers find in their messages.
LEMMA Fields ==
  ASSUME NEW m \in Messages
  PROVE  /\ m.to \in Nodes /\ m.from \in Nodes
         /\ m.type = "replicate_file" => m \in Replications
         /\ m.type \in {"replication_ack", "merge_request"} => m \in Calls
         /\ m.type = "append_file" => m \in Appends
         /\ m.type \in {"merge_update", "merge_recreate"} => m \in Updates
         /\ m.type = "rereplicate_file" => m \in Copies
BY DEF Messages, Replications, Calls, Appends, Updates, Copies

\* Acks and merge requests are messages.
LEMMA CallType ==
  ASSUME NEW from \in Nodes, NEW to \in Nodes, NEW type \in {"replication_ack", "merge_request"},
         NEW m, m = [type |-> type, from |-> from, to |-> to]
  PROVE  m \in Messages /\ m.type = type /\ m.to = to /\ Linked(m)
<1>1. m \in Calls /\ m.type = type /\ m.to = to BY DEF Calls
<1>. QED BY <1>1 DEF Messages, Linked

\* The file comes to the next node of the chain; at the last one every node
\* has had it, and only then is it acknowledged.
LEMMA RecvReplicateSound == ASSUME Sound, NEW m \in net, RecvReplicate(m) PROVE Sound'
<1>1. m.type = "replicate_file" /\ UNCHANGED <<up, view, scans, merge, writes, chains>> BY DEF RecvReplicate
<1>2. Fine(m) BY DEF Sound, Mail
<1>3. m \in Replications BY <1>1, <1>2, Fields DEF Fine
<1>4. PICK n \in Nodes, succ \in Seq(Nodes), i \in Nat, w \in Nat, ack \in Nodes \cup {0}, client \in Clientele :
        n = m.to /\ succ = m.succ /\ i = m.index /\ w = m.write /\ ack = m.ack /\ client = m.client
  BY <1>3 DEF Replications
<1>5. up[n] /\ i \in 1..Len(succ) /\ n = succ[i] /\ (m.next => i < Len(succ) /\ ack # 0)
      /\ (ack # 0 => /\ [write |-> w, succ |-> succ, acked |-> TRUE] \in chains
                     /\ \A j \in 1..(i - 1) : <<w, succ[j]>> \in landed)
  BY <1>1, <1>2, <1>4 DEF Fine, Linked
<1>6. Tables' /\ Driving' /\ Scanning' BY <1>1, Stay DEF Sound
<1>7. CASE Send(net \ {m}, {}) /\ UNCHANGED <<store, fileStore, pendingAck, landed>>
  <2>1. Shelf' /\ Records' BY <1>1, <1>7, Stay DEF Sound
  <2>2. PICK rest : rest = net \ {m} OBVIOUS
  <2>3. PICK new : new = {} OBVIOUS
  <2>4. rest \subseteq net /\ Send(rest, new) /\ \A x \in new : up[x.to] => Fine(x)' BY <1>7, <2>2, <2>3
  <2>5. Mail' BY <1>1, <1>7, <2>4, MailSent DEF Sound
  <2>. QED BY <1>6, <2>1, <2>5 DEF Sound
<1>8. CASE ~Holds(n) /\ ~(Send(net \ {m}, {}) /\ UNCHANGED <<store, fileStore, pendingAck, landed>>)
  <2>1. PICK next : next = (i + 1 < Len(succ) /\ succ[(i + 1) + 1] \in view[n]) OBVIOUS
  <2>2. next \in BOOLEAN /\ (next => i + 1 < Len(succ)) BY <2>1
  <2>3. PICK forward : forward = IF ~IsLast(m) /\ m.next THEN {Replicate(n, succ, i + 1, next, n, w, client)} ELSE {}
    OBVIOUS
  <2>4. PICK answer : answer = IF IsLast(m) THEN {[type |-> "replication_ack", from |-> n, to |-> ack]} ELSE {}
    OBVIOUS
  <2>5. /\ store' = [store EXCEPT ![n] = CreateFile(@, Float64(FileHash), client, <<w>>)]
        /\ fileStore' = fileStore \cup {n}
        /\ pendingAck' = IF IsLast(m) \/ ack = 0 THEN pendingAck ELSE [pendingAck EXCEPT ![n] = ack]
        /\ landed' = landed \cup {<<w, n>>}
        /\ Send(net \ {m}, forward \cup answer)
    BY <1>4, <1>8, <2>1, <2>3, <2>4 DEF RecvReplicate, AckAfterStore
  <2>6. Shelf'
    <3>1. <<w>> \in Seq(Nat) OBVIOUS
    <3>2. store[n] \in Files /\ KeysApart(store[n]) BY DEF Sound, Shelf
    <3>3. PICK g : g = CreateFile(store[n], Float64(FileHash), client, <<w>>) OBVIOUS
    <3>4. Float64(FileHash) \in Nat BY HashTypes
    <3>5. g \in Files /\ KeysApart(g) BY <3>1, <3>2, <3>3, <3>4, CreateMakes
    <3>6. store' = [store EXCEPT ![n] = g] BY <2>5, <3>3
    <3>. QED BY <3>5, <3>6, ShelfStep DEF Sound
  <2>7. Records' BY <1>1, <2>5 DEF Sound, Records
  <2>8. chains \subseteq chains' /\ landed \subseteq landed' BY <1>1, <2>5
  <2>9. ASSUME ack # 0, NEW j \in 1..i PROVE <<w, succ[j]>> \in landed'
    <3>1. j \in 1..(i - 1) \/ j = i OBVIOUS
    <3>. QED BY <1>5, <2>5, <2>9, <3>1
  <2>10. ASSUME NEW x \in forward, up[x.to] PROVE Fine(x)'
    <3>1. m.next /\ x = Replicate(n, succ, i + 1, next, n, w, client) BY <2>3, <2>10
    <3>2. i + 1 \in 1..Len(succ) /\ (i + 1) - 1 = i /\ ack # 0 BY <1>5, <3>1
    <3>3. PICK k \in 1..Len(succ) : k = i + 1 /\ k - 1 = i BY <3>2
    <3>4. \A j \in 1..(k - 1) : <<w, succ[j]>> \in landed' BY <2>9, <3>2, <3>3
    <3>5. [write |-> w, succ |-> succ, acked |-> TRUE] \in chains' BY <1>1, <1>5, <3>2
    <3>6. next => k < Len(succ) /\ n # 0 BY <2>2, <3>3, RingAssumption
    <3>7. x = Replicate(n, succ, k, next, n, w, client) /\ up'[x.to] BY <1>1, <2>10, <3>1, <3>3
    <3>8. n \in Nodes \cup {0} OBVIOUS
    <3>. QED BY <2>2, <3>4, <3>5, <3>6, <3>7, <3>8, LinkFine
  <2>11. ASSUME NEW x \in answer, up[x.to] PROVE Fine(x)'
    <3>1. IsLast(m) /\ x = [type |-> "replication_ack", from |-> n, to |-> ack] BY <2>4, <2>11
    <3>2. i = Len(succ) /\ ack # 0 BY <1>4, <3>1 DEF IsLast
    <3>3. x \in Messages /\ x.type = "replication_ack" /\ x.to = ack
      <4>1. ack \in Nodes BY <3>2
      <4>. QED BY <3>1, <4>1, CallType
    <3>4. Complete'
      <4>1. PICK c : c = [write |-> w, succ |-> succ, acked |-> TRUE] OBVIOUS
      <4>2. c \in chains' /\ c.write = w /\ c.succ = succ /\ c.acked BY <1>1, <1>5, <3>2, <4>1
      <4>3. \A j \in 1..Len(c.succ) : <<c.write, c.succ[j]>> \in landed' BY <2>9, <3>2, <4>2
      <4>. QED BY <4>2, <4>3 DEF Complete, Stored
    <3>. QED BY <1>1, <2>11, <3>3, <3>4 DEF Fine, Linked
  <2>12. PICK new : new = forward \cup answer OBVIOUS
  <2>13. PICK rest : rest = net \ {m} OBVIOUS
  <2>14. rest \subseteq net /\ Send(rest, new) /\ \A x \in new : up[x.to] => Fine(x)'
    BY <2>5, <2>10, <2>11, <2>12, <2>13
  <2>15. Mail' BY <1>1, <2>8, <2>14, MailSent DEF Sound
  <2>. QED BY <1>6, <2>6, <2>7, <2>15 DEF Sound
<1>. QED BY <1>4, <1>7, <1>8 DEF RecvReplicate

\* An ack is passed on.
LEMMA RecvAckSound == ASSUME Sound, NEW m \in net, RecvAck(m) PROVE Sound'
<1>1. m.type = "replication_ack" /\ UNCHANGED <<up, view, store, fileStore, scans, merge, writes, chains, landed>>
  BY DEF RecvAck
<1>2. Fine(m) /\ Complete BY <1>1 DEF Sound, Mail, Fine
<1>3. PICK n \in Nodes : n = m.to BY <1>2, Fields DEF Fine
<1>4. PICK new : new = IF pendingAck[n] # 0
                       THEN {[type |-> "replication_ack", from |-> n, to |-> pendingAck[n]]} ELSE {}
  OBVIOUS
<1>5. pendingAck' = [pendingAck EXCEPT ![n] = 0] /\ Send(net \ {m}, new) BY <1>3, <1>4 DEF RecvAck
<1>6. Tables' /\ Driving' /\ Scanning' /\ Shelf' BY <1>1, Stay DEF Sound
<1>7. Records' BY <1>1, <1>5 DEF Sound, Records
<1>8. Complete' BY <1>1, <1>2 DEF Complete, Stored
<1>9. ASSUME NEW x \in new, up[x.to] PROVE Fine(x)'
  <2>1. PICK to \in Nodes : to = pendingAck[n] /\ x = [type |-> "replication_ack", from |-> n, to |-> to]
    BY <1>4 DEF Sound, Records
  <2>2. x \in Messages /\ x.type = "replication_ack" /\ x.to = to BY <2>1, CallType
  <2>. QED BY <1>1, <1>8, <1>9, <2>2 DEF Fine, Linked
<1>10. PICK rest : rest = net \ {m} OBVIOUS
<1>11. rest \subseteq net /\ Send(rest, new) BY <1>5, <1>10
<1>12. Mail' BY <1>1, <1>9, <1>11, MailSent DEF Sound
<1>. QED BY <1>6, <1>7, <1>12 DEF Sound

----------------------------------------------------------------------------
(* append *)

\* An append is a message.
LEMMA AppendType ==
  ASSUME NEW from \in Nodes, NEW to \in Nodes, NEW client \in Clientele, NEW w \in Nat,
         NEW m, m = [type |-> "append_file", from |-> from, to |-> to, client |-> client, write |-> w]
  PROVE  m \in Messages /\ m.type = "append_file" /\ m.to = to
<1>1. m \in Appends /\ m.type = "append_file" /\ m.to = to BY DEF Appends
<1>. QED BY <1>1 DEF Messages

\* A client appends to the replicas it knows.
LEMMA AppendToSound == ASSUME Sound, NEW n \in Nodes, AppendTo(n) PROVE Sound'
<1>1. up[n] /\ UNCHANGED <<up, view, store, fileStore, pendingAck, scans, merge, chains, landed>> BY DEF AppendTo
<1>2. PICK succ : succ = Successors(FileHash, view[n], NumReplicas) OBVIOUS
<1>3. PICK w : w = Len(writes) + 1 OBVIOUS
<1>4. w \in Nat BY <1>3 DEF Sound, Records
<1>5. succ \in SUBSET Nodes BY <1>1, <1>2, HashTypes, RingFacts DEF Sound
<1>6. PICK client \in Clientele : client = AppendClient(n, w) BY <1>4, ClientTypes
<1>7. PICK new : new = {[type |-> "append_file", from |-> n, to |-> r, client |-> client, write |-> w] : r \in succ}
  OBVIOUS
<1>8. Send(net, new) /\ writes' = Append(writes, [by |-> n, kind |-> "append"])
  BY <1>2, <1>3, <1>6, <1>7 DEF AppendTo
<1>9. Tables' /\ Shelf' /\ Driving' /\ Scanning' BY <1>1, Stay DEF Sound
<1>10. writes' \in Seq([by : Nodes, kind : {"create", "append"}]) BY <1>8, AppendWrite DEF Sound
<1>11. Records' BY <1>1, <1>10 DEF Sound, Records
<1>12. ASSUME NEW m \in new, up[m.to] PROVE Fine(m)'
  <2>1. PICK r \in Nodes : m = [type |-> "append_file", from |-> n, to |-> r, client |-> client, write |-> w]
    BY <1>5, <1>7, <1>12
  <2>2. m \in Messages /\ m.type = "append_file" BY <1>4, <2>1, AppendType
  <2>. QED BY <1>1, <1>12, <2>2 DEF Fine, Linked
<1>13. PICK rest : rest = net OBVIOUS
<1>14. rest \subseteq net /\ Send(rest, new) BY <1>8, <1>13
<1>15. Mail' BY <1>1, <1>12, <1>14, MailSent DEF Sound
<1>. QED BY <1>9, <1>11, <1>15 DEF Sound

\* A replica takes an append in.
LEMMA RecvAppendSound == ASSUME Sound, NEW m \in net, RecvAppend(m) PROVE Sound'
<1>1. m.type = "append_file" /\ UNCHANGED <<up, view, fileStore, pendingAck, scans, merge, writes, chains>>
  BY DEF RecvAppend
<1>2. Fine(m) BY DEF Sound, Mail
<1>3. m \in Appends BY <1>1, <1>2, Fields DEF Fine
<1>4. PICK n \in Nodes, from \in Nodes, client \in Clientele, w \in Nat :
        m = [type |-> "append_file", from |-> from, to |-> n, client |-> client, write |-> w]
  BY <1>3 DEF Appends
<1>5. m.to = n /\ m.client = client /\ m.write = w /\ up[n] BY <1>2, <1>4 DEF Fine
<1>6. Tables' /\ Driving' /\ Scanning' BY <1>1, Stay DEF Sound
<1>7. PICK p \in Nodes : p = Primary(FileHash, view[n]) BY <1>5, HashTypes, RingFacts DEF Sound
<1>8. PICK rest : rest = net \ {m} OBVIOUS
<1>9. CASE /\ store' = [store EXCEPT ![n] = AppendFile(@, client, <<w>>)]
           /\ landed' = landed \cup {<<w, n>>} /\ Send(net \ {m}, {})
  <2>1. Shelf'
    <3>1. <<w>> \in Seq(Nat) OBVIOUS
    <3>2. store[n] \in Files /\ KeysApart(store[n]) BY DEF Sound, Shelf
    <3>3. PICK g : g = AppendFile(store[n], client, <<w>>) OBVIOUS
    <3>4. g \in Files /\ KeysApart(g) BY <3>1, <3>2, <3>3, AppendAdds
    <3>5. store' = [store EXCEPT ![n] = g] BY <1>9, <3>3
    <3>. QED BY <3>4, <3>5, ShelfStep DEF Sound
  <2>2. Records' BY <1>1, <1>9 DEF Sound, Records
  <2>3. PICK new : new = {} OBVIOUS
  <2>4. rest \subseteq net /\ Send(rest, new) /\ \A x \in new : up[x.to] => Fine(x)' BY <1>8, <1>9, <2>3
  <2>5. chains \subseteq chains' /\ landed \subseteq landed' BY <1>1, <1>9
  <2>6. Mail' BY <1>1, <2>4, <2>5, MailSent DEF Sound
  <2>. QED BY <1>6, <2>1, <2>2, <2>6 DEF Sound
<1>10. CASE Send(net \ {m}, {[m EXCEPT !.from = n, !.to = p]}) /\ UNCHANGED <<store, landed>>
  <2>1. Shelf' /\ Records' BY <1>1, <1>10, Stay DEF Sound
  <2>2. PICK new : new = {[m EXCEPT !.from = n, !.to = p]} OBVIOUS
  <2>3. ASSUME NEW x \in new, up[x.to] PROVE Fine(x)'
    <3>1. x = [type |-> "append_file", from |-> n, to |-> p, client |-> client, write |-> w] BY <1>4, <2>2, <2>3
    <3>2. x \in Messages /\ x.type = "append_file" BY <3>1, AppendType
    <3>. QED BY <1>1, <2>3, <3>2 DEF Fine, Linked
  <2>4. rest \subseteq net /\ Send(rest, new) BY <1>8, <1>10, <2>2
  <2>5. Mail' BY <1>1, <1>10, <2>3, <2>4, MailSent DEF Sound
  <2>. QED BY <1>6, <2>1, <2>5 DEF Sound
<1>. QED BY <1>5, <1>7, <1>9, <1>10 DEF RecvAppend
----------------------------------------------------------------------------
(* merge *)

\* The primary starts to collect,
LEMMA StartMergeSound ==
  ASSUME Sound, NEW n \in Nodes, up[n], NEW rest, rest \subseteq net, StartMerge(n, rest),
         UNCHANGED <<up, view, store, fileStore, pendingAck, scans, writes, chains, landed>>
  PROVE  Sound'
<1>1. Tables' /\ Shelf' /\ Scanning' /\ Records' BY Stay DEF Sound
<1>2. PICK succ \in SUBSET Nodes : succ = Successors(FileHash, view[n], NumReplicas)
  BY HashTypes, RingFacts DEF Sound
<1>3. PICK p \in Nodes : p = Primary(FileHash, view[n]) BY HashTypes, RingFacts DEF Sound
<1>4. CASE /\ merge' = [merge EXCEPT ![n] = [phase |-> "collect", succ |-> succ, left |-> succ, blocks |-> {}]]
           /\ net' = rest
  <2>1. PICK g : g = [phase |-> "collect", succ |-> succ, left |-> succ, blocks |-> {}] OBVIOUS
  <2>2. g \in Merges /\ g.blocks = {} BY <2>1 DEF Merges
  <2>3. KeysDiffer(g.blocks) /\ IsFiniteSet(g.blocks) BY <2>2, IdleType
  <2>4. merge' = [merge EXCEPT ![n] = g] BY <1>4, <2>1
  <2>5. Driving' BY <2>2, <2>3, <2>4, DrivingStep DEF Sound
  <2>6. PICK new : new = {} OBVIOUS
  <2>7. Send(rest, new) /\ \A x \in new : up[x.to] => Fine(x)' BY <1>4, <2>6 DEF Send, Reachable
  <2>8. Mail' BY <2>7, MailSent DEF Sound
  <2>. QED BY <1>1, <2>5, <2>8 DEF Sound
<1>5. CASE Send(rest, {[type |-> "merge_request", from |-> n, to |-> p]}) /\ UNCHANGED merge
  <2>1. Driving' BY <1>5, Stay DEF Sound
  <2>2. PICK new : new = {[type |-> "merge_request", from |-> n, to |-> p]} OBVIOUS
  <2>3. ASSUME NEW x \in new, up[x.to] PROVE Fine(x)'
    <3>1. x = [type |-> "merge_request", from |-> n, to |-> p] BY <2>2, <2>3
    <3>2. x \in Messages /\ x.type = "merge_request" BY <3>1, CallType
    <3>. QED BY <2>3, <3>2 DEF Fine, Linked
  <2>4. Send(rest, new) BY <1>5, <2>2
  <2>5. Mail' BY <2>3, <2>4, MailSent DEF Sound
  <2>. QED BY <1>1, <2>1, <2>5 DEF Sound
<1>. QED BY <1>2, <1>3, <1>4, <1>5 DEF StartMerge

\* ... because of its own command,
LEMMA MergeSound == ASSUME Sound, NEW n \in Nodes, Merge(n) PROVE Sound'
<1>1. PICK rest : rest = net OBVIOUS
<1>2. up[n] /\ rest \subseteq net /\ StartMerge(n, rest) BY <1>1 DEF Merge
<1>3. UNCHANGED <<up, view, store, fileStore, pendingAck, scans, writes, chains, landed>> BY DEF Merge
<1>. QED BY <1>2, <1>3, StartMergeSound

\* ... or of another node's.
LEMMA RecvMergeRequestSound == ASSUME Sound, NEW m \in net, RecvMergeRequest(m) PROVE Sound'
<1>1. PICK rest : rest = net \ {m} OBVIOUS
<1>2. Fine(m) BY DEF Sound, Mail
<1>3. PICK n \in Nodes : n = m.to BY <1>2, Fields DEF Fine
<1>4. up[n] /\ rest \subseteq net /\ StartMerge(n, rest) BY <1>1, <1>2, <1>3 DEF RecvMergeRequest, Fine
<1>5. UNCHANGED <<up, view, store, fileStore, pendingAck, scans, writes, chains, landed>> BY DEF RecvMergeRequest
<1>. QED BY <1>4, <1>5, StartMergeSound

\* A merge has these parts.
LEMMA MergeFields ==
  ASSUME Driving, NEW n \in Nodes
  PROVE  /\ merge[n] = [phase |-> merge[n].phase, succ |-> merge[n].succ, left |-> merge[n].left,
                        blocks |-> merge[n].blocks]
         /\ merge[n].phase \in {"idle", "collect", "send"} /\ merge[n].succ \in SUBSET Nodes
         /\ merge[n].left \in SUBSET Nodes /\ merge[n].blocks \in SUBSET Blocks
         /\ KeysDiffer(merge[n].blocks) /\ IsFiniteSet(merge[n].blocks)
         /\ merge[n].phase # "idle" => up[n]
BY DEF Driving, Merges

\* Blocks with new keys are added.
LEMMA MergeCollectSound ==
  ASSUME Sound, NEW n \in Nodes, NEW r \in Nodes, MergeCollect(n, r) PROVE Sound'
<1>1. merge[n].phase = "collect" /\ UNCHANGED <<up, view, store, fileStore, pendingAck, net, scans, writes, chains, landed>>
  BY DEF MergeCollect
<1>2. Tables' /\ Shelf' /\ Scanning' /\ Records' BY <1>1, Stay DEF Sound
<1>3. Mail'
  <2>1. PICK rest : rest = net OBVIOUS
  <2>2. PICK new : new = {} OBVIOUS
  <2>3. rest \subseteq net /\ Send(rest, new) /\ \A x \in new : up[x.to] => Fine(x)' BY <1>1, <2>1, <2>2 DEF Send, Reachable
  <2>. QED BY <1>1, <2>3, MailSent DEF Sound
<1>4. PICK old : old = merge[n].blocks OBVIOUS
<1>5. old \in SUBSET Blocks /\ KeysDiffer(old) /\ IsFiniteSet(old) BY <1>4, MergeFields DEF Sound
<1>6. PICK bs : bs = IF up[r] /\ Holds(r) THEN Collected(old, GetAllBlocks(store[r])) ELSE old OBVIOUS
<1>7. bs \in SUBSET Blocks /\ KeysDiffer(bs) /\ IsFiniteSet(bs)
  <2>1. PICK f : f = store[r] OBVIOUS
  <2>2. f \in Files /\ KeysApart(f) BY <2>1 DEF Sound, Shelf
  <2>3. PICK T : T = GetAllBlocks(f) OBVIOUS
  <2>4. T \in SUBSET Blocks /\ IsFiniteSet(T) /\ KeysDiffer(T) BY <2>2, <2>3, BlocksOf
  <2>5. Collected(old, T) \in SUBSET Blocks /\ IsFiniteSet(Collected(old, T)) /\ KeysDiffer(Collected(old, T))
    BY <1>5, <2>4, CollectedKeys
  <2>. QED BY <1>5, <1>6, <2>1, <2>3, <2>5
<1>8. PICK g : g = [phase |-> "collect", succ |-> merge[n].succ, left |-> merge[n].left \ {r}, blocks |-> bs] OBVIOUS
<1>9. merge' = [merge EXCEPT ![n] = g]
  <2>1. merge[n] = [phase |-> "collect", succ |-> merge[n].succ, left |-> merge[n].left, blocks |-> old]
    BY <1>1, <1>4, MergeFields DEF Sound
  <2>2. merge' = [merge EXCEPT ![n].left = @ \ {r},
                               ![n].blocks = IF up[r] /\ Holds(r) THEN Collected(@, GetAllBlocks(store[r])) ELSE @]
    BY DEF MergeCollect
  <2>3. PICK d : d = merge[n] OBVIOUS
  <2>4. merge' = [merge EXCEPT ![n] = [d EXCEPT !.left = @ \ {r}, !.blocks = bs]]
    <3>1. merge \in [Nodes -> Merges] BY DEF Sound, Driving
    <3>2. merge' = [merge EXCEPT ![n].left = @ \ {r}, ![n].blocks = bs] BY <1>4, <1>6, <2>2, <3>1 DEF Merges
    <3>. QED BY <2>3, <3>1, <3>2 DEF Merges
  <2>5. [d EXCEPT !.left = @ \ {r}, !.blocks = bs] = g
    <3>1. PICK s, l : s = merge[n].succ /\ l = merge[n].left OBVIOUS
    <3>2. d = [phase |-> "collect", succ |-> s, left |-> l, blocks |-> old] BY <2>1, <2>3, <3>1
    <3>3. PICK e : e = l \ {r} OBVIOUS
    <3>4. g = [phase |-> "collect", succ |-> s, left |-> e, blocks |-> bs] BY <1>8, <3>1, <3>3
    <3>5. d.left = l BY <3>2
    <3>6. [d EXCEPT !.left = @ \ {r}, !.blocks = bs] = [d EXCEPT !.left = e, !.blocks = bs] BY <3>3, <3>5
    <3>a. PICK d1 : d1 = [d EXCEPT !.left = e] OBVIOUS
    <3>b. d1 = [phase |-> "collect", succ |-> s, left |-> e, blocks |-> old] BY <3>2, <3>a
    <3>c. [d1 EXCEPT !.blocks = bs] = g BY <3>4, <3>b
    <3>7. [d EXCEPT !.left = e, !.blocks = bs] = g BY <3>a, <3>c
    <3>. QED BY <3>6, <3>7
  <2>. QED BY <2>4, <2>5
<1>10. g \in Merges /\ g.blocks = bs /\ g.phase = "collect" BY <1>7, <1>8, MergeFields DEF Sound, Merges
<1>11. up'[n] BY <1>1, MergeFields DEF Sound
<1>12. Driving' BY <1>1, <1>7, <1>9, <1>10, <1>11, DrivingStep DEF Sound
<1>. QED BY <1>2, <1>3, <1>12 DEF Sound

\* Nothing sent.
LEMMA MailStays ==
  ASSUME Mail, net' \subseteq net, up' = up, chains \subseteq chains', landed \subseteq landed'
  PROVE  Mail'
<1>1. ASSUME NEW m \in net' PROVE Fine(m)'
  <2>1. Fine(m) BY DEF Mail
  <2>. QED BY <2>1, FineStays
<1>. QED BY <1>1 DEF Mail

\* The primary merges its own copy.
LEMMA MergeLocallySound == ASSUME Sound, NEW n \in Nodes, MergeLocally(n) PROVE Sound'
<1>1. merge[n].phase = "collect" /\ UNCHANGED <<up, view, fileStore, pendingAck, net, scans, writes, chains, landed>>
  BY DEF MergeLocally
<1>2. Tables' /\ Scanning' /\ Records' BY <1>1, Stay DEF Sound
<1>3. Mail' BY <1>1, MailStays DEF Sound
<1>4. up'[n] BY <1>1, MergeFields DEF Sound
<1>5. CASE /\ store' = [store EXCEPT ![n] = MergeFile(@, merge[n].blocks)]
           /\ merge' = [merge EXCEPT ![n].phase = "send", ![n].blocks = {}]
  <2>1. PICK S : S = merge[n].blocks OBVIOUS
  <2>2. S \in SUBSET Blocks /\ KeysDiffer(S) /\ IsFiniteSet(S) BY <2>1, MergeFields DEF Sound
  <2>3. PICK f \in Files : f = store[n] BY DEF Sound, Shelf
  <2>4. PICK h : h = MergeFile(f, S) OBVIOUS
  <2>5. h \in Files /\ KeysApart(h) BY <2>2, <2>4, MergeMakes
  <2>6. store' = [store EXCEPT ![n] = h] BY <1>5, <2>1, <2>3, <2>4
  <2>7. Shelf' BY <2>5, <2>6, ShelfStep DEF Sound
  <2>8. PICK g : g = [phase |-> "send", succ |-> merge[n].succ, left |-> merge[n].left, blocks |-> {}] OBVIOUS
  <2>9. merge' = [merge EXCEPT ![n] = g]
    <3>1. merge \in [Nodes -> Merges] BY DEF Sound, Driving
    <3>2. PICK d : d = merge[n] OBVIOUS
    <3>3. merge' = [merge EXCEPT ![n] = [d EXCEPT !.phase = "send", !.blocks = {}]] BY <1>5, <3>1, <3>2 DEF Merges
    <3>4. PICK s, l : s = merge[n].succ /\ l = merge[n].left OBVIOUS
    <3>5. d = [phase |-> "collect", succ |-> s, left |-> l, blocks |-> S] BY <1>1, <2>1, <3>2, <3>4, MergeFields DEF Sound
    <3>6. PICK e : e = [d EXCEPT !.phase = "send"] OBVIOUS
    <3>7. e = [phase |-> "send", succ |-> s, left |-> l, blocks |-> S] BY <3>5, <3>6
    <3>8. [e EXCEPT !.blocks = {}] = g BY <2>8, <3>4, <3>7
    <3>. QED BY <3>3, <3>6, <3>8
  <2>10. g \in Merges /\ g.blocks = {} BY <2>8, MergeFields DEF Sound, Merges
  <2>11. KeysDiffer(g.blocks) /\ IsFiniteSet(g.blocks) BY <2>10, IdleType
  <2>12. Driving' BY <1>1, <1>4, <2>9, <2>10, <2>11, DrivingStep DEF Sound
  <2>. QED BY <1>2, <1>3, <2>7, <2>12 DEF Sound
<1>6. CASE merge' = [merge EXCEPT ![n] = Idle] /\ UNCHANGED store
  <2>1. Shelf' BY <1>6, Stay DEF Sound
  <2>2. Driving' BY <1>1, <1>4, <1>6, IdleType, DrivingStep DEF Sound
  <2>. QED BY <1>2, <1>3, <2>1, <2>2 DEF Sound
<1>. QED BY <1>5, <1>6 DEF MergeLocally

\* It sends the result to the next replica.
LEMMA MergeSendSound == ASSUME Sound, NEW n \in Nodes, MergeSend(n) PROVE Sound'
<1>1. merge' = [merge EXCEPT ![n] = Idle] /\ UNCHANGED <<up, view, store, fileStore, pendingAck, scans, writes, chains, landed>>
  BY DEF MergeSend
<1>2. Tables' /\ Shelf' /\ Scanning' /\ Records' BY <1>1, Stay DEF Sound
<1>3. Driving' BY <1>1, IdleType, DrivingStep DEF Sound
<1>4. PICK f \in Files : f = store[n] BY DEF Sound, Shelf
<1>5. PICK data : data = ReadFile(f) OBVIOUS
<1>6. data \in Seq(Nat) BY <1>5, ReadItems
<1>7. PICK succ \in SUBSET Nodes : succ = merge[n].succ BY MergeFields DEF Sound
<1>8. PICK new : new = IF Holds(n)
                       THEN {[type |-> "merge_update", from |-> n, to |-> r, data |-> data] : r \in succ}
                       ELSE {}
  OBVIOUS
<1>9. Send(net, new) BY <1>4, <1>5, <1>7, <1>8 DEF MergeSend
<1>10. ASSUME NEW x \in new, up[x.to] PROVE Fine(x)'
  <2>1. PICK r \in Nodes : x = [type |-> "merge_update", from |-> n, to |-> r, data |-> data] BY <1>7, <1>8, <1>10
  <2>2. x \in Updates /\ x.type = "merge_update" BY <1>6, <2>1 DEF Updates
  <2>. QED BY <1>1, <1>10, <2>2 DEF Fine, Linked, Messages
<1>11. PICK rest : rest = net OBVIOUS
<1>12. rest \subseteq net /\ Send(rest, new) BY <1>9, <1>11
<1>13. Mail' BY <1>1, <1>10, <1>12, MailSent DEF Sound
<1>. QED BY <1>2, <1>3, <1>13 DEF Sound

\* A replica deletes its copy,
LEMMA RecvMergeUpdateSound == ASSUME Sound, NEW m \in net, RecvMergeUpdate(m) PROVE Sound'
<1>1. m.type = "merge_update" /\ UNCHANGED <<up, view, fileStore, pendingAck, scans, merge, writes, chains, landed>>
  BY DEF RecvMergeUpdate
<1>2. Fine(m) BY DEF Sound, Mail
<1>3. m \in Updates BY <1>1, <1>2, Fields DEF Fine
<1>4. PICK n \in Nodes, from \in Nodes, data \in Seq(Nat) :
        m = [type |-> "merge_update", from |-> from, to |-> n, data |-> data]
  BY <1>1, <1>3 DEF Updates
<1>5. m.to = n /\ up[n] BY <1>2, <1>4 DEF Fine
<1>6. PICK x : x = [type |-> "merge_recreate", from |-> n, to |-> n, data |-> data] OBVIOUS
<1>7. store' = [store EXCEPT ![n] = NoFile] /\ net' = (net \ {m}) \cup {x}
  <2>1. PICK y : y = [m EXCEPT !.type = "merge_recreate"] OBVIOUS
  <2>2. y = [type |-> "merge_recreate", from |-> from, to |-> n, data |-> data] BY <1>4, <2>1
  <2>3. [y EXCEPT !.from = n] = x BY <1>6, <2>2
  <2>4. [m EXCEPT !.type = "merge_recreate", !.from = m.to] = x BY <1>5, <2>1, <2>3
  <2>. QED BY <1>5, <2>4 DEF RecvMergeUpdate
<1>8. Tables' /\ Driving' /\ Scanning' /\ Records' BY <1>1, Stay DEF Sound
<1>9. Shelf' BY <1>7, NoFileType, ShelfStep DEF Sound
<1>10. Fine(x)'
  <2>1. x \in Updates /\ x.type = "merge_recreate" /\ x.to = n BY <1>6 DEF Updates
  <2>. QED BY <1>1, <1>5, <2>1 DEF Fine, Linked, Messages
<1>11. Mail'
  <2>1. ASSUME NEW y \in net' PROVE Fine(y)'
    <3>1. CASE y \in net
      <4>1. Fine(y) BY <3>1 DEF Sound, Mail
      <4>. QED BY <1>1, <4>1, FineStays
    <3>. QED BY <1>7, <1>10, <3>1
  <2>. QED BY <2>1 DEF Mail
<1>. QED BY <1>8, <1>9, <1>11 DEF Sound

\* Making a copy, of a merged file or in re-replication.
LEMMA CopySound ==
  ASSUME Sound, NEW n \in Nodes, NEW id \in Nat, NEW client \in Clientele, NEW data \in Seq(Nat),
         store' = [store EXCEPT ![n] = CreateFile(@, id, client, data)], net' \subseteq net,
         UNCHANGED <<up, view, fileStore, pendingAck, scans, merge, writes, chains, landed>>
  PROVE  Sound'
<1>1. Tables' /\ Driving' /\ Scanning' /\ Records' BY Stay DEF Sound
<1>2. Mail' BY MailStays DEF Sound
<1>3. PICK f \in Files : f = store[n] /\ KeysApart(f) BY DEF Sound, Shelf
<1>4. PICK g : g = CreateFile(f, id, client, data) OBVIOUS
<1>5. g \in Files /\ KeysApart(g) BY <1>3, <1>4, CreateMakes
<1>6. store' = [store EXCEPT ![n] = g] BY <1>3, <1>4
<1>7. Shelf' BY <1>5, <1>6, ShelfStep DEF Sound
<1>. QED BY <1>1, <1>2, <1>7 DEF Sound

\* and writes the merged one.
LEMMA RecreateSound == ASSUME Sound, NEW m \in net, Recreate(m) PROVE Sound'
<1>1. Fine(m) /\ m.type = "merge_recreate" BY DEF Sound, Mail, Recreate
<1>2. m \in Updates BY <1>1, Fields DEF Fine
<1>3. PICK n \in Nodes, data \in Seq(Nat) : n = m.to /\ data = m.data BY <1>2 DEF Updates
<1>4. PICK id \in Nat : id = Float64(FileHash) BY HashTypes
<1>5. PICK client \in Clientele : client = MergedClient BY ClientTypes
<1>6. store' = [store EXCEPT ![n] = CreateFile(@, id, client, data)] /\ net' \subseteq net BY <1>3, <1>4, <1>5 DEF Recreate
<1>7. UNCHANGED <<up, view, fileStore, pendingAck, scans, merge, writes, chains, landed>> BY DEF Recreate
<1>. QED BY <1>6, <1>7, CopySound

\* A copy arrives where the file is missing.
LEMMA RecvRereplicateSound == ASSUME Sound, NEW m \in net, RecvRereplicate(m) PROVE Sound'
<1>1. Fine(m) /\ m.type = "rereplicate_file" BY DEF Sound, Mail, RecvRereplicate
<1>2. m \in Copies BY <1>1, Fields DEF Fine
<1>3. PICK n \in Nodes, id \in Nat, data \in Seq(Nat) : n = m.to /\ id = m.id /\ data = m.data BY <1>2 DEF Copies
<1>4. PICK client \in Clientele : client = RereplicateClient(n) BY ClientTypes
<1>5. store' = [store EXCEPT ![n] = CreateFile(@, id, client, data)] /\ net' \subseteq net BY <1>3, <1>4 DEF RecvRereplicate
<1>6. UNCHANGED <<up, view, fileStore, pendingAck, scans, merge, writes, chains, landed>> BY DEF RecvRereplicate
<1>. QED BY <1>5, <1>6, CopySound

----------------------------------------------------------------------------
(* Membership changes *)

\* A crash takes the messages to the node along.
LEMMA CrashSound == ASSUME Sound, NEW n \in Nodes, Crash(n) PROVE Sound'
<1>1. /\ up' = [up EXCEPT ![n] = FALSE] /\ fileStore' = fileStore \ {n} /\ pendingAck' = [pendingAck EXCEPT ![n] = 0]
      /\ scans' = {s \in scans : s.node # n} /\ merge' = [merge EXCEPT ![n] = Idle]
      /\ UNCHANGED <<view, store, writes, chains, landed>>
  BY DEF Crash
<1>2. up \in [Nodes -> BOOLEAN] BY DEF Sound, Tables
<1>3. up' \in [Nodes -> BOOLEAN] /\ \A k \in Nodes : up'[k] <=> (up[k] /\ k # n)
  <2>1. up' \in [Nodes -> BOOLEAN] BY <1>1, <1>2
  <2>2. ASSUME NEW k \in Nodes PROVE up'[k] <=> (up[k] /\ k # n) BY <1>1, <1>2
  <2>. QED BY <2>1, <2>2
<1>4. Tables' BY <1>1, <1>3 DEF Sound, Tables
<1>5. Shelf' BY <1>1, Stay DEF Sound
<1>6. Driving' BY <1>1, <1>3, IdleType, DrivingStep DEF Sound
<1>7. Scanning' BY <1>1, <1>3 DEF Sound, Scanning
<1>8. Records' BY <1>1 DEF Sound, Records
<1>9. Mail'
  <2>1. \A m \in net' : m \in net /\ m.to # n BY DEF Crash
  <2>2. ASSUME NEW m \in net' PROVE Fine(m)'
    <3>1. Fine(m) /\ m.to # n BY <2>1 DEF Sound, Mail
    <3>2. m.to \in Nodes BY <3>1, Fields DEF Fine
    <3>3. up[m.to] => up'[m.to] BY <1>3, <3>1, <3>2
    <3>. QED BY <1>1, <3>1, <3>3, FineStays
  <2>. QED BY <2>2 DEF Mail
<1>. QED BY <1>4, <1>5, <1>6, <1>7, <1>8, <1>9 DEF Sound

\* A table changes, with a scan or without.
LEMMA TableSound ==
  ASSUME Sound, NEW n \in Nodes, up[n], NEW v \in SUBSET Nodes, n \in v,
         view' = [view EXCEPT ![n] = v], StartScan(n) \/ UNCHANGED scans,
         UNCHANGED <<up, store, fileStore, pendingAck, net, merge, writes, chains, landed>>
  PROVE  Sound'
<1>1. Shelf' /\ Driving' /\ Records' BY Stay DEF Sound
<1>2. Tables' BY DEF Sound, Tables
<1>3. Mail' BY MailStays DEF Sound
<1>4. view'[n] = v BY DEF Sound, Tables
<1>5. scans' \subseteq scans \cup {[node |-> n, view |-> v]} BY <1>4 DEF StartScan
<1>6. Scanning' BY <1>5 DEF Sound, Scanning
<1>. QED BY <1>1, <1>2, <1>3, <1>6 DEF Sound

\* A table loses a dead node,
LEMMA LearnFailedSound ==
  ASSUME Sound, NEW n \in Nodes, NEW gone \in SUBSET (view[n] \ Up), LearnFailed(n, gone) PROVE Sound'
<1>1. PICK v : v = view[n] \ gone OBVIOUS
<1>2. up[n] /\ view' = [view EXCEPT ![n] = v] /\ StartScan(n) BY <1>1 DEF LearnFailed
<1>3. UNCHANGED <<up, store, fileStore, pendingAck, net, merge, writes, chains, landed>> BY DEF LearnFailed
<1>4. v \in SUBSET Nodes /\ n \in v BY <1>1, <1>2 DEF Sound, Tables, Up
<1>. QED BY <1>2, <1>3, <1>4, TableSound

\* or gains a new one.
LEMMA LearnJoinedSound ==
  ASSUME Sound, NEW n \in Nodes, NEW new \in SUBSET (Up \ view[n]), LearnJoined(n, new) PROVE Sound'
<1>1. PICK v : v = view[n] \cup new OBVIOUS
<1>2. up[n] /\ view' = [view EXCEPT ![n] = v] /\ StartScan(n) BY <1>1 DEF LearnJoined
<1>3. UNCHANGED <<up, store, fileStore, pendingAck, net, merge, writes, chains, landed>> BY DEF LearnJoined
<1>4. v \in SUBSET Nodes /\ n \in v BY <1>1, <1>2 DEF Sound, Tables, Up
<1>. QED BY <1>2, <1>3, <1>4, TableSound

\* What a Probe or its answer does to a table.
LEMMA ProbeDoes ==
  ASSUME NEW n \in Nodes, NEW m \in Nodes, LearnByProbe(n, m)
  PROVE  \E gone \in SUBSET (view[n] \ Up), new \in SUBSET (Up \ view[n]) :
           gone \cup new # {} /\ view' = [view EXCEPT ![n] = (@ \ gone) \cup new]
<1>1. PICK gone \in SUBSET (view[n] \ (Up \cup view[m])), new \in SUBSET ((Up \cap view[m]) \ view[n]) :
        gone \cup new # {} /\ view' = [view EXCEPT ![n] = (@ \ gone) \cup new]
  BY DEF LearnByProbe
<1>2. gone \in SUBSET (view[n] \ Up) /\ new \in SUBSET (Up \ view[n]) BY <1>1
<1>. QED BY <1>1, <1>2

\* It may change both ways at once, and no scan starts.
LEMMA LearnByProbeSound ==
  ASSUME Sound, NEW n \in Nodes, NEW m \in Nodes, LearnByProbe(n, m) PROVE Sound'
<1>1. PICK gone \in SUBSET (view[n] \ Up), new \in SUBSET (Up \ view[n]) :
        view' = [view EXCEPT ![n] = (@ \ gone) \cup new]
  BY ProbeDoes
<1>2. PICK v : v = (view[n] \ gone) \cup new OBVIOUS
<1>3. up[n] /\ view' = [view EXCEPT ![n] = v] BY <1>1, <1>2 DEF LearnByProbe
<1>4. UNCHANGED <<up, store, fileStore, pendingAck, net, scans, merge, writes, chains, landed>> BY DEF LearnByProbe
<1>5. v \in SUBSET Nodes /\ n \in v BY <1>2, <1>3 DEF Sound, Tables, Up
<1>. QED BY <1>3, <1>4, <1>5, TableSound

\* A node joins, maybe with an old disk.
LEMMA JoinSound == ASSUME Sound, NEW n \in Nodes, Join(n) PROVE Sound'
<1>1. /\ ~up[n] /\ up[Introducer] /\ up' = [up EXCEPT ![n] = TRUE]
      /\ view' = [view EXCEPT ![n] = view[Introducer] \cup {n}, ![Introducer] = @ \cup {n}]
      /\ UNCHANGED <<fileStore, pendingAck, net, scans, merge, writes, chains, landed>>
  BY DEF Join
<1>2. up \in [Nodes -> BOOLEAN] /\ view \in [Nodes -> SUBSET Nodes] /\ Introducer \in Nodes /\ Introducer # n
  BY <1>1, RingAssumption DEF Sound, Tables
<1>3. up' \in [Nodes -> BOOLEAN] /\ \A k \in Nodes : up'[k] <=> (up[k] \/ k = n)
  <2>1. up' \in [Nodes -> BOOLEAN] BY <1>1, <1>2
  <2>2. ASSUME NEW k \in Nodes PROVE up'[k] <=> (up[k] \/ k = n) BY <1>1, <1>2
  <2>. QED BY <2>1, <2>2
<1>4. /\ view' \in [Nodes -> SUBSET Nodes]
      /\ \A k \in Nodes : view'[k] = IF k = n THEN view[Introducer] \cup {n}
                                     ELSE IF k = Introducer THEN view[k] \cup {n} ELSE view[k]
  BY <1>1, <1>2
<1>5. Tables' BY <1>3, <1>4 DEF Sound, Tables
<1>6. Driving' BY <1>1, <1>3 DEF Sound, Driving
<1>7. Scanning' BY <1>1, <1>3 DEF Sound, Scanning
<1>8. Records' BY <1>1, Stay DEF Sound
<1>9. Mail'
  <2>1. ASSUME NEW m \in net' PROVE Fine(m)'
    <3>1. Fine(m) BY <1>1 DEF Sound, Mail
    <3>2. m.to \in Nodes BY <3>1, Fields DEF Fine
    <3>. QED BY <1>1, <1>3, <3>1, <3>2, FineStays
  <2>. QED BY <2>1 DEF Mail
<1>10. Shelf'
  <2>1. CASE UNCHANGED store BY <2>1, Stay DEF Sound
  <2>2. CASE \E d \in {x \in Nodes : ~up[x] /\ view[x] # {} /\ Holds(x)} :
               store' = [store EXCEPT ![n] = store[d], ![d] = NoFile]
    <3>1. PICK d \in Nodes : store' = [store EXCEPT ![n] = store[d], ![d] = NoFile] BY <2>2
    <3>. QED BY <3>1, NoFileType DEF Sound, Shelf
  <2>. QED BY <2>1, <2>2 DEF Join
<1>. QED BY <1>5, <1>6, <1>7, <1>8, <1>9, <1>10 DEF Sound

\* A scan sends copies.
LEMMA ScanSound == ASSUME Sound, NEW s \in scans, Scan(s) PROVE Sound'
<1>1. scans' \subseteq scans /\ UNCHANGED <<up, view, store, fileStore, pendingAck, merge, writes, chains, landed>>
  BY DEF Scan
<1>2. Tables' /\ Shelf' /\ Driving' /\ Records' BY <1>1, Stay DEF Sound
<1>3. Scanning' BY <1>1 DEF Sound, Scanning
<1>4. PICK n \in Nodes, v \in SUBSET Nodes : n = s.node /\ v = s.view BY DEF Sound, Scanning
<1>5. PICK f \in Files : f = store[n] BY DEF Sound, Shelf
<1>6. PICK data : data = ReadFile(f) OBVIOUS
<1>7. data \in Seq(Nat) BY <1>6, ReadItems
<1>8. PICK id \in Nat : id = Float64(f.id)
  <2>1. f.id \in Nat BY FileBlocks
  <2>. QED BY <2>1, HashTypes
<1>9. PICK new : new = IF Holds(n)
                       THEN {[type |-> "rereplicate_file", from |-> n, to |-> r, id |-> id, data |-> data] :
                               r \in ScanTargets(n, f, v)}
                       ELSE {}
  OBVIOUS
<1>10. Send(net, new) BY <1>4, <1>5, <1>6, <1>8, <1>9 DEF Scan
<1>11. ScanTargets(n, f, v) \subseteq Nodes BY DEF ScanTargets, Successors
<1>12. ASSUME NEW x \in new, up[x.to] PROVE Fine(x)'
  <2>1. PICK r \in Nodes : x = [type |-> "rereplicate_file", from |-> n, to |-> r, id |-> id, data |-> data]
    BY <1>9, <1>11, <1>12
  <2>2. x \in Copies /\ x.type = "rereplicate_file" BY <1>7, <2>1 DEF Copies
  <2>. QED BY <1>1, <1>12, <2>2 DEF Fine, Linked, Messages
<1>13. PICK rest : rest = net OBVIOUS
<1>14. rest \subseteq net /\ Send(rest, new) BY <1>10, <1>13
<1>15. Mail' BY <1>1, <1>12, <1>14, MailSent DEF Sound
<1>. QED BY <1>2, <1>3, <1>15 DEF Sound

\* Nothing happens.
LEMMA StutterSound == ASSUME Sound, UNCHANGED vars PROVE Sound'
<1>1. UNCHANGED <<up, view, store, fileStore, pendingAck, net, scans, merge, writes, chains, landed>> BY DEF vars
<1>2. Mail' BY <1>1, MailStays DEF Sound
<1>. QED BY <1>1, <1>2, Stay DEF Sound

\* Every step keeps the invariant.
LEMMA SoundStep == ASSUME Sound, [Next]_vars PROVE Sound'
<1>1. CASE UNCHANGED vars BY <1>1, StutterSound
<1>2. ASSUME NEW m \in net, Receive(m) PROVE Sound'
  BY <1>2, RecvReplicateSound, RecvAckSound, RecvAppendSound, RecvRereplicateSound, RecvMergeRequestSound,
     RecvMergeUpdateSound, RecreateSound DEF Receive
<1>3. ASSUME NEW n \in Nodes, Create(n) \/ CLICreate(n) \/ AppendTo(n) \/ Merge(n) PROVE Sound'
  BY <1>3, CreateSound, CLICreateSound, AppendToSound, MergeSound
<1>4. ASSUME NEW n \in Nodes, MergeLocally(n) \/ MergeSend(n) \/ Crash(n) \/ Join(n) PROVE Sound'
  BY <1>4, MergeLocallySound, MergeSendSound, CrashSound, JoinSound
<1>5. ASSUME NEW n \in Nodes, NEW r \in Nodes, MergeCollect(n, r) PROVE Sound' BY <1>5, MergeCollectSound
<1>6. ASSUME NEW n \in Nodes, NEW gone \in SUBSET (view[n] \ Up), LearnFailed(n, gone) PROVE Sound'
  BY <1>6, LearnFailedSound
<1>7. ASSUME NEW n \in Nodes, NEW new \in SUBSET (Up \ view[n]), LearnJoined(n, new) PROVE Sound'
  BY <1>7, LearnJoinedSound
<1>8. ASSUME NEW s \in scans, Scan(s) PROVE Sound' BY <1>8, ScanSound
<1>9. ASSUME NEW n \in Nodes, NEW m \in Nodes, LearnByProbe(n, m) PROVE Sound' BY <1>9, LearnByProbeSound
<1>. QED BY <1>1, <1>2, <1>3, <1>4, <1>5, <1>6, <1>7, <1>8, <1>9 DEF Next

\* In every reachable state block stores hold no key twice (AppendFile's counter,
\* MergeFile), messages have a live receiver and a replicate_file has been stored by
\* the nodes of its chain before its receiver.
THEOREM AlwaysSound == Spec => []Sound
<1>1. Init => Sound BY InitSound
<1>2. Sound /\ [Next]_vars => Sound' BY SoundStep
<1>. QED BY <1>1, <1>2, PTL DEF Spec

\* Tables, block stores, messages, scans and merges keep their types, whatever
\* crashes, joins and overlaps.
THEOREM TypeCorrect == Spec => []TypeOK
<1>1. Sound => TypeOK BY SoundImplies
<1>. QED BY <1>1, AlwaysSound, PTL

\* A replication_ack exists only if every node of the chain of some create has
\* stored the file: acks start at the last node and are passed on, also by nodes
\* that have crashed since.
THEOREM Acknowledged == Spec => []AckMeansStored
<1>1. Sound => AckMeansStored BY SoundImplies
<1>. QED BY <1>1, AlwaysSound, PTL

----------------------------------------------------------------------------
(* A merge that runs alone *)

\* The primary of the file when all tables are right.
First == Primary(FileHash, Up)
\* The nodes a merge of the file reaches.
Replicas == Successors(FileHash, Up, NumReplicas)
\* No node drives a merge.
NobodyMerges == \A n \in Nodes : merge[n].phase = "idle"

\* The merge_request is on its way to the primary,
Asking == NobodyMerges /\ \E m \in net : net = {m} /\ m.type = "merge_request" /\ m.to = First
\* which collects, sorts and is about to send,
Driven ==
  /\ net = {} /\ merge[First].phase # "idle" /\ merge[First].succ = Replicas
  /\ merge[First].phase = "send" => Holds(First)
  /\ \A n \in Nodes \ {First} : merge[n].phase = "idle"
\* until every replica has the content D or an update of its own under way;
Has(r, D) == Holds(r) /\ ReadFile(store[r]) = D
\* sent as an update, or as its second half once the replica has deleted its file,
Spreading(D) ==
  /\ \A m \in net : /\ m.type \in {"merge_update", "merge_recreate"} /\ m.data = D
                    /\ m.type = "merge_recreate" => ~Holds(m.to)
  /\ \A m, k \in net : m.to = k.to => m = k
  /\ \A r \in Replicas : Has(r, D) \/ \E m \in net : m.to = r
\* with the driver done,
Spread == NobodyMerges /\ \E D : Spreading(D)
\* or the primary has no file, and nothing happens.
GivenUp == NobodyMerges /\ net = {} /\ ~Holds(First)

\* The stages of a merge that nothing has met since its command.
Alone ==
  fresh => TablesRight /\ scans = {} /\ Up # {} /\ (Asking \/ Driven \/ Spread \/ GivenUp)

\* The primary is one of the replicas, and all of them are up.
LEMMA UpFacts ==
  ASSUME Sound, Up # {}
  PROVE  First \in Nodes /\ First \in Replicas /\ up[First] /\ Replicas \subseteq Up /\ Up \subseteq Nodes
<1>1. Up \subseteq Nodes /\ Nodes \subseteq Nat /\ IsFiniteSet(Nodes) BY RingAssumption DEF Up
<1>2. Up \in SUBSET Nat /\ IsFiniteSet(Up) BY <1>1, FS_Subset
<1>3. FileHash \in Nat /\ NumReplicas \in Nat \ {0} BY RingAssumption
<1>4. First \in Up /\ Rank(FileHash, Up, First) = 0 BY <1>2, <1>3, PrimaryFirst DEF First
<1>5. First \in Replicas BY <1>3, <1>4 DEF Replicas, Successors
<1>. QED BY <1>1, <1>4, <1>5 DEF Replicas, Successors, Up

\* At rest only the last two stages are left.
LEMMA AloneImplies == ASSUME Sound, Alone PROVE MergeReconciles
<1>. SUFFICES ASSUME fresh, AtRest, Up # {}, Holds(First), NEW r \in Replicas
              PROVE  Holds(r) /\ ReadFile(store[r]) = ReadFile(store[First])
  BY DEF MergeReconciles, First, Replicas
<1>1. net = {} /\ NobodyMerges BY DEF AtRest, MergeGoesOn, NobodyMerges
<1>2. First \in Nodes /\ First \in Replicas BY UpFacts
<1>3. Spread BY <1>1, <1>2 DEF Alone, Asking, Driven, GivenUp, NobodyMerges
<1>4. PICK D : Spreading(D) BY <1>3 DEF Spread
<1>5. Has(r, D) /\ Has(First, D) BY <1>1, <1>2, <1>4 DEF Spreading
<1>. QED BY <1>5 DEF Has

\* A command starts the merge at the primary, or asks it.
LEMMA StartAlone ==
  ASSUME Sound, TablesRight, scans = {}, NobodyMerges, NEW n \in Nodes, up[n], StartMerge(n, {}),
         UNCHANGED <<up, view, store, scans>>
  PROVE  Alone'
<1>1. Up # {} /\ view[n] = Up BY DEF Up, TablesRight
<1>2. First \in Nodes /\ up[First] BY <1>1, UpFacts
<1>3. Up' = Up /\ First' = First /\ Replicas' = Replicas BY DEF Up, First, Replicas
<1>4. TablesRight' /\ scans' = {} /\ Up' # {} BY <1>1, <1>3 DEF TablesRight
<1>5. CASE First = n
  <2>1. /\ merge' = [merge EXCEPT ![n] = [phase |-> "collect", succ |-> Replicas, left |-> Replicas, blocks |-> {}]]
        /\ net' = {}
    BY <1>1, <1>5 DEF StartMerge, First, Replicas
  <2>2. merge \in [Nodes -> Merges] BY DEF Sound, Driving
  <2>3. /\ merge'[n] = [phase |-> "collect", succ |-> Replicas, left |-> Replicas, blocks |-> {}]
        /\ \A k \in Nodes \ {n} : merge'[k] = merge[k]
    BY <2>1, <2>2
  <2>4. merge'[n].phase = "collect" /\ merge'[n].succ = Replicas BY <2>3
  <2>5. Driven' BY <1>3, <1>5, <2>1, <2>3, <2>4 DEF Driven, NobodyMerges
  <2>. QED BY <1>4, <2>5 DEF Alone
<1>6. CASE First # n
  <2>1. PICK m : m = [type |-> "merge_request", from |-> n, to |-> First] OBVIOUS
  <2>2. Send({}, {m}) /\ UNCHANGED merge BY <1>1, <1>6, <2>1 DEF StartMerge, First
  <2>3. m.to = First /\ m.type = "merge_request" BY <2>1
  <2>4. net' = {m} BY <1>2, <2>2, <2>3 DEF Send, Reachable
  <2>5. Asking' BY <1>3, <2>2, <2>3, <2>4 DEF Asking, NobodyMerges
  <2>. QED BY <1>4, <2>5 DEF Alone
<1>. QED BY <1>5, <1>6

\* What keeps tables and processes keeps the primary.
LEMMA SameRing ==
  ASSUME UNCHANGED <<up, view, scans>>
  PROVE  /\ Up' = Up /\ First' = First /\ Replicas' = Replicas
         /\ TablesRight' = TablesRight /\ scans' = scans
BY DEF Up, First, Replicas, TablesRight

\* The merge command.
LEMMA MergeAlone == ASSUME "merge" \notin Overlaps, Sound, NEW n \in Nodes, Merge(n) PROVE Alone'
<1>1. net = {} /\ scans = {} /\ NobodyMerges BY DEF Merge, MergeGoesOn, NobodyMerges
<1>2. up[n] /\ StartMerge(n, {}) /\ UNCHANGED <<up, view, store, scans>> BY <1>1 DEF Merge
<1>3. fresh' = TablesRight BY DEF Merge
<1>4. CASE TablesRight BY <1>1, <1>2, <1>4, StartAlone
<1>5. CASE ~TablesRight BY <1>3, <1>5 DEF Alone
<1>. QED BY <1>4, <1>5

\* The primary's answer to a request.
LEMMA RecvMergeRequestAlone ==
  ASSUME Sound, Alone, fresh, NEW m \in net, RecvMergeRequest(m) PROVE Alone'
<1>1. m.type = "merge_request" BY DEF RecvMergeRequest
<1>2. Asking BY <1>1 DEF Alone, Driven, Spread, Spreading, GivenUp
<1>3. net = {m} /\ m.to = First /\ NobodyMerges BY <1>2 DEF Asking
<1>4. TablesRight /\ scans = {} /\ Up # {} BY DEF Alone
<1>5. First \in Nodes /\ up[First] BY <1>4, UpFacts
<1>6. StartMerge(First, {}) /\ UNCHANGED <<up, view, store, scans>> BY <1>3 DEF RecvMergeRequest
<1>. QED BY <1>3, <1>4, <1>5, <1>6, StartAlone

\* A driver is the primary.
LEMMA DriverIsFirst ==
  ASSUME Alone, fresh, NEW n \in Nodes, merge[n].phase # "idle"
  PROVE  Driven /\ n = First
<1>1. Driven BY DEF Alone, Asking, Spread, GivenUp, NobodyMerges
<1>. QED BY <1>1 DEF Driven

\* Its steps,
LEMMA MergeCollectAlone ==
  ASSUME Sound, Alone, fresh, NEW n \in Nodes, NEW r \in Nodes, MergeCollect(n, r) PROVE Alone'
<1>1. merge[n].phase = "collect" BY DEF MergeCollect
<1>2. Driven /\ n = First BY <1>1, DriverIsFirst
<1>3. /\ merge' = [merge EXCEPT ![n].left = @ \ {r},
                     ![n].blocks = IF up[r] /\ Holds(r) THEN Collected(@, GetAllBlocks(store[r])) ELSE @]
      /\ UNCHANGED <<up, view, store, net, scans, fresh>>
  BY DEF MergeCollect
<1>4. merge \in [Nodes -> Merges] BY DEF Sound, Driving
<1>5. PICK left, blocks : merge'[n] = [[merge[n] EXCEPT !.left = left] EXCEPT !.blocks = blocks]
  BY <1>3, <1>4
<1>6. merge[n] \in Merges BY <1>4
<1>7. merge'[n].phase = merge[n].phase /\ merge'[n].succ = merge[n].succ BY <1>5, <1>6 DEF Merges
<1>8. \A k \in Nodes \ {n} : merge'[k] = merge[k] BY <1>3, <1>4
<1>9. Driven' BY <1>1, <1>2, <1>3, <1>7, <1>8, SameRing DEF Driven
<1>. QED BY <1>3, <1>9, SameRing DEF Alone

\* mergeBlocksLocally, which gives up without the file,
LEMMA MergeLocallyAlone ==
  ASSUME Sound, Alone, fresh, NEW n \in Nodes, MergeLocally(n) PROVE Alone'
<1>1. merge[n].phase = "collect" BY DEF MergeLocally
<1>2. Driven /\ n = First BY <1>1, DriverIsFirst
<1>3. UNCHANGED <<up, view, net, scans, fresh>> BY DEF MergeLocally
<1>4. merge \in [Nodes -> Merges] /\ store \in [Nodes -> Files] BY DEF Sound, Driving, Shelf
<1>5. CASE Holds(n) /\ store' = [store EXCEPT ![n] = MergeFile(@, merge[n].blocks)]
           /\ merge' = [merge EXCEPT ![n].phase = "send", ![n].blocks = {}]
  <2>1. merge'[n] = [[merge[n] EXCEPT !.phase = "send"] EXCEPT !.blocks = {}] BY <1>4, <1>5
  <2>2. merge[n] \in Merges BY <1>4
  <2>3. merge'[n].phase = "send" /\ merge'[n].succ = merge[n].succ BY <2>1, <2>2 DEF Merges
  <2>4. \A k \in Nodes \ {n} : merge'[k] = merge[k] BY <1>4, <1>5
  <2>5. PICK f \in Files : f = store[n] BY <1>4
  <2>6. store'[n] = MergeFile(f, merge[n].blocks) BY <1>4, <1>5, <2>5
  <2>7. MergeFile(f, merge[n].blocks).exists = f.exists BY DEF MergeFile, Files
  <2>8. Holds(n)' BY <1>5, <2>5, <2>6, <2>7 DEF Holds
  <2>9. Driven' BY <1>2, <1>3, <2>3, <2>4, <2>8, SameRing DEF Driven
  <2>. QED BY <1>3, <2>9, SameRing DEF Alone
<1>6. CASE ~Holds(n) /\ merge' = [merge EXCEPT ![n] = Idle] /\ UNCHANGED store
  <2>1. merge'[n].phase = "idle" /\ \A k \in Nodes \ {n} : merge'[k] = merge[k] BY <1>4, <1>6 DEF Idle
  <2>2. NobodyMerges' BY <1>2, <2>1 DEF Driven, NobodyMerges
  <2>3. GivenUp' BY <1>2, <1>3, <1>6, <2>2, SameRing DEF Driven, GivenUp, Holds
  <2>. QED BY <1>3, <2>3, SameRing DEF Alone
<1>. QED BY <1>5, <1>6 DEF MergeLocally

\* the updates it sends to all replicas,
LEMMA MergeSendAlone ==
  ASSUME Sound, Alone, fresh, NEW n \in Nodes, MergeSend(n) PROVE Alone'
<1>1. merge[n].phase = "send" BY DEF MergeSend
<1>2. Driven /\ n = First BY <1>1, DriverIsFirst
<1>3. Holds(n) /\ net = {} /\ merge[n].succ = Replicas BY <1>1, <1>2 DEF Driven
<1>4. UNCHANGED <<up, view, store, scans, fresh>> /\ merge' = [merge EXCEPT ![n] = Idle] BY DEF MergeSend
<1>5. PICK D : D = ReadFile(store[n]) OBVIOUS
<1>6. PICK new : new = {[type |-> "merge_update", from |-> n, to |-> r, data |-> D] : r \in Replicas} OBVIOUS
<1>7. Send({}, new) BY <1>3, <1>5, <1>6 DEF MergeSend
<1>8. Replicas \subseteq Up BY UpFacts DEF Alone
<1>9. \A m \in new : m.type = "merge_update" /\ m.data = D /\ m.to \in Replicas /\ up[m.to]
  BY <1>6, <1>8 DEF Up
<1>10. net' = new BY <1>7, <1>9 DEF Send, Reachable
<1>11. \A m, k \in new : m.to = k.to => m = k BY <1>6
<1>12. \A r \in Replicas : \E m \in new : m.to = r
  <2>. TAKE r \in Replicas
  <2>1. [type |-> "merge_update", from |-> n, to |-> r, data |-> D] \in new BY <1>6
  <2>. QED BY <2>1
<1>13. Spreading(D)' BY <1>4, <1>9, <1>10, <1>11, <1>12, SameRing DEF Spreading
<1>14. merge \in [Nodes -> Merges] BY DEF Sound, Driving
<1>15. merge'[n].phase = "idle" /\ \A k \in Nodes \ {n} : merge'[k] = merge[k] BY <1>4, <1>14 DEF Idle
<1>16. NobodyMerges' BY <1>2, <1>15 DEF Driven, NobodyMerges
<1>17. Spread' BY <1>13, <1>16 DEF Spread
<1>. QED BY <1>4, <1>17, SameRing DEF Alone

\* An update in the network tells the stage.
LEMMA UpdateSpreads ==
  ASSUME Alone, fresh, NEW m \in net, m.type \in {"merge_update", "merge_recreate"}
  PROVE  Spread
BY DEF Alone, Asking, Driven, GivenUp

\* A replica deletes its file,
LEMMA RecvMergeUpdateAlone ==
  ASSUME Sound, Alone, fresh, NEW m \in net, RecvMergeUpdate(m) PROVE Alone'
<1>1. m.type = "merge_update" BY DEF RecvMergeUpdate
<1>2. NobodyMerges /\ Spread BY <1>1, UpdateSpreads DEF Spread
<1>3. PICK D : Spreading(D) BY <1>2 DEF Spread
<1>4. PICK k : k = [m EXCEPT !.type = "merge_recreate", !.from = m.to] OBVIOUS
<1>5. /\ store' = [store EXCEPT ![m.to] = NoFile] /\ net' = (net \ {m}) \cup {k}
      /\ UNCHANGED <<up, view, scans, merge, fresh>>
  BY <1>4 DEF RecvMergeUpdate
<1>6. m \in Messages BY DEF Sound, Mail, Fine
<1>7. m \in Updates /\ m.to \in Nodes BY <1>1, <1>6, Fields
<1>8. k.type = "merge_recreate" /\ k.to = m.to /\ k.data = m.data BY <1>4, <1>7 DEF Updates
<1>9. store \in [Nodes -> Files] BY DEF Sound, Shelf
<1>10. ~Holds(m.to)' /\ \A r \in Nodes \ {m.to} : store'[r] = store[r]
  BY <1>5, <1>7, <1>9, NoFileType DEF Holds
<1>11. \A j \in net' : /\ j.type \in {"merge_update", "merge_recreate"} /\ j.data = D
                       /\ j.type = "merge_recreate" => ~Holds(j.to)'
  <2>. TAKE j \in net'
  <2>1. CASE j = k BY <1>3, <1>8, <1>10, <2>1 DEF Spreading
  <2>2. CASE j # k
    <3>1. j \in net /\ j # m BY <1>5, <2>2
    <3>2. j.to # m.to BY <1>3, <3>1 DEF Spreading
    <3>3. j.to \in Nodes BY <3>1, Fields DEF Sound, Mail, Fine
    <3>. QED BY <1>3, <1>10, <3>1, <3>2, <3>3 DEF Spreading, Holds
  <2>. QED BY <2>1, <2>2
<1>12. \A i, j \in net' : i.to = j.to => i = j BY <1>3, <1>5, <1>8 DEF Spreading
<1>13. \A r \in Replicas : Has(r, D)' \/ \E j \in net' : j.to = r
  <2>. TAKE r \in Replicas
  <2>1. r \in Nodes BY UpFacts DEF Alone
  <2>2. CASE r = m.to BY <1>5, <1>8, <2>2
  <2>3. CASE r # m.to
    <3>1. CASE Has(r, D) BY <1>10, <2>1, <2>3, <3>1 DEF Has, Holds
    <3>2. CASE \E j \in net : j.to = r BY <1>5, <2>3, <3>2
    <3>. QED BY <1>3, <3>1, <3>2 DEF Spreading
  <2>. QED BY <2>2, <2>3
<1>14. Replicas' = Replicas BY <1>5, SameRing
<1>15. Spreading(D)' BY <1>11, <1>12, <1>13, <1>14 DEF Spreading
<1>16. Spread' BY <1>2, <1>5, <1>15 DEF Spread, NobodyMerges
<1>. QED BY <1>5, <1>16, SameRing DEF Alone

\* and makes it again from the merged content.
LEMMA RecreateAlone ==
  ASSUME Sound, Alone, fresh, NEW m \in net, Recreate(m) PROVE Alone'
<1>1. m.type = "merge_recreate" BY DEF Recreate
<1>2. NobodyMerges /\ Spread BY <1>1, UpdateSpreads DEF Spread
<1>3. PICK D : Spreading(D) BY <1>2 DEF Spread
<1>4. /\ store' = [store EXCEPT ![m.to] = CreateFile(@, Float64(FileHash), MergedClient, m.data)]
      /\ net' = net \ {m} /\ UNCHANGED <<up, view, scans, merge, fresh>>
  BY DEF Recreate
<1>5. m \in Messages BY DEF Sound, Mail, Fine
<1>6. m \in Updates /\ m.to \in Nodes BY <1>1, <1>5, Fields
<1>7. m.data \in Seq(Nat) /\ m.data = D /\ ~Holds(m.to) BY <1>1, <1>3, <1>6 DEF Updates, Spreading
<1>8. store \in [Nodes -> Files] /\ KeysApart(store[m.to]) BY <1>6 DEF Sound, Shelf
<1>9. PICK f \in Files : f = store[m.to] BY <1>6, <1>8
<1>10. PICK id \in Nat : id = Float64(FileHash) BY HashTypes
<1>11. MergedClient \in Clientele BY <1>6, ClientTypes
<1>12. store'[m.to] = CreateFile(f, id, MergedClient, D) BY <1>4, <1>6, <1>7, <1>8, <1>9, <1>10
<1>13. ~f.exists /\ KeysApart(f) BY <1>7, <1>8, <1>9 DEF Holds
<1>14. Has(m.to, D)' BY <1>7, <1>11, <1>12, <1>13, CreateMakes DEF Has, Holds
<1>15. \A r \in Nodes \ {m.to} : store'[r] = store[r] BY <1>4, <1>6, <1>8
<1>16. \A j \in net' : /\ j.type \in {"merge_update", "merge_recreate"} /\ j.data = D
                       /\ j.type = "merge_recreate" => ~Holds(j.to)'
  <2>. TAKE j \in net'
  <2>1. j \in net /\ j # m BY <1>4
  <2>2. j.to # m.to BY <1>3, <2>1 DEF Spreading
  <2>3. j.to \in Nodes BY <2>1, Fields DEF Sound, Mail, Fine
  <2>. QED BY <1>3, <1>15, <2>1, <2>2, <2>3 DEF Spreading, Holds
<1>17. \A i, j \in net' : i.to = j.to => i = j BY <1>3, <1>4 DEF Spreading
<1>18. \A r \in Replicas : Has(r, D)' \/ \E j \in net' : j.to = r
  <2>. TAKE r \in Replicas
  <2>1. r \in Nodes BY UpFacts DEF Alone
  <2>2. CASE r = m.to BY <1>14, <2>2
  <2>3. CASE r # m.to
    <3>1. CASE Has(r, D) BY <1>15, <2>1, <2>3, <3>1 DEF Has, Holds
    <3>2. CASE \E j \in net : j.to = r BY <1>4, <2>3, <3>2
    <3>. QED BY <1>3, <3>1, <3>2 DEF Spreading
  <2>. QED BY <2>2, <2>3
<1>19. Replicas' = Replicas BY <1>4, SameRing
<1>20. Spreading(D)' BY <1>16, <1>17, <1>18, <1>19 DEF Spreading
<1>21. Spread' BY <1>2, <1>4, <1>20 DEF Spread, NobodyMerges
<1>. QED BY <1>4, <1>21, SameRing DEF Alone

\* Every step.
LEMMA AloneStep == ASSUME "merge" \notin Overlaps, Sound, Alone, [Next]_vars PROVE Alone'
<1>1. CASE UNCHANGED vars BY <1>1 DEF vars, Alone, Asking, Driven, Spread, Spreading, GivenUp, Has, NobodyMerges,
                                   First, Replicas, TablesRight, Up, Holds
<1>2. ASSUME fresh' = FALSE PROVE Alone' BY <1>2 DEF Alone
<1>3. ASSUME NEW n \in Nodes, Create(n) \/ CLICreate(n) \/ AppendTo(n) \/ Crash(n) \/ Join(n) PROVE Alone'
  BY <1>2, <1>3 DEF Create, CLICreate, AppendTo, Crash, Join
<1>4. ASSUME ~fresh, fresh' = fresh PROVE Alone' BY <1>4 DEF Alone
<1>5. ASSUME NEW m \in net, Receive(m) PROVE Alone'
  <2>1. fresh' = fresh BY <1>5 DEF Receive, RecvReplicate, RecvAck, RecvAppend, RecvRereplicate,
                                RecvMergeRequest, RecvMergeUpdate, Recreate
  <2>2. CASE ~fresh BY <1>4, <2>1, <2>2
  <2>3. CASE fresh
    <3>1. m.type \in {"merge_request", "merge_update", "merge_recreate"}
      BY <2>3 DEF Alone, Asking, Driven, Spread, Spreading, GivenUp
    <3>2. RecvMergeRequest(m) \/ RecvMergeUpdate(m) \/ Recreate(m)
      BY <1>5, <3>1 DEF Receive, RecvReplicate, RecvAck, RecvAppend, RecvRereplicate
    <3>. QED BY <2>3, <3>2, RecvMergeRequestAlone, RecvMergeUpdateAlone, RecreateAlone
  <2>. QED BY <2>2, <2>3
<1>6. ASSUME NEW n \in Nodes, MergeLocally(n) \/ MergeSend(n) PROVE Alone'
  <2>1. fresh' = fresh BY <1>6 DEF MergeLocally, MergeSend
  <2>. QED BY <1>4, <1>6, <2>1, MergeLocallyAlone, MergeSendAlone
<1>7. ASSUME NEW n \in Nodes, NEW r \in Nodes, MergeCollect(n, r) PROVE Alone'
  <2>1. fresh' = fresh BY <1>7 DEF MergeCollect
  <2>. QED BY <1>4, <1>7, <2>1, MergeCollectAlone
<1>8. ASSUME NEW n \in Nodes, NEW gone \in SUBSET (view[n] \ Up), LearnFailed(n, gone) PROVE Alone'
  <2>1. fresh' = fresh /\ up[n] /\ gone # {} BY <1>8 DEF LearnFailed
  <2>2. ~TablesRight BY <1>8, <2>1 DEF TablesRight, Up
  <2>. QED BY <1>4, <2>1, <2>2 DEF Alone
<1>9. ASSUME NEW n \in Nodes, NEW new \in SUBSET (Up \ view[n]), LearnJoined(n, new) PROVE Alone'
  <2>1. fresh' = fresh /\ up[n] /\ new # {} BY <1>9 DEF LearnJoined
  <2>2. ~TablesRight BY <1>9, <2>1 DEF TablesRight, Up
  <2>. QED BY <1>4, <2>1, <2>2 DEF Alone
<1>10. ASSUME NEW s \in scans, Scan(s) PROVE Alone'
  <2>1. fresh' = fresh BY <1>10 DEF Scan
  <2>. QED BY <1>4, <2>1 DEF Alone
<1>11. ASSUME NEW n \in Nodes, Merge(n) PROVE Alone' BY <1>11, MergeAlone
<1>12. ASSUME NEW n \in Nodes, NEW m \in Nodes, LearnByProbe(n, m) PROVE Alone'
  <2>1. fresh' = fresh /\ up[n] BY <1>12 DEF LearnByProbe
  <2>2. \E gone \in SUBSET (view[n] \ Up), new \in SUBSET (Up \ view[n]) : gone \cup new # {} BY <1>12, ProbeDoes
  <2>3. view[n] # Up BY <2>2
  <2>4. ~TablesRight BY <2>1, <2>3 DEF TablesRight, Up
  <2>. QED BY <1>4, <2>1, <2>4 DEF Alone
<1>. QED BY <1>1, <1>3, <1>5, <1>6, <1>7, <1>8, <1>9, <1>10, <1>11, <1>12 DEF Next

\* The replicas are identical after a merge that met no other one: whatever they
\* had missed, in whatever order, and whoever asks for the merge (handleCLIMerge,
\* merge_update).
THEOREM Reconciles ==
  ASSUME "merge" \notin Overlaps PROVE Spec => []MergeReconciles
<1>1. Init => Alone BY DEF Init, Alone
<1>2. Sound /\ Alone /\ [Next]_vars => Alone' BY AloneStep
<1>3. Sound /\ Alone => MergeReconciles BY AloneImplies
<1>. QED BY <1>1, <1>2, <1>3, AlwaysSound, PTL DEF Spec

----------------------------------------------------------------------------
(* What is written stays *)

\* The first merge of a file that was created once.
Simple == merges <= 1 /\ WriteCount("create") <= 1

\* Every live replica has what it has taken in.
Here == \A e \in landed : up[e[2]] => e[1] \in Items(store[e[2]])

\* A file that does not exist has no blocks,
Bare == \A n \in Nodes : ~Holds(n) => store[n].blocks = <<>>
\* and a node that has taken something in was a member.
Known == \A e \in landed : view[e[2]] # {}

\* The write w created the file.
IsCreate(w) == w \in 1..Len(writes) /\ writes[w].kind = "create"

\* Before the first merge a block is an append, which its client names, a create,
\* or a copy somebody sent.
OfOneWrite(b) ==
  \/ b.client[2] = 3 /\ b.data = <<b.client[3]>>
  \/ b.client[2] \in {0, 1} /\ \E w \in 1..Len(writes) : IsCreate(w) /\ b.data = <<w>>
  \/ b.client[2] = 2
\* A copy is on the disk of the node it was made for, which may change hands when
\* that node is gone.
InPlace(b, y) ==
  b.client[2] = 2 =>
    /\ b.client[1] \in Nodes /\ view[b.client[1]] # {} /\ (up[b.client[1]] => y = b.client[1])
    /\ \A z \in Nodes : \A c \in GetAllBlocks(store[z]) : c.client = b.client => z = y
\* So are all blocks on the disks.
Labels == \A y \in Nodes : \A b \in GetAllBlocks(store[y]) : OfOneWrite(b) /\ InPlace(b, y)
\* The same of a message,
Labelled(m) ==
  /\ m.type = "replicate_file" => m.client[2] \in {0, 1} /\ IsCreate(m.write)
  /\ m.type = "append_file" => m.client[2] = 3 /\ m.client[3] = m.write
\* of every one that is under way.
Letters == \A m \in net : Labelled(m)

\* The stages of a merge that only crashes can meet. First there is none;
Quiet == ~MergeGoesOn /\ Here /\ (merges = 0 => Labels)
\* none of the other stages has a scan.
Busy == scans = {} /\ merges # 0
\* The client has asked the primary,
Requested ==
  Busy /\ NobodyMerges /\ Here /\ Labels /\ \E m \in net : net = {m} /\ m.type = "merge_request"
\* and node n, which answers, is the only one that merges.
DrivenBy(n) ==
  /\ Busy /\ net = {} /\ Here /\ merge[n].phase # "idle" /\ n \in merge[n].succ
  /\ \A k \in Nodes \ {n} : merge[k].phase = "idle"
\* What has been collected is on the disks, and nothing of a visited replica is missing,
Gathered(n) ==
  /\ \A b \in merge[n].blocks : \E y \in Nodes : b \in GetAllBlocks(store[y])
  /\ \A r \in merge[n].succ \ merge[n].left : up[r] => Items(store[r]) \subseteq Contents(merge[n].blocks)
\* while it visits the others.
Collecting ==
  \E n \in Nodes : DrivenBy(n) /\ merge[n].phase = "collect" /\ Labels /\ Gathered(n)
\* Then the copy of the primary has what any replica has,
Complements(n) == \A r \in merge[n].succ : up[r] => Items(store[r]) \subseteq Items(store[n])
\* while it has not sent it.
Sending == \E n \in Nodes : DrivenBy(n) /\ merge[n].phase = "send" /\ Complements(n)
\* In the end so have the updates, one per replica.
Carries(m) ==
  /\ m.type \in {"merge_update", "merge_recreate"}
  /\ \A e \in landed : e[2] = m.to => e[1] \in ToSet(m.data)
  /\ m.type = "merge_recreate" => ~Holds(m.to) /\ m.from = m.to
\* Only a replica that has deleted its file waits for what it had,
HereOrComing ==
  \A e \in landed :
    up[e[2]] => \/ e[1] \in Items(store[e[2]])
                \/ \E m \in net : m.type = "merge_recreate" /\ m.to = e[2]
\* until the last update has arrived.
Updating ==
  /\ Busy /\ NobodyMerges /\ HereOrComing
  /\ \A m \in net : Carries(m)
  /\ \A m, k \in net : m.to = k.to => m = k

\* A merge is in one of the stages;
Staged == Quiet \/ Requested \/ Collecting \/ Sending \/ Updating
\* this is what every step preserves.
Kept == merges \in Nat /\ Bare /\ Known /\ Letters /\ (Simple => Staged)

----------------------------------------------------------------------------
\* Writes are numbered in the order of their issue, and none is taken back.
Longer == Len(writes) <= Len(writes)' /\ \A w \in 1..Len(writes) : writes'[w] = writes[w]

\* A step appends a write or leaves them.
LEMMA LongerStep ==
  ASSUME Records, UNCHANGED writes \/ \E x : writes' = Append(writes, x)
  PROVE  Longer /\ \A w : IsCreate(w) => IsCreate(w)'
<1>1. Len(writes) \in Nat /\ writes \in Seq([by : Nodes, kind : {"create", "append"}]) BY DEF Records
<1>2. CASE UNCHANGED writes BY <1>1, <1>2 DEF Longer, IsCreate
<1>3. CASE \E x : writes' = Append(writes, x)
  <2>1. PICK x : writes' = Append(writes, x) BY <1>3
  <2>2. Len(writes') = Len(writes) + 1 /\ \A w \in 1..Len(writes) : writes'[w] = writes[w] BY <1>1, <2>1
  <2>. QED BY <1>1, <2>2 DEF Longer, IsCreate
<1>. QED BY <1>2, <1>3

\* So what is simple now was simple before.
LEMMA SimpleBefore ==
  ASSUME Records, Longer, Len(writes') \in Nat, merges \in Nat, merges' \in Nat, merges <= merges', Simple'
  PROVE  Simple
<1>. DEFINE S == {w \in 1..Len(writes) : writes[w].kind = "create"}
            T == {w \in 1..Len(writes') : writes'[w].kind = "create"}
<1>1. Len(writes) \in Nat BY DEF Records
<1>2. S \subseteq T BY <1>1 DEF Longer
<1>3. IsFiniteSet(1..Len(writes')) BY FS_Interval
<1>4. IsFiniteSet(T) BY <1>3, FS_Subset
<1>5. Cardinality(S) <= Cardinality(T) /\ IsFiniteSet(S) BY <1>2, <1>4, FS_Subset
<1>6. Cardinality(S) \in Nat /\ Cardinality(T) \in Nat BY <1>4, <1>5, FS_CardinalityType
<1>7. Cardinality(S) = WriteCount("create") /\ Cardinality(T) = WriteCount("create")' BY DEF WriteCount
<1>. HIDE DEF S, T
<1>. QED BY <1>5, <1>6, <1>7 DEF Simple

\* There is one create.
LEMMA OneCreate ==
  ASSUME Records, Simple, NEW v, IsCreate(v), NEW w, IsCreate(w) PROVE v = w
<1>. DEFINE S == {u \in 1..Len(writes) : writes[u].kind = "create"}
<1>. SUFFICES ASSUME v # w PROVE FALSE OBVIOUS
<1>1. Len(writes) \in Nat BY DEF Records
<1>2. IsFiniteSet(S)
  <2>1. IsFiniteSet(1..Len(writes)) BY <1>1, FS_Interval
  <2>. QED BY <2>1, FS_Subset
<1>3. v \in S /\ w \in S BY DEF IsCreate
<1>4. Cardinality(S) = WriteCount("create") BY DEF WriteCount
<1>. HIDE DEF S
<1>5. IsFiniteSet({v}) /\ Cardinality({v}) = 1 BY FS_Singleton
<1>6. IsFiniteSet({v} \cup {w}) /\ Cardinality({v} \cup {w}) = 2 BY <1>5, FS_AddElement
<1>7. {v} \cup {w} \subseteq S BY <1>3
<1>8. Cardinality({v} \cup {w}) <= Cardinality(S) BY <1>2, <1>7, FS_Subset
<1>9. WriteCount("create") <= 1 BY DEF Simple
<1>10. Cardinality(S) \in Nat BY <1>2, FS_CardinalityType
<1>. QED BY <1>4, <1>6, <1>8, <1>9, <1>10

\* Blocks with one key, on whatever nodes, are one block.
LEMMA Agree ==
  ASSUME Sound, Simple, Labels, NEW y \in Nodes, NEW z \in Nodes,
         NEW b \in GetAllBlocks(store[y]), NEW c \in GetAllBlocks(store[z]), Key(b) = Key(c)
  PROVE  b = c
<1>1. b.client = c.client /\ b.seq = c.seq BY DEF Key
<1>2. OfOneWrite(b) /\ OfOneWrite(c) /\ InPlace(b, y) BY DEF Labels
<1>3. CASE b.client[2] = 2
  <2>1. z = y BY <1>1, <1>2, <1>3 DEF InPlace
  <2>2. PICK f \in Files : f = store[y] /\ KeysApart(f) BY DEF Sound, Shelf
  <2>3. KeysDiffer(GetAllBlocks(f)) BY <2>2, BlocksOf
  <2>. QED BY <2>1, <2>2, <2>3 DEF KeysDiffer
<1>4. CASE b.client[2] # 2
  <2>1. b.data = c.data
    <3>1. CASE b.client[2] = 3 BY <1>1, <1>2, <3>1 DEF OfOneWrite
    <3>2. CASE b.client[2] # 3
      <4>1. PICK v : IsCreate(v) /\ b.data = <<v>> BY <1>2, <1>4, <3>2 DEF OfOneWrite
      <4>2. PICK w : IsCreate(w) /\ c.data = <<w>> BY <1>1, <1>2, <1>4, <3>2 DEF OfOneWrite
      <4>3. v = w BY <4>1, <4>2, OneCreate DEF Sound
      <4>. QED BY <4>1, <4>2, <4>3
    <3>. QED BY <3>1, <3>2
  <2>2. b \in Blocks /\ c \in Blocks
    <3>1. PICK f \in Files : f = store[y] /\ KeysApart(f) BY DEF Sound, Shelf
    <3>2. PICK g \in Files : g = store[z] /\ KeysApart(g) BY DEF Sound, Shelf
    <3>. QED BY <3>1, <3>2, BlocksOf
  <2>. QED BY <1>1, <2>1, <2>2 DEF Blocks
<1>. QED BY <1>3, <1>4

\* g has one block more than f.
OneBlockMore(f, g, client, data) ==
  GetAllBlocks(g) = GetAllBlocks(f) \cup {[client |-> client, seq |-> NextSequence(f, client), data |-> data]}

\* The blocks of a new file,
LEMMA CreateBlocks ==
  ASSUME NEW f \in Files, ~f.exists, f.blocks = <<>>, NEW id \in Nat, NEW client \in Clientele,
         NEW data \in Seq(Nat)
  PROVE  LET g == CreateFile(f, id, client, data) IN
         /\ g \in Files /\ g.exists /\ Items(f) = {} /\ GetAllBlocks(f) = {}
         /\ GetAllBlocks(g) = {[client |-> client, seq |-> 1, data |-> data]} /\ Items(g) = ToSet(data)
<1>. DEFINE b == [client |-> client, seq |-> 1, data |-> data]
<1>1. b \in Blocks /\ b.data = data BY DEF Blocks, Clientele
<1>2. CreateFile(f, id, client, data) = File(id, <<b>>, TRUE) BY DEF CreateFile, NewFile, File
<1>. HIDE DEF b
<1>3. /\ File(id, <<b>>, TRUE) \in Files /\ File(id, <<b>>, TRUE).exists
      /\ ReadFile(File(id, <<b>>, TRUE)) = b.data
  BY <1>1, OneBlock
<1>4. File(id, <<b>>, TRUE).blocks = <<b>> BY DEF File
<1>5. GetAllBlocks(File(id, <<b>>, TRUE)) = {b}
  <2>1. DOMAIN <<b>> = {1} /\ <<b>>[1] = b OBVIOUS
  <2>2. ToSet(<<b>>) = {b} BY <2>1 DEF ToSet
  <2>. QED BY <1>4, <2>2 DEF GetAllBlocks
<1>6. GetAllBlocks(f) = {} BY DEF GetAllBlocks, ToSet
<1>7. Items(f) = {}
  <2>1. Items(f) = UNION {ToSet(f.blocks[i].data) : i \in 1..Len(f.blocks)} BY ReadItems
  <2>2. 1..Len(f.blocks) = {} OBVIOUS
  <2>. QED BY <2>1, <2>2
<1>. QED BY <1>1, <1>2, <1>3, <1>5, <1>6, <1>7 DEF Items, b

\* and of one that is appended to.
LEMMA AppendBlocks ==
  ASSUME NEW f \in Files, KeysApart(f), NEW client \in Clientele, NEW data \in Seq(Nat),
         NEW g, g = AppendFile(f, client, data)
  PROVE  /\ g \in Files /\ g.exists /\ Items(g) = Items(f) \cup ToSet(data)
         /\ OneBlockMore(f, g, client, data)
<1>2. g \in Files /\ g.exists /\ Items(g) = Items(f) \cup ToSet(data) BY AppendAdds
<1>3. PICK s : s = NextSequence(f, client) OBVIOUS
<1>4. PICK b : b = [client |-> client, seq |-> s, data |-> data] OBVIOUS
<1>5. f.blocks \in Seq(Blocks) BY FileBlocks
<1>6. g.blocks = Append(f.blocks, b)
  <2>1. PICK h : h = [f EXCEPT !.exists = TRUE] OBVIOUS
  <2>2. h.blocks = f.blocks /\ h \in Files BY <2>1 DEF Files
  <2>3. g = [h EXCEPT !.blocks = Append(f.blocks, b)] BY <1>3, <1>4, <2>1, <2>2 DEF AppendFile
  <2>. QED BY <2>2, <2>3 DEF Files
<1>7. ToSet(Append(f.blocks, b)) = ToSet(f.blocks) \cup {b}
  <2>1. Len(f.blocks) \in Nat BY <1>5
  <2>2. /\ Len(Append(f.blocks, b)) = Len(f.blocks) + 1 /\ Append(f.blocks, b)[Len(f.blocks) + 1] = b
        /\ \A i \in 1..Len(f.blocks) : Append(f.blocks, b)[i] = f.blocks[i]
    BY <1>5
  <2>3. PICK s1 : s1 = Append(f.blocks, b) OBVIOUS
  <2>4. s1 \in Seq(Blocks \cup {b}) BY <1>5, <2>3
  <2>5. DOMAIN s1 = 1..(Len(f.blocks) + 1) /\ DOMAIN f.blocks = 1..Len(f.blocks) BY <1>5, <2>2, <2>3, <2>4
  <2>6. 1..(Len(f.blocks) + 1) = 1..Len(f.blocks) \cup {Len(f.blocks) + 1} BY <2>1
  <2>7. ToSet(s1) \subseteq ToSet(f.blocks) \cup {b} BY <2>1, <2>2, <2>3, <2>5, <2>6 DEF ToSet
  <2>8. b \in ToSet(s1) BY <2>1, <2>2, <2>3, <2>5 DEF ToSet
  <2>9. ToSet(f.blocks) \subseteq ToSet(s1)
    <3>1. ASSUME NEW i \in 1..Len(f.blocks) PROVE f.blocks[i] \in ToSet(s1)
      <4>1. i \in DOMAIN s1 /\ s1[i] = f.blocks[i] BY <2>1, <2>2, <2>3, <2>5, <3>1
      <4>. QED BY <4>1 DEF ToSet
    <3>. QED BY <2>5, <3>1 DEF ToSet
  <2>. QED BY <2>3, <2>7, <2>8, <2>9
<1>. QED BY <1>2, <1>3, <1>4, <1>6, <1>7 DEF GetAllBlocks, OneBlockMore

\* One element.
LEMMA OneItem == ASSUME NEW w \in Nat PROVE <<w>> \in Seq(Nat) /\ ToSet(<<w>>) = {w}
BY DEF ToSet

----------------------------------------------------------------------------
(* While no merge goes on *)

\* When no merge goes on, its stages are over,
LEMMA NotBusy == ASSUME Staged, ~MergeGoesOn PROVE Quiet
<1>1. CASE Quiet BY <1>1
<1>2. CASE Requested BY <1>2 DEF Requested, MergeGoesOn, MergeTypes
<1>3. CASE Collecting \/ Sending BY <1>3 DEF Collecting, Sending, DrivenBy, MergeGoesOn
<1>4. CASE Updating
  <2>1. net = {} BY <1>4 DEF Updating, Carries, MergeGoesOn, MergeTypes
  <2>. QED BY <1>4, <2>1 DEF Updating, HereOrComing, Quiet, Here, Busy
<1>. QED BY <1>1, <1>2, <1>3, <1>4 DEF Staged

\* and so they are when other messages or scans are under way.
LEMMA OnlyQuiet ==
  ASSUME Staged, scans # {} \/ \E m \in net : m.type \notin MergeTypes PROVE Quiet
BY DEF Staged, Requested, Collecting, Sending, DrivenBy, Updating, Carries, Busy, MergeTypes

\* No merge begins.
NoMerge == UNCHANGED <<merge, merges>> /\ \A m \in net' : m \in net \/ m.type \notin MergeTypes

\* What a step must show when it is quiet.
LEMMA QuietStays ==
  ASSUME Quiet, NoMerge, Here', merges = 0 => Labels' PROVE Quiet'
BY DEF Quiet, NoMerge, MergeGoesOn

\* A quiet step that leaves blocks and processes alone.
LEMMA QuietSame ==
  ASSUME Records, Quiet, NoMerge, UNCHANGED <<up, store, landed>>,
         UNCHANGED writes \/ \E x : writes' = Append(writes, x),
         \A n \in Nodes : view[n] # {} => view'[n] # {}
  PROVE  Quiet'
<1>1. \A w : IsCreate(w) => IsCreate(w)' BY LongerStep
<1>2. Here' BY DEF Quiet, Here
<1>3. ASSUME merges = 0 PROVE Labels'
  <2>1. Labels BY <1>3 DEF Quiet
  <2>2. ASSUME NEW y \in Nodes, NEW b \in GetAllBlocks(store[y]) PROVE OfOneWrite(b)' /\ InPlace(b, y)'
    <3>1. OfOneWrite(b) /\ InPlace(b, y) BY <2>1 DEF Labels
    <3>2. OfOneWrite(b)' BY <1>1, <3>1 DEF OfOneWrite, IsCreate
    <3>3. InPlace(b, y)' BY <3>1 DEF InPlace
    <3>. QED BY <3>2, <3>3
  <2>. QED BY <2>2 DEF Labels
<1>. QED BY <1>2, <1>3, QuietStays

\* A quiet step in which node n gets at most the block b, and takes in w.
LEMMA Filing ==
  ASSUME Sound, Quiet, NoMerge,
         UNCHANGED writes \/ \E x : writes' = Append(writes, x),
         NEW n \in Nodes, up[n], NEW g \in Files, NEW b, NEW w, g.exists,
         GetAllBlocks(g) \subseteq GetAllBlocks(store[n]) \cup {b}, Items(store[n]) \subseteq Items(g),
         landed' \subseteq landed \cup {<<w, n>>}, w \in Items(g) \/ landed' \subseteq landed,
         OfOneWrite(b)', b.client[2] = 2 => b.client[1] = n /\ GetAllBlocks(store[n]) = {},
         store' = [store EXCEPT ![n] = g], UNCHANGED <<up, view>>
  PROVE  Quiet'
<1>1. store'[n] = g /\ \A z \in Nodes \ {n} : store'[z] = store[z] BY DEF Sound, Shelf
<1>2. \A v : IsCreate(v) => IsCreate(v)' BY LongerStep DEF Sound
<1>4. Here'
  <2>1. ASSUME NEW e \in landed', up'[e[2]] PROVE e[1] \in Items(store'[e[2]])
    <3>1. CASE e \in landed
      <4>1. e[2] \in Nodes BY <3>1 DEF Sound, Records
      <4>2. e[1] \in Items(store[e[2]]) BY <2>1, <3>1 DEF Quiet, Here
      <4>. QED BY <1>1, <4>1, <4>2
    <3>2. CASE e \notin landed
      <4>1. e = <<w, n>> /\ w \in Items(g) BY <3>2
      <4>. QED BY <1>1, <4>1
    <3>. QED BY <3>1, <3>2
  <2>. QED BY <2>1 DEF Here
<1>5. ASSUME merges = 0 PROVE Labels'
  <2>1. Labels BY <1>5 DEF Quiet
  <2>2. ASSUME NEW y \in Nodes, NEW c \in GetAllBlocks(store'[y]) PROVE OfOneWrite(c)' /\ InPlace(c, y)'
    <3>1. CASE c \in GetAllBlocks(store[y]) /\ ~(y = n /\ c = b)
      <4>1. OfOneWrite(c) /\ InPlace(c, y) BY <2>1, <3>1 DEF Labels
      <4>2. OfOneWrite(c)' BY <1>2, <4>1 DEF OfOneWrite, IsCreate
      <4>3. ASSUME c.client[2] = 2, NEW z \in Nodes, NEW d \in GetAllBlocks(store'[z]), d.client = c.client
            PROVE  z = y
        <5>1. CASE d \in GetAllBlocks(store[z]) BY <4>1, <4>3, <5>1 DEF InPlace
        <5>2. CASE d \notin GetAllBlocks(store[z])
          <6>1. z = n /\ d = b BY <1>1, <4>3, <5>2
          <6>2. c.client[1] = n /\ GetAllBlocks(store[n]) = {} BY <4>3, <6>1
          <6>. QED BY <3>1, <4>1, <4>3, <6>1, <6>2 DEF InPlace
        <5>. QED BY <5>1, <5>2
      <4>4. InPlace(c, y)' BY <4>1, <4>3 DEF InPlace
      <4>. QED BY <4>2, <4>4
    <3>2. CASE y = n /\ c = b
      <4>1. ASSUME b.client[2] = 2
            PROVE  /\ b.client[1] \in Nodes /\ view'[b.client[1]] # {} /\ n = b.client[1]
                   /\ \A z \in Nodes : \A d \in GetAllBlocks(store'[z]) : d.client = b.client => z = n
        <5>1. b.client[1] = n /\ GetAllBlocks(store[n]) = {} BY <4>1
        <5>2. n \in view[n] BY DEF Sound, Tables
        <5>3. ASSUME NEW z \in Nodes, NEW d \in GetAllBlocks(store'[z]), d.client = b.client, z # n PROVE FALSE
          <6>1. d \in GetAllBlocks(store[z]) BY <1>1, <5>3
          <6>2. InPlace(d, z) BY <2>1, <6>1 DEF Labels
          <6>. QED BY <4>1, <5>1, <5>3, <6>2 DEF InPlace
        <5>. QED BY <5>1, <5>2, <5>3
      <4>2. InPlace(b, n)' BY <4>1 DEF InPlace
      <4>. QED BY <3>2, <4>2
    <3>. QED BY <1>1, <3>1, <3>2
  <2>. QED BY <2>2 DEF Labels
<1>. QED BY <1>4, <1>5, QuietStays

\* The writes of a step: at most one more.
MoreWrites == UNCHANGED writes \/ \E n \in Nodes : \E kind \in {"create", "append"} :
                                     writes' = Append(writes, [by |-> n, kind |-> kind])

\* A simple history was simple before.
LEMMA WasStaged ==
  ASSUME Sound, Kept, MoreWrites, merges' = merges \/ merges' = merges + 1, Simple'
  PROVE  Simple /\ Staged
<1>1. Records /\ merges \in Nat BY DEF Sound, Kept
<1>2. Longer BY <1>1, LongerStep DEF MoreWrites
<1>3. Len(writes') \in Nat
  <2>1. CASE UNCHANGED writes BY <1>1, <2>1 DEF Records
  <2>2. CASE ~UNCHANGED writes
    <3>1. writes' \in Seq([by : Nodes, kind : {"create", "append"}]) BY <1>1, <2>2, AppendWrite DEF MoreWrites
    <3>. QED BY <3>1
  <2>. QED BY <2>1, <2>2
<1>4. merges' \in Nat /\ merges <= merges' BY <1>1
<1>5. Simple BY <1>1, <1>2, <1>3, <1>4, SimpleBefore
<1>. QED BY <1>5 DEF Kept

\* Messages that are no part of a merge.
LEMMA Sent ==
  ASSUME Sound, Letters, MoreWrites, UNCHANGED <<merge, merges>>, NEW rest, rest \subseteq net,
         NEW new, Send(rest, new), \A m \in new : m.type \notin MergeTypes /\ Labelled(m)'
  PROVE  NoMerge /\ Letters'
<1>1. \A w : IsCreate(w) => IsCreate(w)' BY LongerStep DEF Sound, MoreWrites
<1>2. \A m \in net' : m \in net \/ m \in new BY DEF Send, Reachable
<1>3. ASSUME NEW m \in net PROVE Labelled(m)' BY <1>1 DEF Letters, Labelled
<1>. QED BY <1>2, <1>3 DEF NoMerge, Letters

\* A node that has the file has it with blocks or without.
LEMMA BareStep ==
  ASSUME Sound, Bare, NEW n \in Nodes, NEW g, g.exists \/ g.blocks = <<>>, store' = [store EXCEPT ![n] = g]
  PROVE  Bare'
BY DEF Sound, Shelf, Bare, Holds

\* Live nodes have a table.
LEMMA KnownStep ==
  ASSUME Sound, Known, NEW n \in Nodes, up[n], NEW w, landed' \subseteq landed \cup {<<w, n>>},
         UNCHANGED view
  PROVE  Known'
<1>1. n \in view[n] BY DEF Sound, Tables
<1>. QED BY <1>1 DEF Known

\* A quiet step that takes nothing in,
LEMMA TakeNothing ==
  ASSUME Sound, Kept, MoreWrites, NoMerge, Letters', UNCHANGED <<up, store, landed>>,
         \A n \in Nodes : view[n] # {} => view'[n] # {}, Staged => Quiet
  PROVE  Kept'
<1>1. merges' = merges /\ merges' \in Nat BY DEF Kept, NoMerge
<1>2. Bare' BY DEF Kept, Bare, Holds
<1>3. Known'
  <2>1. \A e \in landed : e[2] \in Nodes /\ view[e[2]] # {} BY DEF Sound, Records, Kept, Known
  <2>. QED BY <2>1 DEF Known
<1>4. ASSUME Simple' PROVE Staged'
  <2>1. Quiet BY <1>1, <1>4, WasStaged
  <2>2. Quiet' BY <2>1, QuietSame DEF Sound, MoreWrites
  <2>. QED BY <2>2 DEF Staged
<1>. QED BY <1>1, <1>2, <1>3, <1>4 DEF Kept

\* one that makes a file of the one block b,
LEMMA TakeFile ==
  ASSUME Sound, Kept, MoreWrites, NoMerge, Letters', Staged => Quiet, UNCHANGED <<up, view>>,
         NEW n \in Nodes, up[n], ~Holds(n), NEW id \in Nat, NEW client \in Clientele, NEW data \in Seq(Nat),
         store' = [store EXCEPT ![n] = CreateFile(@, id, client, data)], NEW w,
         landed' \subseteq landed \cup {<<w, n>>}, w \in ToSet(data) \/ landed' \subseteq landed,
         \/ client[2] = 2 /\ client[1] = n
         \/ client[2] \in {0, 1} /\ IsCreate(w)' /\ data = <<w>>
  PROVE  Kept'
<1>1. PICK f \in Files : f = store[n] BY DEF Sound, Shelf
<1>2. PICK g : g = CreateFile(f, id, client, data) OBVIOUS
<1>3. store' = [store EXCEPT ![n] = g] BY <1>1, <1>2
<1>4. ~f.exists /\ f.blocks = <<>> BY <1>1 DEF Kept, Bare, Holds
<1>5. PICK b : b = [client |-> client, seq |-> 1, data |-> data] OBVIOUS
<1>6. /\ g \in Files /\ g.exists /\ Items(f) = {} /\ GetAllBlocks(f) = {}
      /\ GetAllBlocks(g) = {b} /\ Items(g) = ToSet(data)
  BY <1>2, <1>4, <1>5, CreateBlocks
<1>7. merges' = merges /\ merges' \in Nat BY DEF Kept, NoMerge
<1>8. Bare' BY <1>3, <1>6, BareStep DEF Kept
<1>9. Known' BY KnownStep DEF Kept
<1>10. b.client = client /\ b.data = data BY <1>5
<1>11. OfOneWrite(b)' BY <1>10 DEF OfOneWrite, IsCreate
<1>12. b.client[2] = 2 => b.client[1] = n /\ GetAllBlocks(f) = {} BY <1>6, <1>10
<1>13. ASSUME Simple' PROVE Staged'
  <2>1. Quiet BY <1>7, <1>13, WasStaged
  <2>2. /\ GetAllBlocks(g) \subseteq GetAllBlocks(store[n]) \cup {b} /\ Items(store[n]) \subseteq Items(g)
        /\ w \in Items(g) \/ landed' \subseteq landed
        /\ b.client[2] = 2 => b.client[1] = n /\ GetAllBlocks(store[n]) = {}
    BY <1>1, <1>6, <1>12
  <2>3. UNCHANGED writes \/ \E x : writes' = Append(writes, x) BY DEF MoreWrites
  <2>4. Quiet' BY <1>3, <1>6, <1>11, <2>1, <2>2, <2>3, Filing
  <2>. QED BY <2>4 DEF Staged
<1>. QED BY <1>7, <1>8, <1>9, <1>13 DEF Kept

----------------------------------------------------------------------------
(* The steps outside a merge *)

\* A new write that is a create.
LEMMA NewWrite ==
  ASSUME Sound, NEW n \in Nodes, NEW kind \in {"create", "append"}, NEW w, w = Len(writes) + 1,
         writes' = Append(writes, [by |-> n, kind |-> kind])
  PROVE  w \in Nat /\ MoreWrites /\ (kind = "create" => IsCreate(w)')
<1>1. writes \in Seq([by : Nodes, kind : {"create", "append"}]) /\ Len(writes) \in Nat BY DEF Sound, Records
<1>2. Len(writes') = w /\ writes'[w] = [by |-> n, kind |-> kind] BY <1>1
<1>3. w \in 1..w /\ w \in Nat BY <1>1
<1>. QED BY <1>2, <1>3 DEF MoreWrites, IsCreate

\* A replicate_file of it.
LEMMA ReplicateLabelled ==
  ASSUME NEW from, NEW succ, NEW k, NEW next, NEW ack, NEW w, NEW client,
         client[2] \in {0, 1}, IsCreate(w)', NEW m, m = Replicate(from, succ, k, next, ack, w, client)
  PROVE  m.type = "replicate_file" /\ m.type \notin MergeTypes /\ Labelled(m)'
<1>1. m.type = "replicate_file" /\ m.client = client /\ m.write = w BY DEF Replicate
<1>. QED BY <1>1 DEF Labelled, MergeTypes, IsCreate

\* What clients are called.
LEMMA ClientKinds ==
  ASSUME NEW n, NEW w
  PROVE  /\ CreateClient(n)[2] = 1 /\ NoClient[2] = 0 /\ RereplicateClient(n)[2] = 2
         /\ RereplicateClient(n)[1] = n /\ AppendClient(n, w)[2] = 3 /\ AppendClient(n, w)[3] = w
BY DEF CreateClient, NoClient, RereplicateClient, AppendClient

\* create, from a client,
LEMMA CreateKept ==
  ASSUME Overlaps \subseteq {"crash"}, Sound, Kept, NEW n \in Nodes, Create(n) PROVE Kept'
<1>1. PICK succ : succ = GetSuccessors(FileHash, view[n], NumReplicas) OBVIOUS
<1>2. PICK w : w = Len(writes) + 1 OBVIOUS
<1>3. PICK client \in Clientele : client = CreateClient(n) BY ClientTypes
<1>4. up[n] /\ ~MergeGoesOn BY DEF Create, During
<1>5. /\ writes' = Append(writes, [by |-> n, kind |-> "create"])
      /\ UNCHANGED <<up, view, scans, merge, merges>>
  BY DEF Create
<1>6. w \in Nat /\ MoreWrites /\ IsCreate(w)' BY <1>2, <1>5, NewWrite
<1>7. client[2] = 1 BY <1>3, ClientKinds
<1>8. Staged => Quiet BY <1>4, NotBusy
<1>9. PICK rest : rest = net OBVIOUS
<1>10. CASE /\ ~Holds(n) /\ store' = [store EXCEPT ![n] = CreateFile(@, FileHash, client, <<w>>)]
            /\ landed' = landed \cup {<<w, n>>}
            /\ Send(net, IF Len(succ) > 1 THEN {Replicate(n, succ, 2, Len(succ) > 2, n, w, client)} ELSE {})
  <2>1. PICK new : new = IF Len(succ) > 1 THEN {Replicate(n, succ, 2, Len(succ) > 2, n, w, client)} ELSE {}
    OBVIOUS
  <2>2. \A m \in new : m.type \notin MergeTypes /\ Labelled(m)' BY <1>6, <1>7, <2>1, ReplicateLabelled
  <2>3. rest \subseteq net /\ Send(rest, new) BY <1>9, <1>10, <2>1
  <2>4. NoMerge /\ Letters' BY <1>5, <1>6, <2>2, <2>3, Sent DEF Kept
  <2>5. FileHash \in Nat /\ <<w>> \in Seq(Nat) /\ w \in ToSet(<<w>>) BY <1>6, HashTypes, OneItem
  <2>6. landed' \subseteq landed \cup {<<w, n>>} BY <1>10
  <2>7. PICK data \in Seq(Nat) : data = <<w>> BY <2>5
  <2>8. store' = [store EXCEPT ![n] = CreateFile(@, FileHash, client, data)] /\ w \in ToSet(data) BY <1>10, <2>5, <2>7
  <2>9. client[2] \in {0, 1} /\ IsCreate(w)' /\ data = <<w>> BY <1>6, <1>7, <2>7
  <2>10. PICK id \in Nat : id = FileHash BY <2>5
  <2>11. store' = [store EXCEPT ![n] = CreateFile(@, id, client, data)] BY <2>8, <2>10
  <2>12. up[n] /\ ~Holds(n) /\ UNCHANGED <<up, view>> BY <1>4, <1>5, <1>10
  <2>. QED BY <1>6, <1>8, <2>4, <2>6, <2>8, <2>9, <2>11, <2>12, TakeFile, ZenonT(60)
<1>11. CASE /\ UNCHANGED <<store, landed>>
            /\ Send(net, {Replicate(n, succ, 1, Len(succ) > 1, n, w, client)})
  <2>1. PICK new : new = {Replicate(n, succ, 1, Len(succ) > 1, n, w, client)} OBVIOUS
  <2>2. \A m \in new : m.type \notin MergeTypes /\ Labelled(m)' BY <1>6, <1>7, <2>1, ReplicateLabelled
  <2>3. rest \subseteq net /\ Send(rest, new) BY <1>9, <1>11, <2>1
  <2>4. NoMerge /\ Letters' BY <1>5, <1>6, <2>2, <2>3, Sent DEF Kept
  <2>. QED BY <1>5, <1>6, <1>8, <1>11, <2>4, TakeNothing
<1>. QED BY <1>1, <1>2, <1>3, <1>10, <1>11 DEF Create

\* and at the command line.
LEMMA CLICreateKept ==
  ASSUME Overlaps \subseteq {"crash"}, Sound, Kept, NEW n \in Nodes, CLICreate(n) PROVE Kept'
<1>1. PICK succ : succ = Successors(FileHash, view[n], NumReplicas) OBVIOUS
<1>2. PICK w : w = Len(writes) + 1 OBVIOUS
<1>3. PICK client : client = NoClient OBVIOUS
<1>4. ~MergeGoesOn BY DEF CLICreate, During
<1>5. /\ writes' = Append(writes, [by |-> n, kind |-> "create"])
      /\ UNCHANGED <<up, view, store, landed, merge, merges>>
  BY DEF CLICreate
<1>6. w \in Nat /\ MoreWrites /\ IsCreate(w)' BY <1>2, <1>5, NewWrite
<1>7. client[2] = 0 BY <1>3, ClientKinds
<1>8. Staged => Quiet BY <1>4, NotBusy
<1>9. PICK rest : rest = net OBVIOUS
<1>10. PICK new : new = {Replicate(n, <<r>>, 1, FALSE, 0, w, client) : r \in succ \ {n}} OBVIOUS
<1>11. ASSUME NEW m \in new PROVE m.type \notin MergeTypes /\ Labelled(m)'
  <2>1. PICK r \in succ : m = Replicate(n, <<r>>, 1, FALSE, 0, w, client) BY <1>10
  <2>2. PICK one, next : one = <<r>> /\ next = FALSE OBVIOUS
  <2>3. m = Replicate(n, one, 1, next, 0, w, client) /\ client[2] \in {0, 1} BY <1>7, <2>1, <2>2
  <2>. QED BY <1>6, <2>3, ReplicateLabelled
<1>12. rest \subseteq net /\ Send(rest, new) BY <1>1, <1>2, <1>3, <1>9, <1>10 DEF CLICreate
<1>13. NoMerge /\ Letters' BY <1>5, <1>6, <1>11, <1>12, Sent DEF Kept
<1>. QED BY <1>5, <1>6, <1>8, <1>13, TakeNothing

\* The other messages.
LEMMA CallLabelled ==
  ASSUME NEW from, NEW to, NEW m, m = [type |-> "replication_ack", from |-> from, to |-> to]
  PROVE  m.type \notin MergeTypes /\ Labelled(m)'
BY DEF Labelled, MergeTypes

\* What a message that is no part of a merge tells.
LEMMA Addressed ==
  ASSUME Sound, NEW m \in net
  PROVE  /\ m \in Messages /\ m.to \in Nodes /\ up[m.to]
         /\ m.type \notin MergeTypes /\ Staged => Quiet
<1>1. m \in Messages /\ up[m.to] BY DEF Sound, Mail, Fine
<1>. QED BY <1>1, Fields, OnlyQuiet

\* A replicate_file is stored and passed on,
LEMMA RecvReplicateKept == ASSUME Sound, Kept, NEW m \in net, RecvReplicate(m) PROVE Kept'
<1>1. m.type = "replicate_file" /\ UNCHANGED <<up, view, merge, writes, merges>> BY DEF RecvReplicate
<1>2. m \in Messages /\ m.to \in Nodes /\ up[m.to] /\ (Staged => Quiet) BY <1>1, Addressed DEF MergeTypes
<1>3. m \in Replications BY <1>1, <1>2, Fields
<1>4. PICK n \in Nodes, w \in Nat, client \in Clientele : n = m.to /\ w = m.write /\ client = m.client
  BY <1>2, <1>3 DEF Replications
<1>5. client[2] \in {0, 1} /\ IsCreate(w) BY <1>1, <1>4 DEF Kept, Letters, Labelled
<1>6. IsCreate(w)' BY <1>1, <1>5 DEF IsCreate
<1>7. MoreWrites BY <1>1 DEF MoreWrites
<1>8. PICK rest : rest = net \ {m} OBVIOUS
<1>9. rest \subseteq net BY <1>8
<1>10. CASE Holds(n) /\ Send(net \ {m}, {}) /\ UNCHANGED <<store, landed>>
  <2>1. PICK new : new = {} OBVIOUS
  <2>2. Send(rest, new) /\ \A x \in new : x.type \notin MergeTypes /\ Labelled(x)' BY <1>8, <1>10, <2>1
  <2>3. NoMerge /\ Letters' BY <1>1, <1>7, <1>9, <2>2, Sent DEF Kept
  <2>. QED BY <1>1, <1>2, <1>7, <1>10, <2>3, TakeNothing
<1>11. CASE ~Holds(n)
  <2>1. PICK k, next : k = m.index + 1 /\ next = (k < Len(m.succ) /\ m.succ[k + 1] \in view[n]) OBVIOUS
  <2>2. PICK forward : forward = IF ~IsLast(m) /\ m.next
                                 THEN {Replicate(n, m.succ, k, next, n, w, client)} ELSE {}
    OBVIOUS
  <2>3. PICK answer : answer = IF AckAfterStore(m)
                               THEN {[type |-> "replication_ack", from |-> n, to |-> m.ack]} ELSE {}
    OBVIOUS
  <2>4. /\ store' = [store EXCEPT ![n] = CreateFile(@, Float64(FileHash), client, <<w>>)]
        /\ landed' = landed \cup {<<w, n>>} /\ Send(net \ {m}, forward \cup answer)
    BY <1>4, <1>11, <2>1, <2>2, <2>3 DEF RecvReplicate
  <2>5. PICK new : new = forward \cup answer OBVIOUS
  <2>6. ASSUME NEW x \in new PROVE x.type \notin MergeTypes /\ Labelled(x)'
    <3>1. CASE x \in forward
      <4>1. x = Replicate(n, m.succ, k, next, n, w, client) BY <2>2, <3>1
      <4>. QED BY <1>5, <1>6, <4>1, ReplicateLabelled
    <3>2. CASE x \in answer
      <4>1. x = [type |-> "replication_ack", from |-> n, to |-> m.ack] BY <2>3, <3>2
      <4>. QED BY <4>1, CallLabelled
    <3>. QED BY <2>5, <3>1, <3>2
  <2>7. NoMerge /\ Letters' BY <1>1, <1>7, <1>8, <1>9, <2>4, <2>5, <2>6, Sent DEF Kept
  <2>8. PICK data \in Seq(Nat) : data = <<w>> /\ w \in ToSet(data) BY OneItem
  <2>9. PICK id \in Nat : id = Float64(FileHash) BY HashTypes
  <2>10. store' = [store EXCEPT ![n] = CreateFile(@, id, client, data)] /\ landed' \subseteq landed \cup {<<w, n>>}
    BY <2>4, <2>8, <2>9
  <2>11. up[n] /\ UNCHANGED <<up, view>> BY <1>1, <1>2, <1>4
  <2>. QED BY <1>2, <1>5, <1>6, <1>7, <1>11, <2>7, <2>8, <2>10, <2>11, TakeFile
<1>. QED BY <1>4, <1>10, <1>11 DEF RecvReplicate

\* and its ack passed up.
LEMMA RecvAckKept == ASSUME Sound, Kept, NEW m \in net, RecvAck(m) PROVE Kept'
<1>1. m.type = "replication_ack" /\ UNCHANGED <<up, view, store, landed, merge, writes, merges>> BY DEF RecvAck
<1>2. Staged => Quiet BY <1>1, Addressed DEF MergeTypes
<1>3. MoreWrites BY <1>1 DEF MoreWrites
<1>4. PICK n : n = m.to OBVIOUS
<1>5. PICK new : new = IF pendingAck[n] # 0
                       THEN {[type |-> "replication_ack", from |-> n, to |-> pendingAck[n]]} ELSE {}
  OBVIOUS
<1>6. PICK rest : rest = net \ {m} OBVIOUS
<1>7. rest \subseteq net /\ Send(rest, new) BY <1>4, <1>5, <1>6 DEF RecvAck
<1>8. ASSUME NEW x \in new PROVE x.type \notin MergeTypes /\ Labelled(x)'
  <2>1. x = [type |-> "replication_ack", from |-> n, to |-> pendingAck[n]] BY <1>5
  <2>. QED BY <2>1, CallLabelled
<1>9. NoMerge /\ Letters' BY <1>1, <1>3, <1>7, <1>8, Sent DEF Kept
<1>. QED BY <1>1, <1>2, <1>3, <1>9, TakeNothing

\* An append is sent,
LEMMA AppendToKept ==
  ASSUME Overlaps \subseteq {"crash"}, Sound, Kept, NEW n \in Nodes, AppendTo(n) PROVE Kept'
<1>1. PICK w : w = Len(writes) + 1 OBVIOUS
<1>2. PICK client : client = AppendClient(n, w) OBVIOUS
<1>3. ~MergeGoesOn BY DEF AppendTo, During
<1>4. /\ writes' = Append(writes, [by |-> n, kind |-> "append"])
      /\ UNCHANGED <<up, view, store, landed, merge, merges>>
  BY DEF AppendTo
<1>5. MoreWrites BY <1>1, <1>4, NewWrite
<1>6. Staged => Quiet BY <1>3, NotBusy
<1>7. PICK rest, succ : rest = net /\ succ = Successors(FileHash, view[n], NumReplicas) OBVIOUS
<1>8. PICK new : new = {[type |-> "append_file", from |-> n, to |-> r, client |-> client, write |-> w] : r \in succ}
  OBVIOUS
<1>9. rest \subseteq net /\ Send(rest, new) BY <1>1, <1>2, <1>7, <1>8 DEF AppendTo
<1>10. client[2] = 3 /\ client[3] = w BY <1>2, ClientKinds
<1>11. ASSUME NEW x \in new PROVE x.type \notin MergeTypes /\ Labelled(x)'
  <2>1. PICK r : x = [type |-> "append_file", from |-> n, to |-> r, client |-> client, write |-> w] BY <1>8
  <2>2. x.type = "append_file" /\ x.client = client /\ x.write = w BY <2>1
  <2>. QED BY <1>10, <2>2 DEF Labelled, MergeTypes
<1>12. NoMerge /\ Letters' BY <1>4, <1>5, <1>9, <1>11, Sent DEF Kept
<1>. QED BY <1>4, <1>5, <1>6, <1>12, TakeNothing

\* a replica adds its block,
LEMMA TakeBlock ==
  ASSUME Sound, Kept, MoreWrites, NoMerge, Letters', Staged => Quiet, UNCHANGED <<up, view>>,
         NEW n \in Nodes, up[n], NEW client \in Clientele, NEW w \in Nat, client[2] = 3, client[3] = w,
         store' = [store EXCEPT ![n] = AppendFile(@, client, <<w>>)], landed' = landed \cup {<<w, n>>}
  PROVE  Kept'
<1>1. PICK f \in Files : f = store[n] /\ KeysApart(f) BY DEF Sound, Shelf
<1>2. PICK data \in Seq(Nat) : data = <<w>> /\ ToSet(data) = {w} BY OneItem
<1>3. PICK g : g = AppendFile(f, client, data) OBVIOUS
<1>4. store' = [store EXCEPT ![n] = g] BY <1>1, <1>2, <1>3
<1>5. /\ g \in Files /\ g.exists /\ Items(g) = Items(f) \cup ToSet(data)
      /\ OneBlockMore(f, g, client, data)
  BY <1>1, <1>3, AppendBlocks
<1>6. PICK s : GetAllBlocks(g) = GetAllBlocks(f) \cup {[client |-> client, seq |-> s, data |-> data]}
  BY <1>5 DEF OneBlockMore
<1>7. PICK b : b = [client |-> client, seq |-> s, data |-> data] OBVIOUS
<1>8. merges' = merges /\ merges' \in Nat BY DEF Kept, NoMerge
<1>9. Bare' BY <1>4, <1>5, BareStep DEF Kept
<1>10. Known' BY KnownStep DEF Kept
<1>11. b.client = client /\ b.data = data BY <1>7
<1>12. OfOneWrite(b)' /\ b.client[2] # 2 BY <1>2, <1>11 DEF OfOneWrite
<1>13. ASSUME Simple' PROVE Staged'
  <2>1. Quiet BY <1>8, <1>13, WasStaged
  <2>2. /\ GetAllBlocks(g) \subseteq GetAllBlocks(store[n]) \cup {b} /\ Items(store[n]) \subseteq Items(g)
        /\ w \in Items(g) /\ landed' \subseteq landed \cup {<<w, n>>}
    BY <1>1, <1>2, <1>5, <1>6, <1>7
  <2>3. UNCHANGED writes \/ \E x : writes' = Append(writes, x) BY DEF MoreWrites
  <2>4. Quiet' BY <1>4, <1>5, <1>12, <2>1, <2>2, <2>3, Filing
  <2>. QED BY <2>4 DEF Staged
<1>. QED BY <1>8, <1>9, <1>10, <1>13 DEF Kept

\* and another node passes it on.
LEMMA RecvAppendKept == ASSUME Sound, Kept, NEW m \in net, RecvAppend(m) PROVE Kept'
<1>1. m.type = "append_file" /\ UNCHANGED <<up, view, merge, writes, merges>> BY DEF RecvAppend
<1>2. m \in Messages /\ m.to \in Nodes /\ up[m.to] /\ (Staged => Quiet) BY <1>1, Addressed DEF MergeTypes
<1>3. m \in Appends BY <1>1, <1>2, Fields
<1>4. PICK n \in Nodes, w \in Nat, client \in Clientele : n = m.to /\ w = m.write /\ client = m.client
  BY <1>2, <1>3 DEF Appends
<1>5. client[2] = 3 /\ client[3] = w BY <1>1, <1>4 DEF Kept, Letters, Labelled
<1>6. MoreWrites BY <1>1 DEF MoreWrites
<1>7. PICK rest : rest = net \ {m} OBVIOUS
<1>8. rest \subseteq net BY <1>7
<1>9. CASE /\ store' = [store EXCEPT ![n] = AppendFile(@, client, <<w>>)]
           /\ landed' = landed \cup {<<w, n>>} /\ Send(net \ {m}, {})
  <2>1. PICK new : new = {} OBVIOUS
  <2>2. Send(rest, new) /\ \A x \in new : x.type \notin MergeTypes /\ Labelled(x)' BY <1>7, <1>9, <2>1
  <2>3. NoMerge /\ Letters' BY <1>1, <1>6, <1>8, <2>2, Sent DEF Kept
  <2>4. up[n] /\ UNCHANGED <<up, view>> BY <1>1, <1>2, <1>4
  <2>. QED BY <1>2, <1>5, <1>6, <1>9, <2>3, <2>4, TakeBlock
<1>10. CASE /\ Send(net \ {m}, {[m EXCEPT !.from = n, !.to = Primary(FileHash, view[n])]})
            /\ UNCHANGED <<store, landed>>
  <2>1. PICK to : to = Primary(FileHash, view[n]) OBVIOUS
  <2>2. PICK x : x = [m EXCEPT !.from = n, !.to = to] OBVIOUS
  <2>3. x.type = "append_file" /\ x.client = client /\ x.write = w BY <1>1, <1>3, <1>4, <2>2 DEF Appends
  <2>4. x.type \notin MergeTypes /\ Labelled(x)' BY <1>5, <2>3 DEF Labelled, MergeTypes
  <2>5. PICK new : new = {x} OBVIOUS
  <2>6. Send(rest, new) BY <1>7, <1>10, <2>1, <2>2, <2>5
  <2>7. NoMerge /\ Letters' BY <1>1, <1>6, <1>8, <2>4, <2>5, <2>6, Sent DEF Kept
  <2>. QED BY <1>1, <1>2, <1>6, <1>10, <2>7, TakeNothing
<1>. QED BY <1>4, <1>9, <1>10 DEF RecvAppend

\* A scan sends copies,
LEMMA ScanKept == ASSUME Sound, Kept, NEW s \in scans, Scan(s) PROVE Kept'
<1>1. UNCHANGED <<up, view, store, landed, merge, writes, merges>> BY DEF Scan
<1>2. Staged => Quiet BY OnlyQuiet
<1>3. MoreWrites BY <1>1 DEF MoreWrites
<1>4. PICK rest, n, f : rest = net /\ n = s.node /\ f = store[n] OBVIOUS
<1>5. PICK new : new = IF Holds(n)
                       THEN {[type |-> "rereplicate_file", from |-> n, to |-> r, id |-> Float64(f.id),
                              data |-> ReadFile(f)] : r \in ScanTargets(n, f, s.view)}
                       ELSE {}
  OBVIOUS
<1>6. rest \subseteq net /\ Send(rest, new) BY <1>4, <1>5 DEF Scan
<1>7. \A x \in new : x.type = "rereplicate_file" BY <1>5
<1>8. \A x \in new : x.type \notin MergeTypes /\ Labelled(x)' BY <1>7 DEF Labelled, MergeTypes
<1>9. NoMerge /\ Letters' BY <1>1, <1>3, <1>6, <1>8, Sent DEF Kept
<1>. QED BY <1>1, <1>2, <1>3, <1>9, TakeNothing

\* which a node without the file takes.
LEMMA RecvRereplicateKept == ASSUME Sound, Kept, NEW m \in net, RecvRereplicate(m) PROVE Kept'
<1>1. m.type = "rereplicate_file" /\ UNCHANGED <<up, view, merge, writes, merges, landed>> BY DEF RecvRereplicate
<1>2. m \in Messages /\ m.to \in Nodes /\ up[m.to] /\ (Staged => Quiet) BY <1>1, Addressed DEF MergeTypes
<1>3. m \in Copies BY <1>1, <1>2, Fields
<1>4. PICK n \in Nodes, id \in Nat, data \in Seq(Nat) : n = m.to /\ id = m.id /\ data = m.data
  BY <1>2, <1>3 DEF Copies
<1>5. PICK client \in Clientele : client = RereplicateClient(n) BY ClientTypes
<1>6. client[2] = 2 /\ client[1] = n BY <1>5, ClientKinds
<1>7. store' = [store EXCEPT ![n] = CreateFile(@, id, client, data)] /\ net' = net \ {m}
  BY <1>4, <1>5 DEF RecvRereplicate
<1>8. MoreWrites BY <1>1 DEF MoreWrites
<1>9. NoMerge BY <1>1, <1>7 DEF NoMerge
<1>10. Letters' BY <1>1, <1>7 DEF Kept, Letters, Labelled, IsCreate
<1>11. CASE Holds(n)
  <2>1. store' = store
    <3>1. store \in [Nodes -> Files] BY DEF Sound, Shelf
    <3>2. store[n].exists BY <1>11 DEF Holds
    <3>. QED BY <1>7, <3>1, <3>2 DEF CreateFile
  <2>. QED BY <1>1, <1>2, <1>8, <1>9, <1>10, <2>1, TakeNothing
<1>12. CASE ~Holds(n)
  <2>1. up[n] /\ UNCHANGED <<up, view>> /\ landed' \subseteq landed BY <1>1, <1>2, <1>4
  <2>2. PICK w : landed' \subseteq landed \cup {<<w, n>>} BY <2>1
  <2>. QED BY <1>2, <1>6, <1>7, <1>8, <1>9, <1>10, <1>12, <2>1, <2>2, TakeFile
<1>. QED BY <1>11, <1>12

\* A table changes and stays non-empty,
LEMMA TableKept ==
  ASSUME Sound, Kept, ~MergeGoesOn, NEW n \in Nodes, NEW v, n \in v, view' = [view EXCEPT ![n] = v],
         UNCHANGED <<up, store, net, merge, writes, merges, landed>>
  PROVE  Kept'
<1>1. Staged => Quiet BY NotBusy
<1>2. MoreWrites /\ NoMerge BY DEF MoreWrites, NoMerge
<1>3. Letters' BY DEF Kept, Letters, Labelled, IsCreate
<1>4. \A k \in Nodes : view[k] # {} => view'[k] # {} BY DEF Sound, Tables
<1>. QED BY <1>1, <1>2, <1>3, <1>4, TakeNothing

\* as on a failure,
LEMMA LearnFailedKept ==
  ASSUME Overlaps \subseteq {"crash"}, Sound, Kept, NEW n \in Nodes, NEW gone \in SUBSET (view[n] \ Up),
         LearnFailed(n, gone)
  PROVE  Kept'
<1>1. ~MergeGoesOn /\ UNCHANGED <<up, store, net, merge, writes, merges, landed>> BY DEF LearnFailed, During
<1>2. PICK v : v = view[n] \ gone OBVIOUS
<1>3. view' = [view EXCEPT ![n] = v] BY <1>2 DEF LearnFailed
<1>4. n \in v BY <1>2 DEF LearnFailed, Sound, Tables, Up
<1>. QED BY <1>1, <1>3, <1>4, TableKept

\* or when a member comes.
LEMMA LearnJoinedKept ==
  ASSUME Overlaps \subseteq {"crash"}, Sound, Kept, NEW n \in Nodes, NEW new \in SUBSET (Up \ view[n]),
         LearnJoined(n, new)
  PROVE  Kept'
<1>1. ~MergeGoesOn /\ UNCHANGED <<up, store, net, merge, writes, merges, landed>> BY DEF LearnJoined, During
<1>2. PICK v : v = view[n] \cup new OBVIOUS
<1>3. view' = [view EXCEPT ![n] = v] BY <1>2 DEF LearnJoined
<1>4. n \in v BY <1>2 DEF LearnJoined, Sound, Tables
<1>. QED BY <1>1, <1>3, <1>4, TableKept

\* or both by a Probe.
LEMMA LearnByProbeKept ==
  ASSUME Overlaps \subseteq {"crash"}, Sound, Kept, NEW n \in Nodes, NEW m \in Nodes, LearnByProbe(n, m)
  PROVE  Kept'
<1>1. /\ up[n] /\ ~MergeGoesOn /\ UNCHANGED <<up, store, net, merge, writes, merges, landed>>
  BY DEF LearnByProbe, During
<1>2. PICK gone \in SUBSET (view[n] \ Up), new \in SUBSET (Up \ view[n]) :
        view' = [view EXCEPT ![n] = (@ \ gone) \cup new]
  BY ProbeDoes
<1>3. PICK v : v = (view[n] \ gone) \cup new OBVIOUS
<1>4. view' = [view EXCEPT ![n] = v] BY <1>2, <1>3
<1>5. n \in v BY <1>1, <1>3 DEF Sound, Tables, Up
<1>. QED BY <1>1, <1>4, <1>5, TableKept

\* A node that joins has taken nothing in; it may find the disk of a node that is gone.
LEMMA JoinKept ==
  ASSUME Overlaps \subseteq {"crash"}, Sound, Kept, NEW n \in Nodes, Join(n) PROVE Kept'
<1>1. /\ ~MergeGoesOn /\ ~up[n] /\ view[n] = {} /\ up[Introducer]
      /\ up' = [up EXCEPT ![n] = TRUE]
      /\ view' = [view EXCEPT ![n] = view[Introducer] \cup {n}, ![Introducer] = @ \cup {n}]
      /\ UNCHANGED <<net, merge, writes, merges, landed>>
  BY DEF Join, During
<1>2. up \in [Nodes -> BOOLEAN] /\ view \in [Nodes -> SUBSET Nodes] /\ store \in [Nodes -> Files]
      /\ Introducer \in Nodes
  BY RingAssumption DEF Sound, Tables, Shelf
<1>3. \A k \in Nodes : view[k] # {} => view'[k] # {} BY <1>1, <1>2
<1>4. \A k \in Nodes : up'[k] /\ k # n => up[k] BY <1>1, <1>2
<1>5. \A e \in landed : e[2] \in Nodes /\ view[e[2]] # {} /\ e[2] # n BY <1>1 DEF Sound, Records, Kept, Known
<1>6. Known' BY <1>1, <1>3, <1>5 DEF Known
<1>7. Letters' BY <1>1 DEF Kept, Letters, Labelled, IsCreate
<1>8. Staged => Quiet BY <1>1, NotBusy
<1>9. MoreWrites /\ NoMerge /\ merges' = merges BY <1>1 DEF MoreWrites, NoMerge
<1>10. PICK From \in [Nodes -> Nodes] :
         \A y \in Nodes : /\ GetAllBlocks(store'[y]) = {} \/ store'[y] = store[From[y]]
                          /\ store'[y].exists \/ store'[y].blocks = <<>>
                          /\ up[y] /\ y # n => store'[y] = store[y]
                          /\ From[y] # y => y = n /\ ~up[From[y]]
                          /\ \A z \in Nodes : From[y] = From[z] /\ y # z =>
                               GetAllBlocks(store'[y]) = {} \/ GetAllBlocks(store'[z]) = {}
  <2>1. CASE UNCHANGED store
    <3>1. [y \in Nodes |-> y] \in [Nodes -> Nodes] OBVIOUS
    <3>2. \A y \in Nodes : store[y].exists \/ store[y].blocks = <<>> BY DEF Kept, Bare, Holds
    <3>. WITNESS [y \in Nodes |-> y] \in [Nodes -> Nodes]
    <3>. QED BY <2>1, <3>2
  <2>2. CASE \E d \in {x \in Nodes : ~up[x] /\ view[x] # {} /\ Holds(x)} :
               store' = [store EXCEPT ![n] = store[d], ![d] = NoFile]
    <3>1. PICK d \in Nodes : /\ ~up[d] /\ view[d] # {} /\ Holds(d)
                             /\ store' = [store EXCEPT ![n] = store[d], ![d] = NoFile]
      BY <2>2
    <3>2. d # n BY <1>1, <3>1
    <3>3. store'[n] = store[d] /\ store'[d] = NoFile /\ \A y \in Nodes \ {n, d} : store'[y] = store[y]
      BY <1>2, <3>1, <3>2
    <3>4. GetAllBlocks(NoFile) = {} /\ NoFile.blocks = <<>> BY DEF NoFile, GetAllBlocks, ToSet
    <3>5. \A y \in Nodes : store[y].exists \/ store[y].blocks = <<>> BY DEF Kept, Bare, Holds
    <3>6. [y \in Nodes |-> IF y = n THEN d ELSE y] \in [Nodes -> Nodes] OBVIOUS
    <3>. WITNESS [y \in Nodes |-> IF y = n THEN d ELSE y] \in [Nodes -> Nodes]
    <3>. QED BY <3>1, <3>2, <3>3, <3>4, <3>5
  <2>. QED BY <2>1, <2>2 DEF Join
<1>11. Bare' BY <1>10 DEF Bare, Holds
<1>12. ASSUME Quiet PROVE Here'
  <2>1. ASSUME NEW e \in landed', up'[e[2]] PROVE e[1] \in Items(store'[e[2]])
    <3>1. e \in landed /\ e[2] \in Nodes /\ e[2] # n BY <1>1, <1>5, <2>1
    <3>2. up[e[2]] /\ store'[e[2]] = store[e[2]] BY <1>4, <1>10, <2>1, <3>1
    <3>3. e[1] \in Items(store[e[2]]) BY <1>12, <3>1, <3>2 DEF Quiet, Here
    <3>. QED BY <3>2, <3>3
  <2>. QED BY <2>1 DEF Here
<1>13. ASSUME Quiet, merges = 0 PROVE Labels'
  <2>1. Labels BY <1>13 DEF Quiet
  <2>2. ASSUME NEW y \in Nodes, NEW b \in GetAllBlocks(store'[y]) PROVE OfOneWrite(b)' /\ InPlace(b, y)'
    <3>1. b \in GetAllBlocks(store[From[y]]) /\ From[y] \in Nodes BY <1>10, <2>2
    <3>2. OfOneWrite(b) /\ InPlace(b, From[y]) BY <2>1, <3>1 DEF Labels
    <3>3. OfOneWrite(b)' BY <1>1, <3>2 DEF OfOneWrite, IsCreate
    <3>4. ASSUME b.client[2] = 2
          PROVE  /\ b.client[1] \in Nodes /\ view'[b.client[1]] # {} /\ (up'[b.client[1]] => y = b.client[1])
                 /\ \A z \in Nodes : \A c \in GetAllBlocks(store'[z]) : c.client = b.client => z = y
      <4>1. PICK x \in Nodes : x = b.client[1] BY <3>2, <3>4 DEF InPlace
      <4>2. view[x] # {} /\ (up[x] => From[y] = x) BY <3>2, <3>4, <4>1 DEF InPlace
      <4>3. view'[x] # {} /\ (up'[x] => up[x]) BY <1>1, <1>3, <1>4, <4>2
      <4>4. up'[x] => y = x BY <1>10, <4>2, <4>3
      <4>5. ASSUME NEW z \in Nodes, NEW c \in GetAllBlocks(store'[z]), c.client = b.client PROVE z = y
        <5>1. c \in GetAllBlocks(store[From[z]]) /\ From[z] \in Nodes BY <1>10, <4>5
        <5>2. From[z] = From[y] BY <3>2, <3>4, <4>5, <5>1 DEF InPlace
        <5>. QED BY <1>10, <2>2, <4>5, <5>2
      <4>. QED BY <4>1, <4>3, <4>4, <4>5
    <3>5. InPlace(b, y)' BY <3>4 DEF InPlace
    <3>. QED BY <3>3, <3>5
  <2>. QED BY <2>2 DEF Labels
<1>14. ASSUME Simple' PROVE Staged'
  <2>1. Quiet BY <1>8, <1>9, <1>14, WasStaged
  <2>2. Quiet' BY <1>9, <1>12, <1>13, <2>1, QuietStays
  <2>. QED BY <2>2 DEF Staged
<1>15. merges' \in Nat BY <1>9 DEF Kept
<1>. QED BY <1>6, <1>7, <1>11, <1>14, <1>15 DEF Kept

----------------------------------------------------------------------------
(* The merge *)

\* A crash at any stage.
LEMMA CrashKept == ASSUME Sound, Kept, NEW n \in Nodes, Crash(n) PROVE Kept'
<1>1. /\ up' = [up EXCEPT ![n] = FALSE] /\ merge' = [merge EXCEPT ![n] = Idle]
      /\ scans' = {s \in scans : s.node # n}
      /\ UNCHANGED <<view, store, writes, merges, landed>>
  BY DEF Crash
<1>2. net' \subseteq net /\ \A m \in net : m.from # n /\ m.to # n => m \in net' BY DEF Crash
<1>3. /\ up \in [Nodes -> BOOLEAN] /\ merge \in [Nodes -> Merges]
      /\ \A e \in landed : e[2] \in Nodes
  BY DEF Sound, Tables, Driving, Records
<1>4. \A k \in Nodes : up'[k] => up[k] /\ k # n BY <1>1, <1>3
<1>5. merge'[n].phase = "idle" /\ \A k \in Nodes \ {n} : merge'[k] = merge[k] BY <1>1, <1>3, IdleType
<1>6. Here => Here' BY <1>1, <1>3, <1>4 DEF Here
<1>7. ASSUME Labels PROVE Labels'
  <2>1. ASSUME NEW y \in Nodes, NEW b \in GetAllBlocks(store[y]) PROVE OfOneWrite(b)' /\ InPlace(b, y)'
    <3>1. OfOneWrite(b) /\ InPlace(b, y) BY <1>7 DEF Labels
    <3>2. OfOneWrite(b)' BY <1>1, <3>1 DEF OfOneWrite, IsCreate
    <3>3. InPlace(b, y)' BY <1>1, <1>4, <3>1 DEF InPlace
    <3>. QED BY <3>2, <3>3
  <2>. QED BY <1>1, <2>1 DEF Labels
<1>8. Bare' /\ Known' /\ merges' \in Nat BY <1>1 DEF Kept, Bare, Known, Holds
<1>9. Letters' BY <1>1, <1>2 DEF Kept, Letters, Labelled, IsCreate
<1>10. Busy => Busy' BY <1>1 DEF Busy
<1>11. ASSUME Here, Busy, NobodyMerges', net' = {} PROVE Quiet'
  BY <1>1, <1>6, <1>11 DEF Quiet, MergeGoesOn, NobodyMerges, Busy
<1>12. NobodyMerges => NobodyMerges' BY <1>5 DEF NobodyMerges
<1>13. ASSUME Simple' PROVE Staged'
  <2>1. Staged BY <1>1, <1>13, WasStaged DEF MoreWrites
  <2>2. CASE Quiet
    <3>1. ~MergeGoesOn' BY <1>2, <1>5, <2>2 DEF Quiet, MergeGoesOn
    <3>2. Quiet' BY <1>1, <1>6, <1>7, <2>2, <3>1 DEF Quiet
    <3>. QED BY <3>2 DEF Staged
  <2>3. CASE Requested
    <3>1. PICK m \in net : net = {m} /\ m.type = "merge_request" BY <2>3 DEF Requested
    <3>2. CASE net' = {}
      <4>1. Quiet' BY <1>11, <1>12, <2>3, <3>2 DEF Requested
      <4>. QED BY <4>1 DEF Staged
    <3>3. CASE net' # {}
      <4>1. net' = {m} BY <1>2, <3>1, <3>3
      <4>2. Requested' BY <1>6, <1>7, <1>10, <1>12, <2>3, <3>1, <4>1 DEF Requested
      <4>. QED BY <4>2 DEF Staged
    <3>. QED BY <3>2, <3>3
  <2>4. ASSUME NEW k \in Nodes, DrivenBy(k), k = n PROVE Quiet'
    <3>1. NobodyMerges' BY <1>5, <2>4 DEF DrivenBy, NobodyMerges
    <3>2. net' = {} BY <1>2, <2>4 DEF DrivenBy
    <3>. QED BY <1>11, <2>4, <3>1, <3>2 DEF DrivenBy
  <2>5. ASSUME NEW k \in Nodes, DrivenBy(k), k # n PROVE DrivenBy(k)' /\ merge'[k] = merge[k]
    BY <1>2, <1>5, <1>6, <1>10, <2>5 DEF DrivenBy
  <2>6. CASE Collecting
    <3>1. PICK k \in Nodes : DrivenBy(k) /\ merge[k].phase = "collect" /\ Labels /\ Gathered(k)
      BY <2>6 DEF Collecting
    <3>2. CASE k = n BY <2>4, <3>1, <3>2 DEF Staged
    <3>3. CASE k # n
      <4>1. DrivenBy(k)' /\ merge'[k] = merge[k] BY <2>5, <3>1, <3>3
      <4>2. merge[k].succ \in SUBSET Nodes BY MergeFields DEF Sound
      <4>3. Gathered(k)' BY <1>1, <1>4, <3>1, <4>1, <4>2 DEF Gathered
      <4>4. Collecting' BY <1>7, <3>1, <4>1, <4>3 DEF Collecting
      <4>. QED BY <4>4 DEF Staged
    <3>. QED BY <3>2, <3>3
  <2>7. CASE Sending
    <3>1. PICK k \in Nodes : DrivenBy(k) /\ merge[k].phase = "send" /\ Complements(k) BY <2>7 DEF Sending
    <3>2. CASE k = n BY <2>4, <3>1, <3>2 DEF Staged
    <3>3. CASE k # n
      <4>1. DrivenBy(k)' /\ merge'[k] = merge[k] BY <2>5, <3>1, <3>3
      <4>2. merge[k].succ \in SUBSET Nodes BY MergeFields DEF Sound
      <4>3. Complements(k)' BY <1>1, <1>4, <3>1, <4>1, <4>2 DEF Complements
      <4>4. Sending' BY <3>1, <4>1, <4>3 DEF Sending
      <4>. QED BY <4>4 DEF Staged
    <3>. QED BY <3>2, <3>3
  <2>8. CASE Updating
    <3>1. HereOrComing'
      <4>1. ASSUME NEW e \in landed, up'[e[2]], e[1] \notin Items(store[e[2]])
            PROVE  \E m \in net' : m.type = "merge_recreate" /\ m.to = e[2]
        <5>1. up[e[2]] /\ e[2] # n BY <1>3, <1>4, <4>1
        <5>2. PICK m \in net : m.type = "merge_recreate" /\ m.to = e[2]
          BY <2>8, <4>1, <5>1 DEF Updating, HereOrComing
        <5>3. m.from = m.to BY <2>8, <5>2 DEF Updating, Carries
        <5>. QED BY <1>2, <5>1, <5>2, <5>3
      <4>. QED BY <1>1, <4>1 DEF HereOrComing
    <3>2. \A m \in net' : Carries(m)' BY <1>1, <1>2, <2>8 DEF Updating, Carries, Holds
    <3>3. Updating' BY <1>2, <1>10, <1>12, <2>8, <3>1, <3>2 DEF Updating
    <3>. QED BY <3>3 DEF Staged
  <2>. QED BY <2>1, <2>2, <2>3, <2>6, <2>7, <2>8 DEF Staged
<1>. QED BY <1>8, <1>9, <1>13 DEF Kept

\* A command or a request starts the collection, asks the primary or is lost.
LEMMA StartKept ==
  ASSUME Sound, Kept, scans = {}, NobodyMerges, NEW n \in Nodes, up[n], StartMerge(n, {}),
         merges' \in Nat, merges' # 0, UNCHANGED <<up, view, store, scans, writes, landed>>,
         Simple' => Here /\ Labels
  PROVE  Kept'
<1>1. Bare' /\ Known' BY DEF Kept, Bare, Known, Holds
<1>2. Labels => Labels' BY DEF Labels, OfOneWrite, InPlace, IsCreate
<1>3. Here => Here' BY DEF Here
<1>4. Busy' BY DEF Busy
<1>5. PICK p : p = Primary(FileHash, view[n]) OBVIOUS
<1>6. CASE /\ p = n /\ net' = {}
           /\ \E succ : /\ succ = Successors(FileHash, view[n], NumReplicas)
                        /\ merge' = [merge EXCEPT ![n] =
                                       [phase |-> "collect", succ |-> succ, left |-> succ, blocks |-> {}]]
  <2>1. PICK succ : /\ succ = Successors(FileHash, view[n], NumReplicas)
                    /\ merge' = [merge EXCEPT ![n] =
                                   [phase |-> "collect", succ |-> succ, left |-> succ, blocks |-> {}]]
    BY <1>6
  <2>2. Letters' BY <1>6 DEF Letters
  <2>3. merge \in [Nodes -> Merges] BY DEF Sound, Driving
  <2>4. /\ merge'[n] = [phase |-> "collect", succ |-> succ, left |-> succ, blocks |-> {}]
        /\ \A k \in Nodes \ {n} : merge'[k] = merge[k]
    BY <2>1, <2>3
  <2>5. /\ merge'[n].phase = "collect" /\ merge'[n].succ = succ /\ merge'[n].left = succ
        /\ merge'[n].blocks = {}
    BY <2>4
  <2>6. n \in succ
    <3>1. view[n] \in SUBSET Nodes /\ n \in view[n] BY DEF Sound, Tables
    <3>2. view[n] \in SUBSET Nat /\ IsFiniteSet(view[n]) /\ FileHash \in Nat /\ NumReplicas \in Nat \ {0}
      BY <3>1, RingAssumption, FS_Subset
    <3>3. p \in view[n] /\ Rank(FileHash, view[n], p) = 0 BY <1>5, <3>1, <3>2, PrimaryFirst
    <3>. QED BY <1>6, <2>1, <3>2, <3>3 DEF Successors
  <2>7. Here' => DrivenBy(n)' BY <1>4, <1>6, <2>4, <2>5, <2>6 DEF DrivenBy, NobodyMerges
  <2>8. Gathered(n)' BY <2>5 DEF Gathered
  <2>9. Here' /\ Labels' => Collecting' BY <2>5, <2>7, <2>8 DEF Collecting
  <2>. QED BY <1>1, <1>2, <1>3, <2>2, <2>9 DEF Kept, Staged
<1>7. CASE /\ p # n /\ UNCHANGED merge
           /\ Send({}, {[type |-> "merge_request", from |-> n, to |-> p]})
  <2>1. PICK m : m = [type |-> "merge_request", from |-> n, to |-> p] OBVIOUS
  <2>2. m.type = "merge_request" BY <2>1
  <2>3. net' = {m} \/ net' = {} BY <1>7, <2>1 DEF Send, Reachable
  <2>4. Letters' BY <2>2, <2>3 DEF Letters, Labelled
  <2>5. NobodyMerges' BY <1>7 DEF NobodyMerges
  <2>6. ASSUME Here, Labels PROVE Staged'
    <3>1. CASE net' = {m}
      <4>1. Requested' BY <1>2, <1>3, <1>4, <2>2, <2>5, <2>6, <3>1 DEF Requested
      <4>. QED BY <4>1 DEF Staged
    <3>2. CASE net' = {}
      <4>1. Quiet' BY <1>3, <2>5, <2>6, <3>2 DEF Quiet, MergeGoesOn, NobodyMerges
      <4>. QED BY <4>1 DEF Staged
    <3>. QED BY <2>3, <3>1, <3>2
  <2>. QED BY <1>1, <2>4, <2>6 DEF Kept
<1>. QED BY <1>5, <1>6, <1>7 DEF StartMerge

\* The first merge command.
LEMMA MergeKept ==
  ASSUME Overlaps \subseteq {"crash"}, Sound, Kept, NEW n \in Nodes, Merge(n) PROVE Kept'
<1>1. net = {} /\ scans = {} /\ ~MergeGoesOn BY DEF Merge
<1>2. up[n] /\ StartMerge(n, {}) /\ merges' = merges + 1 /\ UNCHANGED <<up, view, store, scans, writes, landed>>
  BY <1>1 DEF Merge
<1>3. NobodyMerges BY <1>1 DEF MergeGoesOn, NobodyMerges
<1>4. merges \in Nat BY DEF Kept
<1>5. ASSUME Simple' PROVE Here /\ Labels
  <2>1. Quiet BY <1>1, <1>2, <1>5, NotBusy, WasStaged DEF MoreWrites
  <2>2. merges = 0 BY <1>2, <1>4, <1>5 DEF Simple
  <2>. QED BY <2>1, <2>2 DEF Quiet
<1>6. merges' \in Nat /\ merges' # 0 BY <1>2, <1>4
<1>. QED BY <1>1, <1>2, <1>3, <1>5, <1>6, StartKept

\* The request at the primary, or at a node that was taken for it.
LEMMA RecvMergeRequestStaged ==
  ASSUME Sound, Kept, NEW m \in net, RecvMergeRequest(m), Simple' PROVE Staged'
<1>1. m.type = "merge_request" /\ UNCHANGED <<up, view, store, scans, writes, merges, landed>> BY DEF RecvMergeRequest
<1>2. Staged BY <1>1, WasStaged DEF MoreWrites
<1>3. Requested
  BY <1>1, <1>2 DEF Staged, Quiet, MergeGoesOn, MergeTypes, Collecting, Sending, DrivenBy, Updating, Carries
<1>4. net = {m} /\ scans = {} /\ NobodyMerges /\ Here /\ Labels /\ merges # 0 BY <1>3 DEF Requested, Busy
<1>5. m.to \in Nodes /\ up[m.to] BY Addressed
<1>6. StartMerge(m.to, {}) BY <1>4 DEF RecvMergeRequest
<1>7. merges' \in Nat /\ merges' # 0 BY <1>1, <1>4 DEF Kept
<1>8. Kept' BY <1>1, <1>4, <1>5, <1>6, <1>7, StartKept
<1>. QED BY <1>8 DEF Kept

\* Who drives a merge while there is one.
LEMMA OneDriver ==
  ASSUME Staged, NEW n \in Nodes, merge[n].phase # "idle"
  PROVE  /\ DrivenBy(n)
         /\ merge[n].phase = "collect" => Labels /\ Gathered(n)
         /\ merge[n].phase = "send" => Complements(n)
<1>1. Collecting \/ Sending
  BY DEF Staged, Quiet, MergeGoesOn, Requested, Updating, NobodyMerges
<1>2. CASE Collecting
  <2>1. PICK k \in Nodes : DrivenBy(k) /\ merge[k].phase = "collect" /\ Labels /\ Gathered(k)
    BY <1>2 DEF Collecting
  <2>2. k = n BY <2>1 DEF DrivenBy
  <2>. QED BY <2>1, <2>2
<1>3. CASE Sending
  <2>1. PICK k \in Nodes : DrivenBy(k) /\ merge[k].phase = "send" /\ Complements(k) BY <1>3 DEF Sending
  <2>2. k = n BY <2>1 DEF DrivenBy
  <2>. QED BY <2>1, <2>2
<1>. QED BY <1>1, <1>2, <1>3

\* Collecting loses no content: a block gives way to an equal one only.
LEMMA CollectedContents ==
  ASSUME NEW S, NEW T, \A b \in S, c \in T : Key(b) = Key(c) => b = c
  PROVE  Collected(S, T) = S \cup T
BY DEF Collected

\* A replica answers.
LEMMA MergeCollectStaged ==
  ASSUME Sound, Kept, NEW n \in Nodes, NEW r \in Nodes, MergeCollect(n, r), Simple' PROVE Staged'
<1>1. merge[n].phase = "collect" /\ UNCHANGED <<up, view, store, net, scans, writes, merges, landed>>
  BY DEF MergeCollect
<1>2. Simple /\ Staged BY <1>1, WasStaged DEF MoreWrites
<1>3. DrivenBy(n) /\ Labels /\ Gathered(n) BY <1>1, <1>2, OneDriver
<1>4. PICK old, succ, left : old = merge[n].blocks /\ succ = merge[n].succ /\ left = merge[n].left OBVIOUS
<1>5. PICK bs : bs = IF up[r] /\ Holds(r) THEN Collected(old, GetAllBlocks(store[r])) ELSE old OBVIOUS
<1>6. merge[n] = [phase |-> "collect", succ |-> succ, left |-> left, blocks |-> old]
  BY <1>1, <1>4, MergeFields DEF Sound
<1>7. merge \in [Nodes -> Merges] BY DEF Sound, Driving
<1>8. \A k \in Nodes \ {n} : merge'[k] = merge[k] BY <1>7 DEF MergeCollect
<1>9. merge'[n] = [[merge[n] EXCEPT !.left = left \ {r}] EXCEPT !.blocks = bs]
  <2>1. merge' = [merge EXCEPT ![n].left = @ \ {r},
                               ![n].blocks = IF up[r] /\ Holds(r) THEN Collected(@, GetAllBlocks(store[r])) ELSE @]
    BY DEF MergeCollect
  <2>. QED BY <1>4, <1>5, <1>7, <2>1 DEF Merges
<1>10. /\ merge'[n].phase = "collect" /\ merge'[n].succ = succ /\ merge'[n].left = left \ {r}
       /\ merge'[n].blocks = bs
  BY <1>6, <1>9
<1>11. \A b \in old : \E y \in Nodes : b \in GetAllBlocks(store[y]) BY <1>3, <1>4 DEF Gathered
<1>12. up[r] /\ Holds(r) => bs = old \cup GetAllBlocks(store[r])
  <2>1. \A b \in old, c \in GetAllBlocks(store[r]) : Key(b) = Key(c) => b = c BY <1>2, <1>3, <1>11, Agree
  <2>2. Collected(old, GetAllBlocks(store[r])) = old \cup GetAllBlocks(store[r]) BY <2>1, CollectedContents
  <2>. QED BY <1>5, <2>2
<1>13. old \subseteq bs BY <1>5, <1>12
<1>14. \A b \in bs : \E y \in Nodes : b \in GetAllBlocks(store[y]) BY <1>5, <1>11, <1>12
<1>15. Contents(old) \subseteq Contents(bs) BY <1>13 DEF Contents
<1>16. ASSUME up[r] PROVE Items(store[r]) \subseteq Contents(bs)
  <2>1. PICK f \in Files : f = store[r] /\ KeysApart(f) BY DEF Sound, Shelf
  <2>2. Items(f) = Contents(GetAllBlocks(f)) BY <2>1, BlocksOf
  <2>3. CASE Holds(r)
    <3>1. GetAllBlocks(f) \subseteq bs BY <1>12, <1>16, <2>1, <2>3
    <3>. QED BY <2>1, <2>2, <3>1 DEF Contents
  <2>4. CASE ~Holds(r)
    <3>1. f.blocks = <<>> BY <2>1, <2>4 DEF Kept, Bare
    <3>2. GetAllBlocks(f) = {} BY <3>1 DEF GetAllBlocks, ToSet
    <3>. QED BY <2>1, <2>2, <3>2 DEF Contents
  <2>. QED BY <2>3, <2>4
<1>17. \A q \in succ \ (left \ {r}) : up[q] => Items(store[q]) \subseteq Contents(bs)
  BY <1>3, <1>4, <1>15, <1>16 DEF Gathered
<1>18. Gathered(n)' BY <1>1, <1>10, <1>14, <1>17 DEF Gathered
<1>19. DrivenBy(n)' BY <1>1, <1>3, <1>4, <1>8, <1>10 DEF DrivenBy, Busy, Here
<1>20. Labels' BY <1>1, <1>3 DEF Labels, OfOneWrite, InPlace, IsCreate
<1>21. Collecting' BY <1>10, <1>18, <1>19, <1>20 DEF Collecting
<1>. QED BY <1>21 DEF Staged

\* The primary puts the blocks together; without the file it gives up.
LEMMA MergeLocallyStaged ==
  ASSUME Sound, Kept, NEW n \in Nodes, MergeLocally(n), Simple' PROVE Staged'
<1>1. /\ merge[n].phase = "collect" /\ merge[n].left = {}
      /\ UNCHANGED <<up, view, net, scans, writes, merges, landed>>
  BY DEF MergeLocally
<1>2. Simple /\ Staged BY <1>1, WasStaged DEF MoreWrites
<1>3. DrivenBy(n) /\ Gathered(n) BY <1>1, <1>2, OneDriver
<1>4. merge \in [Nodes -> Merges] /\ store \in [Nodes -> Files] BY DEF Sound, Driving, Shelf
<1>5. PICK bs, succ : bs = merge[n].blocks /\ succ = merge[n].succ OBVIOUS
<1>6. \A q \in succ : up[q] => Items(store[q]) \subseteq Contents(bs) BY <1>1, <1>3, <1>5 DEF Gathered
<1>7. n \in succ /\ up[n] /\ succ \in SUBSET Nodes
  BY <1>1, <1>3, <1>5, MergeFields DEF DrivenBy, Sound
<1>8. CASE Holds(n) /\ store' = [store EXCEPT ![n] = MergeFile(@, merge[n].blocks)]
           /\ merge' = [merge EXCEPT ![n].phase = "send", ![n].blocks = {}]
  <2>1. merge'[n] = [[merge[n] EXCEPT !.phase = "send"] EXCEPT !.blocks = {}] BY <1>4, <1>8
  <2>2. merge[n] \in Merges BY <1>4
  <2>3. merge'[n].phase = "send" /\ merge'[n].succ = succ BY <1>5, <2>1, <2>2 DEF Merges
  <2>4. \A k \in Nodes \ {n} : merge'[k] = merge[k] BY <1>4, <1>8
  <2>5. bs \in SUBSET Blocks /\ KeysDiffer(bs) /\ IsFiniteSet(bs) BY <1>5, MergeFields DEF Sound
  <2>6. PICK f \in Files : f = store[n] BY <1>4
  <2>7. PICK g : g = MergeFile(f, bs) OBVIOUS
  <2>8. g \in Files /\ KeysApart(g) /\ GetAllBlocks(g) = bs BY <2>5, <2>6, <2>7, MergeMakes
  <2>9. Items(g) = Contents(bs) BY <2>8, BlocksOf
  <2>10. store'[n] = g /\ \A k \in Nodes \ {n} : store'[k] = store[k] BY <1>4, <1>5, <1>8, <2>6, <2>7
  <2>11. Complements(n)' BY <1>1, <1>6, <1>7, <2>3, <2>9, <2>10 DEF Complements
  <2>12. Here'
    <3>1. ASSUME NEW e \in landed, up[e[2]] PROVE e[1] \in Items(store'[e[2]])
      <4>1. e[1] \in Items(store[e[2]]) /\ e[2] \in Nodes BY <1>3, <3>1 DEF DrivenBy, Here, Sound, Records
      <4>. QED BY <1>6, <1>7, <2>9, <2>10, <4>1
    <3>. QED BY <1>1, <3>1 DEF Here
  <2>13. DrivenBy(n)' BY <1>1, <1>3, <1>7, <2>3, <2>4, <2>12 DEF DrivenBy, Busy
  <2>14. Sending' BY <2>3, <2>11, <2>13 DEF Sending
  <2>. QED BY <2>14 DEF Staged
<1>9. CASE ~Holds(n) /\ merge' = [merge EXCEPT ![n] = Idle] /\ UNCHANGED store
  <2>1. merge'[n].phase = "idle" /\ \A k \in Nodes \ {n} : merge'[k] = merge[k] BY <1>4, <1>9, IdleType
  <2>2. ~MergeGoesOn' BY <1>1, <1>3, <2>1 DEF DrivenBy, MergeGoesOn
  <2>3. Quiet' BY <1>1, <1>3, <1>9, <2>2 DEF DrivenBy, Quiet, Here, Busy
  <2>. QED BY <2>3 DEF Staged
<1>. QED BY <1>8, <1>9 DEF MergeLocally

\* It sends what it has, which is all its replicas have.
LEMMA MergeSendStaged ==
  ASSUME Sound, Kept, NEW n \in Nodes, MergeSend(n), Simple' PROVE Staged'
<1>1. /\ merge[n].phase = "send" /\ merge' = [merge EXCEPT ![n] = Idle]
      /\ UNCHANGED <<up, view, store, scans, writes, merges, landed>>
  BY DEF MergeSend
<1>2. Simple /\ Staged BY <1>1, WasStaged DEF MoreWrites
<1>3. DrivenBy(n) /\ Complements(n) BY <1>1, <1>2, OneDriver
<1>4. merge \in [Nodes -> Merges] BY DEF Sound, Driving
<1>5. merge'[n].phase = "idle" /\ \A k \in Nodes \ {n} : merge'[k] = merge[k] BY <1>1, <1>4, IdleType
<1>6. NobodyMerges' BY <1>3, <1>5 DEF DrivenBy, NobodyMerges
<1>7. PICK data, succ : data = ReadFile(store[n]) /\ succ = merge[n].succ OBVIOUS
<1>8. PICK new : new = IF Holds(n)
                       THEN {[type |-> "merge_update", from |-> n, to |-> r, data |-> data] : r \in succ}
                       ELSE {}
  OBVIOUS
<1>9. net = {} /\ Send(net, new) BY <1>3, <1>7, <1>8 DEF MergeSend, DrivenBy
<1>10. net' \subseteq new /\ \A x \in net' : up[x.to] BY <1>9 DEF Send, Reachable
<1>11. \A x \in new : x.type = "merge_update" /\ x.data = data /\ x.to \in succ BY <1>8
<1>12. \A x, y \in new : x.to = y.to => x = y BY <1>8
<1>13. ASSUME NEW x \in net' PROVE Carries(x)'
  <2>1. x.type = "merge_update" /\ x.data = data /\ x.to \in succ /\ up[x.to] BY <1>10, <1>11
  <2>2. Items(store[x.to]) \subseteq ToSet(data) BY <1>3, <1>7, <2>1 DEF Complements, Items
  <2>3. ASSUME NEW e \in landed, e[2] = x.to PROVE e[1] \in ToSet(data)
    BY <1>3, <2>1, <2>2, <2>3 DEF DrivenBy, Here
  <2>. QED BY <1>1, <2>1, <2>3 DEF Carries
<1>14. HereOrComing' BY <1>1, <1>3 DEF DrivenBy, Here, HereOrComing
<1>15. Busy' BY <1>1, <1>3 DEF DrivenBy, Busy
<1>16. Updating' BY <1>6, <1>10, <1>12, <1>13, <1>14, <1>15 DEF Updating
<1>. QED BY <1>16 DEF Staged

\* Updates are under way at the last stage only.
LEMMA OnlyUpdating ==
  ASSUME Staged, NEW m \in net, m.type \in {"merge_update", "merge_recreate"} PROVE Updating
BY DEF Staged, Quiet, MergeGoesOn, MergeTypes, Requested, Collecting, Sending, DrivenBy

\* A replica deletes its file, and has the new one coming,
LEMMA RecvMergeUpdateStaged ==
  ASSUME Sound, Kept, NEW m \in net, RecvMergeUpdate(m), Simple' PROVE Staged'
<1>1. m.type = "merge_update" /\ UNCHANGED <<up, view, scans, merge, writes, merges, landed>> BY DEF RecvMergeUpdate
<1>2. Staged BY <1>1, WasStaged DEF MoreWrites
<1>3. Updating BY <1>1, <1>2, OnlyUpdating
<1>4. m \in Updates /\ m.to \in Nodes BY <1>1, Addressed, Fields
<1>5. PICK k : k = [m EXCEPT !.type = "merge_recreate", !.from = m.to] OBVIOUS
<1>6. k.type = "merge_recreate" /\ k.to = m.to /\ k.from = m.to /\ k.data = m.data BY <1>4, <1>5 DEF Updates
<1>7. store' = [store EXCEPT ![m.to] = NoFile] /\ net' = (net \ {m}) \cup {k} BY <1>5 DEF RecvMergeUpdate
<1>8. store \in [Nodes -> Files] BY DEF Sound, Shelf
<1>9. ~Holds(m.to)' /\ \A r \in Nodes \ {m.to} : store'[r] = store[r] BY <1>4, <1>7, <1>8, NoFileType DEF Holds
<1>10. ASSUME NEW j \in net' PROVE Carries(j)'
  <2>1. CASE j = k
    <3>1. Carries(m) BY <1>3 DEF Updating
    <3>. QED BY <1>1, <1>6, <1>9, <2>1, <3>1 DEF Carries
  <2>2. CASE j # k
    <3>1. j \in net /\ j # m BY <1>7, <2>2
    <3>2. j.to # m.to /\ Carries(j) BY <1>3, <3>1 DEF Updating
    <3>3. j.to \in Nodes BY <3>1, Addressed
    <3>. QED BY <1>1, <1>9, <3>2, <3>3 DEF Carries, Holds
  <2>. QED BY <2>1, <2>2
<1>11. \A i, j \in net' : i.to = j.to => i = j BY <1>3, <1>6, <1>7 DEF Updating
<1>12. HereOrComing'
  <2>1. ASSUME NEW e \in landed, up[e[2]]
        PROVE  e[1] \in Items(store'[e[2]]) \/ \E j \in net' : j.type = "merge_recreate" /\ j.to = e[2]
    <3>1. CASE e[2] = m.to BY <1>6, <1>7, <3>1
    <3>2. CASE e[2] # m.to
      <4>1. e[2] \in Nodes BY <2>1 DEF Sound, Records
      <4>2. store'[e[2]] = store[e[2]] BY <1>9, <3>2, <4>1
      <4>3. e[1] \in Items(store[e[2]]) \/ \E j \in net : j.type = "merge_recreate" /\ j.to = e[2]
        BY <1>3, <2>1 DEF Updating, HereOrComing
      <4>. QED BY <1>7, <3>2, <4>2, <4>3
    <3>. QED BY <3>1, <3>2
  <2>. QED BY <1>1, <2>1 DEF HereOrComing
<1>13. Updating' BY <1>1, <1>3, <1>10, <1>11, <1>12 DEF Updating, Busy, NobodyMerges
<1>. QED BY <1>13 DEF Staged

\* which it makes of the merged content.
LEMMA RecreateStaged ==
  ASSUME Sound, Kept, NEW m \in net, Recreate(m), Simple' PROVE Staged'
<1>1. /\ m.type = "merge_recreate" /\ net' = net \ {m}
      /\ UNCHANGED <<up, view, scans, merge, writes, merges, landed>>
  BY DEF Recreate
<1>2. Staged BY <1>1, WasStaged DEF MoreWrites
<1>3. Updating BY <1>1, <1>2, OnlyUpdating
<1>4. m \in Updates /\ m.to \in Nodes BY <1>1, Addressed, Fields
<1>5. Carries(m) /\ ~Holds(m.to) BY <1>1, <1>3 DEF Updating, Carries
<1>6. PICK data \in Seq(Nat) : data = m.data BY <1>4 DEF Updates
<1>7. store \in [Nodes -> Files] BY DEF Sound, Shelf
<1>8. PICK f \in Files : f = store[m.to] /\ KeysApart(f) BY <1>4 DEF Sound, Shelf
<1>9. PICK id \in Nat, client \in Clientele : id = Float64(FileHash) /\ client = MergedClient
  BY <1>4, HashTypes, ClientTypes
<1>10. PICK g : g = CreateFile(f, id, client, data) OBVIOUS
<1>11. store'[m.to] = g /\ \A r \in Nodes \ {m.to} : store'[r] = store[r]
  BY <1>4, <1>6, <1>7, <1>8, <1>9, <1>10 DEF Recreate
<1>12. ReadFile(g) = data BY <1>5, <1>8, <1>10, CreateMakes DEF Holds
<1>13. ASSUME NEW j \in net' PROVE Carries(j)' /\ j.to # m.to
  <2>1. j \in net /\ j # m BY <1>1
  <2>2. j.to # m.to /\ Carries(j) BY <1>3, <2>1 DEF Updating
  <2>3. j.to \in Nodes BY <2>1, Addressed
  <2>. QED BY <1>1, <1>11, <2>2, <2>3 DEF Carries, Holds
<1>14. \A i, j \in net' : i.to = j.to => i = j BY <1>1, <1>3 DEF Updating
<1>15. HereOrComing'
  <2>1. ASSUME NEW e \in landed, up[e[2]]
        PROVE  e[1] \in Items(store'[e[2]]) \/ \E j \in net' : j.type = "merge_recreate" /\ j.to = e[2]
    <3>1. CASE e[2] = m.to BY <1>5, <1>6, <1>11, <1>12, <2>1, <3>1 DEF Carries, Items
    <3>2. CASE e[2] # m.to
      <4>1. e[2] \in Nodes BY <2>1 DEF Sound, Records
      <4>2. store'[e[2]] = store[e[2]] BY <1>11, <3>2, <4>1
      <4>3. e[1] \in Items(store[e[2]]) \/ \E j \in net : j.type = "merge_recreate" /\ j.to = e[2]
        BY <1>3, <2>1 DEF Updating, HereOrComing
      <4>. QED BY <1>1, <3>2, <4>2, <4>3
    <3>. QED BY <3>1, <3>2
  <2>. QED BY <1>1, <2>1 DEF HereOrComing
<1>16. Updating' BY <1>1, <1>3, <1>13, <1>14, <1>15 DEF Updating, Busy, NobodyMerges
<1>. QED BY <1>16 DEF Staged

\* What the steps of a merge leave alone.
LEMMA MergePlain ==
  ASSUME Kept, UNCHANGED <<view, writes, merges, landed>>, Bare',
         \A m \in net' : m \in net \/ m.type \in MergeTypes, Simple' => Staged'
  PROVE  Kept'
<1>1. Known' /\ merges' \in Nat BY DEF Kept, Known
<1>2. Letters' BY DEF Kept, Letters, Labelled, IsCreate, MergeTypes
<1>. QED BY <1>1, <1>2 DEF Kept

\* All steps of a merge.
LEMMA MergingKept ==
  ASSUME Sound, Kept,
         \/ \E m \in net : RecvMergeRequest(m) \/ RecvMergeUpdate(m) \/ Recreate(m)
         \/ \E n \in Nodes : MergeLocally(n) \/ MergeSend(n) \/ \E r \in Nodes : MergeCollect(n, r)
  PROVE  Kept'
<1>1. Bare BY DEF Kept
<1>2. UNCHANGED store => Bare' BY <1>1 DEF Bare, Holds
<1>3. ASSUME NEW m \in net, RecvMergeRequest(m) PROVE Kept'
  <2>1. UNCHANGED <<view, store, writes, merges, landed>> BY <1>3 DEF RecvMergeRequest
  <2>2. \A x \in net' : x \in net \/ x.type \in MergeTypes
    BY <1>3 DEF RecvMergeRequest, StartMerge, Send, Reachable, MergeTypes
  <2>. QED BY <1>2, <1>3, <2>1, <2>2, RecvMergeRequestStaged, MergePlain
<1>4. ASSUME NEW m \in net, RecvMergeUpdate(m) PROVE Kept'
  <2>1. UNCHANGED <<view, writes, merges, landed>> /\ m.type = "merge_update" BY <1>4 DEF RecvMergeUpdate
  <2>2. m \in Updates /\ m.to \in Nodes BY <2>1, Addressed, Fields
  <2>3. PICK k : k = [m EXCEPT !.type = "merge_recreate", !.from = m.to] OBVIOUS
  <2>4. k.type = "merge_recreate" BY <2>2, <2>3 DEF Updates
  <2>5. store' = [store EXCEPT ![m.to] = NoFile] /\ net' = (net \ {m}) \cup {k} BY <1>4, <2>3 DEF RecvMergeUpdate
  <2>6. NoFile.blocks = <<>> BY DEF NoFile
  <2>7. Bare' BY <1>1, <2>2, <2>5, <2>6, BareStep
  <2>8. \A x \in net' : x \in net \/ x.type \in MergeTypes BY <2>4, <2>5 DEF MergeTypes
  <2>. QED BY <1>4, <2>1, <2>7, <2>8, RecvMergeUpdateStaged, MergePlain
<1>5. ASSUME NEW m \in net, Recreate(m) PROVE Kept'
  <2>1. UNCHANGED <<view, writes, merges, landed>> /\ m.type = "merge_recreate" /\ net' = net \ {m}
    BY <1>5 DEF Recreate
  <2>2. m \in Updates /\ m.to \in Nodes BY <2>1, Addressed, Fields
  <2>3. PICK f \in Files : f = store[m.to] /\ KeysApart(f) BY <2>2 DEF Sound, Shelf
  <2>4. PICK id \in Nat, client \in Clientele, data \in Seq(Nat) :
          id = Float64(FileHash) /\ client = MergedClient /\ data = m.data
    BY <2>2, HashTypes, ClientTypes DEF Updates
  <2>5. PICK g : g = CreateFile(f, id, client, data) OBVIOUS
  <2>6. g.exists BY <2>3, <2>5, CreateMakes
  <2>7. store' = [store EXCEPT ![m.to] = g] BY <1>5, <2>3, <2>4, <2>5 DEF Recreate
  <2>8. Bare' BY <1>1, <2>2, <2>6, <2>7, BareStep
  <2>. QED BY <1>5, <2>1, <2>8, RecreateStaged, MergePlain
<1>6. ASSUME NEW n \in Nodes, MergeLocally(n) PROVE Kept'
  <2>1. UNCHANGED <<view, net, writes, merges, landed>> BY <1>6 DEF MergeLocally
  <2>2. Bare'
    <3>1. CASE Holds(n) /\ store' = [store EXCEPT ![n] = MergeFile(@, merge[n].blocks)]
      <4>1. PICK f \in Files : f = store[n] BY DEF Sound, Shelf
      <4>2. PICK g : g = MergeFile(f, merge[n].blocks) OBVIOUS
      <4>3. f.exists BY <3>1, <4>1 DEF Holds
      <4>4. g.exists BY <4>2, <4>3 DEF MergeFile, Files
      <4>5. store' = [store EXCEPT ![n] = g] BY <3>1, <4>1, <4>2
      <4>. QED BY <1>1, <4>4, <4>5, BareStep
    <3>. QED BY <1>2, <1>6, <3>1 DEF MergeLocally
  <2>. QED BY <1>6, <2>1, <2>2, MergeLocallyStaged, MergePlain
<1>7. ASSUME NEW n \in Nodes, MergeSend(n) PROVE Kept'
  <2>1. UNCHANGED <<view, store, writes, merges, landed>> BY <1>7 DEF MergeSend
  <2>2. \A x \in net' : x \in net \/ x.type \in MergeTypes BY <1>7 DEF MergeSend, Send, Reachable, MergeTypes
  <2>. QED BY <1>2, <1>7, <2>1, <2>2, MergeSendStaged, MergePlain
<1>8. ASSUME NEW n \in Nodes, NEW r \in Nodes, MergeCollect(n, r) PROVE Kept'
  <2>1. UNCHANGED <<view, store, net, writes, merges, landed>> BY <1>8 DEF MergeCollect
  <2>. QED BY <1>2, <1>8, <2>1, MergeCollectStaged, MergePlain
<1>. QED BY <1>3, <1>4, <1>5, <1>6, <1>7, <1>8

\* Every step.
LEMMA KeptStep == ASSUME Overlaps \subseteq {"crash"}, Sound, Kept, [Next]_vars PROVE Kept'
<1>1. CASE UNCHANGED vars
  <2>1. UNCHANGED <<up, view, store, net, scans, merge, writes, merges, landed>> BY <1>1 DEF vars
  <2>2. Staged => Staged'
    <3>1. (Here => Here') /\ (HereOrComing => HereOrComing') BY <2>1 DEF Here, HereOrComing
    <3>2. Labels => Labels' BY <2>1 DEF Labels, OfOneWrite, InPlace, IsCreate
    <3>3. (Busy => Busy') /\ (NobodyMerges => NobodyMerges') /\ (~MergeGoesOn => ~MergeGoesOn')
      BY <2>1 DEF Busy, NobodyMerges, MergeGoesOn
    <3>4. ASSUME NEW n \in Nodes
          PROVE  (DrivenBy(n) => DrivenBy(n)') /\ (Gathered(n) => Gathered(n)') /\ (Complements(n) => Complements(n)')
      BY <2>1, <3>1, <3>3 DEF DrivenBy, Gathered, Complements
    <3>5. Quiet => Quiet' BY <2>1, <3>1, <3>2, <3>3 DEF Quiet
    <3>6. Requested => Requested' BY <2>1, <3>1, <3>2, <3>3 DEF Requested
    <3>7. Collecting => Collecting' BY <2>1, <3>2, <3>4 DEF Collecting
    <3>8. Sending => Sending' BY <2>1, <3>4 DEF Sending
    <3>9. Updating => Updating' BY <2>1, <3>1, <3>3 DEF Updating, Carries, Holds
    <3>. QED BY <3>5, <3>6, <3>7, <3>8, <3>9 DEF Staged
  <2>3. Simple' => Simple BY <2>1 DEF Simple, WriteCount
  <2>4. Bare' BY <2>1 DEF Kept, Bare, Holds
  <2>. QED BY <2>1, <2>2, <2>3, <2>4, MergePlain DEF Kept
<1>2. ASSUME NEW m \in net, Receive(m) PROVE Kept'
  BY <1>2, RecvReplicateKept, RecvAckKept, RecvAppendKept, RecvRereplicateKept, MergingKept DEF Receive
<1>3. ASSUME NEW n \in Nodes, Create(n) \/ CLICreate(n) \/ AppendTo(n) \/ Merge(n) PROVE Kept'
  BY <1>3, CreateKept, CLICreateKept, AppendToKept, MergeKept
<1>4. ASSUME NEW n \in Nodes, MergeLocally(n) \/ MergeSend(n) \/ Crash(n) \/ Join(n) PROVE Kept'
  BY <1>4, MergingKept, CrashKept, JoinKept
<1>5. ASSUME NEW n \in Nodes, NEW r \in Nodes, MergeCollect(n, r) PROVE Kept' BY <1>5, MergingKept
<1>6. ASSUME NEW n \in Nodes, NEW gone \in SUBSET (view[n] \ Up), LearnFailed(n, gone) PROVE Kept'
  BY <1>6, LearnFailedKept
<1>7. ASSUME NEW n \in Nodes, NEW new \in SUBSET (Up \ view[n]), LearnJoined(n, new) PROVE Kept'
  BY <1>7, LearnJoinedKept
<1>8. ASSUME NEW s \in scans, Scan(s) PROVE Kept' BY <1>8, ScanKept
<1>9. ASSUME NEW n \in Nodes, NEW m \in Nodes, LearnByProbe(n, m) PROVE Kept' BY <1>9, LearnByProbeKept
<1>. QED BY <1>1, <1>2, <1>3, <1>4, <1>5, <1>6, <1>7, <1>8, <1>9 DEF Next

\* An empty store.
LEMMA InitKept == Init => Kept
<1>. SUFFICES ASSUME Init PROVE Kept OBVIOUS
<1>1. /\ store = [n \in Nodes |-> NoFile] /\ net = {} /\ merge = [n \in Nodes |-> Idle] /\ merges = 0
      /\ landed = {}
  BY DEF Init
<1>2. NoFile.blocks = <<>> /\ GetAllBlocks(NoFile) = {} BY DEF NoFile, GetAllBlocks, ToSet
<1>3. Bare BY <1>1, <1>2 DEF Bare
<1>4. Known /\ Letters BY <1>1 DEF Known, Letters
<1>5. Labels BY <1>1, <1>2 DEF Labels
<1>6. ~MergeGoesOn BY <1>1, IdleType DEF MergeGoesOn
<1>7. Quiet BY <1>1, <1>5, <1>6 DEF Quiet, Here
<1>. QED BY <1>1, <1>3, <1>4, <1>7 DEF Kept, Staged

\* What a replica has taken in it keeps, through the collecting of handleCLIMerge,
\* the deletion and new creation on every merge_update, re-replication, joins and
\* crashes at any moment, for any ring and any number of writes, as long as only
\* crashes meet a merge.
THEOREM Keeps ==
  ASSUME Overlaps \subseteq {"crash"} PROVE Spec => []KeepsWrites
<1>1. Init => Kept BY InitKept
<1>2. Sound /\ Kept /\ [Next]_vars => Kept' BY KeptStep
<1>3. Kept => KeepsWrites
  <2>. SUFFICES ASSUME Kept, ~MergeGoesOn, Simple PROVE Here BY DEF KeepsWrites, Simple, Here
  <2>1. Quiet BY NotBusy DEF Kept
  <2>. QED BY <2>1 DEF Quiet
<1>. QED BY <1>1, <1>2, <1>3, AlwaysSound, PTL DEF Spec

----------------------------------------------------------------------------
(* A created file survives *)

\* Nobody has joined.
NoJoins == \A n \in Nodes : view[n] # {} => n \in Started

\* A node that has started has a table for good; as long as nobody joins it
\* names every live node.
Rooted ==
  /\ \A n \in Started : view[n] # {}
  /\ NoJoins => \A n \in Up : Up \subseteq view[n]

\* A merge goes on without scans and in one place: a request on its way, ...
Asked == NobodyMerges /\ \E m \in net : net = {m} /\ m.type = "merge_request"
\* ... a single driver, ...
DriverOnly == net = {} /\ \E n \in Nodes : \A k \in Nodes \ {n} : merge[k].phase = "idle"
\* ... or its updates.
Renewing == NobodyMerges /\ \A m \in net : m.type \in {"merge_update", "merge_recreate"}
\* One of these, while it lasts.
OneMerge == MergeGoesOn => scans = {} /\ (Asked \/ DriverOnly \/ Renewing)

\* There is no file anywhere, and nothing to make one of.
Empty ==
  /\ chains = {} /\ landed = {} /\ \A n \in Nodes : ~Holds(n)
  /\ \A m \in net : m.type = "merge_request"
\* This is how it is before the first write.
Blank == writes = <<>> => Empty

\* What is to a create is from a create, what is to an append from an append.
Numbered ==
  /\ \A c \in chains : IsCreate(c.write)
  /\ \A m \in net : m.type = "append_file" => ~IsCreate(m.write) /\ m.write \in 1..Len(writes)

\* The message of a write is for replicas.
Written(m) ==
  /\ m.type = "append_file" => m.to \in Replicas
  /\ m.type = "replicate_file" => \A i \in 1..Len(m.succ) : m.succ[i] \in Replicas
\* So are all messages, unless a write meets a change of the membership.
Delivered == ~torn /\ WriteGoesOn => Settled /\ \A m \in net : Written(m)

\* The failures are the ones a file is to survive.
Mild == ~torn /\ NoJoins /\ Cardinality(burst) < NumReplicas

\* A file with the first write in it, under the id of its name or what is left of it.
Right(f) == f.exists /\ 1 \in Items(f) /\ f.id \in {FileHash, Float64(FileHash)}

\* Only replicas have a file, and those that have taken in the first create a right one.
Placed(c) ==
  /\ \A r \in Replicas : \E i \in 1..Len(c.succ) : c.succ[i] = r
  /\ \A n \in Nodes : Holds(n) => n \in Replicas
  /\ \A n \in Nodes : <<1, n>> \in landed => Right(store[n])
\* So it is while the first create is on its way.
FirstUnderWay == \E m \in net : m.type = "replicate_file" /\ m.write = 1
\* If it is lost, or meets a file that an append has made, it is never stored.
Begun(c) == ~Stored(c) /\ FirstUnderWay => Placed(c)

\* Every copy has what was created, ...
Copied == \A n \in Nodes : Holds(n) => Right(store[n])
\* ... so has every message, and a write changes a copy that is there.
Bearing(m) ==
  /\ m.type = "rereplicate_file" => 1 \in ToSet(m.data) /\ m.id = Float64(FileHash)
  /\ m.type \in {"merge_update", "merge_recreate"} => 1 \in ToSet(m.data)
  /\ m.type = "merge_recreate" => m.from = m.to
  /\ m.type \in {"replicate_file", "append_file"} => Holds(m.to)
\* Every one of them.
Carried == \A m \in net : Bearing(m)
\* The node makes its copy anew in a moment.
Remade(r) == \E m \in net : m.type = "merge_recreate" /\ m.to = r
\* A copy is on its way to the node.
Coming(r) == \E m \in net : m.type = "rereplicate_file" /\ m.to = r
\* Those that were replicas when all was last Whole and still live have copies,
Remain ==
  \A r \in Successors(FileHash, Up \cup burst, NumReplicas) : up[r] => Holds(r) \/ Remade(r)
\* and the first of them has yet to learn something, has learned it with no scan
\* since, is about to send copies to all replicas, or has done so.
Mending ==
  Up # {} =>
    \/ view[First] # Up \/ First \in unscanned
    \/ [node |-> First, view |-> Up] \in scans
    \/ \A r \in Replicas : Holds(r) \/ Remade(r) \/ Coming(r)
\* A merge that has been to its own store has found what was created.
Found ==
  \A n \in Nodes :
    merge[n].phase = "collect" /\ n \notin merge[n].left /\ Holds(n) => 1 \in Contents(merge[n].blocks)
\* All of this, once the create has been stored.
Guarded == Copied /\ Carried /\ Remain /\ Mending /\ Found

\* This is what every step preserves.
Alive ==
  /\ burst \subseteq Nodes /\ Rooted /\ OneMerge /\ Blank /\ Numbered /\ Delivered
  /\ Mild => \A c \in chains : c.write = 1 => Begun(c) /\ (Stored(c) => Guarded)

----------------------------------------------------------------------------
(* Membership *)

\* Only five actions change processes and tables.
LEMMA MembershipStep ==
  ASSUME [Next]_vars
  PROVE  \/ UNCHANGED <<up, view, unscanned, burst>>
         \/ \E n \in Nodes : \/ Crash(n) \/ Join(n)
                             \/ \E gone \in SUBSET (view[n] \ Up) : LearnFailed(n, gone)
                             \/ \E new \in SUBSET (Up \ view[n]) : LearnJoined(n, new)
                             \/ \E m \in Nodes : LearnByProbe(n, m)
<1>1. ASSUME NEW m \in net, Receive(m) PROVE UNCHANGED <<up, view, unscanned, burst>>
  BY <1>1, Zenon DEF Receive, RecvReplicate, RecvAck, RecvAppend, RecvRereplicate, RecvMergeRequest, RecvMergeUpdate, Recreate
<1>2. ASSUME NEW n \in Nodes, Create(n) \/ CLICreate(n) \/ AppendTo(n) \/ Merge(n) PROVE UNCHANGED <<up, view, unscanned, burst>>
  BY <1>2, Zenon DEF Create, CLICreate, AppendTo, Merge
<1>3. ASSUME NEW n \in Nodes, MergeLocally(n) \/ MergeSend(n) \/ \E r \in Nodes : MergeCollect(n, r)
      PROVE  UNCHANGED <<up, view, unscanned, burst>>
  BY <1>3, Zenon DEF MergeLocally, MergeSend, MergeCollect
<1>4. ASSUME NEW s \in scans, Scan(s) PROVE UNCHANGED <<up, view, unscanned, burst>> BY <1>4, Zenon DEF Scan
<1>5. CASE UNCHANGED vars BY <1>5, Zenon DEF vars
<1>. QED BY <1>1, <1>2, <1>3, <1>4, <1>5, Zenon DEF Next

\* A node keeps some table once it has one, and what a live node drops is dead.
LEMMA TablesGrow ==
  ASSUME Sound, [Next]_vars, NEW n \in Nodes, view[n] # {} PROVE view'[n] # {}
<1>1. up \in [Nodes -> BOOLEAN] /\ view \in [Nodes -> SUBSET Nodes] /\ \A k \in Nodes : up[k] => k \in view[k]
  BY DEF Sound, Tables
<1>2. CASE UNCHANGED <<up, view, unscanned, burst>> BY <1>2
<1>3. ASSUME NEW k \in Nodes, Crash(k) PROVE view'[n] # {} BY <1>3 DEF Crash
<1>4. ASSUME NEW k \in Nodes, Join(k) PROVE view'[n] # {}
  <2>1. PICK v : view' = [view EXCEPT ![k] = v, ![Introducer] = @ \cup {k}] /\ view[k] = {} BY <1>4 DEF Join
  <2>. QED BY <1>1, <2>1
<1>5. ASSUME NEW k \in Nodes, NEW gone \in SUBSET (view[k] \ Up), LearnFailed(k, gone) PROVE view'[n] # {}
  <2>1. view' = [view EXCEPT ![k] = @ \ gone] /\ up[k] BY <1>5 DEF LearnFailed
  <2>2. k \in view[k] /\ k \notin gone BY <1>1, <2>1 DEF Up
  <2>. QED BY <1>1, <2>1, <2>2
<1>6. ASSUME NEW k \in Nodes, NEW new \in SUBSET (Up \ view[k]), LearnJoined(k, new) PROVE view'[n] # {}
  <2>1. view' = [view EXCEPT ![k] = @ \cup new] BY <1>6 DEF LearnJoined
  <2>. QED BY <1>1, <2>1
<1>7. ASSUME NEW k \in Nodes, NEW m \in Nodes, LearnByProbe(k, m) PROVE view'[n] # {}
  <2>1. PICK gone \in SUBSET (view[k] \ Up), new \in SUBSET (Up \ view[k]) :
          view' = [view EXCEPT ![k] = (@ \ gone) \cup new]
    BY <1>7, ProbeDoes
  <2>2. up[k] BY <1>7 DEF LearnByProbe
  <2>3. k \in view[k] /\ k \notin gone BY <1>1, <2>2 DEF Up
  <2>. QED BY <1>1, <2>1, <2>3
<1>. QED BY <1>2, <1>3, <1>4, <1>5, <1>6, <1>7, MembershipStep

\* So a state without joins has had none, and its next ones ...
LEMMA NoJoinsBefore == ASSUME Sound, [Next]_vars, NoJoins' PROVE NoJoins
BY TablesGrow DEF NoJoins

\* ... neither start a node nor tell anyone of one.
LEMMA NobodyNew ==
  ASSUME Sound, Rooted, NoJoins', NEW n \in Nodes
  PROVE  /\ ~Join(n)
         /\ NoJoins => \A new \in SUBSET (Up \ view[n]) : ~LearnJoined(n, new)
         /\ NoJoins => \A m \in Nodes : LearnByProbe(n, m) =>
              \E gone \in SUBSET (view[n] \ Up) : view' = [view EXCEPT ![n] = @ \ gone] /\ gone # {}
<1>1. view \in [Nodes -> SUBSET Nodes] /\ Introducer \in Nodes BY RingAssumption DEF Sound, Tables
<1>2. ~Join(n)
  <2>. SUFFICES ASSUME Join(n) PROVE FALSE OBVIOUS
  <2>1. view[n] = {} /\ view' = [view EXCEPT ![n] = view[Introducer] \cup {n}, ![Introducer] = @ \cup {n}]
    BY DEF Join
  <2>2. n \in view'[n] BY <1>1, <2>1
  <2>3. n \in Started BY <2>2 DEF NoJoins
  <2>. QED BY <2>1, <2>3 DEF Rooted
<1>3. ASSUME NoJoins, NEW new \in SUBSET (Up \ view[n]), LearnJoined(n, new) PROVE FALSE
  <2>1. up[n] /\ new # {} BY <1>3 DEF LearnJoined
  <2>2. Up \subseteq view[n] BY <1>3, <2>1 DEF Rooted, Up
  <2>. QED BY <2>1, <2>2
<1>4. ASSUME NoJoins, NEW m \in Nodes, LearnByProbe(n, m)
      PROVE  \E gone \in SUBSET (view[n] \ Up) : view' = [view EXCEPT ![n] = @ \ gone] /\ gone # {}
  <2>1. PICK gone \in SUBSET (view[n] \ Up), new \in SUBSET (Up \ view[n]) :
          gone \cup new # {} /\ view' = [view EXCEPT ![n] = (@ \ gone) \cup new]
    BY <1>4, ProbeDoes
  <2>2. up[n] BY <1>4 DEF LearnByProbe
  <2>3. Up \subseteq view[n] BY <1>4, <2>2 DEF Rooted, Up
  <2>4. new = {} BY <2>3
  <2>5. view' = [view EXCEPT ![n] = @ \ gone] /\ gone # {} BY <2>1, <2>4
  <2>. QED BY <2>5
<1>. QED BY <1>2, <1>3, <1>4

\* Tables stay right about the living.
LEMMA RootedStep == ASSUME Sound, Rooted, [Next]_vars PROVE Rooted'
<1>1. up \in [Nodes -> BOOLEAN] /\ view \in [Nodes -> SUBSET Nodes] /\ \A k \in Nodes : up[k] => k \in view[k]
  BY DEF Sound, Tables
<1>2. \A n \in Started : view'[n] # {} BY TablesGrow, RingAssumption DEF Rooted
<1>3. ASSUME NoJoins' PROVE \A n \in Up' : Up' \subseteq view'[n]
  <2>1. NoJoins BY <1>3, NoJoinsBefore
  <2>2. \A n \in Up : Up \subseteq view[n] BY <2>1 DEF Rooted
  <2>3. CASE UNCHANGED <<up, view, unscanned, burst>>
    <3>1. Up' = Up BY <2>3 DEF Up
    <3>. QED BY <2>2, <2>3, <3>1
  <2>4. ASSUME NEW k \in Nodes, Crash(k) PROVE \A n \in Up' : Up' \subseteq view'[n]
    <3>1. up' = [up EXCEPT ![k] = FALSE] /\ UNCHANGED view BY <2>4 DEF Crash
    <3>2. Up' \subseteq Up BY <1>1, <3>1 DEF Up
    <3>. QED BY <2>2, <3>1, <3>2
  <2>5. ASSUME NEW k \in Nodes, NEW gone \in SUBSET (view[k] \ Up), LearnFailed(k, gone)
        PROVE  \A n \in Up' : Up' \subseteq view'[n]
    <3>1. view' = [view EXCEPT ![k] = @ \ gone] /\ UNCHANGED up BY <2>5 DEF LearnFailed
    <3>2. Up' = Up /\ Up \subseteq Nodes BY <3>1 DEF Up
    <3>. QED BY <1>1, <2>2, <3>1, <3>2
  <2>6. ASSUME NEW k \in Nodes, NEW m \in Nodes, LearnByProbe(k, m) PROVE \A n \in Up' : Up' \subseteq view'[n]
    <3>1. PICK gone \in SUBSET (view[k] \ Up) : view' = [view EXCEPT ![k] = @ \ gone]
      BY <1>3, <2>1, <2>6, NobodyNew
    <3>2. Up' = Up /\ Up \subseteq Nodes BY <2>6 DEF LearnByProbe, Up
    <3>. QED BY <1>1, <2>2, <3>1, <3>2
  <2>. QED BY <1>3, <2>1, <2>3, <2>4, <2>5, <2>6, MembershipStep, NobodyNew
<1>. QED BY <1>2, <1>3 DEF Rooted

\* What is torn stays torn.
LEMMA TornStays == ASSUME [Next]_vars, torn PROVE torn'
<1>1. ASSUME NEW m \in net, Receive(m) PROVE UNCHANGED torn
  BY <1>1, Zenon DEF Receive, RecvReplicate, RecvAck, RecvAppend, RecvRereplicate, RecvMergeRequest, RecvMergeUpdate, Recreate
<1>2. ASSUME NEW n \in Nodes, Create(n) \/ CLICreate(n) \/ AppendTo(n) \/ Merge(n) PROVE torn'
  BY <1>2, Zenon DEF Create, CLICreate, AppendTo, Merge
<1>3. ASSUME NEW n \in Nodes, MergeLocally(n) \/ MergeSend(n) \/ \E r \in Nodes : MergeCollect(n, r)
      PROVE  UNCHANGED torn
  BY <1>3, Zenon DEF MergeLocally, MergeSend, MergeCollect
<1>4. ASSUME NEW s \in scans, Scan(s) PROVE UNCHANGED torn BY <1>4, Zenon DEF Scan
<1>5. CASE UNCHANGED vars BY <1>5, Zenon DEF vars
<1>6. ASSUME NEW n \in Nodes, Crash(n) \/ Join(n) PROVE torn' BY <1>6, Zenon DEF Crash, Join
<1>7. ASSUME NEW n \in Nodes, NEW s, LearnFailed(n, s) \/ LearnJoined(n, s) \/ LearnByProbe(n, s) PROVE torn'
  BY <1>7, Zenon DEF LearnFailed, LearnJoined, LearnByProbe
<1>. QED BY <1>1, <1>2, <1>3, <1>4, <1>5, <1>6, <1>7, Zenon DEF Next

\* A crash counts among those since the system was last Whole.
LEMMA BurstStep ==
  ASSUME Sound, burst \subseteq Nodes, [Next]_vars
  PROVE  burst' \subseteq Nodes /\ (Cardinality(burst') < NumReplicas => Cardinality(burst) < NumReplicas)
<1>1. CASE UNCHANGED burst BY <1>1
<1>2. ASSUME NEW n \in Nodes, Crash(n)
      PROVE  burst' \subseteq Nodes /\ (Cardinality(burst') < NumReplicas => Cardinality(burst) < NumReplicas)
  <2>1. burst' = (IF Whole /\ Cardinality(burst) < NumReplicas THEN {} ELSE burst) \cup {n} BY <1>2 DEF Crash
  <2>2. burst' \subseteq Nodes BY <2>1
  <2>3. IsFiniteSet(burst) /\ IsFiniteSet(burst') BY <2>2, RingAssumption, FS_Subset
  <2>4. CASE ~(Cardinality(burst) < NumReplicas)
    <3>1. burst \subseteq burst' BY <2>1, <2>4
    <3>2. Cardinality(burst) <= Cardinality(burst') BY <2>3, <3>1, FS_Subset
    <3>3. Cardinality(burst) \in Nat /\ Cardinality(burst') \in Nat /\ NumReplicas \in Nat
      BY <2>3, FS_CardinalityType, RingAssumption
    <3>. QED BY <2>2, <2>4, <3>2, <3>3
  <2>. QED BY <2>2, <2>4
<1>3. ASSUME NEW n \in Nodes, Join(n) PROVE UNCHANGED burst BY <1>3, Zenon DEF Join
<1>4. ASSUME NEW n \in Nodes, NEW s, LearnFailed(n, s) \/ LearnJoined(n, s) \/ LearnByProbe(n, s) PROVE UNCHANGED burst
  BY <1>4, Zenon DEF LearnFailed, LearnJoined, LearnByProbe
<1>. QED BY <1>1, <1>2, <1>3, <1>4, MembershipStep

\* A state after mild failures only is one a file has survived until now.
LEMMA MildBefore == ASSUME Sound, burst \subseteq Nodes, [Next]_vars, Mild' PROVE Mild
BY TornStays, BurstStep, NoJoinsBefore DEF Mild

----------------------------------------------------------------------------
(* One merge at a time *)

\* Its only message, or none.
LEMMA NotMerging ==
  ASSUME OneMerge, NEW m \in net, m.type \notin MergeTypes PROVE ~MergeGoesOn
BY DEF OneMerge, Asked, DriverOnly, Renewing, MergeTypes

\* A merge that is started is the only one.
LEMMA StartsAlone ==
  ASSUME Sound, NobodyMerges, scans' = {}, NEW n \in Nodes, StartMerge(n, {}) PROVE OneMerge'
<1>1. merge \in [Nodes -> Merges] BY DEF Sound, Driving
<1>2. CASE Primary(FileHash, view[n]) = n
  <2>1. net' = {} /\ \E x : merge' = [merge EXCEPT ![n] = x] BY <1>2 DEF StartMerge
  <2>2. \A k \in Nodes \ {n} : merge'[k].phase = "idle" BY <1>1, <2>1 DEF NobodyMerges
  <2>3. DriverOnly' BY <2>1, <2>2 DEF DriverOnly
  <2>. QED BY <2>3 DEF OneMerge
<1>3. CASE Primary(FileHash, view[n]) # n
  <2>1. PICK m : m = [type |-> "merge_request", from |-> n, to |-> Primary(FileHash, view[n])] OBVIOUS
  <2>2. Send({}, {m}) /\ UNCHANGED merge BY <1>3, <2>1 DEF StartMerge
  <2>3. NobodyMerges' BY <2>2 DEF NobodyMerges
  <2>4. m.type = "merge_request" BY <2>1
  <2>5. net' = {} \/ net' = {m} BY <2>2 DEF Send, Reachable
  <2>6. CASE net' = {m} BY <2>3, <2>4, <2>6 DEF OneMerge, Asked
  <2>7. CASE net' = {} BY <2>3, <2>7 DEF OneMerge, Renewing
  <2>. QED BY <2>5, <2>6, <2>7
<1>. QED BY <1>2, <1>3

\* What sends nothing for a merge starts none.
LEMMA StaysUnmerged ==
  ASSUME ~MergeGoesOn, UNCHANGED merge, \A m \in net' : m \in net \/ m.type \notin MergeTypes
  PROVE  ~MergeGoesOn'
BY DEF MergeGoesOn

\* The messages a step sends are new ones.
LEMMA NewMail ==
  ASSUME NEW rest, rest \subseteq net, NEW new, Send(rest, new)
  PROVE  /\ net' = rest \cup {m \in new : up[m.to]}
         /\ \A m \in net' : m \in net \/ m \in new
BY DEF Send, Reachable

\* A write starts no merge.
LEMMA WriteStarts ==
  ASSUME "write" \notin Overlaps, NEW n \in Nodes, Create(n) \/ CLICreate(n) \/ AppendTo(n)
  PROVE  ~MergeGoesOn /\ ~MergeGoesOn'
<1>1. ~MergeGoesOn /\ UNCHANGED merge BY Zenon DEF Create, CLICreate, AppendTo, During
<1>2. CASE Create(n)
  <2>1. PICK new : Send(net, new) /\ \A m \in new : m.type = "replicate_file"
    BY <1>2 DEF Create, Replicate
  <2>2. \A m \in net' : m \in net \/ m \in new BY <2>1, NewMail
  <2>. QED BY <1>1, <2>1, <2>2, StaysUnmerged DEF MergeTypes
<1>3. CASE CLICreate(n)
  <2>1. PICK new : Send(net, new) /\ \A m \in new : m.type = "replicate_file"
    BY <1>3 DEF CLICreate, Replicate
  <2>2. \A m \in net' : m \in net \/ m \in new BY <2>1, NewMail
  <2>. QED BY <1>1, <2>1, <2>2, StaysUnmerged DEF MergeTypes
<1>4. CASE AppendTo(n)
  <2>1. PICK new : Send(net, new) /\ \A m \in new : m.type = "append_file" BY <1>4 DEF AppendTo
  <2>2. \A m \in net' : m \in net \/ m \in new BY <2>1, NewMail
  <2>. QED BY <1>1, <2>1, <2>2, StaysUnmerged DEF MergeTypes
<1>. QED BY <1>2, <1>3, <1>4

\* What a replicate_file does: the file is there, or it is made and passed on.
LEMMA ReplicateDoes ==
  ASSUME Sound, NEW m \in net, RecvReplicate(m)
  PROVE  /\ m.type = "replicate_file" /\ net \ {m} \subseteq net'
         /\ UNCHANGED <<up, view, scans, merge, writes, merges, unscanned, burst, chains, torn>>
         /\ \/ Holds(m.to) /\ net' = net \ {m} /\ UNCHANGED <<store, landed>>
            \/ /\ ~Holds(m.to) /\ landed' = landed \cup {<<m.write, m.to>>}
               /\ store' = [store EXCEPT ![m.to] = CreateFile(@, Float64(FileHash), m.client, <<m.write>>)]
               /\ \A x \in net' :
                    \/ x \in net \ {m}
                    \/ x.type = "replication_ack"
                    \/ x.type = "replicate_file" /\ x.write = m.write /\ x.succ = m.succ /\ x.client = m.client
<1>. DEFINE n == m.to
            k == m.index + 1
            next == k < Len(m.succ) /\ m.succ[k + 1] \in view[n]
            forward == IF ~IsLast(m) /\ m.next
                       THEN {Replicate(n, m.succ, k, next, n, m.write, m.client)} ELSE {}
            answer == IF AckAfterStore(m) THEN {[type |-> "replication_ack", from |-> n, to |-> m.ack]} ELSE {}
<1>1. /\ m.type = "replicate_file"
      /\ UNCHANGED <<up, view, scans, merge, writes, merges, unscanned, burst, chains, torn>>
      /\ \/ Holds(n) /\ Send(net \ {m}, {}) /\ UNCHANGED <<store, landed>>
         \/ /\ ~Holds(n) /\ landed' = landed \cup {<<m.write, n>>}
            /\ store' = [store EXCEPT ![n] = CreateFile(@, Float64(FileHash), m.client, <<m.write>>)]
            /\ Send(net \ {m}, forward \cup answer)
  BY Zenon DEF RecvReplicate
<1>2. \A x \in forward : x.type = "replicate_file" /\ x.write = m.write /\ x.succ = m.succ /\ x.client = m.client BY DEF Replicate
<1>3. \A x \in answer : x.type = "replication_ack" OBVIOUS
<1>. HIDE DEF n, forward, answer
<1>4. CASE Holds(n) /\ Send(net \ {m}, {}) /\ UNCHANGED <<store, landed>>
  <2>1. net' = net \ {m} BY <1>4 DEF Send, Reachable
  <2>. QED BY <1>1, <1>4, <2>1 DEF n
<1>5. CASE /\ ~Holds(n) /\ landed' = landed \cup {<<m.write, n>>}
           /\ store' = [store EXCEPT ![n] = CreateFile(@, Float64(FileHash), m.client, <<m.write>>)]
           /\ Send(net \ {m}, forward \cup answer)
  <2>1. net' = (net \ {m}) \cup {x \in forward \cup answer : up[x.to]} BY <1>5 DEF Send, Reachable
  <2>2. \A x \in net' : \/ x \in net \ {m} \/ x.type = "replication_ack"
                        \/ x.type = "replicate_file" /\ x.write = m.write /\ x.succ = m.succ /\ x.client = m.client
    BY <1>2, <1>3, <2>1
  <2>. QED BY <1>1, <1>5, <2>1, <2>2 DEF n
<1>. QED BY <1>1, <1>4, <1>5

\* What an append_file does.
LEMMA AppendDoes ==
  ASSUME Sound, NEW m \in net, RecvAppend(m)
  PROVE  /\ m.type = "append_file" /\ net \ {m} \subseteq net'
         /\ UNCHANGED <<up, view, scans, merge, writes, merges, unscanned, burst, chains, torn>>
         /\ \/ /\ m.to \in Successors(FileHash, view[m.to], NumReplicas) /\ net' = net \ {m}
               /\ landed' = landed \cup {<<m.write, m.to>>}
               /\ store' = [store EXCEPT ![m.to] = AppendFile(@, m.client, <<m.write>>)]
            \/ /\ m.to \notin Successors(FileHash, view[m.to], NumReplicas) /\ UNCHANGED <<store, landed>>
               /\ \A x \in net' : x \in net \ {m} \/ (x.type = "append_file" /\ x.write = m.write)
<1>1. m \in Appends BY Addressed, Fields DEF RecvAppend
<1>2. m.type = "append_file" /\ UNCHANGED <<up, view, scans, merge, writes, merges, unscanned, burst, chains, torn>>
  BY Zenon DEF RecvAppend
<1>3. CASE m.to \in Successors(FileHash, view[m.to], NumReplicas)
  <2>1. /\ Send(net \ {m}, {}) /\ landed' = landed \cup {<<m.write, m.to>>}
        /\ store' = [store EXCEPT ![m.to] = AppendFile(@, m.client, <<m.write>>)]
    BY <1>3, Zenon DEF RecvAppend
  <2>2. net' = net \ {m} BY <2>1 DEF Send, Reachable
  <2>. QED BY <1>2, <1>3, <2>1, <2>2
<1>4. CASE m.to \notin Successors(FileHash, view[m.to], NumReplicas)
  <2>1. PICK y : y = [m EXCEPT !.from = m.to, !.to = Primary(FileHash, view[m.to])] OBVIOUS
  <2>2. Send(net \ {m}, {y}) /\ UNCHANGED <<store, landed>> BY <1>4, <2>1, Zenon DEF RecvAppend
  <2>3. net' = (net \ {m}) \cup {x \in {y} : up[x.to]} BY <2>2 DEF Send, Reachable
  <2>4. y.type = "append_file" /\ y.write = m.write BY <1>1, <2>1 DEF Appends
  <2>. QED BY <1>2, <1>4, <2>2, <2>3, <2>4
<1>. QED BY <1>3, <1>4

\* What an ack does.
LEMMA AckDoes ==
  ASSUME NEW m \in net, RecvAck(m)
  PROVE  /\ m.type = "replication_ack" /\ net \ {m} \subseteq net'
         /\ UNCHANGED <<up, view, store, scans, merge, writes, merges, unscanned, burst, chains, landed, torn>>
         /\ \A x \in net' : x \in net \ {m} \/ x.type = "replication_ack"
<1>1. PICK new : Send(net \ {m}, new) /\ \A x \in new : x.type = "replication_ack" BY DEF RecvAck
<1>2. net' = (net \ {m}) \cup {x \in new : up[x.to]} BY <1>1 DEF Send, Reachable
<1>. QED BY <1>1, <1>2 DEF RecvAck

\* What a scan does.
LEMMA ScanDoes ==
  ASSUME NEW s \in scans, Scan(s)
  PROVE  /\ scans' = scans \ {s} /\ net \subseteq net'
         /\ UNCHANGED <<up, view, store, merge, writes, merges, unscanned, burst, chains, landed, torn>>
         /\ \A x \in net' : \/ x \in net
                            \/ /\ x.type = "rereplicate_file" /\ Holds(s.node)
                               /\ x.id = Float64(store[s.node].id) /\ x.data = ReadFile(store[s.node])
         /\ Holds(s.node) =>
              \A r \in ScanTargets(s.node, store[s.node], s.view) :
                up[r] => \E x \in net' : x.type = "rereplicate_file" /\ x.to = r
<1>. DEFINE M(r) == [type |-> "rereplicate_file", from |-> s.node, to |-> r,
                     id |-> Float64(store[s.node].id), data |-> ReadFile(store[s.node])]
<1>1. PICK new : new = IF Holds(s.node) THEN {M(r) : r \in ScanTargets(s.node, store[s.node], s.view)} ELSE {}
  OBVIOUS
<1>2. Send(net, new) /\ scans' = scans \ {s}
      /\ UNCHANGED <<up, view, store, merge, writes, merges, unscanned, burst, chains, landed, torn>>
  BY <1>1, Zenon DEF Scan
<1>3. net' = net \cup {x \in new : up[x.to]} BY <1>2 DEF Send, Reachable
<1>4. \A x \in new : /\ x.type = "rereplicate_file" /\ Holds(s.node)
                     /\ x.id = Float64(store[s.node].id) /\ x.data = ReadFile(store[s.node])
  BY <1>1
<1>5. ASSUME Holds(s.node), NEW r \in ScanTargets(s.node, store[s.node], s.view), up[r]
      PROVE  \E x \in net' : x.type = "rereplicate_file" /\ x.to = r
  <2>1. M(r) \in new /\ M(r).type = "rereplicate_file" /\ M(r).to = r BY <1>1, <1>5
  <2>. HIDE DEF M
  <2>. QED BY <1>3, <1>5, <2>1
<1>. QED BY <1>2, <1>3, <1>4, <1>5

\* A merge goes on in one place.
LEMMA OneMergeStep ==
  ASSUME Overlaps \subseteq {"crash"}, Sound, OneMerge, [Next]_vars PROVE OneMerge'
<1>1. merge \in [Nodes -> Merges] BY DEF Sound, Driving
<1>2. ASSUME ~MergeGoesOn' PROVE OneMerge' BY <1>2 DEF OneMerge
<1>3. ASSUME UNCHANGED <<net, scans, merge>> PROVE OneMerge'
  BY <1>3 DEF OneMerge, MergeGoesOn, Asked, DriverOnly, Renewing, NobodyMerges
<1>4. ASSUME NEW m \in net, RecvReplicate(m) \/ RecvAck(m) \/ RecvAppend(m) PROVE OneMerge'
  <2>1. m.type \notin MergeTypes /\ UNCHANGED merge
        /\ \A x \in net' : x \in net \/ x.type \notin MergeTypes
    BY <1>4, ReplicateDoes, AckDoes, AppendDoes DEF MergeTypes
  <2>2. ~MergeGoesOn BY <2>1, NotMerging
  <2>. QED BY <1>2, <2>1, <2>2, StaysUnmerged
<1>5. ASSUME NEW m \in net, RecvRereplicate(m) PROVE OneMerge'
  <2>1. m.type \notin MergeTypes /\ UNCHANGED merge /\ net' = net \ {m}
    BY <1>5 DEF RecvRereplicate, MergeTypes
  <2>2. ~MergeGoesOn BY <2>1, NotMerging
  <2>. QED BY <1>2, <2>1, <2>2, StaysUnmerged
<1>6. ASSUME NEW m \in net, RecvMergeRequest(m) PROVE OneMerge'
  <2>1. m.type = "merge_request" /\ StartMerge(m.to, net \ {m}) /\ UNCHANGED scans BY <1>6 DEF RecvMergeRequest
  <2>2. MergeGoesOn BY <2>1 DEF MergeGoesOn, MergeTypes
  <2>3. net = {m} /\ NobodyMerges /\ scans = {} BY <2>1, <2>2 DEF OneMerge, Asked, DriverOnly, Renewing
  <2>4. m.to \in Nodes BY Addressed
  <2>5. StartMerge(m.to, {}) BY <2>1, <2>3
  <2>. QED BY <2>1, <2>3, <2>4, <2>5, StartsAlone
<1>7. ASSUME NEW m \in net, RecvMergeUpdate(m) \/ Recreate(m) PROVE OneMerge'
  <2>1. m \in Updates /\ m.type \in {"merge_update", "merge_recreate"} BY <1>7, Addressed, Fields DEF RecvMergeUpdate, Recreate
  <2>2. Renewing /\ scans = {}
    BY <2>1 DEF OneMerge, MergeGoesOn, MergeTypes, Asked, DriverOnly
  <2>3. PICK y : y = [m EXCEPT !.type = "merge_recreate", !.from = m.to] OBVIOUS
  <2>4. y.type = "merge_recreate" BY <2>1, <2>3 DEF Updates
  <2>5. UNCHANGED <<merge, scans>> /\ (net' = (net \ {m}) \cup {y} \/ net' = net \ {m})
    BY <1>7, <2>3, Zenon DEF RecvMergeUpdate, Recreate
  <2>. QED BY <2>2, <2>4, <2>5 DEF OneMerge, Renewing, NobodyMerges
<1>8. ASSUME NEW n \in Nodes, Create(n) \/ CLICreate(n) \/ AppendTo(n) PROVE OneMerge' BY <1>2, <1>8, WriteStarts
<1>9. ASSUME NEW n \in Nodes, Merge(n) PROVE OneMerge'
  <2>1. net = {} /\ scans = {} /\ ~MergeGoesOn /\ StartMerge(n, net) /\ UNCHANGED scans BY <1>9 DEF Merge
  <2>2. NobodyMerges BY <2>1 DEF MergeGoesOn, NobodyMerges
  <2>. QED BY <2>1, <2>2, StartsAlone
<1>10. ASSUME NEW n \in Nodes, merge[n].phase # "idle" PROVE DriverOnly /\ scans = {} /\ \A k \in Nodes \ {n} : merge[k].phase = "idle"
  BY <1>10 DEF OneMerge, MergeGoesOn, Asked, DriverOnly, Renewing, NobodyMerges
<1>11. ASSUME NEW n \in Nodes, MergeLocally(n) \/ \E r \in Nodes : MergeCollect(n, r) PROVE OneMerge'
  <2>1. merge[n].phase # "idle" /\ UNCHANGED <<net, scans>> BY <1>11 DEF MergeLocally, MergeCollect
  <2>2. \A k \in Nodes \ {n} : merge'[k] = merge[k] BY <1>1, <1>11 DEF MergeLocally, MergeCollect
  <2>3. DriverOnly' BY <1>10, <2>1, <2>2 DEF DriverOnly
  <2>. QED BY <1>10, <2>1, <2>3 DEF OneMerge
<1>12. ASSUME NEW n \in Nodes, MergeSend(n) PROVE OneMerge'
  <2>1. merge[n].phase # "idle" /\ merge' = [merge EXCEPT ![n] = Idle] /\ UNCHANGED scans BY <1>12 DEF MergeSend
  <2>2. NobodyMerges' BY <1>1, <1>10, <2>1 DEF NobodyMerges, Idle
  <2>3. PICK new : Send(net, new) /\ \A x \in new : x.type = "merge_update" BY <1>12 DEF MergeSend
  <2>4. net = {} BY <1>10, <2>1 DEF DriverOnly
  <2>5. Renewing' BY <2>2, <2>3, <2>4, NewMail DEF Renewing
  <2>. QED BY <1>10, <2>1, <2>5 DEF OneMerge
<1>13. ASSUME NEW n \in Nodes, Crash(n) PROVE OneMerge'
  <2>1. merge' = [merge EXCEPT ![n] = Idle] /\ net' \subseteq net /\ scans' \subseteq scans BY <1>13 DEF Crash
  <2>2. \A k \in Nodes : merge'[k].phase = merge[k].phase \/ merge'[k].phase = "idle" BY <1>1, <2>1 DEF Idle
  <2>3. MergeGoesOn' => MergeGoesOn BY <2>1, <2>2 DEF MergeGoesOn
  <2>4. NobodyMerges => NobodyMerges' BY <2>2 DEF NobodyMerges
  <2>5. DriverOnly => DriverOnly'
    <3>1. ASSUME NEW k \in Nodes, \A j \in Nodes \ {k} : merge[j].phase = "idle"
          PROVE  \A j \in Nodes \ {k} : merge'[j].phase = "idle"
      BY <2>2, <3>1
    <3>. QED BY <2>1, <3>1 DEF DriverOnly
  <2>6. Renewing => Renewing' BY <2>1, <2>4 DEF Renewing
  <2>7. Asked => Asked' \/ Renewing'
    <3>1. ASSUME NEW m \in net, net = {m}, m.type = "merge_request", NobodyMerges PROVE Asked' \/ Renewing'
      <4>1. net' = {m} \/ net' = {} BY <2>1, <3>1
      <4>2. CASE net' = {m} BY <2>4, <3>1, <4>2 DEF Asked
      <4>3. CASE net' = {} BY <2>4, <3>1, <4>3 DEF Renewing
      <4>. QED BY <4>1, <4>2, <4>3
    <3>. QED BY <3>1 DEF Asked
  <2>. QED BY <2>1, <2>3, <2>5, <2>6, <2>7 DEF OneMerge
<1>14. ASSUME NEW n \in Nodes, NEW s, Join(n) \/ LearnFailed(n, s) \/ LearnJoined(n, s) \/ LearnByProbe(n, s) PROVE OneMerge'
  <2>1. ~MergeGoesOn /\ UNCHANGED <<net, merge>> BY <1>14, Zenon DEF Join, LearnFailed, LearnJoined, LearnByProbe, During
  <2>. QED BY <1>2, <2>1, StaysUnmerged
<1>15. ASSUME NEW s \in scans, Scan(s) PROVE OneMerge'
  <2>1. ~MergeGoesOn BY DEF OneMerge
  <2>2. UNCHANGED merge /\ \A x \in net' : x \in net \/ x.type \notin MergeTypes BY <1>15, ScanDoes DEF MergeTypes
  <2>. QED BY <1>2, <2>1, <2>2, StaysUnmerged
<1>16. CASE UNCHANGED vars BY <1>3, <1>16 DEF vars
<1>. QED BY <1>4, <1>5, <1>6, <1>7, <1>8, <1>9, <1>11, <1>12, <1>13, <1>14, <1>15, <1>16 DEF Next, Receive

----------------------------------------------------------------------------
(* What the commands do *)

\* create
LEMMA CreateDoes ==
  ASSUME Sound, NEW n \in Nodes, Create(n)
  PROVE  LET succ == GetSuccessors(FileHash, view[n], NumReplicas)
             w == Len(writes) + 1
         IN
         /\ up[n] /\ UNCHANGED <<up, view, scans, merge, merges, unscanned, burst>> /\ torn' = (torn \/ ~Settled)
         /\ writes' = Append(writes, [by |-> n, kind |-> "create"])
         /\ chains' = chains \cup {[write |-> w, succ |-> succ, acked |-> TRUE]}
         /\ net \subseteq net'
         /\ \A x \in net' : x \in net \/ (x.type = "replicate_file" /\ x.write = w /\ x.succ = succ)
         /\ \/ /\ succ[1] = n /\ ~Holds(n) /\ landed' = landed \cup {<<w, n>>}
               /\ store' = [store EXCEPT ![n] = CreateFile(@, FileHash, CreateClient(n), <<w>>)]
            \/ UNCHANGED <<store, landed>>
<1>. DEFINE succ == GetSuccessors(FileHash, view[n], NumReplicas)
            w == Len(writes) + 1
<1>1. /\ up[n] /\ UNCHANGED <<up, view, scans, merge, merges, unscanned, burst>> /\ torn' = (torn \/ ~Settled)
      /\ writes' = Append(writes, [by |-> n, kind |-> "create"])
      /\ chains' = chains \cup {[write |-> w, succ |-> succ, acked |-> TRUE]}
  BY Zenon DEF Create
<1>2. \/ /\ succ[1] = n /\ ~Holds(n) /\ landed' = landed \cup {<<w, n>>}
         /\ store' = [store EXCEPT ![n] = CreateFile(@, FileHash, CreateClient(n), <<w>>)]
      \/ UNCHANGED <<store, landed>>
  BY Zenon DEF Create
<1>3. PICK new : Send(net, new) /\ \A x \in new : x.type = "replicate_file" /\ x.write = w /\ x.succ = succ
  BY DEF Create, Replicate
<1>4. net' = net \cup {x \in new : up[x.to]} BY <1>3 DEF Send, Reachable
<1>. HIDE DEF succ, w
<1>5. net \subseteq net' /\ \A x \in net' : x \in net \/ (x.type = "replicate_file" /\ x.write = w /\ x.succ = succ)
  BY <1>3, <1>4
<1>. QED BY <1>1, <1>2, <1>5, Zenon DEF succ, w

\* the CLI's create
LEMMA CLICreateDoes ==
  ASSUME NEW n \in Nodes, CLICreate(n)
  PROVE  LET w == Len(writes) + 1 IN
         /\ up[n] /\ UNCHANGED <<up, view, store, scans, merge, merges, unscanned, burst, landed>>
         /\ torn' = (torn \/ ~Settled \/ n \in Successors(FileHash, view[n], NumReplicas))
         /\ writes' = Append(writes, [by |-> n, kind |-> "create"])
         /\ chains' = chains \cup {[write |-> w, succ |-> GetSuccessors(FileHash, view[n], NumReplicas), acked |-> FALSE]}
         /\ net \subseteq net'
         /\ \A x \in net' : \/ x \in net
                            \/ /\ x.type = "replicate_file" /\ x.write = w
                               /\ \E r \in Successors(FileHash, view[n], NumReplicas) : x.succ = <<r>>
<1>. DEFINE succ == Successors(FileHash, view[n], NumReplicas)
            w == Len(writes) + 1
<1>1. /\ up[n] /\ UNCHANGED <<up, view, store, scans, merge, merges, unscanned, burst, landed>>
      /\ torn' = (torn \/ ~Settled \/ n \in succ)
      /\ writes' = Append(writes, [by |-> n, kind |-> "create"])
      /\ chains' = chains \cup {[write |-> w, succ |-> GetSuccessors(FileHash, view[n], NumReplicas), acked |-> FALSE]}
  BY Zenon DEF CLICreate
<1>3. PICK new : /\ Send(net, new)
                 /\ \A x \in new : x.type = "replicate_file" /\ x.write = w /\ \E r \in succ : x.succ = <<r>>
  BY DEF CLICreate, Replicate
<1>4. net' = net \cup {x \in new : up[x.to]} BY <1>3 DEF Send, Reachable
<1>. HIDE DEF succ, w
<1>5. /\ net \subseteq net'
      /\ \A x \in net' : \/ x \in net
                         \/ /\ x.type = "replicate_file" /\ x.write = w
                            /\ \E r \in succ : x.succ = <<r>>
  BY <1>3, <1>4
<1>. QED BY <1>1, <1>5, Zenon DEF succ, w

\* append
LEMMA AppendToDoes ==
  ASSUME NEW n \in Nodes, AppendTo(n)
  PROVE  /\ up[n] /\ UNCHANGED <<up, view, store, scans, merge, merges, unscanned, burst, chains, landed>>
         /\ torn' = (torn \/ ~Settled)
         /\ writes' = Append(writes, [by |-> n, kind |-> "append"])
         /\ net \subseteq net'
         /\ \A x \in net' : \/ x \in net
                            \/ /\ x.type = "append_file" /\ x.write = Len(writes) + 1
                               /\ x.to \in Successors(FileHash, view[n], NumReplicas)
<1>. DEFINE succ == Successors(FileHash, view[n], NumReplicas)
            w == Len(writes) + 1
<1>1. /\ up[n] /\ UNCHANGED <<up, view, store, scans, merge, merges, unscanned, burst, chains, landed>>
      /\ torn' = (torn \/ ~Settled)
      /\ writes' = Append(writes, [by |-> n, kind |-> "append"])
  BY Zenon DEF AppendTo
<1>3. PICK new : Send(net, new) /\ \A x \in new : x.type = "append_file" /\ x.write = w /\ x.to \in succ
  BY DEF AppendTo
<1>4. net' = net \cup {x \in new : up[x.to]} BY <1>3 DEF Send, Reachable
<1>. HIDE DEF succ, w
<1>5. /\ net \subseteq net'
      /\ \A x \in net' : \/ x \in net
                         \/ x.type = "append_file" /\ x.write = w /\ x.to \in succ
  BY <1>3, <1>4
<1>. QED BY <1>1, <1>5, Zenon DEF succ, w

\* merge, as a command or on request
LEMMA MergeDoes ==
  ASSUME NEW n, NEW rest, StartMerge(n, rest)
  PROVE  /\ rest \subseteq net' /\ \A x \in net' : x \in rest \/ x.type = "merge_request"
         /\ \/ UNCHANGED merge
            \/ /\ Primary(FileHash, view[n]) = n /\ merge[n].phase = "idle"
               /\ merge' = [merge EXCEPT ![n] =
                              [phase |-> "collect", succ |-> Successors(FileHash, view[n], NumReplicas),
                               left |-> Successors(FileHash, view[n], NumReplicas), blocks |-> {}]]
<1>1. CASE net' = rest BY <1>1, Zenon DEF StartMerge
<1>2. CASE net' # rest
  <2>1. PICK y : /\ y = [type |-> "merge_request", from |-> n, to |-> Primary(FileHash, view[n])]
                 /\ Send(rest, {y}) /\ UNCHANGED merge
    BY <1>2, Zenon DEF StartMerge
  <2>2. net' = rest \cup {x \in {y} : up[x.to]} BY <2>1 DEF Send, Reachable
  <2>3. y.type = "merge_request" BY <2>1
  <2>. QED BY <2>1, <2>2, <2>3
<1>. QED BY <1>1, <1>2

\* An update that is taken in, and its second half.
LEMMA UpdateDoes ==
  ASSUME Sound, NEW m \in net, RecvMergeUpdate(m)
  PROVE  /\ m.type = "merge_update" /\ UNCHANGED <<up, view, scans, merge, writes, merges, unscanned, burst, chains, landed, torn>>
         /\ store' = [store EXCEPT ![m.to] = NoFile]
         /\ \E y : /\ y.type = "merge_recreate" /\ y.to = m.to /\ y.from = m.to /\ y.data = m.data
                   /\ net' = (net \ {m}) \cup {y}
<1>1. m \in Updates BY Addressed, Fields DEF RecvMergeUpdate
<1>2. PICK y : y = [m EXCEPT !.type = "merge_recreate", !.from = m.to] OBVIOUS
<1>3. y.type = "merge_recreate" /\ y.to = m.to /\ y.from = m.to /\ y.data = m.data BY <1>1, <1>2 DEF Updates
<1>. QED BY <1>2, <1>3, Zenon DEF RecvMergeUpdate

\* What a merge sends.
LEMMA SendDoes ==
  ASSUME NEW n \in Nodes, MergeSend(n)
  PROVE  /\ merge[n].phase = "send" /\ merge' = [merge EXCEPT ![n] = Idle] /\ net \subseteq net'
         /\ UNCHANGED <<up, view, store, scans, writes, merges, unscanned, burst, chains, landed, torn>>
         /\ \A x \in net' :
              x \in net \/ (x.type = "merge_update" /\ x.data = ReadFile(store[n]) /\ Holds(n))
<1>1. /\ merge[n].phase = "send" /\ merge' = [merge EXCEPT ![n] = Idle]
      /\ UNCHANGED <<up, view, store, scans, writes, merges, unscanned, burst, chains, landed, torn>>
  BY Zenon DEF MergeSend
<1>2. PICK new : /\ Send(net, new)
                 /\ \A x \in new : x.type = "merge_update" /\ x.data = ReadFile(store[n]) /\ Holds(n)
  BY DEF MergeSend
<1>3. net' = net \cup {x \in new : up[x.to]} BY <1>2 DEF Send, Reachable
<1>. QED BY <1>1, <1>2, <1>3

----------------------------------------------------------------------------
(* Before and during the writes *)

\* A state without writes has had none.
LEMMA NoWriteBefore ==
  ASSUME Sound, NEW n, NEW kind, writes' = Append(writes, [by |-> n, kind |-> kind]) PROVE writes' # <<>>
<1>1. writes \in Seq([by : Nodes, kind : {"create", "append"}]) BY DEF Sound, Records
<1>. QED BY <1>1

\* Nothing comes of nothing.
LEMMA BlankStep == ASSUME Sound, Kept, Blank, [Next]_vars PROVE Blank'
<1>. SUFFICES ASSUME writes' = <<>> PROVE Empty' BY DEF Blank
<1>1. ASSUME writes = <<>>, UNCHANGED <<chains, landed>>, UNCHANGED store, \A m \in net' : m \in net \/ m.type = "merge_request"
      PROVE  Empty'
  BY <1>1 DEF Blank, Empty, Holds
<1>2. store \in [Nodes -> Files] BY DEF Sound, Shelf
<1>3. ASSUME NEW n \in Nodes, Create(n) \/ CLICreate(n) \/ AppendTo(n) PROVE Empty'
  <2>1. CASE Create(n) BY <2>1, CreateDoes, NoWriteBefore
  <2>2. CASE CLICreate(n) BY <2>2, CLICreateDoes, NoWriteBefore
  <2>3. CASE AppendTo(n) BY <2>3, AppendToDoes, NoWriteBefore
  <2>. QED BY <1>3, <2>1, <2>2, <2>3
<1>4. ASSUME NEW m \in net, writes = <<>> PROVE m.type = "merge_request" BY <1>4 DEF Blank, Empty
<1>5. ASSUME NEW m \in net, RecvReplicate(m) \/ RecvAck(m) \/ RecvAppend(m) \/ RecvRereplicate(m)
                            \/ RecvMergeUpdate(m) \/ Recreate(m)
      PROVE  Empty'
  <2>1. UNCHANGED writes /\ m.type # "merge_request"
    BY <1>5, ReplicateDoes, AckDoes, AppendDoes, UpdateDoes DEF RecvRereplicate, Recreate
  <2>. QED BY <1>4, <2>1
<1>6. ASSUME NEW m \in net, RecvMergeRequest(m) PROVE Empty'
  <2>1. UNCHANGED <<writes, chains, landed, store>> /\ StartMerge(m.to, net \ {m}) BY <1>6 DEF RecvMergeRequest
  <2>2. \A x \in net' : x \in net \/ x.type = "merge_request" BY <2>1, MergeDoes
  <2>. QED BY <1>1, <2>1, <2>2
<1>7. ASSUME NEW n \in Nodes, Merge(n) PROVE Empty'
  <2>1. UNCHANGED <<writes, chains, landed, store>> /\ StartMerge(n, net) BY <1>7 DEF Merge
  <2>2. \A x \in net' : x \in net \/ x.type = "merge_request" BY <2>1, MergeDoes
  <2>. QED BY <1>1, <2>1, <2>2
<1>8. ASSUME NEW n \in Nodes, MergeLocally(n) PROVE Empty'
  <2>1. UNCHANGED <<writes, chains, landed, net>> /\ (Holds(n) \/ UNCHANGED store) BY <1>8 DEF MergeLocally
  <2>2. UNCHANGED store BY <2>1 DEF Blank, Empty
  <2>. QED BY <1>1, <2>1, <2>2
<1>9. ASSUME NEW n \in Nodes, MergeSend(n) PROVE Empty'
  <2>1. UNCHANGED <<writes, chains, landed, store>> BY <1>9, SendDoes
  <2>2. ~Holds(n) BY <2>1 DEF Blank, Empty
  <2>3. \A x \in net' : x \in net BY <1>9, <2>2, SendDoes
  <2>. QED BY <1>1, <2>1, <2>3
<1>10. ASSUME NEW n \in Nodes, NEW r \in Nodes, MergeCollect(n, r) PROVE Empty'
  <2>1. UNCHANGED <<writes, chains, landed, store, net>> BY <1>10 DEF MergeCollect
  <2>. QED BY <1>1, <2>1
<1>11. ASSUME NEW n \in Nodes, Crash(n) PROVE Empty'
  <2>1. UNCHANGED <<writes, chains, landed, store>> /\ net' \subseteq net BY <1>11 DEF Crash
  <2>. QED BY <1>1, <2>1
<1>12. ASSUME NEW n \in Nodes, Join(n) PROVE Empty'
  <2>1. UNCHANGED <<writes, chains, landed, net>> BY <1>12 DEF Join
  <2>2. \A d \in Nodes : ~Holds(d) BY <2>1 DEF Blank, Empty
  <2>3. UNCHANGED store BY <1>12, <2>2 DEF Join
  <2>. QED BY <1>1, <2>1, <2>3
<1>13. ASSUME NEW n \in Nodes, NEW s, LearnFailed(n, s) \/ LearnJoined(n, s) \/ LearnByProbe(n, s) PROVE Empty'
  <2>1. UNCHANGED <<writes, chains, landed, store, net>> BY <1>13, Zenon DEF LearnFailed, LearnJoined, LearnByProbe
  <2>. QED BY <1>1, <2>1
<1>14. ASSUME NEW s \in scans, Scan(s) PROVE Empty'
  <2>1. UNCHANGED <<writes, chains, landed, store>> BY <1>14, ScanDoes
  <2>2. s.node \in Nodes BY DEF Sound, Scanning
  <2>3. ~Holds(s.node) BY <2>1, <2>2 DEF Blank, Empty
  <2>4. \A x \in net' : x \in net BY <1>14, <2>3, ScanDoes
  <2>. QED BY <1>1, <2>1, <2>4
<1>15. CASE UNCHANGED vars
  <2>1. UNCHANGED <<writes, chains, landed, store, net>> BY <1>15 DEF vars
  <2>. QED BY <1>1, <2>1
<1>. QED BY <1>3, <1>5, <1>6, <1>7, <1>8, <1>9, <1>10, <1>11, <1>12, <1>13, <1>14, <1>15 DEF Next, Receive

\* The number of a new write.
LEMMA LastWrite ==
  ASSUME Records, NEW n, NEW kind, writes' = Append(writes, [by |-> n, kind |-> kind])
  PROVE  /\ Len(writes) \in Nat /\ Len(writes') = Len(writes) + 1
         /\ Len(writes) + 1 \in 1..Len(writes') /\ writes'[Len(writes) + 1].kind = kind
         /\ \A w \in 1..Len(writes) : w \in 1..Len(writes') /\ writes'[w] = writes[w]
<1>1. writes \in Seq([by : Nodes, kind : {"create", "append"}]) BY DEF Records
<1>. QED BY <1>1

\* Numbers of creates and of appends stay apart.
LEMMA NumberedStep == ASSUME Sound, Numbered, [Next]_vars PROVE Numbered'
<1>1. Records BY DEF Sound
<1>2. ASSUME UNCHANGED <<writes, chains>>,
             \A x \in net' : x.type = "append_file" => \E m \in net : m.type = "append_file" /\ x.write = m.write
      PROVE  Numbered'
  <2>1. ASSUME NEW x \in net', x.type = "append_file" PROVE ~IsCreate(x.write)' /\ x.write \in 1..Len(writes')
    <3>1. PICK m \in net : m.type = "append_file" /\ x.write = m.write BY <1>2, <2>1
    <3>2. ~IsCreate(m.write) /\ m.write \in 1..Len(writes) BY <3>1 DEF Numbered
    <3>. QED BY <1>2, <3>1, <3>2 DEF IsCreate
  <2>. QED BY <1>2, <2>1 DEF Numbered, IsCreate
<1>3. ASSUME NEW n \in Nodes, Create(n) \/ CLICreate(n) PROVE Numbered'
  <2>1. PICK w : w = Len(writes) + 1 OBVIOUS
  <2>2. /\ writes' = Append(writes, [by |-> n, kind |-> "create"])
        /\ \E c : c.write = w /\ chains' = chains \cup {c}
        /\ \A x \in net' : x \in net \/ x.type = "replicate_file"
    BY <1>3, <2>1, CreateDoes, CLICreateDoes
  <2>3. /\ w \in 1..Len(writes') /\ writes'[w].kind = "create"
        /\ \A v \in 1..Len(writes) : v \in 1..Len(writes') /\ writes'[v] = writes[v]
    BY <1>1, <2>1, <2>2, LastWrite
  <2>4. ASSUME NEW c \in chains' PROVE IsCreate(c.write)' BY <2>2, <2>3 DEF Numbered, IsCreate
  <2>5. ASSUME NEW x \in net', x.type = "append_file" PROVE ~IsCreate(x.write)' /\ x.write \in 1..Len(writes')
    <3>1. x \in net BY <2>2, <2>5
    <3>. QED BY <2>3, <2>5, <3>1 DEF Numbered, IsCreate
  <2>. QED BY <2>4, <2>5 DEF Numbered
<1>4. ASSUME NEW n \in Nodes, AppendTo(n) PROVE Numbered'
  <2>1. PICK w : w = Len(writes) + 1 OBVIOUS
  <2>2. /\ writes' = Append(writes, [by |-> n, kind |-> "append"]) /\ UNCHANGED chains
        /\ \A x \in net' : x \in net \/ x.write = w
    BY <1>4, <2>1, AppendToDoes
  <2>3. /\ w \in 1..Len(writes') /\ writes'[w].kind = "append"
        /\ \A v \in 1..Len(writes) : v \in 1..Len(writes') /\ writes'[v] = writes[v]
    BY <1>1, <2>1, <2>2, LastWrite
  <2>4. ASSUME NEW c \in chains' PROVE IsCreate(c.write)' BY <2>2, <2>3 DEF Numbered, IsCreate
  <2>5. ASSUME NEW x \in net', x.type = "append_file" PROVE ~IsCreate(x.write)' /\ x.write \in 1..Len(writes')
    <3>1. CASE x \in net BY <2>3, <2>5, <3>1 DEF Numbered, IsCreate
    <3>2. CASE x.write = w BY <2>3, <3>2 DEF IsCreate
    <3>. QED BY <2>2, <3>1, <3>2
  <2>. QED BY <2>4, <2>5 DEF Numbered
<1>5. ASSUME NEW m \in net, RecvReplicate(m) \/ RecvAck(m) PROVE Numbered'
  <2>1. UNCHANGED <<writes, chains>> /\ \A x \in net' : x.type = "append_file" => x \in net
    BY <1>5, ReplicateDoes, AckDoes
  <2>. QED BY <1>2, <2>1
<1>6. ASSUME NEW m \in net, RecvAppend(m) PROVE Numbered'
  <2>1. UNCHANGED <<writes, chains>> /\ m.type = "append_file" /\ \A x \in net' : x \in net \/ x.write = m.write
    BY <1>6, AppendDoes
  <2>. QED BY <1>2, <2>1
<1>7. ASSUME NEW m \in net, RecvRereplicate(m) \/ Recreate(m) PROVE Numbered'
  <2>1. UNCHANGED <<writes, chains>> /\ net' \subseteq net BY <1>7 DEF RecvRereplicate, Recreate
  <2>. QED BY <1>2, <2>1
<1>8. ASSUME NEW m \in net, RecvMergeUpdate(m) PROVE Numbered'
  <2>1. UNCHANGED <<writes, chains>> /\ \A x \in net' : x.type = "append_file" => x \in net BY <1>8, UpdateDoes
  <2>. QED BY <1>2, <2>1
<1>9. ASSUME NEW n, NEW rest, rest \subseteq net, StartMerge(n, rest), UNCHANGED <<writes, chains>> PROVE Numbered'
  <2>1. \A x \in net' : x.type = "append_file" => x \in net BY <1>9, MergeDoes
  <2>. QED BY <1>2, <1>9, <2>1
<1>10. ASSUME NEW m \in net, RecvMergeRequest(m) PROVE Numbered'
  <2>1. PICK rest : rest = net \ {m} OBVIOUS
  <2>2. rest \subseteq net /\ StartMerge(m.to, rest) /\ UNCHANGED <<writes, chains>> BY <1>10, <2>1 DEF RecvMergeRequest
  <2>. QED BY <1>9, <2>2
<1>11. ASSUME NEW n \in Nodes, Merge(n) PROVE Numbered'
  <2>1. StartMerge(n, net) /\ UNCHANGED <<writes, chains>> BY <1>11 DEF Merge
  <2>. QED BY <1>9, <2>1
<1>12. ASSUME NEW n \in Nodes, MergeLocally(n) \/ \E r \in Nodes : MergeCollect(n, r) PROVE Numbered'
  <2>1. UNCHANGED <<writes, chains, net>> BY <1>12, Zenon DEF MergeLocally, MergeCollect
  <2>. QED BY <1>2, <2>1
<1>13. ASSUME NEW n \in Nodes, MergeSend(n) PROVE Numbered'
  <2>1. UNCHANGED <<writes, chains>> /\ \A x \in net' : x.type = "append_file" => x \in net BY <1>13, SendDoes
  <2>. QED BY <1>2, <2>1
<1>14. ASSUME NEW n \in Nodes, Crash(n) PROVE Numbered'
  <2>1. UNCHANGED <<writes, chains>> /\ net' \subseteq net BY <1>14 DEF Crash
  <2>. QED BY <1>2, <2>1
<1>15. ASSUME NEW n \in Nodes, NEW s, Join(n) \/ LearnFailed(n, s) \/ LearnJoined(n, s) \/ LearnByProbe(n, s) PROVE Numbered'
  <2>1. UNCHANGED <<writes, chains, net>> BY <1>15, Zenon DEF Join, LearnFailed, LearnJoined, LearnByProbe
  <2>. QED BY <1>2, <2>1
<1>16. ASSUME NEW s \in scans, Scan(s) PROVE Numbered'
  <2>1. UNCHANGED <<writes, chains>> /\ \A x \in net' : x.type = "append_file" => x \in net BY <1>16, ScanDoes
  <2>. QED BY <1>2, <2>1
<1>17. CASE UNCHANGED vars
  <2>1. UNCHANGED <<writes, chains, net>> BY <1>17 DEF vars
  <2>. QED BY <1>2, <2>1
<1>. QED BY <1>3, <1>4, <1>5, <1>6, <1>7, <1>8, <1>10, <1>11, <1>12, <1>13, <1>14, <1>15, <1>16, <1>17 DEF Next, Receive

\* Who issues a write with right tables sends it to the replicas.
LEMMA ToReplicas ==
  ASSUME Sound, TablesRight, NEW n \in Nodes, up[n]
  PROVE  /\ view[n] = Up /\ First = Primary(FileHash, view[n])
         /\ Successors(FileHash, view[n], NumReplicas) = Replicas
         /\ Replicas = {GetSuccessors(FileHash, view[n], NumReplicas)[k] :
                          k \in 1..Len(GetSuccessors(FileHash, view[n], NumReplicas))}
<1>1. view[n] = Up BY DEF TablesRight, Up
<1>2. Up \subseteq Nodes /\ Nodes \subseteq Nat /\ IsFiniteSet(Nodes) BY RingAssumption DEF Up
<1>3. Up \in SUBSET Nat /\ IsFiniteSet(Up) BY <1>2, FS_Subset
<1>4. FileHash \in Nat /\ NumReplicas \in Nat BY RingAssumption
<1>5. Successors(FileHash, Up, NumReplicas) = {GetSuccessors(FileHash, Up, NumReplicas)[k] :
                                                 k \in 1..Len(GetSuccessors(FileHash, Up, NumReplicas))}
  BY <1>3, <1>4, SuccessorsInOrder
<1>. QED BY <1>1, <1>5 DEF First, Replicas



\* What changes neither tables nor processes leaves the writes where they go.
LEMMA DeliveredSame ==
  ASSUME Delivered, UNCHANGED <<up, view, unscanned>>, scans' \subseteq scans, torn => torn',
         \A x \in net' : \/ x \in net
                         \/ x.type \notin {"replicate_file", "append_file", "rereplicate_file"}
  PROVE  Delivered'
<1>. SUFFICES ASSUME ~torn', WriteGoesOn'
              PROVE  Settled' /\ \A m \in net' : Written(m)'
  BY DEF Delivered, Written
<1>1. Up' = Up /\ Replicas' = Replicas /\ TablesRight' = TablesRight BY DEF Up, Replicas, TablesRight
<1>2. WriteGoesOn BY DEF WriteGoesOn
<1>3. Settled /\ \A m \in net : Written(m) BY <1>2 DEF Delivered, Written
<1>4. Settled' BY <1>1, <1>3 DEF Settled
<1>5. \A m \in net' : Written(m)' BY <1>1, <1>3 DEF Written
<1>. QED BY <1>4, <1>5

\* The same of a command that writes.
LEMMA DeliveredWrite ==
  ASSUME Sound, Delivered, NEW n \in Nodes, Create(n) \/ CLICreate(n) \/ AppendTo(n), ~torn'
  PROVE  Settled /\ Settled' /\ Replicas' = Replicas /\ \A m \in net' : Written(m)'
<1>1. ~torn /\ Settled /\ up[n] /\ UNCHANGED <<up, view, scans, unscanned>>
  BY CreateDoes, CLICreateDoes, AppendToDoes
<1>2. Up' = Up /\ Replicas' = Replicas /\ TablesRight' = TablesRight /\ TablesRight
  BY <1>1 DEF Up, Replicas, TablesRight, Settled
<1>3. /\ Successors(FileHash, view[n], NumReplicas) = Replicas
      /\ Replicas = {GetSuccessors(FileHash, view[n], NumReplicas)[k] :
                       k \in 1..Len(GetSuccessors(FileHash, view[n], NumReplicas))}
  BY <1>1, <1>2, ToReplicas
<1>4. \A m \in net : Written(m) BY <1>1 DEF Delivered, Written, WriteGoesOn
<1>5. ASSUME NEW x \in net' PROVE x \in net \/ (Written(x) /\ x.type \in {"replicate_file", "append_file"})
  <2>1. CASE Create(n)
    <3>1. x \in net \/ (x.type = "replicate_file" /\ x.succ = GetSuccessors(FileHash, view[n], NumReplicas))
      BY <2>1, CreateDoes
    <3>. QED BY <1>3, <3>1 DEF Written
  <2>2. CASE CLICreate(n)
    <3>1. x \in net \/ (x.type = "replicate_file" /\ \E r \in Replicas : x.succ = <<r>>)
      BY <1>3, <2>2, CLICreateDoes
    <3>. QED BY <3>1 DEF Written
  <2>3. CASE AppendTo(n)
    <3>1. x \in net \/ (x.type = "append_file" /\ x.to \in Replicas) BY <1>3, <2>3, AppendToDoes
    <3>. QED BY <3>1 DEF Written
  <2>. QED BY <2>1, <2>2, <2>3
<1>6. Settled' BY <1>1, <1>2, <1>5 DEF Settled
<1>7. \A m \in net' : Written(m)' BY <1>2, <1>4, <1>5 DEF Written
<1>. QED BY <1>1, <1>2, <1>6, <1>7

\* Writes go to the replicas.
LEMMA DeliveredStep == ASSUME Sound, Delivered, [Next]_vars PROVE Delivered'
<1>1. ASSUME NEW n \in Nodes, Create(n) \/ CLICreate(n) \/ AppendTo(n) PROVE Delivered'
  BY <1>1, DeliveredWrite DEF Delivered, Written
<1>2. ASSUME NEW m \in net, RecvReplicate(m) PROVE Delivered'
  <2>. SUFFICES ASSUME ~torn', WriteGoesOn' PROVE Settled' /\ \A x \in net' : Written(x)'
    BY DEF Delivered, Written
  <2>1. m.type = "replicate_file" /\ UNCHANGED <<up, view, scans, unscanned, torn>> BY <1>2, ReplicateDoes
  <2>2. Up' = Up /\ Replicas' = Replicas /\ TablesRight' = TablesRight BY <2>1 DEF Up, Replicas, TablesRight
  <2>3. Settled /\ \A x \in net : Written(x) BY <2>1 DEF Delivered, Written, WriteGoesOn
  <2>4. ASSUME NEW x \in net' PROVE x \in net \/ x.type = "replication_ack"
                                    \/ (x.type = "replicate_file" /\ x.succ = m.succ)
    BY <1>2, ReplicateDoes
  <2>5. Settled' BY <2>1, <2>2, <2>3, <2>4 DEF Settled
  <2>6. \A x \in net' : Written(x)' BY <2>1, <2>2, <2>3, <2>4 DEF Written
  <2>. QED BY <2>5, <2>6
<1>3. ASSUME NEW m \in net, RecvAppend(m) PROVE Delivered'
  <2>. SUFFICES ASSUME ~torn' PROVE Delivered' BY DEF Delivered
  <2>1. m.type = "append_file" /\ UNCHANGED <<up, view, scans, unscanned, torn>> BY <1>3, AppendDoes
  <2>2. Settled /\ m.to \in Replicas BY <2>1 DEF Delivered, WriteGoesOn, Written
  <2>3. m.to \in Nodes /\ up[m.to] BY Addressed
  <2>4. Successors(FileHash, view[m.to], NumReplicas) = Replicas BY <2>2, <2>3, ToReplicas DEF Settled
  <2>5. net' = net \ {m} BY <1>3, <2>2, <2>4, AppendDoes
  <2>. QED BY <2>1, <2>5, DeliveredSame
<1>4. ASSUME NEW m \in net, RecvAck(m) PROVE Delivered'
  <2>1. UNCHANGED <<up, view, scans, unscanned, torn>> /\ \A x \in net' : x \in net \/ x.type = "replication_ack" BY <1>4, AckDoes
  <2>. QED BY <2>1, DeliveredSame
<1>5. ASSUME NEW m \in net, RecvRereplicate(m) \/ Recreate(m) PROVE Delivered'
  <2>1. UNCHANGED <<up, view, scans, unscanned, torn>> /\ net' \subseteq net BY <1>5 DEF RecvRereplicate, Recreate
  <2>. QED BY <2>1, DeliveredSame
<1>6. ASSUME NEW m \in net, RecvMergeUpdate(m) PROVE Delivered'
  <2>1. UNCHANGED <<up, view, scans, unscanned, torn>> /\ \A x \in net' : x \in net \/ x.type = "merge_recreate" BY <1>6, UpdateDoes
  <2>. QED BY <2>1, DeliveredSame
<1>7. ASSUME NEW m \in net, RecvMergeRequest(m) PROVE Delivered'
  <2>1. UNCHANGED <<up, view, scans, unscanned, torn>> /\ StartMerge(m.to, net \ {m}) BY <1>7 DEF RecvMergeRequest
  <2>2. \A x \in net' : x \in net \/ x.type = "merge_request" BY <2>1, MergeDoes
  <2>. QED BY <2>1, <2>2, DeliveredSame
<1>8. ASSUME NEW n \in Nodes, Merge(n) PROVE Delivered'
  <2>1. UNCHANGED <<up, view, scans, unscanned>> /\ (torn => torn') /\ StartMerge(n, net) BY <1>8 DEF Merge
  <2>2. \A x \in net' : x \in net \/ x.type = "merge_request" BY <2>1, MergeDoes
  <2>. QED BY <2>1, <2>2, DeliveredSame
<1>9. ASSUME NEW n \in Nodes, MergeLocally(n) \/ \E r \in Nodes : MergeCollect(n, r) PROVE Delivered'
  <2>1. UNCHANGED <<up, view, scans, unscanned, torn, net>> BY <1>9, Zenon DEF MergeLocally, MergeCollect
  <2>. QED BY <2>1, DeliveredSame
<1>10. ASSUME NEW n \in Nodes, MergeSend(n) PROVE Delivered'
  <2>1. UNCHANGED <<up, view, scans, unscanned, torn>> /\ \A x \in net' : x \in net \/ x.type = "merge_update" BY <1>10, SendDoes
  <2>. QED BY <2>1, DeliveredSame
<1>11. ASSUME NEW n \in Nodes, Crash(n) PROVE Delivered'
  <2>1. torn' = (torn \/ WriteGoesOn) /\ net' \subseteq net BY <1>11 DEF Crash
  <2>. QED BY <2>1 DEF Delivered, WriteGoesOn
<1>12. ASSUME NEW n \in Nodes, NEW s, Join(n) \/ LearnFailed(n, s) \/ LearnJoined(n, s) \/ LearnByProbe(n, s) PROVE Delivered'
  <2>1. torn' = (torn \/ WriteGoesOn) /\ UNCHANGED net BY <1>12, Zenon DEF Join, LearnFailed, LearnJoined, LearnByProbe
  <2>. QED BY <2>1 DEF Delivered, WriteGoesOn
<1>13. ASSUME NEW s \in scans, Scan(s) PROVE Delivered'
  <2>1. UNCHANGED torn /\ \A x \in net' : x \in net \/ x.type = "rereplicate_file" BY <1>13, ScanDoes
  <2>2. WriteGoesOn' => WriteGoesOn BY <2>1 DEF WriteGoesOn
  <2>3. ~(~torn /\ WriteGoesOn) BY DEF Delivered, Settled
  <2>. QED BY <2>1, <2>2, <2>3 DEF Delivered
<1>14. CASE UNCHANGED vars
  <2>1. UNCHANGED <<up, view, scans, unscanned, torn, net>> BY <1>14 DEF vars
  <2>. QED BY <2>1, DeliveredSame
<1>. QED BY <1>1, <1>2, <1>3, <1>4, <1>5, <1>6, <1>7, <1>8, <1>9, <1>10, <1>11, <1>12, <1>13, <1>14 DEF Next, Receive

----------------------------------------------------------------------------
(* Ring and rounding *)

\* The quotient is the one with the right remainder.
LEMMA Quotient ==
  ASSUME NEW g \in Nat \ {0}, NEW k \in Nat, NEW h \in Nat, h < g PROVE (k * g + h) \div g = k
<1>. DEFINE a == k * g + h
            q == a \div g
<1>1. a \in Nat /\ k * g \in Nat OBVIOUS
<1>2. q \in Nat /\ a = q * g + (a % g) /\ a % g \in 0..(g - 1)
  <2>. HIDE DEF a
  <2>. QED BY <1>1, Z3
<1>3. ~(q < k)
  <2>. SUFFICES ASSUME q < k PROVE FALSE OBVIOUS
  <2>1. PICK d \in Nat : k = q + 1 + d
    <3>1. k - q - 1 \in Nat /\ k = q + 1 + (k - q - 1) BY <1>2
    <3>. QED BY <3>1
  <2>2. k * g = q * g + g + d * g BY <1>2, <2>1, Z3
  <2>3. d * g \in Nat /\ q * g \in Nat BY <1>2
  <2>. QED BY <1>1, <1>2, <2>2, <2>3, Z3
<1>4. ~(q > k)
  <2>. SUFFICES ASSUME q > k PROVE FALSE OBVIOUS
  <2>1. PICK d \in Nat : q = k + 1 + d
    <3>1. q - k - 1 \in Nat /\ q = k + 1 + (q - k - 1) BY <1>2
    <3>. QED BY <3>1
  <2>2. q * g = k * g + g + d * g BY <1>2, <2>1, Z3
  <2>3. d * g \in Nat /\ k * g \in Nat BY <1>2
  <2>. QED BY <1>1, <1>2, <2>2, <2>3, Z3
<1>. QED BY <1>2, <1>3, <1>4

\* A file id that has been rounded is not rounded again.
LEMMA RoundedOnce ==
  ASSUME NEW id \in {FileHash, Float64(FileHash)} PROVE Float64(id) = Float64(FileHash)
<1>1. PICK g \in Nat \ {0} : g = Grain BY RingAssumption
<1>2. PICK h \in Nat : h = g \div 2 /\ h < g
  <2>1. g \div 2 \in Nat /\ g \div 2 < g BY Z3
  <2>. QED BY <2>1
<1>3. PICK k : k = (FileHash + h) \div g OBVIOUS
<1>4. k \in Nat BY <1>1, <1>2, <1>3, RingAssumption
<1>5. Float64(FileHash) = k * g BY <1>1, <1>2, <1>3 DEF Float64
<1>6. Float64(k * g) = ((k * g + h) \div g) * g BY <1>1, <1>2 DEF Float64
<1>7. (k * g + h) \div g = k BY <1>2, <1>4, Quotient
<1>8. Float64(k * g) = k * g BY <1>6, <1>7
<1>. QED BY <1>5, <1>8

\* An id that has been through JSON is a float64; the scan of a replica that got
\* its copy in a message computes the successors from it. Rounding moves it past
\* no node.
RoundsWell == \A n \in Nodes : (n >= FileHash) = (n >= Float64(FileHash))

\* So the ring is the same for the name and for the id that is left of it.
LEMMA SameSuccessors ==
  ASSUME RoundsWell, NEW id \in {FileHash, Float64(FileHash)}, NEW S \in SUBSET Nodes
  PROVE  /\ Successors(id, S, NumReplicas) = Successors(FileHash, S, NumReplicas)
         /\ Primary(id, S) = Primary(FileHash, S)
<1>1. \A i, j \in S : Before(id, i, j) = Before(FileHash, i, j) BY DEF Before, RoundsWell
<1>2. \A j \in S : Rank(id, S, j) = Rank(FileHash, S, j)
  <2>1. ASSUME NEW j \in S PROVE Rank(id, S, j) = Rank(FileHash, S, j)
    <3>1. {i \in S : Before(id, i, j)} = {i \in S : Before(FileHash, i, j)} BY <1>1
    <3>. QED BY <3>1 DEF Rank
  <2>. QED BY <2>1
<1>3. Successors(id, S, NumReplicas) = Successors(FileHash, S, NumReplicas) BY <1>2 DEF Successors
<1>4. Primary(id, S) = Primary(FileHash, S)
  <2>1. \A j \in S : (Rank(id, S, j) = 0) <=> (Rank(FileHash, S, j) = 0) BY <1>2
  <2>. QED BY <2>1, Zenon DEF Primary
<1>. QED BY <1>3, <1>4

\* If fewer than NumReplicas nodes have failed, the first live node was a replica before;
\* who is left of the replicas still is one.
LEMMA FirstRemains ==
  ASSUME Sound, burst \subseteq Nodes, Cardinality(burst) < NumReplicas
  PROVE  /\ Up # {} => First \in Successors(FileHash, Up \cup burst, NumReplicas)
         /\ Successors(FileHash, Up \cup burst, NumReplicas) \cap Up \subseteq Replicas
<1>1. PICK S : S = Up \cup burst OBVIOUS
<1>2. S \subseteq Nodes /\ Up \subseteq S /\ Nodes \subseteq Nat /\ IsFiniteSet(Nodes) /\ FileHash \in Nat /\ NumReplicas \in Nat
  BY <1>1, RingAssumption DEF Up
<1>3. S \in SUBSET Nat /\ IsFiniteSet(S) /\ Up \in SUBSET S /\ Up \in SUBSET Nat /\ IsFiniteSet(Up) BY <1>2, FS_Subset
<1>4. Successors(FileHash, S, NumReplicas) \cap Up \subseteq Replicas BY <1>2, <1>3, SuccessorsStable DEF Replicas
<1>5. ASSUME Up # {} PROVE First \in Successors(FileHash, S, NumReplicas)
  <2>1. First \in Up /\ Rank(FileHash, Up, First) = 0 BY <1>2, <1>3, <1>5, PrimaryFirst DEF First
  <2>2. PICK A : A = {i \in Up : Before(FileHash, i, First)} OBVIOUS
  <2>3. Cardinality(A) = 0 BY <2>1, <2>2 DEF Rank
  <2>4. A \subseteq Up BY <2>2
  <2>5. IsFiniteSet(A) BY <1>3, <2>4, FS_Subset
  <2>6. A = {} BY <2>3, <2>5, FS_EmptySet
  <2>7. PICK B : B = {i \in S : Before(FileHash, i, First)} OBVIOUS
  <2>8. B \subseteq burst BY <1>1, <2>2, <2>6, <2>7
  <2>9. IsFiniteSet(burst) BY <1>2, FS_Subset
  <2>10. IsFiniteSet(B) /\ Cardinality(B) <= Cardinality(burst) BY <2>8, <2>9, FS_Subset
  <2>11. Cardinality(B) \in Nat /\ Cardinality(burst) \in Nat BY <2>9, <2>10, FS_CardinalityType
  <2>12. Rank(FileHash, S, First) < NumReplicas BY <1>2, <2>7, <2>10, <2>11 DEF Rank
  <2>. QED BY <1>2, <2>1, <2>12 DEF Successors
<1>. QED BY <1>1, <1>4, <1>5

----------------------------------------------------------------------------
(* Every step guards the file *)

\* The first live node is live, also after a step.
LEMMA UpPrimary == Up' # {} => First' \in Up'
<1>1. PICK S : S = Up' OBVIOUS
<1>2. S \subseteq Nodes /\ Nodes \subseteq Nat /\ IsFiniteSet(Nodes) /\ FileHash \in Nat BY <1>1, RingAssumption DEF Up
<1>3. S \in SUBSET Nat /\ IsFiniteSet(S) BY <1>2, FS_Subset
<1>4. S # {} => Primary(FileHash, S) \in S BY <1>2, <1>3, PrimaryFirst
<1>5. First' = Primary(FileHash, S) BY <1>1 DEF First
<1>. QED BY <1>1, <1>4, <1>5

\* Unless a merge is about to make it anew the first node has its copy,
LEMMA FirstHolds ==
  ASSUME Sound, burst \subseteq Nodes, Mild, Guarded, Up # {} PROVE Holds(First) \/ Remade(First)
<1>1. First \in Successors(FileHash, Up \cup burst, NumReplicas) BY FirstRemains DEF Mild
<1>2. up[First] BY UpFacts
<1>. QED BY <1>1, <1>2 DEF Guarded, Remain

\* and when the tables are right and nothing is under way, so have all replicas.
LEMMA AllHold ==
  ASSUME Sound, Guarded, Settled, ~MergeGoesOn, NEW r \in Replicas PROVE Holds(r)
<1>1. Up # {} BY DEF Replicas, Successors
<1>2. up[First] /\ First \in Nodes BY <1>1, UpFacts
<1>3. view[First] = Up BY <1>2, ToReplicas DEF Settled
<1>4. Holds(r) \/ Remade(r) \/ Coming(r) BY <1>1, <1>3 DEF Guarded, Mending, Settled, First
<1>. QED BY <1>4 DEF Remade, Coming, Settled, MergeGoesOn, MergeTypes

\* Copies that stay or are made anew, and what is on its way or has arrived, are enough.
LEMMA RemainSame ==
  ASSUME burst \subseteq Nodes, Remain, Mending, UNCHANGED <<up, view, unscanned, burst, scans>>,
         \A r \in Nodes : (Holds(r) \/ Remade(r) => Holds(r)' \/ Remade(r)') /\ (Coming(r) => Holds(r)' \/ Coming(r)')
  PROVE  Remain' /\ Mending'
<1>1. Up' = Up /\ First' = First /\ Replicas' = Replicas BY DEF Up, First, Replicas
<1>2. Replicas \subseteq Nodes /\ Up \subseteq Nodes BY DEF Replicas, Successors, Up
<1>3. Remain'
  <2>1. Successors(FileHash, Up \cup burst, NumReplicas) \subseteq Nodes BY <1>2 DEF Successors
  <2>. QED BY <1>1, <2>1 DEF Remain
<1>4. Mending' BY <1>1, <1>2 DEF Mending
<1>. QED BY <1>3, <1>4

\* A step that touches no copy.
LEMMA SameCopies ==
  ASSUME burst \subseteq Nodes, Guarded, UNCHANGED <<up, view, unscanned, burst, scans, store>>, net \subseteq net'
  PROVE  Copied' /\ Remain' /\ Mending'
<1>1. \A r \in Nodes : Holds(r)' = Holds(r) BY DEF Holds
<1>2. Copied' BY <1>1 DEF Guarded, Copied, Right
<1>3. \A r \in Nodes : (Remade(r) => Remade(r)') /\ (Coming(r) => Coming(r)') BY DEF Remade, Coming
<1>. QED BY <1>1, <1>2, <1>3, RemainSame DEF Guarded

\* A message stays what it is if no copy goes.
LEMMA BearingStays ==
  ASSUME NEW m, Bearing(m), \A r \in Nodes : Holds(r) => Holds(r)', m.to \in Nodes PROVE Bearing(m)'
BY DEF Bearing

\* A write finds copies at all replicas, and makes none.
LEMMA WriteGuarded ==
  ASSUME Overlaps \subseteq {"crash"}, Sound, Sound', burst \subseteq Nodes, Delivered, Guarded, ~torn',
         NEW n \in Nodes, Create(n) \/ CLICreate(n) \/ AppendTo(n)
  PROVE  Guarded'
<1>1. Settled /\ Replicas' = Replicas /\ \A m \in net' : Written(m)' BY DeliveredWrite
<1>2. ~MergeGoesOn BY WriteStarts
<1>3. \A r \in Replicas : Holds(r) BY <1>1, <1>2, AllHold
<1>4. /\ up[n] /\ UNCHANGED <<up, view, scans, merge, unscanned, burst>> /\ net \subseteq net'
      /\ \A x \in net' : x \in net \/ x.type \in {"replicate_file", "append_file"}
  BY CreateDoes, CLICreateDoes, AppendToDoes
<1>5. UNCHANGED store
  <2>1. CASE Create(n)
    <3>1. PICK succ : succ = GetSuccessors(FileHash, view[n], NumReplicas) OBVIOUS
    <3>2. Len(succ) >= 1 /\ succ \in Seq(Nodes) BY <1>4, <3>1, RingFacts, HashTypes DEF Sound
    <3>3. 1 \in 1..Len(succ) BY <3>2
    <3>4. Replicas = {succ[k] : k \in 1..Len(succ)} BY <1>1, <1>4, <3>1, ToReplicas DEF Settled
    <3>5. succ[1] \in Replicas BY <3>3, <3>4
    <3>6. (succ[1] = n /\ ~Holds(n)) \/ UNCHANGED store BY <2>1, <3>1, CreateDoes
    <3>. QED BY <1>3, <3>5, <3>6
  <2>2. CASE CLICreate(n) \/ AppendTo(n) BY <2>2, CLICreateDoes, AppendToDoes
  <2>. QED BY <2>1, <2>2
<1>6. Copied' /\ Remain' /\ Mending' BY <1>4, <1>5, SameCopies
<1>7. \A r \in Nodes : Holds(r)' = Holds(r) BY <1>5 DEF Holds
<1>8. Carried'
  <2>1. ASSUME NEW x \in net' PROVE Bearing(x)'
    <3>1. x \in Messages /\ Linked(x)' /\ x.to \in Nodes BY Fields DEF Sound, Mail, Fine
    <3>2. CASE x \in net BY <1>7, <3>1, <3>2, BearingStays DEF Guarded, Carried
    <3>3. CASE x.type = "append_file"
      <4>1. x.to \in Replicas BY <1>1, <3>3 DEF Written
      <4>2. Holds(x.to)' BY <1>3, <1>7, <3>1, <4>1
      <4>. QED BY <3>3, <4>2 DEF Bearing
    <3>4. CASE x.type = "replicate_file"
      <4>1. x.index \in 1..Len(x.succ) /\ x.to = x.succ[x.index] BY <3>1, <3>4 DEF Linked
      <4>2. x.to \in Replicas BY <1>1, <3>4, <4>1 DEF Written
      <4>3. Holds(x.to)' BY <1>3, <1>7, <3>1, <4>2
      <4>. QED BY <3>4, <4>3 DEF Bearing
    <3>. QED BY <1>4, <3>2, <3>3, <3>4
  <2>. QED BY <2>1 DEF Carried
<1>9. Found' BY <1>4, <1>7 DEF Guarded, Found
<1>. QED BY <1>6, <1>8, <1>9 DEF Guarded

\* Nobody merges, nobody has collected too little.
LEMMA NothingToFind == ASSUME NobodyMerges' PROVE Found' BY DEF Found, NobodyMerges

\* A replicate_file finds the file there.
LEMMA ReplicateGuarded ==
  ASSUME Sound, burst \subseteq Nodes, Guarded, NEW m \in net, RecvReplicate(m) PROVE Guarded'
<1>1. m.type = "replicate_file" /\ UNCHANGED <<up, view, scans, merge, unscanned, burst>> BY ReplicateDoes
<1>2. Holds(m.to) BY <1>1 DEF Guarded, Carried, Bearing
<1>3. net' = net \ {m} /\ UNCHANGED store BY <1>2, ReplicateDoes
<1>4. \A r \in Nodes : Holds(r)' = Holds(r) BY <1>3 DEF Holds
<1>5. Copied' BY <1>3, <1>4 DEF Guarded, Copied, Right
<1>6. \A r \in Nodes : (Remade(r) => Remade(r)') /\ (Coming(r) => Coming(r)') BY <1>1, <1>3 DEF Remade, Coming
<1>7. Remain' /\ Mending' BY <1>1, <1>4, <1>6, RemainSame DEF Guarded
<1>8. Carried' BY <1>3, <1>4, BearingStays, Addressed DEF Guarded, Carried
<1>9. Found' BY <1>1, <1>4 DEF Guarded, Found
<1>. QED BY <1>5, <1>7, <1>8, <1>9 DEF Guarded

\* An ack touches nothing.
LEMMA AckGuarded ==
  ASSUME Sound, burst \subseteq Nodes, Guarded, NEW m \in net, RecvAck(m) PROVE Guarded'
<1>1. /\ m.type = "replication_ack" /\ net \ {m} \subseteq net'
      /\ UNCHANGED <<up, view, store, scans, merge, unscanned, burst>>
      /\ \A x \in net' : x \in net \/ x.type = "replication_ack"
  BY AckDoes
<1>4. \A r \in Nodes : Holds(r)' = Holds(r) BY <1>1 DEF Holds
<1>5. Copied' BY <1>1, <1>4 DEF Guarded, Copied, Right
<1>6. \A r \in Nodes : (Remade(r) => Remade(r)') /\ (Coming(r) => Coming(r)') BY <1>1 DEF Remade, Coming
<1>7. Remain' /\ Mending' BY <1>1, <1>4, <1>6, RemainSame DEF Guarded
<1>8. Carried'
  <2>1. ASSUME NEW x \in net PROVE Bearing(x)' BY <1>4, BearingStays, Addressed DEF Guarded, Carried
  <2>2. ASSUME NEW x, x.type = "replication_ack" PROVE Bearing(x)' BY <2>2 DEF Bearing
  <2>. QED BY <1>1, <2>1, <2>2 DEF Carried
<1>9. Found' BY <1>1, <1>4 DEF Guarded, Found
<1>. QED BY <1>5, <1>7, <1>8, <1>9 DEF Guarded

\* A message that makes or changes one copy as it should.
LEMMA OneCopy ==
  ASSUME Sound, burst \subseteq Nodes, Guarded, UNCHANGED <<up, view, unscanned, burst, scans>>, NobodyMerges',
         NEW m \in net, net' = net \ {m}, NEW g, store' = [store EXCEPT ![m.to] = g], Right(g)
  PROVE  Guarded'
<1>1. store \in [Nodes -> Files] BY DEF Sound, Shelf
<1>2. m.to \in Nodes BY Addressed
<1>3. store'[m.to] = g /\ \A r \in Nodes \ {m.to} : store'[r] = store[r] BY <1>1, <1>2
<1>4. Holds(m.to)' /\ \A r \in Nodes : Holds(r) => Holds(r)' BY <1>3 DEF Holds, Right
<1>5. Copied'
  <2>1. ASSUME NEW r \in Nodes, Holds(r)' PROVE Right(store'[r])
    <3>1. CASE r = m.to BY <1>3, <3>1
    <3>2. CASE r # m.to BY <1>3, <2>1, <3>2 DEF Guarded, Copied, Holds
    <3>. QED BY <3>1, <3>2
  <2>. QED BY <2>1 DEF Copied, Right
<1>6. ASSUME NEW r \in Nodes PROVE (Remade(r) => Holds(r)' \/ Remade(r)') /\ (Coming(r) => Holds(r)' \/ Coming(r)')
  <2>1. CASE r = m.to BY <1>4, <2>1
  <2>2. CASE r # m.to BY <2>2 DEF Remade, Coming
  <2>. QED BY <2>1, <2>2
<1>7. Remain' /\ Mending' BY <1>4, <1>6, RemainSame DEF Guarded
<1>8. Carried' BY <1>4, BearingStays, Addressed DEF Guarded, Carried
<1>. QED BY <1>5, <1>7, <1>8, NothingToFind DEF Guarded

\* An append_file adds to a copy that is right.
LEMMA AppendGuarded ==
  ASSUME Sound, burst \subseteq Nodes, OneMerge, Delivered, Guarded, ~torn, NEW m \in net, RecvAppend(m)
  PROVE  Guarded'
<1>1. m.type = "append_file" /\ UNCHANGED <<up, view, scans, merge, unscanned, burst>> BY AppendDoes
<1>2. Settled /\ m.to \in Replicas BY <1>1 DEF Delivered, WriteGoesOn, Written
<1>3. m.to \in Nodes /\ up[m.to] /\ m \in Appends BY <1>1, Addressed, Fields
<1>4. Successors(FileHash, view[m.to], NumReplicas) = Replicas BY <1>2, <1>3, ToReplicas DEF Settled
<1>5. net' = net \ {m} /\ store' = [store EXCEPT ![m.to] = AppendFile(@, m.client, <<m.write>>)]
  BY <1>2, <1>4, AppendDoes
<1>6. Holds(m.to) BY <1>1 DEF Guarded, Carried, Bearing
<1>7. PICK f \in Files : f = store[m.to] /\ KeysApart(f) BY <1>3 DEF Sound, Shelf
<1>8. PICK g : g = AppendFile(f, m.client, <<m.write>>) OBVIOUS
<1>9. m.client \in Clientele /\ <<m.write>> \in Seq(Nat) BY <1>3, OneItem DEF Appends
<1>10. g.exists /\ g.id = f.id /\ Items(f) \subseteq Items(g)
  <2>1. PICK data \in Seq(Nat) : data = <<m.write>> BY <1>9
  <2>2. PICK client \in Clientele : client = m.client BY <1>9
  <2>3. g = AppendFile(f, client, data) BY <1>8, <2>1, <2>2
  <2>4. g.exists /\ g.id = f.id /\ Items(g) = Items(f) \cup ToSet(data) BY <1>7, <2>3, AppendAdds
  <2>. QED BY <2>4
<1>11. Right(f) BY <1>3, <1>6, <1>7 DEF Guarded, Copied
<1>12. Right(g) BY <1>10, <1>11 DEF Right
<1>13. store' = [store EXCEPT ![m.to] = g] BY <1>5, <1>7, <1>8
<1>14. ~MergeGoesOn BY <1>1, NotMerging DEF MergeTypes
<1>15. NobodyMerges' BY <1>1, <1>14 DEF NobodyMerges, MergeGoesOn
<1>. QED BY <1>1, <1>5, <1>12, <1>13, <1>15, OneCopy

\* What a message carries becomes a right copy.
LEMMA CreateRight ==
  ASSUME Sound, Guarded, NEW n \in Nodes, NEW id \in {FileHash, Float64(FileHash)}, NEW client \in Clientele,
         NEW data \in Seq(Nat), 1 \in ToSet(data)
  PROVE  Right(CreateFile(store[n], id, client, data))
<1>1. PICK f \in Files : f = store[n] /\ KeysApart(f) BY DEF Sound, Shelf
<1>2. PICK g : g = CreateFile(f, id, client, data) OBVIOUS
<1>3. id \in Nat BY HashTypes
<1>4. CASE f.exists
  <2>1. g = f BY <1>1, <1>2, <1>3, <1>4, CreateMakes
  <2>2. Right(f) BY <1>1, <1>4 DEF Guarded, Copied, Holds
  <2>. QED BY <1>1, <1>2, <2>1, <2>2
<1>5. CASE ~f.exists
  <2>1. g.exists /\ ReadFile(g) = data /\ g.id = id BY <1>1, <1>2, <1>3, <1>5, CreateMakes
  <2>. QED BY <1>1, <1>2, <2>1 DEF Right, Items
<1>. QED BY <1>4, <1>5

\* A copy arrives.
LEMMA RereplicateGuarded ==
  ASSUME Sound, burst \subseteq Nodes, OneMerge, Guarded, NEW m \in net, RecvRereplicate(m) PROVE Guarded'
<1>1. /\ m.type = "rereplicate_file" /\ UNCHANGED <<up, view, scans, merge, unscanned, burst>> /\ net' = net \ {m}
      /\ store' = [store EXCEPT ![m.to] = CreateFile(@, m.id, RereplicateClient(m.to), m.data)]
  BY DEF RecvRereplicate
<1>2. m.to \in Nodes /\ m \in Copies BY <1>1, Addressed, Fields
<1>3. 1 \in ToSet(m.data) /\ m.id = Float64(FileHash) /\ m.data \in Seq(Nat)
  BY <1>1, <1>2 DEF Guarded, Carried, Bearing, Copies
<1>4. PICK g : g = CreateFile(store[m.to], m.id, RereplicateClient(m.to), m.data) OBVIOUS
<1>5. Right(g) BY <1>2, <1>3, <1>4, CreateRight, ClientTypes
<1>6. store' = [store EXCEPT ![m.to] = g] BY <1>1, <1>4
<1>7. ~MergeGoesOn BY <1>1, NotMerging DEF MergeTypes
<1>8. NobodyMerges' BY <1>1, <1>7 DEF NobodyMerges, MergeGoesOn
<1>. QED BY <1>1, <1>5, <1>6, <1>8, OneCopy

\* Messages of a merge that is being spread.
LEMMA OnlyRenewing ==
  ASSUME OneMerge, NEW m \in net, m.type \in {"merge_update", "merge_recreate"}
  PROVE  NobodyMerges /\ scans = {} /\ \A x \in net : x.type \in {"merge_update", "merge_recreate"}
BY DEF OneMerge, MergeGoesOn, MergeTypes, Asked, DriverOnly, Renewing

\* A replica makes its file anew.
LEMMA RecreateGuarded ==
  ASSUME Sound, burst \subseteq Nodes, OneMerge, Guarded, NEW m \in net, Recreate(m) PROVE Guarded'
<1>1. /\ m.type = "merge_recreate" /\ UNCHANGED <<up, view, scans, merge, unscanned, burst>> /\ net' = net \ {m}
      /\ store' = [store EXCEPT ![m.to] = CreateFile(@, Float64(FileHash), MergedClient, m.data)]
  BY DEF Recreate
<1>2. m.to \in Nodes /\ m \in Updates BY <1>1, Addressed, Fields
<1>3. 1 \in ToSet(m.data) /\ m.data \in Seq(Nat) BY <1>1, <1>2 DEF Guarded, Carried, Bearing, Updates
<1>4. PICK g : g = CreateFile(store[m.to], Float64(FileHash), MergedClient, m.data) OBVIOUS
<1>5. Right(g) BY <1>2, <1>3, <1>4, CreateRight, ClientTypes
<1>6. store' = [store EXCEPT ![m.to] = g] BY <1>1, <1>4
<1>7. NobodyMerges' BY <1>1, OnlyRenewing DEF NobodyMerges
<1>. QED BY <1>1, <1>5, <1>6, <1>7, OneCopy

\* It has deleted the old one.
LEMMA UpdateGuarded ==
  ASSUME Sound, burst \subseteq Nodes, OneMerge, Guarded, NEW m \in net, RecvMergeUpdate(m) PROVE Guarded'
<1>1. /\ m.type = "merge_update" /\ UNCHANGED <<up, view, scans, merge, unscanned, burst>>
      /\ store' = [store EXCEPT ![m.to] = NoFile]
  BY UpdateDoes
<1>2. PICK y : /\ y.type = "merge_recreate" /\ y.to = m.to /\ y.from = m.to /\ y.data = m.data
               /\ net' = (net \ {m}) \cup {y}
  BY UpdateDoes
<1>3. m.to \in Nodes BY Addressed
<1>4. store \in [Nodes -> Files] BY DEF Sound, Shelf
<1>5. store'[m.to] = NoFile /\ \A r \in Nodes \ {m.to} : store'[r] = store[r] BY <1>1, <1>3, <1>4
<1>6. ~Holds(m.to)' /\ Remade(m.to)' /\ \A r \in Nodes \ {m.to} : Holds(r)' = Holds(r)
  BY <1>2, <1>5, NoFileType DEF Holds, Remade
<1>7. Copied'
  <2>1. ASSUME NEW r \in Nodes, Holds(r)' PROVE Right(store'[r]) BY <1>5, <1>6, <2>1 DEF Guarded, Copied
  <2>. QED BY <2>1 DEF Copied, Right
<1>8. \A r \in Nodes : (Remade(r) => Remade(r)') /\ (Coming(r) => Coming(r)') BY <1>1, <1>2 DEF Remade, Coming
<1>9. Remain' /\ Mending' BY <1>1, <1>6, <1>8, RemainSame DEF Guarded
<1>10. NobodyMerges' /\ \A x \in net : x.type \in {"merge_update", "merge_recreate"}
  BY <1>1, OnlyRenewing DEF NobodyMerges
<1>11. Carried'
  <2>1. ASSUME NEW x \in net PROVE Bearing(x)' BY <1>10 DEF Guarded, Carried, Bearing
  <2>2. Bearing(m) BY DEF Guarded, Carried
  <2>3. Bearing(y)' BY <1>1, <1>2, <2>2 DEF Bearing
  <2>. QED BY <1>2, <2>1, <2>3 DEF Carried
<1>. QED BY <1>7, <1>9, <1>10, <1>11, NothingToFind DEF Guarded

\* A merge starts at its own table, so it will visit its own store.
LEMMA StartGuarded ==
  ASSUME Sound, burst \subseteq Nodes, Guarded, NEW n \in Nodes, up[n], NEW rest, rest \subseteq net,
         \A x \in net : x \in rest \/ x.type = "merge_request", StartMerge(n, rest),
         UNCHANGED <<up, view, store, scans, unscanned, burst>>
  PROVE  Guarded'
<1>1. rest \subseteq net' /\ \A x \in net' : x \in rest \/ x.type = "merge_request" BY MergeDoes
<1>2. \A r \in Nodes : Holds(r)' = Holds(r) BY DEF Holds
<1>3. Copied' BY <1>2 DEF Guarded, Copied, Right
<1>4. \A r \in Nodes : (Remade(r) => Remade(r)') /\ (Coming(r) => Coming(r)') BY <1>1 DEF Remade, Coming
<1>5. Remain' /\ Mending' BY <1>2, <1>4, RemainSame DEF Guarded
<1>6. Carried'
  <2>1. ASSUME NEW x \in net PROVE Bearing(x)' BY <1>2, BearingStays, Addressed DEF Guarded, Carried
  <2>2. ASSUME NEW x, x.type = "merge_request" PROVE Bearing(x)' BY <2>2 DEF Bearing
  <2>. QED BY <1>1, <2>1, <2>2 DEF Carried
<1>7. Found'
  <2>1. CASE UNCHANGED merge BY <1>2, <2>1 DEF Guarded, Found
  <2>2. CASE ~UNCHANGED merge
    <3>1. PICK succ : succ = Successors(FileHash, view[n], NumReplicas) OBVIOUS
    <3>2. /\ Primary(FileHash, view[n]) = n
          /\ merge' = [merge EXCEPT ![n] = [phase |-> "collect", succ |-> succ, left |-> succ, blocks |-> {}]]
      BY <2>2, <3>1, MergeDoes
    <3>3. n \in succ
      <4>1. view[n] \in SUBSET Nodes /\ n \in view[n] BY DEF Sound, Tables
      <4>2. Nodes \subseteq Nat /\ IsFiniteSet(Nodes) /\ FileHash \in Nat /\ NumReplicas \in Nat \ {0} BY RingAssumption
      <4>3. view[n] \in SUBSET Nat /\ IsFiniteSet(view[n]) BY <4>1, <4>2, FS_Subset
      <4>4. Rank(FileHash, view[n], n) = 0 BY <3>2, <4>1, <4>2, <4>3, PrimaryFirst
      <4>. QED BY <3>1, <4>1, <4>2, <4>4 DEF Successors
    <3>4. merge \in [Nodes -> Merges] BY DEF Sound, Driving
    <3>5. merge'[n].left = succ /\ \A k \in Nodes \ {n} : merge'[k] = merge[k] BY <3>2, <3>4
    <3>. QED BY <1>2, <3>3, <3>5 DEF Guarded, Found
  <2>. QED BY <2>1, <2>2
<1>. QED BY <1>3, <1>5, <1>6, <1>7 DEF Guarded

\* It collects; a block that another one replaces is replaced by a right copy's.
LEMMA CollectGuarded ==
  ASSUME Sound, burst \subseteq Nodes, Guarded, NEW n \in Nodes, NEW r \in Nodes, MergeCollect(n, r) PROVE Guarded'
<1>1. /\ merge[n].phase = "collect" /\ UNCHANGED <<up, view, store, scans, unscanned, burst, net>>
      /\ merge' = [merge EXCEPT ![n].left = @ \ {r},
                     ![n].blocks = IF up[r] /\ Holds(r) THEN Collected(@, GetAllBlocks(store[r])) ELSE @]
  BY DEF MergeCollect
<1>2. \A k \in Nodes : Holds(k)' = Holds(k) BY <1>1 DEF Holds
<1>3. Copied' /\ Remain' /\ Mending' BY <1>1, SameCopies
<1>4. Carried' BY <1>1, <1>2, BearingStays, Addressed DEF Guarded, Carried
<1>5. PICK old : old = merge[n].blocks OBVIOUS
<1>6. PICK new : new = IF up[r] /\ Holds(r) THEN Collected(old, GetAllBlocks(store[r])) ELSE old OBVIOUS
<1>7. merge'[n].left = merge[n].left \ {r} /\ merge'[n].blocks = new /\ \A k \in Nodes \ {n} : merge'[k] = merge[k]
  <2>1. merge \in [Nodes -> Merges] BY DEF Sound, Driving
  <2>2. merge'[n] = [[merge[n] EXCEPT !.left = @ \ {r}] EXCEPT !.blocks = new] BY <1>1, <1>5, <1>6, <2>1
  <2>3. merge[n] \in Merges BY <2>1
  <2>. QED BY <1>1, <2>1, <2>2, <2>3 DEF Merges
<1>8. Found'
  <2>1. ASSUME n \notin merge'[n].left, Holds(n) PROVE 1 \in Contents(new)
    <3>1. CASE up[r] /\ Holds(r)
      <4>1. PICK f \in Files : f = store[r] /\ KeysApart(f) BY DEF Sound, Shelf
      <4>2. 1 \in Items(f) BY <3>1, <4>1 DEF Guarded, Copied, Right
      <4>3. 1 \in Contents(GetAllBlocks(f)) BY <4>1, <4>2, BlocksOf
      <4>4. GetAllBlocks(f) \subseteq new BY <1>6, <3>1, <4>1 DEF Collected
      <4>. QED BY <4>3, <4>4 DEF Contents
    <3>2. CASE ~(up[r] /\ Holds(r))
      <4>1. new = old BY <1>6, <3>2
      <4>2. up[n] BY <1>1, MergeFields DEF Sound
      <4>3. r # n /\ n \notin merge[n].left BY <1>7, <2>1, <3>2, <4>2
      <4>4. 1 \in Contents(old) BY <1>1, <1>5, <2>1, <4>3 DEF Guarded, Found
      <4>. QED BY <4>1, <4>4
    <3>. QED BY <3>1, <3>2
  <2>2. \A k \in Nodes \ {n} : merge'[k] = merge[k] BY <1>7
  <2>3. ASSUME NEW k \in Nodes, k # n, merge'[k].phase = "collect", k \notin merge'[k].left, Holds(k)'
        PROVE  1 \in Contents(merge'[k].blocks)
    BY <1>2, <2>2, <2>3 DEF Guarded, Found
  <2>4. Holds(n)' /\ n \notin merge'[n].left => 1 \in Contents(merge'[n].blocks) BY <1>2, <1>7, <2>1
  <2>. QED BY <2>3, <2>4 DEF Found
<1>. QED BY <1>3, <1>4, <1>8 DEF Guarded

\* Its own copy takes what it has collected,
LEMMA LocallyGuarded ==
  ASSUME Sound, burst \subseteq Nodes, Guarded, NEW n \in Nodes, MergeLocally(n) PROVE Guarded'
<1>1. UNCHANGED <<up, view, scans, unscanned, burst, net>> /\ merge[n].phase = "collect" /\ merge[n].left = {} BY DEF MergeLocally
<1>2. merge \in [Nodes -> Merges] /\ store \in [Nodes -> Files] BY DEF Sound, Driving, Shelf
<1>3. merge'[n].phase # "collect" /\ \A k \in Nodes \ {n} : merge'[k] = merge[k]
  <2>1. CASE merge' = [merge EXCEPT ![n].phase = "send", ![n].blocks = {}]
    <3>1. merge'[n] = [[merge[n] EXCEPT !.phase = "send"] EXCEPT !.blocks = {}] BY <1>2, <2>1
    <3>2. merge[n] \in Merges BY <1>2
    <3>3. merge'[n].phase = "send" BY <3>1, <3>2 DEF Merges
    <3>. QED BY <1>2, <2>1, <3>3
  <2>2. CASE merge' = [merge EXCEPT ![n] = Idle] BY <1>2, <2>2 DEF Idle
  <2>. QED BY <2>1, <2>2 DEF MergeLocally
<1>4. \A k \in Nodes : Holds(k)' = Holds(k) /\ (Holds(k) => Right(store'[k]))
  <2>1. CASE ~Holds(n)
    <3>1. UNCHANGED store BY <2>1 DEF MergeLocally
    <3>. QED BY <3>1 DEF Guarded, Copied, Holds
  <2>2. CASE Holds(n)
    <3>1. PICK f \in Files : f = store[n] BY <1>2
    <3>2. PICK S : S = merge[n].blocks OBVIOUS
    <3>3. S \in SUBSET Blocks /\ KeysDiffer(S) /\ IsFiniteSet(S) BY <3>2, MergeFields DEF Sound
    <3>4. PICK g : g = MergeFile(f, S) OBVIOUS
    <3>5. /\ g \in Files /\ KeysApart(g) /\ g.exists = f.exists /\ g.id = f.id /\ GetAllBlocks(g) = S
      BY <3>3, <3>4, MergeMakes
    <3>6. 1 \in Contents(S) BY <1>1, <2>2, <3>2 DEF Guarded, Found
    <3>7. 1 \in Items(g) BY <3>5, <3>6, BlocksOf
    <3>8. Right(f) BY <2>2, <3>1 DEF Guarded, Copied
    <3>9. Right(g) BY <3>5, <3>7, <3>8 DEF Right
    <3>10. store' = [store EXCEPT ![n] = g] BY <2>2, <3>1, <3>2, <3>4 DEF MergeLocally
    <3>11. store'[n] = g /\ \A k \in Nodes \ {n} : store'[k] = store[k] BY <1>2, <3>10
    <3>12. Holds(n)' = Holds(n) BY <3>1, <3>5, <3>11 DEF Holds
    <3>13. ASSUME NEW k \in Nodes \ {n} PROVE Holds(k)' = Holds(k) /\ (Holds(k) => Right(store'[k]))
      BY <3>11 DEF Guarded, Copied, Holds
    <3>. QED BY <3>9, <3>11, <3>12, <3>13
  <2>. QED BY <2>1, <2>2
<1>5. Copied' BY <1>4 DEF Copied, Right
<1>6. \A r \in Nodes : (Remade(r) => Remade(r)') /\ (Coming(r) => Coming(r)') BY <1>1 DEF Remade, Coming
<1>7. Remain' /\ Mending' BY <1>1, <1>4, <1>6, RemainSame DEF Guarded
<1>8. Carried' BY <1>1, <1>4, BearingStays, Addressed DEF Guarded, Carried
<1>9. Found' BY <1>3, <1>4 DEF Guarded, Found
<1>. QED BY <1>5, <1>7, <1>8, <1>9 DEF Guarded

\* and is sent.
LEMMA SendGuarded ==
  ASSUME Sound, burst \subseteq Nodes, Guarded, NEW n \in Nodes, MergeSend(n) PROVE Guarded'
<1>1. /\ merge' = [merge EXCEPT ![n] = Idle] /\ net \subseteq net' /\ UNCHANGED <<up, view, store, scans, unscanned, burst>>
      /\ \A x \in net' : x \in net \/ (x.type = "merge_update" /\ x.data = ReadFile(store[n]) /\ Holds(n))
  BY SendDoes
<1>2. \A k \in Nodes : Holds(k)' = Holds(k) BY <1>1 DEF Holds
<1>3. Copied' /\ Remain' /\ Mending' BY <1>1, SameCopies
<1>4. Carried'
  <2>1. ASSUME NEW x \in net PROVE Bearing(x)' BY <1>2, BearingStays, Addressed DEF Guarded, Carried
  <2>2. ASSUME NEW x, x.type = "merge_update", x.data = ReadFile(store[n]), Holds(n) PROVE Bearing(x)'
    BY <2>2 DEF Bearing, Guarded, Copied, Right, Items
  <2>. QED BY <1>1, <2>1, <2>2 DEF Carried
<1>5. merge \in [Nodes -> Merges] BY DEF Sound, Driving
<1>6. \A k \in Nodes : merge'[k] = merge[k] \/ merge'[k].phase = "idle" BY <1>1, <1>5 DEF Idle
<1>7. Found' BY <1>2, <1>6 DEF Guarded, Found
<1>. QED BY <1>3, <1>4, <1>7 DEF Guarded

\* A scan of the first node sends copies to all replicas.
LEMMA ScanGuarded ==
  ASSUME RoundsWell, Sound, burst \subseteq Nodes, OneMerge, Mild, Guarded, NEW s \in scans, Scan(s) PROVE Guarded'
<1>1. /\ scans' = scans \ {s} /\ net \subseteq net' /\ UNCHANGED <<up, view, store, merge, unscanned, burst>>
      /\ \A x \in net' : \/ x \in net
                         \/ /\ x.type = "rereplicate_file" /\ Holds(s.node)
                            /\ x.id = Float64(store[s.node].id) /\ x.data = ReadFile(store[s.node])
  BY ScanDoes
<1>2. \A k \in Nodes : Holds(k)' = Holds(k) BY <1>1 DEF Holds
<1>3. Copied' BY <1>1, <1>2 DEF Guarded, Copied, Right
<1>4. s.node \in Nodes /\ up[s.node] BY DEF Sound, Scanning
<1>5. Carried'
  <2>1. ASSUME NEW x \in net PROVE Bearing(x)' BY <1>2, BearingStays, Addressed DEF Guarded, Carried
  <2>2. ASSUME NEW x, x.type = "rereplicate_file", Holds(s.node), x.id = Float64(store[s.node].id),
               x.data = ReadFile(store[s.node])
        PROVE  Bearing(x)'
    <3>1. Right(store[s.node]) BY <1>4, <2>2 DEF Guarded, Copied
    <3>2. x.id = Float64(FileHash) BY <2>2, <3>1, RoundedOnce DEF Right
    <3>. QED BY <2>2, <3>1, <3>2 DEF Bearing, Right, Items
  <2>. QED BY <1>1, <2>1, <2>2 DEF Carried
<1>6. Up' = Up /\ First' = First /\ Replicas' = Replicas BY <1>1 DEF Up, First, Replicas
<1>7. \A r \in Nodes : (Remade(r) => Remade(r)') /\ (Coming(r) => Coming(r)') BY <1>1 DEF Remade, Coming
<1>8. Replicas \subseteq Nodes /\ Successors(FileHash, Up \cup burst, NumReplicas) \subseteq Nodes
  BY DEF Replicas, Successors, Up
<1>9. Remain' BY <1>1, <1>2, <1>6, <1>7, <1>8 DEF Guarded, Remain
<1>10. Mending'
  <2>. SUFFICES ASSUME Up # {}, view[First] = Up, First \notin unscanned,
                       [node |-> First, view |-> Up] \notin scans'
                PROVE  \A r \in Replicas : Holds(r)' \/ Remade(r)' \/ Coming(r)'
    BY <1>1, <1>6 DEF Mending
  <2>1. CASE [node |-> First, view |-> Up] \in scans
    <3>1. s.node = First /\ s.view = Up BY <1>1, <2>1
    <3>2. ~MergeGoesOn BY DEF OneMerge
    <3>3. ~Remade(First) BY <3>2 DEF Remade, MergeGoesOn, MergeTypes
    <3>4. Holds(First) /\ First \in Nodes BY <3>3, FirstHolds, UpFacts
    <3>5. PICK f : f = store[First] OBVIOUS
    <3>6. f.id \in {FileHash, Float64(FileHash)} BY <3>4, <3>5 DEF Guarded, Copied, Right
    <3>7. Up \in SUBSET Nodes BY DEF Up
    <3>8. Primary(f.id, Up) = First /\ Successors(f.id, Up, NumReplicas) = Replicas
      BY <3>6, <3>7, SameSuccessors DEF First, Replicas
    <3>9. ScanTargets(First, f, Up) = Replicas \ {First} BY <3>8 DEF ScanTargets
    <3>10. \A r \in Replicas \ {First} : up[r] => \E x \in net' : x.type = "rereplicate_file" /\ x.to = r
      BY <3>1, <3>4, <3>5, <3>9, ScanDoes
    <3>11. \A r \in Replicas : up[r] BY UpFacts DEF Up
    <3>. QED BY <1>2, <3>4, <3>10, <3>11 DEF Coming
  <2>2. CASE [node |-> First, view |-> Up] \notin scans
    <3>1. \A r \in Replicas : Holds(r) \/ Remade(r) \/ Coming(r) BY <2>2 DEF Guarded, Mending
    <3>. QED BY <1>2, <1>7, <1>8, <3>1
  <2>. QED BY <2>1, <2>2
<1>11. Found' BY <1>1, <1>2 DEF Guarded, Found
<1>. QED BY <1>3, <1>5, <1>9, <1>10, <1>11 DEF Guarded

\* Who learns of a failure scans by the new table.
LEMMA LearnGuarded ==
  ASSUME Sound, burst \subseteq Nodes, Guarded, NEW n \in Nodes, NEW gone, LearnFailed(n, gone) PROVE Guarded'
<1>1. /\ view' = [view EXCEPT ![n] = @ \ gone] /\ scans' = scans \cup {[node |-> n, view |-> view'[n]]}
      /\ UNCHANGED <<up, store, net, merge, burst>> /\ unscanned' = unscanned \ {n}
  BY DEF LearnFailed, StartScan
<1>2. \A k \in Nodes : Holds(k)' = Holds(k) /\ Remade(k)' = Remade(k) /\ Coming(k)' = Coming(k)
  BY <1>1 DEF Holds, Remade, Coming
<1>3. Copied' /\ Found' BY <1>1, <1>2 DEF Guarded, Copied, Right, Found
<1>4. Carried' BY <1>1, <1>2, BearingStays, Addressed DEF Guarded, Carried
<1>5. Up' = Up /\ First' = First /\ Replicas' = Replicas BY <1>1 DEF Up, First, Replicas
<1>6. Replicas \subseteq Nodes /\ Successors(FileHash, Up \cup burst, NumReplicas) \subseteq Nodes
  BY DEF Replicas, Successors, Up
<1>7. Remain' BY <1>1, <1>2, <1>5, <1>6 DEF Guarded, Remain
<1>8. Mending'
  <2>1. view \in [Nodes -> SUBSET Nodes] BY DEF Sound, Tables
  <2>2. \A k \in Nodes \ {n} : view'[k] = view[k] BY <1>1, <2>1
  <2>3. CASE Up # {} /\ First = n BY <1>1, <1>5, <2>3 DEF Mending
  <2>4. CASE Up # {} /\ First # n
    <3>1. First \in Nodes BY <2>4, UpFacts
    <3>2. view'[First] = view[First] BY <2>2, <2>4, <3>1
    <3>. QED BY <1>1, <1>2, <1>5, <1>6, <2>4, <3>2 DEF Guarded, Mending
  <2>. QED BY <1>5, <2>3, <2>4 DEF Mending
<1>. QED BY <1>3, <1>4, <1>7, <1>8 DEF Guarded

\* Who learns of one by a Probe may have to scan yet.
LEMMA ProbeGuarded ==
  ASSUME Sound, burst \subseteq Nodes, Guarded, NEW n \in Nodes, NEW m \in Nodes, LearnByProbe(n, m) PROVE Guarded'
<1>1. /\ UNCHANGED <<up, store, net, scans, merge, burst>> /\ unscanned' = unscanned \cup {n}
      /\ \E v : view' = [view EXCEPT ![n] = v]
  BY DEF LearnByProbe
<1>2. \A k \in Nodes : Holds(k)' = Holds(k) /\ Remade(k)' = Remade(k) /\ Coming(k)' = Coming(k)
  BY <1>1 DEF Holds, Remade, Coming
<1>3. Copied' /\ Found' BY <1>1, <1>2 DEF Guarded, Copied, Right, Found
<1>4. Carried' BY <1>1, <1>2, BearingStays, Addressed DEF Guarded, Carried
<1>5. Up' = Up /\ First' = First /\ Replicas' = Replicas BY <1>1 DEF Up, First, Replicas
<1>6. Replicas \subseteq Nodes /\ Successors(FileHash, Up \cup burst, NumReplicas) \subseteq Nodes
  BY DEF Replicas, Successors, Up
<1>7. Remain' BY <1>1, <1>2, <1>5, <1>6 DEF Guarded, Remain
<1>8. Mending'
  <2>1. view \in [Nodes -> SUBSET Nodes] BY DEF Sound, Tables
  <2>2. \A k \in Nodes \ {n} : view'[k] = view[k] BY <1>1, <2>1
  <2>3. CASE First = n BY <1>1, <1>5, <2>3 DEF Mending
  <2>4. CASE Up # {} /\ First # n
    <3>1. First \in Nodes BY <2>4, UpFacts
    <3>2. view'[First] = view[First] BY <2>2, <2>4, <3>1
    <3>. QED BY <1>1, <1>2, <1>5, <1>6, <2>4, <3>2 DEF Guarded, Mending
  <2>. QED BY <1>5, <2>3, <2>4 DEF Mending
<1>. QED BY <1>3, <1>4, <1>7, <1>8 DEF Guarded

\* A crash: the first node that is left has the dead one in its table; the
\* others keep their copies, and when all was Whole every replica had one.
LEMMA CrashGuarded ==
  ASSUME Sound, Sound', burst \subseteq Nodes, Rooted, NoJoins, Guarded, NEW n \in Nodes, Crash(n) PROVE Guarded'
<1>1. /\ up[n] /\ up' = [up EXCEPT ![n] = FALSE] /\ UNCHANGED <<view, store>>
      /\ merge' = [merge EXCEPT ![n] = Idle]
      /\ burst' = (IF Whole /\ Cardinality(burst) < NumReplicas THEN {} ELSE burst) \cup {n}
  BY DEF Crash
<1>2. PICK unsent \in SUBSET {m \in net : m.from = n} : net' = {m \in net \ unsent : m.to # n} BY DEF Crash
<1>3. up \in [Nodes -> BOOLEAN] /\ merge \in [Nodes -> Merges] BY DEF Sound, Tables, Driving
<1>4. Up' = Up \ {n} /\ n \in Up /\ Up \subseteq Nodes BY <1>1, <1>3 DEF Up
<1>5. \A k \in Nodes : Holds(k)' = Holds(k) BY <1>1 DEF Holds
<1>6. Copied' BY <1>1, <1>5 DEF Guarded, Copied, Right
<1>7. Carried' BY <1>2, <1>5, BearingStays, Addressed DEF Guarded, Carried
<1>8. Found'
  <2>1. \A k \in Nodes : merge'[k] = merge[k] \/ merge'[k].phase = "idle" BY <1>1, <1>3 DEF Idle
  <2>. QED BY <1>5, <2>1 DEF Guarded, Found
<1>9. Mending'
  <2>1. ASSUME Up' # {} PROVE view'[First'] # Up'
    <3>1. First' \in Up' BY <2>1, UpPrimary
    <3>2. Up \subseteq view[First'] BY <1>4, <3>1 DEF Rooted
    <3>. QED BY <1>1, <1>4, <3>2
  <2>. QED BY <2>1 DEF Mending
<1>10. Remain'
  <2>1. ASSUME NEW r \in Nodes, r # n, Remade(r) PROVE Remade(r)'
    <3>1. PICK m \in net : m.type = "merge_recreate" /\ m.to = r BY <2>1 DEF Remade
    <3>2. m.from = m.to BY <3>1 DEF Guarded, Carried, Bearing
    <3>3. m \in net' BY <1>2, <2>1, <3>1, <3>2
    <3>. QED BY <3>1, <3>3 DEF Remade
  <2>2. CASE burst' = burst \cup {n}
    <3>1. Up' \cup burst' = Up \cup burst BY <1>4, <2>2
    <3>2. Successors(FileHash, Up \cup burst, NumReplicas) \subseteq Nodes BY <1>4 DEF Successors
    <3>3. ASSUME NEW r \in Successors(FileHash, Up \cup burst, NumReplicas), up'[r] PROVE Holds(r)' \/ Remade(r)'
      <4>1. r # n /\ up[r] /\ r \in Nodes BY <1>1, <1>3, <3>2, <3>3
      <4>2. Holds(r) \/ Remade(r) BY <4>1 DEF Guarded, Remain
      <4>. QED BY <1>5, <2>1, <4>1, <4>2
    <3>. QED BY <3>1, <3>3 DEF Remain
  <2>3. CASE burst' = {n} /\ Whole
    <3>1. Up' \cup burst' = Up BY <1>4, <2>3
    <3>2. Settled /\ ~MergeGoesOn BY <2>3 DEF Whole, AtRest
    <3>3. \A r \in Replicas : Holds(r) /\ r \in Nodes BY <1>4, <3>2, AllHold DEF Replicas, Successors
    <3>. QED BY <1>5, <3>1, <3>3 DEF Remain, Replicas
  <2>. QED BY <1>1, <2>2, <2>3
<1>. QED BY <1>6, <1>7, <1>8, <1>9, <1>10 DEF Guarded

\* All steps.
LEMMA GuardedStep ==
  ASSUME Overlaps \subseteq {"crash"}, RoundsWell, Sound, Sound', burst \subseteq Nodes, Rooted, OneMerge, Delivered,
         Mild, Mild', Guarded, [Next]_vars
  PROVE  Guarded'
<1>a. ~torn /\ ~torn' /\ NoJoins /\ NoJoins' BY DEF Mild
<1>1. ASSUME NEW m \in net, RecvReplicate(m) \/ RecvAck(m) \/ RecvAppend(m) \/ RecvRereplicate(m)
                            \/ RecvMergeUpdate(m) \/ Recreate(m)
      PROVE  Guarded'
  BY <1>1, <1>a, ReplicateGuarded, AckGuarded, AppendGuarded, RereplicateGuarded, UpdateGuarded, RecreateGuarded
<1>2. ASSUME NEW m \in net, RecvMergeRequest(m) PROVE Guarded'
  <2>1. PICK rest : rest = net \ {m} OBVIOUS
  <2>2. m.type = "merge_request" /\ StartMerge(m.to, rest) /\ UNCHANGED <<up, view, store, scans, unscanned, burst>>
    BY <1>2, <2>1 DEF RecvMergeRequest
  <2>3. rest \subseteq net /\ \A x \in net : x \in rest \/ x.type = "merge_request" BY <2>1, <2>2
  <2>4. m.to \in Nodes /\ up[m.to] BY Addressed
  <2>. QED BY <2>2, <2>3, <2>4, StartGuarded
<1>3. ASSUME NEW n \in Nodes, Merge(n) PROVE Guarded'
  <2>1. up[n] /\ StartMerge(n, net) /\ UNCHANGED <<up, view, store, scans, unscanned, burst>> BY <1>3 DEF Merge
  <2>. QED BY <2>1, StartGuarded
<1>4. ASSUME NEW n \in Nodes, Create(n) \/ CLICreate(n) \/ AppendTo(n) PROVE Guarded' BY <1>4, <1>a, WriteGuarded
<1>5. ASSUME NEW n \in Nodes, MergeLocally(n) \/ MergeSend(n) \/ \E r \in Nodes : MergeCollect(n, r) PROVE Guarded'
  BY <1>5, LocallyGuarded, SendGuarded, CollectGuarded
<1>6. ASSUME NEW n \in Nodes, Crash(n) PROVE Guarded' BY <1>6, <1>a, CrashGuarded
<1>7. ASSUME NEW n \in Nodes, NEW gone \in SUBSET (view[n] \ Up), LearnFailed(n, gone) PROVE Guarded' BY <1>7, LearnGuarded
<1>8. ASSUME NEW s \in scans, Scan(s) PROVE Guarded' BY <1>8, ScanGuarded
<1>9. CASE UNCHANGED vars
  <2>1. UNCHANGED <<up, view, store, scans, unscanned, burst, net, merge>> BY <1>9 DEF vars
  <2>2. \A k \in Nodes : Holds(k)' = Holds(k) BY <2>1 DEF Holds
  <2>3. Copied' /\ Remain' /\ Mending' BY <2>1, SameCopies
  <2>4. Carried' BY <2>1, <2>2, BearingStays, Addressed DEF Guarded, Carried
  <2>5. Found' BY <2>1, <2>2 DEF Guarded, Found
  <2>. QED BY <2>3, <2>4, <2>5 DEF Guarded
<1>10. ASSUME NEW n \in Nodes, NEW m \in Nodes, LearnByProbe(n, m) PROVE Guarded' BY <1>10, ProbeGuarded
<1>. QED BY <1>a, <1>1, <1>2, <1>3, <1>4, <1>5, <1>6, <1>7, <1>8, <1>9, <1>10, NobodyNew DEF Next, Receive

----------------------------------------------------------------------------
(* The first create *)

\* When it has been stored the file is guarded.
LEMMA StoredGuards ==
  ASSUME Sound, Sound', UNCHANGED <<up, unscanned, burst>>, burst \subseteq Nodes, Cardinality(burst) < NumReplicas,
         NEW c, c.write = 1, Placed(c)', Stored(c)', Settled', ~MergeGoesOn', \A m \in net' : Written(m)'
  PROVE  Guarded'
<1>1. Up' = Up /\ Replicas' = Replicas BY DEF Up, Replicas
<1>2. Replicas \subseteq Nodes BY DEF Replicas, Successors, Up
<1>3. ASSUME NEW r \in Replicas PROVE Right(store'[r]) /\ Holds(r)'
  <2>1. PICK i \in 1..Len(c.succ) : c.succ[i] = r BY <1>1 DEF Placed
  <2>2. <<1, r>> \in landed' BY <2>1 DEF Stored
  <2>. QED BY <1>2, <2>2 DEF Placed, Right, Holds
<1>4. Copied'
  <2>1. ASSUME NEW n \in Nodes, Holds(n)' PROVE Right(store'[n]) BY <1>1, <1>3, <2>1 DEF Placed
  <2>. QED BY <2>1 DEF Copied, Right
<1>5. Carried'
  <2>1. ASSUME NEW x \in net' PROVE Bearing(x)'
    <3>1. x.type \notin MergeTypes /\ x.type # "rereplicate_file" BY DEF MergeGoesOn, Settled
    <3>2. Linked(x)' BY DEF Sound, Mail, Fine
    <3>3. CASE x.type = "append_file"
      <4>1. x.to \in Replicas BY <1>1, <3>3 DEF Written
      <4>. QED BY <1>3, <3>3, <4>1 DEF Bearing
    <3>4. CASE x.type = "replicate_file"
      <4>1. x.index \in 1..Len(x.succ) /\ x.to = x.succ[x.index] BY <3>2, <3>4 DEF Linked
      <4>2. x.to \in Replicas BY <1>1, <3>4, <4>1 DEF Written
      <4>. QED BY <1>3, <3>4, <4>2 DEF Bearing
    <3>5. CASE x.type \notin {"append_file", "replicate_file"} BY <3>1, <3>5 DEF Bearing, MergeTypes
    <3>. QED BY <3>3, <3>4, <3>5
  <2>. QED BY <2>1 DEF Carried
<1>6. Remain'
  <2>1. Up' \cup burst' = Up \cup burst BY <1>1
  <2>2. Successors(FileHash, Up \cup burst, NumReplicas) \cap Up \subseteq Replicas BY FirstRemains
  <2>3. Successors(FileHash, Up \cup burst, NumReplicas) \subseteq Nodes BY DEF Successors, Up
  <2>4. ASSUME NEW r \in Successors(FileHash, Up \cup burst, NumReplicas), up'[r] PROVE Holds(r)'
    <3>1. r \in Up BY <2>3, <2>4 DEF Up
    <3>. QED BY <1>3, <2>2, <3>1
  <2>. QED BY <2>1, <2>4 DEF Remain
<1>7. Mending' BY <1>1, <1>3 DEF Mending
<1>8. NobodyMerges' BY DEF MergeGoesOn, NobodyMerges
<1>. QED BY <1>4, <1>5, <1>6, <1>7, <1>8, NothingToFind DEF Guarded

\* The first create, whoever gives it, finds nothing.
LEMMA FirstCreate ==
  ASSUME Overlaps \subseteq {"crash"}, Sound, Delivered, Blank, ~torn', NEW n \in Nodes,
         NEW succ, succ = GetSuccessors(FileHash, view[n], NumReplicas), NEW c, c.succ = succ, c.write = 1,
         Len(writes) + 1 = 1, Create(n) \/ CLICreate(n)
  PROVE  Placed(c)'
<1>1. Settled /\ Replicas' = Replicas /\ up[n] BY DeliveredWrite, CreateDoes, CLICreateDoes
<1>2. Empty
  <2>1. writes \in Seq([by : Nodes, kind : {"create", "append"}]) BY DEF Sound, Records
  <2>2. writes = <<>> BY <2>1
  <2>. QED BY <2>2 DEF Blank
<1>3. Replicas = {succ[k] : k \in 1..Len(succ)} BY <1>1, ToReplicas DEF Settled
<1>4. CASE UNCHANGED <<store, landed>> BY <1>1, <1>2, <1>3, <1>4 DEF Placed, Empty, Holds
<1>5. CASE ~UNCHANGED <<store, landed>>
  <2>1. /\ succ[1] = n /\ landed' = landed \cup {<<1, n>>}
        /\ store' = [store EXCEPT ![n] = CreateFile(@, FileHash, CreateClient(n), <<1>>)]
    BY <1>5, CreateDoes, CLICreateDoes
  <2>2. Len(succ) >= 1 /\ succ \in Seq(Nodes) BY <1>1, RingFacts, HashTypes DEF Sound
  <2>3. n \in Replicas BY <1>3, <2>1, <2>2
  <2>4. PICK f \in Files : f = store[n] /\ KeysApart(f) /\ ~f.exists BY <1>2 DEF Sound, Shelf, Empty, Holds
  <2>5. PICK data \in Seq(Nat) : data = <<1>> /\ ToSet(data) = {1} BY OneItem
  <2>6. PICK client \in Clientele : client = CreateClient(n) BY ClientTypes
  <2>a. PICK id \in Nat : id = FileHash BY HashTypes
  <2>7. PICK g : g = CreateFile(f, id, client, data) OBVIOUS
  <2>b. g.exists /\ ReadFile(g) = data /\ g.id = id BY <2>4, <2>7, CreateMakes
  <2>8. g.exists /\ ReadFile(g) = data /\ g.id = FileHash BY <2>a, <2>b
  <2>9. Right(g) BY <2>5, <2>8 DEF Right, Items
  <2>10. store' = [store EXCEPT ![n] = g] BY <2>1, <2>4, <2>5, <2>6, <2>7, <2>a
  <2>11. store'[n] = g /\ \A k \in Nodes \ {n} : store'[k] = store[k] BY <2>10 DEF Sound, Shelf
  <2>12. \A k \in Nodes : Holds(k)' => k = n BY <1>2, <2>11 DEF Empty, Holds
  <2>13. landed' = {<<1, n>>} BY <1>2, <2>1 DEF Empty
  <2>14. \A k \in Nodes : <<1, k>> \in landed' => Right(store'[k]) BY <2>9, <2>11, <2>13
  <2>. QED BY <1>1, <1>3, <2>3, <2>12, <2>14 DEF Placed, Right
<1>. QED BY <1>4, <1>5

\* What leaves copies and replicas leaves the file where it is.
LEMMA PlacedSame ==
  ASSUME NEW c, Placed(c), UNCHANGED <<store, landed>>, Replicas' = Replicas PROVE Placed(c)'
BY DEF Placed, Holds, Right

\* A file made or changed at a replica.
LEMMA PlacedMore ==
  ASSUME Sound, NEW c, Placed(c), Replicas' = Replicas, NEW n \in Replicas, n \in Nodes, NEW g, NEW w,
         store' = [store EXCEPT ![n] = g], landed' = landed \cup {<<w, n>>}, w = 1 \/ <<1, n>> \in landed => Right(g)
  PROVE  Placed(c)'
<1>1. store'[n] = g /\ \A k \in Nodes \ {n} : store'[k] = store[k] BY DEF Sound, Shelf
<1>2. \A k \in Nodes : Holds(k)' => k \in Replicas BY <1>1 DEF Placed, Holds
<1>3. ASSUME NEW k \in Nodes, <<1, k>> \in landed' PROVE Right(store'[k])
  <2>1. CASE k = n BY <1>1, <1>3, <2>1
  <2>2. CASE k # n BY <1>1, <1>3, <2>2 DEF Placed
  <2>. QED BY <2>1, <2>2
<1>. QED BY <1>2, <1>3 DEF Placed, Right

\* A step that leaves the file in its place.
PlacedNext(c) ==
  /\ UNCHANGED <<up, unscanned, burst>> /\ Placed(c)' /\ Settled' /\ ~MergeGoesOn'
  /\ \A m \in net' : Written(m)'

\* The file is placed as long as its create is on its way.
LEMMA PlacedStep ==
  ASSUME Overlaps \subseteq {"crash"}, Sound, Sound', OneMerge, Delivered, Numbered, FirstUnderWay, ~torn, ~torn',
         NEW c \in chains, c.write = 1, Placed(c), [Next]_vars
  PROVE  PlacedNext(c)
<1>1. WriteGoesOn BY DEF FirstUnderWay, WriteGoesOn
<1>2. Settled /\ \A m \in net : Written(m) BY <1>1 DEF Delivered
<1>3. ~MergeGoesOn BY NotMerging DEF FirstUnderWay, MergeTypes
<1>4. NobodyMerges /\ scans = {} /\ net # {} BY <1>2, <1>3 DEF MergeGoesOn, NobodyMerges, Settled, FirstUnderWay
<1>5. \A m \in net : m.type \notin MergeTypes /\ m.type # "rereplicate_file" BY <1>2, <1>3 DEF MergeGoesOn, Settled
<1>6. ASSUME UNCHANGED <<up, view, scans>>
      PROVE  Replicas' = Replicas /\ TablesRight' = TablesRight
  BY <1>6, SameRing
<1>7. ASSUME UNCHANGED <<up, view, scans, unscanned, merge>>,
             \A x \in net' : \/ x \in net \/ x.type = "replication_ack"
                             \/ \E m \in net : x.type = "replicate_file" /\ m.type = "replicate_file" /\ x.succ = m.succ
      PROVE  Settled' /\ ~MergeGoesOn' /\ \A m \in net' : Written(m)'
  <2>1. Settled'
    <3>1. Up' = Up BY <1>7 DEF Up
    <3>. QED BY <1>2, <1>5, <1>6, <1>7, <3>1 DEF Settled
  <2>2. ~MergeGoesOn' BY <1>3, <1>7, StaysUnmerged DEF MergeTypes
  <2>3. \A m \in net' : Written(m)' BY <1>2, <1>6, <1>7 DEF Written
  <2>. QED BY <2>1, <2>2, <2>3
<1>8. c.write \in 1..Len(writes) /\ Len(writes) + 1 # 1 BY DEF Numbered, IsCreate, Sound, Records
<1>9. ASSUME NEW n \in Nodes, Create(n) \/ CLICreate(n) \/ AppendTo(n) PROVE PlacedNext(c)
  <2>1. Settled' /\ Replicas' = Replicas /\ \A m \in net' : Written(m)' BY <1>9, DeliveredWrite
  <2>2. ~MergeGoesOn' BY <1>9, WriteStarts
  <2>3. UNCHANGED <<up, unscanned, burst>> /\ up[n] BY <1>9, CreateDoes, CLICreateDoes, AppendToDoes
  <2>4. CASE UNCHANGED <<store, landed>> BY <2>1, <2>2, <2>3, <2>4, PlacedSame DEF PlacedNext
  <2>5. CASE ~UNCHANGED <<store, landed>>
    <3>1. PICK succ : succ = GetSuccessors(FileHash, view[n], NumReplicas) OBVIOUS
    <3>2. PICK w : w = Len(writes) + 1 OBVIOUS
    <3>3. PICK g : g = CreateFile(store[n], FileHash, CreateClient(n), <<w>>) OBVIOUS
    <3>4. succ[1] = n /\ ~Holds(n) /\ landed' = landed \cup {<<w, n>>} /\ store' = [store EXCEPT ![n] = g]
      BY <1>9, <2>5, <3>1, <3>2, <3>3, CreateDoes, CLICreateDoes, AppendToDoes
    <3>5. Len(succ) >= 1 /\ succ \in Seq(Nodes) BY <2>3, <3>1, RingFacts, HashTypes DEF Sound
    <3>6. Replicas = {succ[k] : k \in 1..Len(succ)} BY <1>2, <2>3, <3>1, ToReplicas DEF Settled
    <3>7. n \in Replicas BY <3>4, <3>5, <3>6
    <3>8. w # 1 /\ <<1, n>> \notin landed BY <1>8, <3>2, <3>4 DEF Placed, Right, Holds
    <3>9. Placed(c)' BY <2>1, <3>4, <3>7, <3>8, PlacedMore
    <3>. QED BY <2>1, <2>2, <2>3, <3>9 DEF PlacedNext
  <2>. QED BY <2>4, <2>5
<1>10. ASSUME NEW m \in net, RecvReplicate(m) PROVE PlacedNext(c)
  <2>1. m.type = "replicate_file" /\ UNCHANGED <<up, view, scans, merge, unscanned, burst>> BY <1>10, ReplicateDoes
  <2>2. \A x \in net' : \/ x \in net \/ x.type = "replication_ack"
                        \/ x.type = "replicate_file" /\ x.succ = m.succ
    BY <1>10, ReplicateDoes
  <2>3. Settled' /\ ~MergeGoesOn' /\ \A x \in net' : Written(x)' BY <1>7, <2>1, <2>2
  <2>4. Replicas' = Replicas BY <1>6, <2>1
  <2>5. CASE Holds(m.to)
    <3>1. UNCHANGED <<store, landed>> BY <1>10, <2>5, ReplicateDoes
    <3>. QED BY <2>1, <2>3, <2>4, <3>1, PlacedSame DEF PlacedNext
  <2>6. CASE ~Holds(m.to)
    <3>1. m.to \in Nodes /\ m \in Replications /\ Linked(m) BY <2>1, Addressed, Fields DEF Sound, Mail, Fine
    <3>2. m.to \in Replicas BY <1>2, <2>1, <3>1 DEF Written, Linked
    <3>3. PICK f \in Files : f = store[m.to] /\ KeysApart(f) /\ ~f.exists BY <2>6, <3>1 DEF Sound, Shelf, Holds
    <3>4. PICK data \in Seq(Nat) : data = <<m.write>> /\ ToSet(data) = {m.write} BY <3>1, OneItem DEF Replications
    <3>5. PICK client \in Clientele : client = m.client BY <3>1 DEF Replications
    <3>a. PICK id \in Nat : id = Float64(FileHash) BY HashTypes
    <3>6. PICK g : g = CreateFile(f, id, client, data) OBVIOUS
    <3>b. /\ CreateFile(f, id, client, data).exists /\ CreateFile(f, id, client, data).id = id
          /\ ReadFile(CreateFile(f, id, client, data)) = data
      BY <3>3, CreateMakes
    <3>c. g.exists /\ ReadFile(g) = data /\ g.id = id BY <3>6, <3>b
    <3>7. g.exists /\ ReadFile(g) = data /\ g.id = Float64(FileHash) BY <3>a, <3>c
    <3>8. m.write = 1 => Right(g) BY <3>4, <3>7 DEF Right, Items
    <3>9. <<1, m.to>> \notin landed BY <2>6, <3>1 DEF Placed, Right, Holds
    <3>10. store' = [store EXCEPT ![m.to] = g] /\ landed' = landed \cup {<<m.write, m.to>>}
      BY <1>10, <2>6, <3>3, <3>4, <3>5, <3>6, <3>a, ReplicateDoes
    <3>11. Placed(c)' BY <2>4, <3>1, <3>2, <3>8, <3>9, <3>10, PlacedMore
    <3>. QED BY <2>1, <2>3, <3>11 DEF PlacedNext
  <2>. QED BY <2>5, <2>6
<1>11. ASSUME NEW m \in net, RecvAppend(m) PROVE PlacedNext(c)
  <2>1. m.type = "append_file" /\ UNCHANGED <<up, view, scans, merge, unscanned, burst>> BY <1>11, AppendDoes
  <2>2. m.to \in Replicas BY <1>2, <2>1 DEF Written
  <2>3. m.to \in Nodes /\ up[m.to] /\ m \in Appends BY <2>1, Addressed, Fields
  <2>4. Successors(FileHash, view[m.to], NumReplicas) = Replicas BY <1>2, <2>3, ToReplicas DEF Settled
  <2>5. /\ net' = net \ {m} /\ landed' = landed \cup {<<m.write, m.to>>}
        /\ store' = [store EXCEPT ![m.to] = AppendFile(@, m.client, <<m.write>>)]
    BY <1>11, <2>2, <2>4, AppendDoes
  <2>6. Settled' /\ ~MergeGoesOn' /\ \A x \in net' : Written(x)' BY <1>7, <2>1, <2>5
  <2>7. Replicas' = Replicas BY <1>6, <2>1
  <2>8. m.write # 1
    <3>1. IsCreate(1) BY DEF Numbered
    <3>. QED BY <2>1, <3>1 DEF Numbered
  <2>9. PICK f \in Files : f = store[m.to] /\ KeysApart(f) BY <2>3 DEF Sound, Shelf
  <2>10. PICK data \in Seq(Nat) : data = <<m.write>> BY <2>3, OneItem DEF Appends
  <2>11. PICK client \in Clientele : client = m.client BY <2>3 DEF Appends
  <2>12. PICK g : g = AppendFile(f, client, data) OBVIOUS
  <2>13. g.exists /\ g.id = f.id /\ Items(g) = Items(f) \cup ToSet(data) BY <2>9, <2>12, AppendAdds
  <2>14. <<1, m.to>> \in landed => Right(f) BY <2>3, <2>9 DEF Placed
  <2>15. <<1, m.to>> \in landed => Right(g) BY <2>13, <2>14 DEF Right
  <2>16. store' = [store EXCEPT ![m.to] = g] BY <2>5, <2>9, <2>10, <2>11, <2>12
  <2>17. Placed(c)' BY <2>2, <2>3, <2>5, <2>7, <2>8, <2>15, <2>16, PlacedMore
  <2>. QED BY <2>1, <2>6, <2>17 DEF PlacedNext
<1>12. ASSUME NEW m \in net, RecvAck(m) PROVE PlacedNext(c)
  <2>1. /\ UNCHANGED <<up, view, scans, merge, unscanned, burst, store, landed>>
        /\ \A x \in net' : x \in net \/ x.type = "replication_ack"
    BY <1>12, AckDoes
  <2>2. Settled' /\ ~MergeGoesOn' /\ \A x \in net' : Written(x)' BY <1>7, <2>1
  <2>3. Placed(c)' BY <1>6, <2>1, PlacedSame
  <2>. QED BY <2>1, <2>2, <2>3 DEF PlacedNext
<1>13. CASE UNCHANGED vars
  <2>1. UNCHANGED <<up, view, scans, merge, unscanned, burst, store, landed, net>> BY <1>13 DEF vars
  <2>2. Settled' /\ ~MergeGoesOn' /\ \A x \in net' : Written(x)' BY <1>7, <2>1
  <2>3. Placed(c)' BY <1>6, <2>1, PlacedSame
  <2>. QED BY <2>1, <2>2, <2>3 DEF PlacedNext
<1>14. ASSUME NEW m \in net, RecvRereplicate(m) \/ RecvMergeRequest(m) \/ RecvMergeUpdate(m) \/ Recreate(m) PROVE FALSE
  BY <1>5, <1>14 DEF RecvRereplicate, RecvMergeRequest, RecvMergeUpdate, Recreate, MergeTypes
<1>15. ASSUME NEW n \in Nodes, Merge(n) \/ MergeLocally(n) \/ MergeSend(n) \/ \E r \in Nodes : MergeCollect(n, r)
       PROVE  FALSE
  BY <1>4, <1>15 DEF Merge, MergeLocally, MergeSend, MergeCollect, NobodyMerges
<1>16. ASSUME NEW n \in Nodes, NEW s, Crash(n) \/ Join(n) \/ LearnFailed(n, s) \/ LearnJoined(n, s) \/ LearnByProbe(n, s) PROVE FALSE
  BY <1>1, <1>16, Zenon DEF Crash, Join, LearnFailed, LearnJoined, LearnByProbe
<1>. QED BY <1>4, <1>9, <1>10, <1>11, <1>12, <1>13, <1>14, <1>15, <1>16 DEF Next, Receive

\* What is taken in, and by whose message.
LEMMA LandedStep ==
  ASSUME Sound, [Next]_vars
  PROVE  \/ UNCHANGED landed
         \/ \E n \in Nodes : landed' = landed \cup {<<Len(writes) + 1, n>>}
         \/ \E m \in net : /\ m.type \in {"replicate_file", "append_file"}
                           /\ landed' = landed \cup {<<m.write, m.to>>}
<1>1. ASSUME NEW n \in Nodes, Create(n) \/ CLICreate(n) \/ AppendTo(n)
      PROVE  UNCHANGED landed \/ landed' = landed \cup {<<Len(writes) + 1, n>>}
  BY <1>1, CreateDoes, CLICreateDoes, AppendToDoes
<1>2. ASSUME NEW m \in net, RecvReplicate(m) \/ RecvAppend(m)
      PROVE  /\ m.type \in {"replicate_file", "append_file"}
             /\ UNCHANGED landed \/ landed' = landed \cup {<<m.write, m.to>>}
  BY <1>2, ReplicateDoes, AppendDoes
<1>3. ASSUME NEW m \in net, RecvAck(m) \/ RecvRereplicate(m) \/ RecvMergeRequest(m) \/ RecvMergeUpdate(m) \/ Recreate(m)
      PROVE  UNCHANGED landed
  BY <1>3, Zenon DEF RecvAck, RecvRereplicate, RecvMergeRequest, RecvMergeUpdate, Recreate
<1>4. ASSUME NEW n \in Nodes, Merge(n) \/ MergeLocally(n) \/ MergeSend(n) \/ \E r \in Nodes : MergeCollect(n, r)
      PROVE  UNCHANGED landed
  BY <1>4, Zenon DEF Merge, MergeLocally, MergeSend, MergeCollect
<1>5. ASSUME NEW n \in Nodes, NEW s, Crash(n) \/ Join(n) \/ LearnFailed(n, s) \/ LearnJoined(n, s) \/ LearnByProbe(n, s) PROVE UNCHANGED landed
  BY <1>5, Zenon DEF Crash, Join, LearnFailed, LearnJoined, LearnByProbe
<1>6. ASSUME NEW s \in scans, Scan(s) PROVE UNCHANGED landed BY <1>6, ScanDoes
<1>7. CASE UNCHANGED vars BY <1>7 DEF vars
<1>. QED BY <1>1, <1>2, <1>3, <1>4, <1>5, <1>6, <1>7 DEF Next, Receive

\* Only the first create brings its number to a store.
LEMMA NewlyStored ==
  ASSUME Sound, Numbered, NEW c \in chains, c.write = 1, ~Stored(c), Stored(c)', [Next]_vars PROVE FirstUnderWay
<1>1. PICK i \in 1..Len(c.succ) : <<1, c.succ[i]>> \notin landed /\ <<1, c.succ[i]>> \in landed' BY DEF Stored
<1>2. c.write \in 1..Len(writes) /\ Len(writes) + 1 # 1 /\ IsCreate(1) BY DEF Numbered, IsCreate, Sound, Records
<1>3. PICK m \in net : m.type \in {"replicate_file", "append_file"} /\ landed' = landed \cup {<<m.write, m.to>>}
  BY <1>1, <1>2, LandedStep
<1>4. m.write = 1 BY <1>1, <1>3
<1>5. m.type # "append_file" BY <1>2, <1>4 DEF Numbered
<1>. QED BY <1>3, <1>4, <1>5 DEF FirstUnderWay

\* What is stored stays stored.
LEMMA StoredStays == ASSUME Sound, [Next]_vars, NEW c, Stored(c) PROVE Stored(c)'
<1>1. landed \subseteq landed' BY LandedStep
<1>. QED BY <1>1 DEF Stored

\* The first create is not sent twice.
LEMMA SentBefore ==
  ASSUME Sound, Numbered, NEW c \in chains, c.write = 1, FirstUnderWay', [Next]_vars PROVE FirstUnderWay
<1>1. PICK x \in net' : x.type = "replicate_file" /\ x.write = 1 BY DEF FirstUnderWay
<1>2. c.write \in 1..Len(writes) /\ Len(writes) + 1 # 1 BY DEF Numbered, IsCreate, Sound, Records
<1>3. ASSUME x \in net PROVE FirstUnderWay BY <1>1, <1>3 DEF FirstUnderWay
<1>4. ASSUME NEW n \in Nodes, Create(n) \/ CLICreate(n) \/ AppendTo(n) PROVE FirstUnderWay
  BY <1>1, <1>2, <1>3, <1>4, CreateDoes, CLICreateDoes, AppendToDoes
<1>5. ASSUME NEW m \in net, RecvReplicate(m) PROVE FirstUnderWay
  <2>1. m.type = "replicate_file" /\ (x \in net \/ x.write = m.write) BY <1>1, <1>5, ReplicateDoes
  <2>. QED BY <1>1, <1>3, <2>1 DEF FirstUnderWay
<1>6. ASSUME NEW m \in net, RecvAppend(m) \/ RecvAck(m) \/ RecvMergeUpdate(m) PROVE FirstUnderWay
  BY <1>1, <1>3, <1>6, AppendDoes, AckDoes, UpdateDoes
<1>7. ASSUME NEW m \in net, RecvRereplicate(m) \/ Recreate(m) PROVE FirstUnderWay
  BY <1>1, <1>3, <1>7 DEF RecvRereplicate, Recreate
<1>8. ASSUME NEW m \in net, RecvMergeRequest(m) PROVE FirstUnderWay
  <2>1. StartMerge(m.to, net \ {m}) BY <1>8 DEF RecvMergeRequest
  <2>. QED BY <1>1, <1>3, <2>1, MergeDoes
<1>9. ASSUME NEW n \in Nodes, Merge(n) PROVE FirstUnderWay
  <2>1. StartMerge(n, net) BY <1>9 DEF Merge
  <2>. QED BY <1>1, <1>3, <2>1, MergeDoes
<1>10. ASSUME NEW n \in Nodes, MergeLocally(n) \/ \E r \in Nodes : MergeCollect(n, r) PROVE UNCHANGED net
  BY <1>10, Zenon DEF MergeLocally, MergeCollect
<1>11. ASSUME NEW n \in Nodes, MergeSend(n) PROVE FirstUnderWay BY <1>1, <1>3, <1>11, SendDoes
<1>12. ASSUME NEW n \in Nodes, Crash(n) PROVE net' \subseteq net BY <1>12 DEF Crash
<1>13. ASSUME NEW n \in Nodes, NEW s, Join(n) \/ LearnFailed(n, s) \/ LearnJoined(n, s) \/ LearnByProbe(n, s) PROVE UNCHANGED net
  BY <1>13, Zenon DEF Join, LearnFailed, LearnJoined, LearnByProbe
<1>14. ASSUME NEW s \in scans, Scan(s) PROVE FirstUnderWay BY <1>1, <1>3, <1>14, ScanDoes
<1>15. CASE UNCHANGED vars BY <1>1, <1>3, <1>15 DEF vars
<1>. QED BY <1>1, <1>3, <1>4, <1>5, <1>6, <1>7, <1>8, <1>9, <1>10, <1>11, <1>12, <1>13, <1>14, <1>15 DEF Next, Receive

\* A chain that is new is that of the command.
LEMMA NewChain ==
  ASSUME Sound, [Next]_vars, NEW c \in chains', c \notin chains
  PROVE  \E n \in Nodes : /\ Create(n) \/ CLICreate(n)
                          /\ c.write = Len(writes) + 1 /\ c.succ = GetSuccessors(FileHash, view[n], NumReplicas)
<1>1. ASSUME NEW m \in net, Receive(m) PROVE UNCHANGED chains
  BY <1>1, Zenon DEF Receive, RecvReplicate, RecvAck, RecvAppend, RecvRereplicate, RecvMergeRequest, RecvMergeUpdate, Recreate
<1>2. ASSUME NEW n \in Nodes, AppendTo(n) \/ Merge(n) \/ MergeLocally(n) \/ MergeSend(n) \/ \E r \in Nodes : MergeCollect(n, r)
      PROVE  UNCHANGED chains
  BY <1>2, Zenon DEF AppendTo, Merge, MergeLocally, MergeSend, MergeCollect
<1>3. ASSUME NEW n \in Nodes, NEW s, Crash(n) \/ Join(n) \/ LearnFailed(n, s) \/ LearnJoined(n, s) \/ LearnByProbe(n, s) PROVE UNCHANGED chains
  BY <1>3, Zenon DEF Crash, Join, LearnFailed, LearnJoined, LearnByProbe
<1>4. ASSUME NEW s \in scans, Scan(s) PROVE UNCHANGED chains BY <1>4, ScanDoes
<1>5. CASE UNCHANGED vars BY <1>5 DEF vars
<1>6. \E n \in Nodes : Create(n) \/ CLICreate(n) BY <1>1, <1>2, <1>3, <1>4, <1>5 DEF Next
<1>7. PICK n \in Nodes : Create(n) \/ CLICreate(n) BY <1>6
<1>8. \E a \in BOOLEAN : chains' = chains \cup {[write |-> Len(writes) + 1, acked |-> a,
                                                 succ |-> GetSuccessors(FileHash, view[n], NumReplicas)]}
  BY <1>7, CreateDoes, CLICreateDoes
<1>. QED BY <1>7, <1>8

\* Every step keeps the file alive.
LEMMA AliveStep ==
  ASSUME Overlaps \subseteq {"crash"}, RoundsWell, Sound, Sound', Kept, Alive, [Next]_vars PROVE Alive'
<1>1. burst' \subseteq Nodes /\ Rooted' /\ OneMerge' /\ Blank' /\ Numbered' /\ Delivered'
  BY BurstStep, RootedStep, OneMergeStep, BlankStep, NumberedStep, DeliveredStep DEF Alive
<1>2. ASSUME Mild', NEW c \in chains', c.write = 1 PROVE Begun(c)' /\ (Stored(c)' => Guarded')
  <2>1. Mild /\ burst \subseteq Nodes /\ OneMerge /\ Delivered /\ Numbered /\ Rooted /\ Blank BY <1>2, MildBefore DEF Alive
  <2>2. ~torn /\ ~torn' /\ Cardinality(burst) < NumReplicas BY <1>2, <2>1 DEF Mild
  <2>3. CASE c \in chains /\ Stored(c)
    <3>1. Guarded BY <1>2, <2>1, <2>3 DEF Alive
    <3>2. Guarded' BY <1>2, <2>1, <3>1, GuardedStep
    <3>3. Stored(c)' BY <2>3, StoredStays
    <3>. QED BY <3>2, <3>3 DEF Begun
  <2>4. CASE c \in chains /\ ~Stored(c) /\ FirstUnderWay
    <3>1. Placed(c) BY <1>2, <2>1, <2>4 DEF Alive, Begun
    <3>2. PlacedNext(c) BY <1>2, <2>1, <2>2, <2>4, <3>1, PlacedStep
    <3>3. Stored(c)' => Guarded' BY <1>2, <2>1, <2>2, <3>2, StoredGuards DEF PlacedNext
    <3>. QED BY <3>2, <3>3 DEF Begun, PlacedNext
  <2>5. CASE c \in chains /\ ~Stored(c) /\ ~FirstUnderWay
    <3>1. ~FirstUnderWay' BY <1>2, <2>1, <2>5, SentBefore
    <3>2. ~Stored(c)' BY <1>2, <2>1, <2>5, NewlyStored
    <3>. QED BY <3>1, <3>2 DEF Begun
  <2>6. CASE c \notin chains
    <3>1. PICK n \in Nodes : /\ Create(n) \/ CLICreate(n)
                             /\ c.write = Len(writes) + 1 /\ c.succ = GetSuccessors(FileHash, view[n], NumReplicas)
      BY <1>2, <2>6, NewChain
    <3>2. Placed(c)' BY <1>2, <2>1, <2>2, <3>1, FirstCreate
    <3>3. Settled' /\ \A m \in net' : Written(m)' BY <2>1, <2>2, <3>1, DeliveredWrite
    <3>4. ~MergeGoesOn' /\ UNCHANGED <<up, unscanned, burst>> BY <3>1, WriteStarts, CreateDoes, CLICreateDoes
    <3>5. Stored(c)' => Guarded' BY <1>2, <2>1, <2>2, <3>2, <3>3, <3>4, StoredGuards
    <3>. QED BY <3>2, <3>5 DEF Begun
  <2>. QED BY <2>3, <2>4, <2>5, <2>6
<1>. QED BY <1>1, <1>2 DEF Alive

\* At first there is nothing to lose.
LEMMA InitAlive == Init => Alive
<1>. SUFFICES ASSUME Init PROVE Alive OBVIOUS
<1>1. Sound BY InitSound
<1>2. burst = {} /\ net = {} /\ chains = {} /\ landed = {} BY DEF Init
<1>3. Started \subseteq Nodes /\ Introducer \in Started BY RingAssumption
<1>4. view = [n \in Nodes |-> IF n \in Started THEN Started ELSE {}] BY DEF Init
<1>a. up = [n \in Nodes |-> n \in Started] BY DEF Init
<1>5. Up = Started BY <1>3, <1>a, Zenon DEF Up
<1>6. Rooted BY <1>3, <1>4, <1>5 DEF Rooted
<1>7. \A n \in Nodes : merge[n].phase = "idle" /\ ~Holds(n) BY DEF Init, Idle, Holds, NoFile
<1>8. ~MergeGoesOn BY <1>2, <1>7 DEF MergeGoesOn
<1>9. OneMerge /\ Blank /\ Numbered /\ Delivered
  BY <1>2, <1>7, <1>8 DEF OneMerge, Blank, Empty, Numbered, Delivered, WriteGoesOn
<1>. QED BY <1>2, <1>6, <1>9 DEF Alive

\* Without joins no node that was not there at first has a table.
LEMMA JoinsCounted == ASSUME Joins = 0 PROVE NoJoins
<1>. DEFINE J == {n \in Nodes \ Started : view[n] # {}}
<1>1. J \subseteq Nodes OBVIOUS
<1>2. IsFiniteSet(J) BY <1>1, RingAssumption, FS_Subset
<1>3. Cardinality(J) = 0 BY DEF Joins
<1>. HIDE DEF J
<1>4. J = {} BY <1>2, <1>3, FS_EmptySet
<1>. QED BY <1>4 DEF J, NoJoins

\* So the properties follow: when all is Whole all replicas have copies,
LEMMA AliveRereplicated == ASSUME Sound, Alive PROVE Rereplicated
<1>. SUFFICES ASSUME Whole, NEW c \in chains, Tolerable(c), NEW r \in Replicas
              PROVE  Holds(r) /\ 1 \in Items(store[r])
  BY DEF Rereplicated, Replicas
<1>1. Mild BY JoinsCounted DEF Tolerable, Mild
<1>2. Guarded BY <1>1 DEF Alive, Tolerable
<1>3. Settled /\ ~MergeGoesOn BY DEF Whole, AtRest
<1>4. Holds(r) BY <1>2, <1>3, AllHold
<1>5. r \in Nodes BY DEF Replicas, Successors, Up
<1>. QED BY <1>2, <1>4, <1>5 DEF Guarded, Copied, Right

\* and at any time a live node that somebody takes for the primary has one.
LEMMA AliveSurvives == ASSUME Sound, Alive PROVE FileSurvives
<1>. SUFFICES ASSUME NEW c \in chains, Tolerable(c), ~MergeGoesOn, NEW n \in Up, up[Primary(FileHash, view[n])]
              PROVE  c.write \in Items(Get(n))
  BY DEF FileSurvives
<1>1. Mild BY JoinsCounted DEF Tolerable, Mild
<1>2. Guarded /\ Rooted /\ burst \subseteq Nodes BY <1>1 DEF Alive, Tolerable
<1>3. PICK v : v = view[n] OBVIOUS
<1>4. Up \subseteq v /\ v \subseteq Nodes /\ n \in Nodes BY <1>1, <1>2, <1>3 DEF Rooted, Mild, Sound, Tables, Up
<1>5. Nodes \subseteq Nat /\ IsFiniteSet(Nodes) /\ FileHash \in Nat BY RingAssumption
<1>6. v \in SUBSET Nat /\ IsFiniteSet(v) /\ v # {} /\ Up \in SUBSET Nat BY <1>4, <1>5, FS_Subset
<1>7. PICK p : p = Primary(FileHash, v) OBVIOUS
<1>8. p \in v /\ Rank(FileHash, v, p) = 0 BY <1>5, <1>6, <1>7, PrimaryFirst
<1>9. p \in Up BY <1>3, <1>4, <1>7, <1>8 DEF Up
<1>10. p = First
  <2>1. IsFiniteSet(Up) /\ Up # {} BY <1>4, <1>6, <1>9, FS_Subset
  <2>2. First \in Up /\ Rank(FileHash, Up, First) = 0 BY <1>5, <1>6, <2>1, PrimaryFirst DEF First
  <2>3. PICK A : A = {i \in v : Before(FileHash, i, p)} OBVIOUS
  <2>4. Cardinality(A) = 0 /\ A \subseteq v BY <1>8, <2>3 DEF Rank
  <2>5. A = {} BY <1>6, <2>4, FS_Subset, FS_EmptySet
  <2>6. {i \in Up : Before(FileHash, i, p)} = {} BY <1>4, <2>3, <2>5
  <2>7. Rank(FileHash, Up, p) = 0 BY <2>6, FS_EmptySet DEF Rank
  <2>. QED BY <1>5, <1>6, <1>9, <2>1, <2>2, <2>7, Ranks
<1>11. ~Remade(First) BY DEF Remade, MergeGoesOn, MergeTypes
<1>12. Up # {} /\ First \in Nodes BY <1>9, <1>10 DEF Up
<1>13. Holds(First) BY <1>1, <1>2, <1>11, <1>12, FirstHolds
<1>14. 1 \in Items(store[First]) BY <1>2, <1>12, <1>13 DEF Guarded, Copied, Right
<1>15. Get(n) = store[First] BY <1>3, <1>7, <1>10 DEF Get
<1>. QED BY <1>14, <1>15 DEF Tolerable

\* The invariant holds.
LEMMA AlwaysAlive == ASSUME Overlaps \subseteq {"crash"}, RoundsWell PROVE Spec => []Alive
<1>1. Init => Kept /\ Alive BY InitKept, InitAlive
<1>2. Sound /\ Sound' /\ Kept /\ Alive /\ [Next]_vars => Kept' /\ Alive' BY KeptStep, AliveStep
<1>. QED BY <1>1, <1>2, AlwaysSound, PTL DEF Spec

\* checkAndRereplicate is complete, for every ring, file and number of replicas,
\* and whatever writes, merges and failures there are: once a create has been
\* stored by all its replicas, and as long as no command meets a change of the
\* membership, no node joins and fewer than NumReplicas nodes fail at a time,
\* every rest finds a copy with what was created at each of the present replicas,
\* if the primary has started a scan since a Probe last changed its table.
THEOREM Rereplicates == ASSUME Overlaps \subseteq {"crash"}, RoundsWell PROVE Spec => []Rereplicated
<1>1. Sound /\ Alive => Rereplicated BY AliveRereplicated
<1>. QED BY <1>1, AlwaysSound, AlwaysAlive, PTL

\* So what was created is never lost: also while tables differ, scans are yet to
\* run and copies are on their way, whoever a live node takes for the primary has
\* the file if it is alive, because a node that was not a replica when all was last
\* Whole is the primary only when all NumReplicas of those replicas have failed. A
\* primary that has learned of failures by Probes only does not make up for them:
\* they count among the burst until one scans.
THEOREM Survives == ASSUME Overlaps \subseteq {"crash"}, RoundsWell PROVE Spec => []FileSurvives
<1>1. Sound /\ Alive => FileSurvives BY AliveSurvives
<1>. QED BY <1>1, AlwaysSound, AlwaysAlive, PTL

----------------------------------------------------------------------------
(* One client's writes in order *)

\* Nobody has come or gone.
Calm == \A n \in Nodes : up[n] = (n \in Started) /\ (view[n] # {} => n \in Started)

\* Every element of s may come before those behind it.
InLine(s, R) == \A i, j \in 1..Len(s) : i < j => <<s[i], s[j]>> \in R

\* Writes of one node and kind come in the order of their issue.
Sequel == {p \in Nat \X Nat : writes[p[1]] = writes[p[2]] => p[1] < p[2]}

\* A content that a merge should make.
Proper(D) == D \in Seq(Nat) /\ ToSet(D) \subseteq 1..Len(writes) /\ InLine(D, Sequel)

\* The block a file with this content has been recreated of,
Merged(D) == [client |-> MergedClient, seq |-> 1, data |-> D]
\* the block of an append,
Added(w) == [client |-> AppendClient(writes[w].by, w), seq |-> 1, data |-> <<w>>]
\* and, with the client of a create (the CLI names none),
Maker(c) == IF c.acked THEN CreateClient(writes[c.write].by) ELSE NoClient
\* that of a create.
Made(c) == [client |-> Maker(c), seq |-> 1, data |-> <<c.write>>]

\* The appends so far.
Appended == {w \in 1..Len(writes) : writes[w].kind = "append"}
\* Is b the block of one of them,
IsAdded(b) == \E w \in Appended : b = Added(w)
\* or that of a create?
IsMade(b) == \E c \in chains : b = Made(c)

\* The blocks of all stores.
AllBlocks == UNION {GetAllBlocks(store[n]) : n \in Nodes}

\* Until the first merge blocks are those of creates and appends,
Raw == \A b \in AllBlocks : IsMade(b) \/ IsAdded(b)
\* then every replica starts from the same content, and all appends are later.
Based(D) ==
  /\ Proper(D) /\ \A r \in Replicas : Holds(r)
  /\ \A b \in AllBlocks : b = Merged(D) \/ \E w \in Appended : b = Added(w) /\ \A v \in ToSet(D) : v < w
  /\ \A m \in net : m.type = "append_file" => \A v \in ToSet(D) : v < m.write

\* All blocks but one of a store are appends.
OneBase == \A n \in Nodes : \A b, c \in GetAllBlocks(store[n]) : b = c \/ IsAdded(b) \/ IsAdded(c)

\* An append that is on its way is for a replica that has not had it; a create is one that was issued.
Underway(m) ==
  /\ m.type = "append_file" =>
       /\ m.to \in Replicas /\ m.write \in Appended /\ m.from = writes[m.write].by
       /\ m.client = AppendClient(m.from, m.write)
       /\ \A b \in GetAllBlocks(store[m.to]) : b.client # m.client
  /\ m.type = "replicate_file" =>
       /\ \A i \in 1..Len(m.succ) : m.succ[i] \in Replicas
       /\ \E c \in chains : c.write = m.write /\ m.client = Maker(c)
  /\ m.type \notin {"rereplicate_file", "merge_update", "merge_recreate"}

\* The primary has had an append that others have had, or has it coming.
Heading ==
  (\E b \in AllBlocks : IsAdded(b)) \/ (\E m \in net : m.type = "append_file") =>
     Holds(First) \/ \E m \in net : m.type = "append_file" /\ m.to = First

\* Merges collect.
Picking ==
  \A n \in Nodes : merge[n].phase # "send" /\ (merge[n].phase = "collect" => merge[n].blocks \subseteq AllBlocks)

\* No appends since the last merge.
Compact == \A b \in AllBlocks : ~IsAdded(b)

\* Outside a merge, and until it has collected.
Loose ==
  /\ (Raw \/ \E D : Based(D)) /\ OneBase /\ (\A m \in net : Underway(m)) /\ Heading /\ Picking
  /\ fresh /\ ~MergeGoesOn => Compact
\* The merged file is with the primary ...
Joined == Driven /\ merge[First].phase = "send" /\ Proper(ReadFile(store[First]))
\* ... and then with the replicas.
Renewed(D) ==
  /\ NobodyMerges /\ Spreading(D) /\ Proper(D) /\ \A m \in net : m.to \in Replicas
  /\ \A r \in Replicas : GetAllBlocks(store[r]) = {Merged(D)} \/ \E m \in net : m.to = r

\* With right tables and only replicas having blocks, a merge runs alone, in one
\* of these stages.
Orderly ==
  /\ Steady /\ scans = {}
  /\ \A n \in Nodes : GetAllBlocks(store[n]) # {} => n \in Replicas
  /\ MergeGoesOn => fresh
  /\ Loose \/ Joined \/ \E D : Renewed(D)

\* Creates are known by their numbers.
Chained == Numbered /\ \A c, d \in chains : c.write = d.write => c = d

\* The invariant: this is how it is as long as nobody comes, goes or creates twice.
Lined == Chained /\ (Calm /\ CreatesOnce => Orderly)

----------------------------------------------------------------------------
(* Contents in order *)

\* Two sequences one after the other,
LEMMA ConcatInLine ==
  ASSUME NEW X, NEW s \in Seq(X), NEW t \in Seq(X), NEW R, InLine(s, R), InLine(t, R),
         \A x \in ToSet(s), y \in ToSet(t) : <<x, y>> \in R
  PROVE  InLine(s \o t, R)
<1>1. /\ s \o t \in Seq(X) /\ Len(s \o t) = Len(s) + Len(t)
      /\ \A i \in 1..Len(s) + Len(t) : (s \o t)[i] = IF i <= Len(s) THEN s[i] ELSE t[i - Len(s)]
  OBVIOUS
<1>2. PICK n, k \in Nat : n = Len(s) /\ k = Len(t) OBVIOUS
<1>3. PICK c : c = s \o t OBVIOUS
<1>4. /\ Len(c) = n + k /\ \A i \in 1..n : c[i] = s[i]
      /\ \A i \in 1..(n + k) : i > n => i - n \in 1..k /\ c[i] = t[i - n]
  BY <1>1, <1>2, <1>3
<1>5. (\A i \in 1..n : s[i] \in ToSet(s)) /\ \A i \in 1..k : t[i] \in ToSet(t) BY <1>2 DEF ToSet
<1>6. ASSUME NEW i \in 1..(n + k), NEW j \in 1..(n + k), i < j PROVE <<c[i], c[j]>> \in R
  <2>1. CASE j <= n
    <3>1. i \in 1..n /\ j \in 1..n BY <1>6, <2>1
    <3>. QED BY <1>2, <1>4, <1>6, <3>1 DEF InLine
  <2>2. CASE i > n
    <3>1. PICK p, q \in 1..k : p = i - n /\ q = j - n BY <1>4, <1>6, <2>2
    <3>2. p < q /\ c[i] = t[p] /\ c[j] = t[q] BY <1>4, <1>6, <2>2, <3>1
    <3>. QED BY <1>2, <3>2 DEF InLine
  <2>3. CASE i <= n /\ j > n
    <3>1. i \in 1..n /\ j - n \in 1..k /\ c[j] = t[j - n] BY <1>4, <2>3
    <3>. QED BY <1>4, <1>5, <3>1
  <2>. QED BY <2>1, <2>2, <2>3
<1>. QED BY <1>3, <1>4, <1>6 DEF InLine

\* and any number of them.
LEMMA FlattenInLine ==
  ASSUME NEW X, NEW ss \in Seq(Seq(X)), NEW R, \A i \in 1..Len(ss) : InLine(ss[i], R),
         \A i, j \in 1..Len(ss) : i < j => \A x \in ToSet(ss[i]), y \in ToSet(ss[j]) : <<x, y>> \in R
  PROVE  InLine(FlattenSeq(ss), R)
<1>1. CASE Len(ss) = 0
  <2>1. FlattenSeq(ss) = <<>> BY <1>1 DEF FlattenSeq
  <2>2. Len(<<>>) = 0 OBVIOUS
  <2>. QED BY <2>1, <2>2 DEF InLine
<1>2. CASE Len(ss) # 0
  <2>1. PICK f : Flattens(f, ss, Len(ss)) /\ FlattenSeq(ss) = f[Len(ss)] BY <1>2, FlattenDefined
  <2>. DEFINE Done(m) == /\ f[m] \in Seq(X) /\ InLine(f[m], R)
                         /\ \A x \in ToSet(f[m]) : \E i \in 1..m : x \in ToSet(ss[i])
              T == {m \in Nat : m + 1 <= Len(ss) => Done(m + 1)}
  <2>2. \A i \in 1..Len(ss) : ss[i] \in Seq(X) OBVIOUS
  <2>3. 0 \in T
    <3>1. f[1] = ss[1] BY <1>2, <2>1 DEF Flattens
    <3>2. 1 \in 1..1 /\ 1 \in 1..Len(ss) BY <1>2
    <3>3. Done(1) BY <2>2, <3>1, <3>2
    <3>. HIDE DEF Done
    <3>. QED BY <3>3
  <2>4. ASSUME NEW m \in T PROVE m + 1 \in T
    <3>1. ASSUME m + 2 <= Len(ss) PROVE Done(m + 2)
      <4>1. m + 1 <= Len(ss) /\ m \in Nat BY <3>1
      <4>2. Done(m + 1)
        <5>. HIDE DEF Done
        <5>. QED BY <4>1
      <4>3. PICK j \in 1..Len(ss) : j = m + 2 /\ j # 1 /\ j - 1 = m + 1 BY <3>1, <4>1
      <4>4. PICK s \in Seq(X), t \in Seq(X) : s = f[m + 1] /\ t = ss[j] BY <2>2, <4>2
      <4>5. f[j] = s \o t BY <2>1, <4>3, <4>4 DEF Flattens
      <4>6. \A x \in ToSet(s) : \E i \in 1..(m + 1) : x \in ToSet(ss[i]) BY <4>2, <4>4
      <4>7. ASSUME NEW x \in ToSet(s), NEW y \in ToSet(t) PROVE <<x, y>> \in R
        <5>1. PICK i \in 1..(m + 1) : x \in ToSet(ss[i]) BY <4>6
        <5>2. i \in 1..Len(ss) /\ i < j BY <4>1, <4>3, <5>1
        <5>. QED BY <4>4, <5>1, <5>2
      <4>8. InLine(s, R) /\ InLine(t, R) BY <4>2, <4>4
      <4>9. InLine(s \o t, R) BY <4>7, <4>8, ConcatInLine
      <4>10. s \o t \in Seq(X) /\ ToSet(s \o t) = ToSet(s) \cup ToSet(t) BY ConcatItems
      <4>11. ASSUME NEW x \in ToSet(s \o t) PROVE \E i \in 1..j : x \in ToSet(ss[i])
        <5>1. CASE x \in ToSet(s)
          <6>1. PICK i \in 1..(m + 1) : x \in ToSet(ss[i]) BY <4>6, <5>1
          <6>2. i \in 1..j BY <4>3
          <6>. QED BY <6>1, <6>2
        <5>2. CASE x \in ToSet(t)
          <6>1. j \in 1..j BY <4>3
          <6>. QED BY <4>4, <5>2, <6>1
        <5>. QED BY <4>10, <4>11, <5>1, <5>2
      <4>12. Done(j) BY <4>5, <4>9, <4>10, <4>11
      <4>. HIDE DEF Done
      <4>. QED BY <4>3, <4>12
    <3>. HIDE DEF Done
    <3>2. m \in Nat /\ (m + 1) + 1 = m + 2 OBVIOUS
    <3>. QED BY <3>1, <3>2
  <2>5. T \in SUBSET Nat OBVIOUS
  <2>. HIDE DEF T
  <2>6. T = Nat BY <2>3, <2>4, <2>5, Induction
  <2>7. Len(ss) - 1 \in Nat /\ (Len(ss) - 1) + 1 = Len(ss) BY <1>2
  <2>8. Len(ss) - 1 \in T BY <2>6, <2>7
  <2>9. Done(Len(ss))
    <3>. HIDE DEF Done
    <3>1. (Len(ss) - 1) + 1 <= Len(ss) => Done((Len(ss) - 1) + 1) BY <2>8 DEF T
    <3>. QED BY <2>7, <3>1
  <2>. QED BY <2>1, <2>9
<1>. QED BY <1>1, <1>2

\* So ReadFile puts blocks in line that are in line.
LEMMA ReadInLine ==
  ASSUME NEW f \in Files, NEW R, \A i \in 1..Len(f.blocks) : InLine(f.blocks[i].data, R),
         \A i, j \in 1..Len(f.blocks) :
           i < j => \A x \in ToSet(f.blocks[i].data), y \in ToSet(f.blocks[j].data) : <<x, y>> \in R
  PROVE  InLine(ReadFile(f), R)
<1>. DEFINE b == f.blocks
            ss == [i \in 1..Len(b) |-> b[i].data]
<1>1. b \in Seq(Blocks) BY DEF Files
<1>2. \A i \in 1..Len(b) : b[i].data \in Seq(Nat) BY FileBlocks
<1>3. Len(b) \in Nat BY <1>1
<1>4. ReadFile(f) = FlattenSeq(ss) BY DEF ReadFile
<1>a. \A i \in 1..Len(b) : InLine(b[i].data, R) OBVIOUS
<1>b. \A i, j \in 1..Len(b) : i < j => \A x \in ToSet(b[i].data), y \in ToSet(b[j].data) : <<x, y>> \in R OBVIOUS
<1>. HIDE DEF b
<1>5. ss \in Seq(Seq(Nat)) /\ Len(ss) = Len(b) /\ \A i \in 1..Len(b) : ss[i] = b[i].data
  BY <1>2, <1>3
<1>. HIDE DEF ss
<1>6. \A i \in 1..Len(ss) : InLine(ss[i], R) BY <1>5, <1>a
<1>7. \A i, j \in 1..Len(ss) : i < j => \A x \in ToSet(ss[i]), y \in ToSet(ss[j]) : <<x, y>> \in R BY <1>5, <1>b
<1>8. InLine(FlattenSeq(ss), R) BY <1>5, <1>6, <1>7, FlattenInLine
<1>. QED BY <1>4, <1>8

----------------------------------------------------------------------------
(* Blocks in order *)

\* The writes that are numbered so far.
LEMMA WriteTypes ==
  ASSUME Sound
  PROVE  /\ Len(writes) \in Nat /\ 1..Len(writes) \subseteq Nat
         /\ \A w \in 1..Len(writes) : writes[w].by \in Nat \ {0} /\ writes[w].by \in Nodes
<1>1. PICK K : K = [by : Nodes, kind : {"create", "append"}] OBVIOUS
<1>2. writes \in Seq(K) BY <1>1 DEF Sound, Records
<1>3. Len(writes) \in Nat /\ \A w \in 1..Len(writes) : writes[w] \in K BY <1>2
<1>4. \A k \in K : k.by \in Nodes BY <1>1
<1>5. Nodes \subseteq Nat \ {0} BY RingAssumption
<1>6. \A w \in 1..Len(writes) : writes[w].by \in Nodes BY <1>3, <1>4
<1>7. \A w \in 1..Len(writes) : writes[w].by \in Nat \ {0} BY <1>5, <1>6
<1>8. 1..Len(writes) \subseteq Nat BY <1>3
<1>. QED BY <1>3, <1>6, <1>7, <1>8

\* The block of an append,
LEMMA AddedIs ==
  ASSUME Sound, NEW w \in Appended
  PROVE  /\ w \in Nat /\ w \in 1..Len(writes) /\ writes[w].kind = "append"
         /\ Added(w).client = <<writes[w].by, 3, w>> /\ Added(w).client \in Clientele
         /\ Added(w).seq = 1 /\ Added(w).data = <<w>> /\ ToSet(Added(w).data) = {w}
<1>1. w \in Nat /\ w \in 1..Len(writes) /\ writes[w].kind = "append" BY WriteTypes DEF Appended
<1>2. writes[w].by \in Nat BY <1>1, WriteTypes
<1>3. Added(w).client = <<writes[w].by, 3, w>> /\ Added(w).seq = 1 /\ Added(w).data = <<w>>
  BY DEF Added, AppendClient
<1>4. <<writes[w].by, 3, w>> \in Clientele BY <1>1, <1>2 DEF Clientele
<1>. QED BY <1>1, <1>3, <1>4, OneItem

\* of a create,
LEMMA MadeIs ==
  ASSUME Sound, Chained, NEW c \in chains
  PROVE  /\ c.write \in Nat /\ c.write \in 1..Len(writes) /\ writes[c.write].kind = "create"
         /\ Made(c).client = Maker(c) /\ Maker(c) \in Clientele /\ Maker(c)[2] # 3
         /\ Made(c).seq = 1 /\ Made(c).data = <<c.write>> /\ ToSet(Made(c).data) = {c.write}
<1>1. c.write \in Nat /\ c.write \in 1..Len(writes) /\ writes[c.write].kind = "create" BY WriteTypes DEF IsCreate, Chained, Numbered
<1>2. writes[c.write].by \in Nat BY <1>1, WriteTypes
<1>3. Maker(c) \in Clientele /\ Maker(c)[2] # 3 BY <1>2 DEF Maker, CreateClient, NoClient, Clientele
<1>4. Made(c).client = Maker(c) /\ Made(c).seq = 1 /\ Made(c).data = <<c.write>> BY DEF Made
<1>. QED BY <1>1, <1>3, <1>4, OneItem

\* and of a merge.
LEMMA MergedIs ==
  ASSUME NEW D
  PROVE  Merged(D).client = <<0, 1, 0>> /\ Merged(D).client \in Clientele /\ Merged(D).seq = 1 /\ Merged(D).data = D
BY DEF Merged, MergedClient, Clientele

\* One write is in order.
LEMMA OneProper ==
  ASSUME Sound, NEW w \in 1..Len(writes) PROVE Proper(<<w>>)
<1>1. w \in Nat BY WriteTypes
<1>2. PICK s \in Seq(Nat) : s = <<w>> /\ ToSet(s) = {w} BY <1>1, OneItem
<1>3. Len(s) = 1 BY <1>2
<1>4. InLine(s, Sequel) BY <1>3 DEF InLine
<1>5. Proper(s) BY <1>2, <1>4 DEF Proper
<1>. QED BY <1>2, <1>5

\* A block does not come before itself.
LEMMA NotItself == ASSUME NEW b, b.client \in Clientele, b.seq \in Nat PROVE ~BlockLess(b, b)
<1>1. ~ClientLess(b.client, b.client) BY ClientOrders
<1>. QED BY <1>1 DEF BlockLess

\* Every block is in order,
LEMMA BlockProper ==
  ASSUME Sound, Chained, Raw \/ \E D : Based(D), NEW b \in AllBlocks
  PROVE  Proper(b.data)
<1>1. CASE IsMade(b) BY <1>1, MadeIs, OneProper DEF IsMade
<1>2. CASE IsAdded(b) BY <1>2, AddedIs, OneProper DEF IsAdded
<1>3. ASSUME NEW D, Based(D), b = Merged(D) PROVE Proper(b.data) BY <1>3, MergedIs DEF Based
<1>. QED BY <1>1, <1>2, <1>3 DEF Raw, Based, IsAdded

\* Appends come in the order of their writes.
LEMMA AddedInLine ==
  ASSUME Sound, NEW v \in Appended, NEW w \in Appended, BlockLess(Added(v), Added(w)) PROVE <<v, w>> \in Sequel
<1>1. /\ v \in Nat /\ w \in Nat /\ v \in 1..Len(writes) /\ w \in 1..Len(writes)
      /\ Added(v).client = <<writes[v].by, 3, v>> /\ Added(w).client = <<writes[w].by, 3, w>>
      /\ Added(v).seq = 1 /\ Added(w).seq = 1
  BY AddedIs
<1>2. writes[v].by \in Nat /\ writes[w].by \in Nat BY <1>1, WriteTypes
<1>3. PICK c, d \in Clientele : c = <<writes[v].by, 3, v>> /\ d = <<writes[w].by, 3, w>> BY <1>1, <1>2 DEF Clientele
<1>4. ClientLess(c, d) BY <1>1, <1>3 DEF BlockLess
<1>5. writes[v].by < writes[w].by \/ (writes[v].by = writes[w].by /\ v < w) BY <1>3, <1>4, ClientOrder
<1>6. writes[v] = writes[w] => v < w BY <1>2, <1>5
<1>. QED BY <1>1, <1>6 DEF Sequel

\* and so are two in the order of MergeFile.
LEMMA BlocksInLine ==
  ASSUME Sound, Chained, CreatesOnce,
         Raw \/ \E D : Based(D), NEW b \in AllBlocks, NEW c \in AllBlocks, BlockLess(b, c),
         NEW x \in ToSet(b.data), NEW y \in ToSet(c.data)
  PROVE  <<x, y>> \in Sequel
<1>1. CASE Raw
  <2>1. CASE IsMade(b) /\ IsMade(c)
    <3>1. PICK k, l \in chains : b = Made(k) /\ c = Made(l) BY <2>1 DEF IsMade
    <3>2. x = k.write /\ y = l.write /\ x \in Nat /\ y \in Nat BY <3>1, MadeIs
    <3>3. x \in 1..Len(writes) /\ y \in 1..Len(writes) /\ writes[x].kind = "create" BY <3>1, <3>2, MadeIs
    <3>4. ASSUME writes[x] = writes[y] PROVE FALSE
      <4>1. x = y BY <3>3, <3>4 DEF CreatesOnce
      <4>2. b = c BY <3>1, <3>2, <4>1 DEF Chained
      <4>3. b.client \in Clientele /\ b.seq \in Nat BY <3>1, MadeIs
      <4>. QED BY <4>2, <4>3, NotItself
    <3>. QED BY <3>2, <3>4 DEF Sequel
  <2>2. CASE IsAdded(b) /\ IsAdded(c)
    <3>1. PICK v, w \in Appended : b = Added(v) /\ c = Added(w) BY <2>2 DEF IsAdded
    <3>2. x = v /\ y = w BY <3>1, AddedIs
    <3>. QED BY <3>1, <3>2, AddedInLine
  <2>3. CASE IsMade(b) /\ IsAdded(c)
    <3>1. PICK k \in chains, w \in Appended : b = Made(k) /\ c = Added(w) BY <2>3 DEF IsMade, IsAdded
    <3>c. ToSet(Made(k).data) = {k.write} BY MadeIs
    <3>d. ToSet(Added(w).data) = {w} BY AddedIs
    <3>a. x = k.write /\ y = w BY <3>1, <3>c, <3>d
    <3>b. x \in Nat /\ writes[x].kind = "create" BY <3>1, <3>a, MadeIs
    <3>2. x \in Nat /\ y \in Nat /\ writes[x].kind = "create" /\ writes[y].kind = "append" BY <3>1, <3>a, <3>b, AddedIs
    <3>. QED BY <3>2 DEF Sequel
  <2>4. CASE IsAdded(b) /\ IsMade(c)
    <3>1. PICK k \in chains, w \in Appended : c = Made(k) /\ b = Added(w) BY <2>4 DEF IsMade, IsAdded
    <3>c. ToSet(Made(k).data) = {k.write} BY MadeIs
    <3>d. ToSet(Added(w).data) = {w} BY AddedIs
    <3>a. y = k.write /\ x = w BY <3>1, <3>c, <3>d
    <3>b. y \in Nat /\ writes[y].kind = "create" BY <3>1, <3>a, MadeIs
    <3>2. x \in Nat /\ y \in Nat /\ writes[y].kind = "create" /\ writes[x].kind = "append" BY <3>1, <3>a, <3>b, AddedIs
    <3>. QED BY <3>2 DEF Sequel
  <2>. QED BY <1>1, <2>1, <2>2, <2>3, <2>4 DEF Raw
<1>2. ASSUME NEW D, Based(D) PROVE <<x, y>> \in Sequel
  <2>1. CASE b = Merged(D) /\ c = Merged(D)
    <3>1. b.client \in Clientele /\ b.seq \in Nat BY <2>1, MergedIs
    <3>. QED BY <2>1, <3>1, NotItself
  <2>2. ASSUME NEW w \in Appended, c = Added(w), \A v \in ToSet(D) : v < w, b = Merged(D) PROVE <<x, y>> \in Sequel
    <3>1. x \in ToSet(D) /\ y = w /\ w \in Nat BY <2>2, MergedIs, AddedIs
    <3>2. x \in Nat BY <1>2, <3>1, WriteTypes DEF Based, Proper
    <3>. QED BY <2>2, <3>1, <3>2 DEF Sequel
  <2>3. ASSUME NEW w \in Appended, b = Added(w), c = Merged(D) PROVE FALSE
    <3>1. b.client = <<writes[w].by, 3, w>> /\ c.client = <<0, 1, 0>> /\ b.seq = 1 /\ c.seq = 1 BY <2>3, MergedIs, AddedIs
    <3>2. b.client \in Clientele /\ c.client \in Clientele /\ writes[w].by \in Nat \ {0}
      BY <2>3, MergedIs, AddedIs, WriteTypes
    <3>3. ~ClientLess(b.client, c.client) BY <3>1, <3>2, ClientOrder
    <3>. QED BY <3>1, <3>3 DEF BlockLess
  <2>4. ASSUME NEW v \in Appended, NEW w \in Appended, b = Added(v), c = Added(w) PROVE <<x, y>> \in Sequel
    <3>1. x = v /\ y = w BY <2>4, AddedIs
    <3>. QED BY <2>4, <3>1, AddedInLine
  <2>. QED BY <1>2, <2>1, <2>2, <2>3, <2>4 DEF Based
<1>. QED BY <1>1, <1>2

\* A file of blocks that are in order.
LEMMA FileProper ==
  ASSUME Sound, NEW f \in Files, \A i \in 1..Len(f.blocks) : Proper(f.blocks[i].data),
         \A i, j \in 1..Len(f.blocks) :
           i < j => \A x \in ToSet(f.blocks[i].data), y \in ToSet(f.blocks[j].data) : <<x, y>> \in Sequel
  PROVE  Proper(ReadFile(f))
<1>1. InLine(ReadFile(f), Sequel) BY ReadInLine DEF Proper
<1>2. ReadFile(f) \in Seq(Nat) /\ Items(f) = UNION {ToSet(f.blocks[i].data) : i \in 1..Len(f.blocks)} BY ReadItems
<1>3. \A i \in 1..Len(f.blocks) : ToSet(f.blocks[i].data) \subseteq 1..Len(writes) BY DEF Proper
<1>4. Items(f) \subseteq 1..Len(writes) BY <1>2, <1>3
<1>. QED BY <1>1, <1>2, <1>4 DEF Proper, Items

\* What MergeFile makes of blocks that have been collected.
LEMMA MergeProper ==
  ASSUME Sound, Chained, CreatesOnce, Raw \/ \E D : Based(D), NEW f \in Files,
         NEW S \in SUBSET AllBlocks, S \in SUBSET Blocks, KeysDiffer(S), IsFiniteSet(S)
  PROVE  Proper(ReadFile(MergeFile(f, S)))
<1>1. PICK g : g = MergeFile(f, S) OBVIOUS
<1>2. PICK q : q = Sorted(S) OBVIOUS
<1>3. g \in Files /\ g.blocks = q BY <1>1, <1>2, MergeMakes
<1>4. q \in Seq(S) /\ \A i, j \in 1..Len(q) : i < j => BlockLess(q[i], q[j]) BY <1>2, SortedBlocks
<1>5. \A i \in 1..Len(q) : q[i] \in AllBlocks BY <1>4
<1>6. \A i \in 1..Len(q) : Proper(q[i].data) BY <1>5, BlockProper
<1>7. ASSUME NEW i \in 1..Len(q), NEW j \in 1..Len(q), i < j, NEW x \in ToSet(q[i].data), NEW y \in ToSet(q[j].data)
      PROVE  <<x, y>> \in Sequel
  BY <1>4, <1>5, <1>7, BlocksInLine
<1>8. Proper(ReadFile(g)) BY <1>3, <1>6, <1>7, FileProper
<1>. QED BY <1>1, <1>8

\* A block is in one of the stores.
LEMMA InStore ==
  /\ \A n \in Nodes : \A b \in GetAllBlocks(store[n]) : b \in AllBlocks
  /\ \A b \in AllBlocks : \E n \in Nodes : b \in GetAllBlocks(store[n])
BY DEF AllBlocks

\* The same of the next state.
LEMMA InStoreNext ==
  /\ \A n \in Nodes : \A b \in GetAllBlocks(store'[n]) : b \in AllBlocks'
  /\ \A b \in AllBlocks' : \E n \in Nodes : b \in GetAllBlocks(store'[n])
BY DEF AllBlocks

\* Without appends a file has one block at most.
LEMMA LooseCompact ==
  ASSUME Sound, Chained, Loose, Compact, NEW n \in Nodes PROVE Proper(ReadFile(store[n]))
<1>1. PICK f \in Files : f = store[n] /\ KeysApart(f) BY DEF Sound, Shelf
<1>2. PICK q \in Seq(Blocks) : q = f.blocks BY FileBlocks
<1>3. \A i \in 1..Len(q) : q[i] \in GetAllBlocks(f)
  <2>1. DOMAIN q = 1..Len(q) OBVIOUS
  <2>. QED BY <1>2, <2>1 DEF GetAllBlocks, ToSet
<1>4. \A i \in 1..Len(q) : q[i] \in AllBlocks BY <1>1, <1>3, InStore
<1>5. \A i \in 1..Len(q) : Proper(q[i].data) BY <1>4, BlockProper DEF Loose
<1>6. ASSUME NEW i \in 1..Len(q), NEW j \in 1..Len(q), i < j PROVE FALSE
  <2>1. q[i] = q[j] BY <1>1, <1>3, <1>4 DEF Loose, OneBase, Compact
  <2>2. i = j BY <1>1, <1>2, <2>1 DEF KeysApart
  <2>. QED BY <1>6, <2>2
<1>7. Proper(ReadFile(f)) BY <1>2, <1>5, <1>6, FileProper
<1>. QED BY <1>1, <1>7

\* A membership that has not changed is known to all.
LEMMA Stands ==
  ASSUME Sound, Steady
  PROVE  /\ Up = Started /\ Up # {} /\ TablesRight
         /\ First \in Nodes /\ First \in Replicas /\ up[First] /\ Replicas \subseteq Up /\ Replicas \subseteq Nodes
<1>1. up \in [Nodes -> BOOLEAN] /\ Started \subseteq Nodes /\ Introducer \in Started
  BY RingAssumption DEF Sound, Tables
<1>2. Up = Started BY <1>1 DEF Steady, Up
<1>3. TablesRight BY <1>2 DEF Steady, TablesRight, Up
<1>4. Up # {} BY <1>1, <1>2
<1>. QED BY <1>2, <1>3, <1>4, UpFacts

\* A merge that is done leaves one block per replica.
LEMMA RenewedDone ==
  ASSUME Sound, Orderly, ~MergeGoesOn, NEW D, Renewed(D) PROVE Loose
<1>1. net = {} BY DEF Renewed, Spreading, MergeGoesOn, MergeTypes
<1>2. NobodyMerges /\ Proper(D) /\ Spreading(D) BY DEF Renewed
<1>3. \A r \in Replicas : GetAllBlocks(store[r]) = {Merged(D)} /\ Holds(r) BY <1>1, <1>2 DEF Renewed, Spreading, Has
<1>4. \A n \in Nodes : \A b \in GetAllBlocks(store[n]) : b = Merged(D) BY <1>3 DEF Orderly
<1>5. \A b \in AllBlocks : b = Merged(D) BY <1>4, InStore
<1>6. Based(D) BY <1>1, <1>2, <1>3, <1>5 DEF Based
<1>7. OneBase BY <1>4 DEF OneBase
<1>8. ASSUME NEW b \in AllBlocks, IsAdded(b) PROVE FALSE
  <2>1. PICK w \in Appended : b = Added(w) BY <1>8 DEF IsAdded
  <2>2. Added(w).client = <<writes[w].by, 3, w>> BY AddedIs
  <2>3. Merged(D).client = <<0, 1, 0>> BY MergedIs
  <2>. QED BY <1>5, <2>1, <2>2, <2>3
<1>9. Heading BY <1>1, <1>8 DEF Heading
<1>10. Picking BY <1>2 DEF Picking, NobodyMerges
<1>11. Compact BY <1>8 DEF Compact
<1>. QED BY <1>1, <1>6, <1>7, <1>9, <1>10, <1>11 DEF Loose

\* So there is nothing but loose blocks when no merge goes on.
LEMMA NotMergingLoose == ASSUME Sound, Orderly, ~MergeGoesOn PROVE Loose
<1>1. First \in Nodes BY Stands DEF Orderly
<1>2. ~Joined BY <1>1 DEF Joined, Driven, MergeGoesOn
<1>. QED BY <1>2, RenewedDone DEF Orderly

\* This is what the property needs.
LEMMA LinedOrder == ASSUME Sound, Lined PROVE OrderPerClient
<1>. SUFFICES ASSUME fresh, AtRest, Steady, CreatesOnce, NEW n \in Up, NEW s, s = ReadFile(store[n]),
                     NEW i \in 1..Len(s), NEW j \in 1..Len(s), i < j, writes[s[i]] = writes[s[j]]
              PROVE  s[i] < s[j]
  BY DEF OrderPerClient
<1>1. Calm BY DEF Calm, Steady
<1>2. Orderly /\ Chained BY <1>1 DEF Lined
<1>3. Loose /\ Compact BY <1>2, NotMergingLoose DEF AtRest, Loose
<1>4. Proper(s) BY <1>2, <1>3, LooseCompact DEF Up
<1>5. <<s[i], s[j]>> \in Sequel BY <1>4 DEF Proper, InLine
<1>. QED BY <1>5 DEF Sequel

----------------------------------------------------------------------------
(* Steps keep what there is in order *)

\* Further writes do not change what a block is,
LEMMA SameBlocks ==
  ASSUME Sound, Chained, Longer, chains \subseteq chains', Len(writes') \in Nat
  PROVE  /\ \A w \in Appended : w \in Appended' /\ Added(w)' = Added(w)
         /\ \A c \in chains : c \in chains' /\ Made(c)' = Made(c) /\ Maker(c)' = Maker(c)
         /\ \A b : (IsAdded(b) => IsAdded(b)') /\ (IsMade(b) => IsMade(b)')
<1>1. Len(writes) \in Nat /\ Len(writes) <= Len(writes') /\ \A w \in 1..Len(writes) : writes'[w] = writes[w]
  BY WriteTypes DEF Longer
<1>2. ASSUME NEW w \in Appended PROVE w \in Appended' /\ Added(w)' = Added(w)
  <2>1. w \in 1..Len(writes) /\ writes[w].kind = "append" BY DEF Appended
  <2>2. w \in 1..Len(writes') /\ writes'[w] = writes[w] BY <1>1, <2>1
  <2>. QED BY <2>1, <2>2 DEF Appended, Added
<1>3. ASSUME NEW c \in chains PROVE c \in chains' /\ Made(c)' = Made(c) /\ Maker(c)' = Maker(c)
  <2>1. c.write \in 1..Len(writes) BY MadeIs
  <2>2. writes'[c.write] = writes[c.write] BY <1>1, <2>1
  <2>3. Maker(c)' = Maker(c) BY <2>2 DEF Maker
  <2>. QED BY <2>3 DEF Made
<1>4. \A b : (IsAdded(b) => IsAdded(b)') /\ (IsMade(b) => IsMade(b)') BY <1>2, <1>3 DEF IsAdded, IsMade
<1>. QED BY <1>2, <1>3, <1>4

\* nor put a content out of order.
LEMMA SameProper ==
  ASSUME Sound, Longer, Len(writes') \in Nat, NEW D, Proper(D) PROVE Proper(D)'
<1>1. /\ Len(writes) \in Nat /\ Len(writes) <= Len(writes') /\ \A w \in 1..Len(writes) : writes'[w] = writes[w]
  BY WriteTypes DEF Longer
<1>2. D \in Seq(Nat) /\ ToSet(D) \subseteq 1..Len(writes) /\ InLine(D, Sequel) BY DEF Proper
<1>3. ToSet(D) \subseteq 1..Len(writes') BY <1>1, <1>2
<1>4. DOMAIN D = 1..Len(D) BY <1>2
<1>5. \A i \in 1..Len(D) : D[i] \in 1..Len(writes) BY <1>2, <1>4 DEF ToSet
<1>6. ASSUME NEW i \in 1..Len(D), NEW j \in 1..Len(D), i < j PROVE <<D[i], D[j]>> \in Sequel'
  <2>1. <<D[i], D[j]>> \in Sequel BY <1>2, <1>6 DEF InLine
  <2>2. D[i] \in Nat /\ D[j] \in Nat /\ (writes[D[i]] = writes[D[j]] => D[i] < D[j]) BY <2>1 DEF Sequel
  <2>3. writes'[D[i]] = writes[D[i]] /\ writes'[D[j]] = writes[D[j]] BY <1>1, <1>5
  <2>. QED BY <2>2, <2>3 DEF Sequel
<1>7. InLine(D, Sequel)' BY <1>6 DEF InLine
<1>. QED BY <1>2, <1>3, <1>7 DEF Proper

\* A step that only adds blocks of creates, while nothing has been merged, and
\* of appends that are later than what has been.
LEMMA BaseStays ==
  ASSUME Sound, Chained, Longer, chains \subseteq chains', Len(writes') \in Nat, Raw \/ \E D : Based(D), UNCHANGED up,
         \A r \in Replicas : Holds(r) => Holds(r)',
         \A b \in AllBlocks' :
           \/ b \in AllBlocks
           \/ IsMade(b)' /\ \A D : ~Based(D)
           \/ \E w \in Appended' : b = Added(w)' /\ \A D : Based(D) => \A v \in ToSet(D) : v < w,
         \A m \in net' : m.type = "append_file" => m \in net \/ \A D : Based(D) => \A v \in ToSet(D) : v < m.write
  PROVE  (Raw \/ \E D : Based(D))'
<1>1. Replicas' = Replicas BY DEF Replicas, Up
<1>2. ASSUME NEW D, Based(D) PROVE Based(D)'
  <2>1. Proper(D)' BY <1>2, SameProper DEF Based
  <2>2. \A r \in Replicas' : Holds(r)' BY <1>1, <1>2 DEF Based
  <2>3. ASSUME NEW b \in AllBlocks'
        PROVE  b = Merged(D) \/ \E w \in Appended' : b = Added(w)' /\ \A v \in ToSet(D) : v < w
    <3>1. CASE b \in AllBlocks
      <4>1. CASE b = Merged(D) BY <4>1
      <4>2. ASSUME NEW w \in Appended, b = Added(w), \A v \in ToSet(D) : v < w
            PROVE  \E x \in Appended' : b = Added(x)' /\ \A v \in ToSet(D) : v < x
        <5>1. w \in Appended' /\ Added(w)' = Added(w) BY SameBlocks
        <5>. QED BY <4>2, <5>1
      <4>. QED BY <1>2, <3>1, <4>1, <4>2 DEF Based
    <3>2. CASE \E w \in Appended' : b = Added(w)' /\ \A E : Based(E) => \A v \in ToSet(E) : v < w
      BY <1>2, <3>2
    <3>. QED BY <1>2, <3>1, <3>2
  <2>4. \A b \in AllBlocks' : b = Merged(D)' \/ \E w \in Appended' : b = Added(w)' /\ \A v \in ToSet(D) : v < w
    BY <2>3 DEF Merged
  <2>5. \A m \in net' : m.type = "append_file" => \A v \in ToSet(D) : v < m.write BY <1>2 DEF Based
  <2>. QED BY <2>1, <2>2, <2>4, <2>5 DEF Based
<1>3. CASE Raw
  <2>1. ASSUME NEW b \in AllBlocks' PROVE IsMade(b)' \/ IsAdded(b)'
    <3>1. CASE b \in AllBlocks BY <1>3, <3>1, SameBlocks DEF Raw
    <3>. QED BY <3>1 DEF IsAdded
  <2>. QED BY <2>1 DEF Raw
<1>. QED BY <1>2, <1>3

\* A message stays what it is, if its receiver does not take it in.
LEMMA StillUnderway ==
  ASSUME Sound, Chained, Longer, chains \subseteq chains', Len(writes') \in Nat, UNCHANGED up, NEW m \in net, Underway(m),
         m.type = "append_file" => \A b \in GetAllBlocks(store'[m.to]) : b.client # m.client
  PROVE  Underway(m)'
<1>1. Replicas' = Replicas BY DEF Replicas, Up
<1>2. ASSUME m.type = "append_file"
      PROVE  /\ m.to \in Replicas' /\ m.write \in Appended' /\ m.from = writes'[m.write].by
             /\ m.client = AppendClient(m.from, m.write)
             /\ \A b \in GetAllBlocks(store'[m.to]) : b.client # m.client
  <2>1. m.to \in Replicas /\ m.write \in Appended /\ m.from = writes[m.write].by /\ m.client = AppendClient(m.from, m.write)
    BY <1>2 DEF Underway
  <2>2. m.write \in Appended' BY <2>1, SameBlocks
  <2>3. m.write \in 1..Len(writes) BY <2>1 DEF Appended
  <2>4. writes'[m.write] = writes[m.write] BY <2>3 DEF Longer
  <2>. QED BY <1>1, <1>2, <2>1, <2>2, <2>4
<1>3. ASSUME m.type = "replicate_file"
      PROVE  /\ \A i \in 1..Len(m.succ) : m.succ[i] \in Replicas'
             /\ \E c \in chains' : c.write = m.write /\ m.client = Maker(c)'
  <2>1. PICK c \in chains : c.write = m.write /\ m.client = Maker(c) BY <1>3 DEF Underway
  <2>2. c \in chains' /\ Maker(c)' = Maker(c) BY SameBlocks
  <2>. QED BY <1>1, <1>3, <2>1, <2>2 DEF Underway
<1>4. m.type \notin {"rereplicate_file", "merge_update", "merge_recreate"} BY DEF Underway
<1>. QED BY <1>2, <1>3, <1>4 DEF Underway

\* The parts that no write changes.
LEMMA WriteOrderly ==
  ASSUME Sound, Orderly, ~MergeGoesOn, UNCHANGED <<up, view, scans, merge>>, Loose',
         \A m \in net' : m \in net \/ m.type \notin MergeTypes,
         \A n \in Nodes : GetAllBlocks(store'[n]) # {} => n \in Replicas
  PROVE  Orderly'
<1>1. Steady' /\ scans' = {} /\ Replicas' = Replicas BY DEF Orderly, Steady, Replicas, Up
<1>2. ~MergeGoesOn' BY StaysUnmerged
<1>. QED BY <1>1, <1>2 DEF Orderly

\* Blocks of different origin.
LEMMA Origins ==
  /\ \A w : \A c \in chains' : Made(c)' # Added(w)' /\ Made(c)'.client[2] # 3 /\ Added(w)'.client[2] = 3
  /\ \A w : \A c \in chains : Made(c) # Added(w)
<1>1. ASSUME NEW c PROVE Made(c)'.client[2] # 3 /\ Made(c).client[2] # 3
  BY DEF Made, Maker, CreateClient, NoClient
<1>2. ASSUME NEW w PROVE Added(w)'.client[2] = 3 /\ Added(w).client[2] = 3
  BY DEF Added, AppendClient
<1>. QED BY <1>1, <1>2

\* A step that sends for a write.
LEMMA MailOnly ==
  ASSUME Sound, Chained, Orderly, Loose, ~MergeGoesOn, Longer, chains \subseteq chains', Len(writes') \in Nat,
         UNCHANGED <<up, view, store, scans, merge>>, ~fresh',
         \A m \in net' : \/ m \in net
                         \/ /\ m.type \notin MergeTypes /\ Underway(m)'
                            /\ m.type = "append_file" => m.write = Len(writes) + 1,
         (\E m \in net' : m.type = "append_file") \/ (\E b \in AllBlocks : IsAdded(b)) =>
            Holds(First) \/ \E m \in net' : m.type = "append_file" /\ m.to = First,
         \A b \in AllBlocks : IsAdded(b)' => IsAdded(b)
  PROVE  Orderly'
<1>1. AllBlocks' = AllBlocks /\ First' = First /\ (\A n \in Nodes : Holds(n)' = Holds(n)) /\ First \in Nodes
  BY Stands DEF AllBlocks, First, Up, Holds, Orderly
<1>2. (Raw \/ \E D : Based(D))'
  <2>1. \A r \in Replicas : Holds(r) => Holds(r)' BY <1>1, Stands DEF Orderly
  <2>2. ASSUME NEW m \in net', m.type = "append_file", m \notin net, NEW D, Based(D), NEW v \in ToSet(D) PROVE v < m.write
    <3>1. v \in 1..Len(writes) /\ m.write = Len(writes) + 1 /\ Len(writes) \in Nat
      BY <2>2, WriteTypes DEF Based, Proper
    <3>. QED BY <3>1
  <2>. QED BY <1>1, <2>1, <2>2, BaseStays DEF Loose
<1>3. OneBase' BY SameBlocks DEF Loose, OneBase
<1>4. ASSUME NEW m \in net' PROVE Underway(m)'
  <2>1. CASE m \in net
    <3>1. Underway(m) BY <2>1 DEF Loose
    <3>2. m.type = "append_file" => \A b \in GetAllBlocks(store'[m.to]) : b.client # m.client BY <3>1 DEF Underway
    <3>. QED BY <2>1, <3>1, <3>2, StillUnderway
  <2>. QED BY <2>1
<1>5. Heading' BY <1>1 DEF Heading
<1>6. Picking' BY <1>1 DEF Loose, Picking
<1>7. Loose' BY <1>2, <1>3, <1>4, <1>5, <1>6 DEF Loose
<1>8. \A n \in Nodes : GetAllBlocks(store'[n]) # {} => n \in Replicas BY DEF Orderly
<1>. QED BY <1>7, <1>8, WriteOrderly

\* A step that makes the file of a create.
LEMMA TakeMade ==
  ASSUME Sound, Chained, Orderly, Loose, ~MergeGoesOn, Longer, chains \subseteq chains', Len(writes') \in Nat,
         UNCHANGED <<up, view, scans, merge>>, ~fresh',
         NEW n \in Replicas, ~Holds(n), NEW g, store' = [store EXCEPT ![n] = g], g.exists,
         NEW c \in chains', GetAllBlocks(g) = {Made(c)'},
         \A m \in net' : m \in net \/ (m.type \notin MergeTypes /\ m.type # "append_file" /\ Underway(m)'),
         \A m \in net : m.type = "append_file" => m \in net',
         \A b \in AllBlocks : IsAdded(b)' => IsAdded(b)
  PROVE  Orderly'
<1>1. n \in Nodes /\ First \in Nodes /\ First' = First /\ Replicas \subseteq Nodes BY Stands DEF Orderly, First, Up
<1>2. store \in [Nodes -> Files] BY DEF Sound, Shelf
<1>3. store'[n] = g /\ \A k \in Nodes \ {n} : store'[k] = store[k] BY <1>1, <1>2
<1>4. ASSUME NEW b \in AllBlocks' PROVE b \in AllBlocks \/ b = Made(c)'
  <2>1. PICK k \in Nodes : b \in GetAllBlocks(store'[k]) BY InStoreNext
  <2>2. CASE k = n BY <1>3, <2>1, <2>2
  <2>3. CASE k # n BY <1>3, <2>1, <2>3, InStore
  <2>. QED BY <2>2, <2>3
<1>5. \A k \in Nodes : Holds(k) => Holds(k)' BY <1>3 DEF Holds
<1>6. (Raw \/ \E D : Based(D))'
  <2>1. \A D : ~Based(D) BY DEF Based
  <2>2. \A b \in AllBlocks' : b \in AllBlocks \/ IsMade(b)' BY <1>4 DEF IsMade
  <2>3. \A r \in Replicas : Holds(r) => Holds(r)' BY <1>1, <1>5
  <2>. QED BY <2>1, <2>2, <2>3, BaseStays DEF Loose
<1>7. ASSUME NEW k \in Nodes, NEW x \in GetAllBlocks(store'[k]), NEW y \in GetAllBlocks(store'[k])
      PROVE  x = y \/ IsAdded(x)' \/ IsAdded(y)'
  <2>1. CASE k = n BY <1>3, <1>7, <2>1
  <2>2. CASE k # n
    <3>1. x = y \/ IsAdded(x) \/ IsAdded(y) BY <1>3, <1>7, <2>2 DEF Loose, OneBase
    <3>. QED BY <3>1, SameBlocks
  <2>. QED BY <2>1, <2>2
<1>8. OneBase' BY <1>7 DEF OneBase
<1>9. ASSUME NEW m \in net' PROVE Underway(m)'
  <2>1. CASE m \in net
    <3>1. Underway(m) /\ m.to \in Nodes BY <2>1, Addressed DEF Loose
    <3>2. ASSUME m.type = "append_file", NEW b \in GetAllBlocks(store'[m.to]) PROVE b.client # m.client
      <4>1. CASE m.to = n
        <5>1. b.client[2] # 3 BY <1>3, <3>2, <4>1, Origins
        <5>2. m.client[2] = 3 BY <3>1, <3>2 DEF Underway, AppendClient
        <5>. QED BY <5>1, <5>2
      <4>2. CASE m.to # n BY <1>3, <3>1, <3>2, <4>2 DEF Underway
      <4>. QED BY <4>1, <4>2
    <3>. QED BY <2>1, <3>1, <3>2, StillUnderway
  <2>. QED BY <2>1
<1>10. Heading'
  <2>1. ASSUME NEW b \in AllBlocks', IsAdded(b)' PROVE b \in AllBlocks /\ IsAdded(b)
    <3>1. b # Made(c)' BY <2>1, Origins DEF IsAdded
    <3>. QED BY <1>4, <2>1, <3>1
  <2>2. ASSUME NEW m \in net', m.type = "append_file" PROVE m \in net BY <2>2
  <2>. QED BY <1>1, <1>5, <2>1, <2>2 DEF Loose, Heading
<1>11. Picking'
  <2>1. \A k \in Nodes : merge[k].phase = "idle" BY DEF MergeGoesOn
  <2>. QED BY <2>1 DEF Picking
<1>12. Loose' BY <1>6, <1>8, <1>9, <1>10, <1>11 DEF Loose
<1>13. \A k \in Nodes : GetAllBlocks(store'[k]) # {} => k \in Replicas BY <1>3 DEF Orderly
<1>. QED BY <1>12, <1>13, WriteOrderly

\* The first block of a client has sequence number 1.
LEMMA FirstSequence ==
  ASSUME NEW f \in Files, NEW client, \A b \in GetAllBlocks(f) : b.client # client PROVE NextSequence(f, client) = 1
<1>1. PICK q \in Seq(Blocks) : q = f.blocks BY FileBlocks
<1>2. DOMAIN q = 1..Len(q) OBVIOUS
<1>3. \A i \in 1..Len(q) : q[i].client # client BY <1>1, <1>2 DEF GetAllBlocks, ToSet
<1>4. {0} \cup {q[i].seq : i \in {k \in 1..Len(q) : q[k].client = client}} = {0} BY <1>3
<1>5. NextSequence(f, client) = 1 + Max({0}) BY <1>1, <1>4 DEF NextSequence
<1>6. Max({0}) = 0
  <2>1. PICK Z : Z = {0} OBVIOUS
  <2>2. IsFiniteSet(Z) BY <2>1, FS_Singleton
  <2>3. Z \in SUBSET Nat /\ Z # {} BY <2>1
  <2>4. Max(Z) \in Z BY <2>2, <2>3, MaxOf
  <2>. QED BY <2>1, <2>4
<1>. QED BY <1>5, <1>6

\* A step that takes an append in.
LEMMA TakeAdded ==
  ASSUME Sound, Chained, Orderly, Loose, ~MergeGoesOn, ~fresh',
         UNCHANGED <<up, view, scans, merge, writes, chains>>, NEW m \in net, m.type = "append_file", net' = net \ {m},
         store' = [store EXCEPT ![m.to] = AppendFile(@, m.client, <<m.write>>)]
  PROVE  Orderly'
<1>1. First \in Nodes /\ First' = First /\ Replicas \subseteq Nodes BY Stands DEF Orderly, First, Up
<1>2. Underway(m) BY DEF Loose
<1>3. PICK n \in Nodes : n = m.to /\ n \in Replicas BY <1>1, <1>2 DEF Underway
<1>4. PICK w \in Appended : w = m.write /\ m.from = writes[w].by BY <1>2 DEF Underway
<1>5. m \in Appends BY Addressed, Fields
<1>6. PICK client \in Clientele : client = m.client BY <1>5 DEF Appends
<1>7. client = Added(w).client /\ Added(w).data = <<w>> BY <1>2, <1>4, <1>6 DEF Underway, Added
<1>8. PICK f \in Files : f = store[n] /\ KeysApart(f) BY DEF Sound, Shelf
<1>9. PICK data \in Seq(Nat) : data = <<w>> BY AddedIs, OneItem
<1>10. PICK g : g = AppendFile(f, client, data) OBVIOUS
<1>11. store' = [store EXCEPT ![n] = g] BY <1>3, <1>4, <1>6, <1>8, <1>9, <1>10
<1>12. g.exists /\ OneBlockMore(f, g, client, data) BY <1>8, <1>10, AppendBlocks
<1>13. NextSequence(f, client) = 1 BY <1>2, <1>3, <1>6, <1>8, FirstSequence DEF Underway
<1>14. Added(w) = [client |-> client, seq |-> 1, data |-> data] BY <1>7, <1>9 DEF Added
<1>15. GetAllBlocks(g) = GetAllBlocks(f) \cup {Added(w)} BY <1>12, <1>13, <1>14 DEF OneBlockMore
<1>16. store \in [Nodes -> Files] BY DEF Sound, Shelf
<1>17. store'[n] = g /\ \A k \in Nodes \ {n} : store'[k] = store[k] BY <1>11, <1>16
<1>18. ASSUME NEW b \in AllBlocks' PROVE b \in AllBlocks \/ b = Added(w)
  <2>1. PICK k \in Nodes : b \in GetAllBlocks(store'[k]) BY InStoreNext
  <2>2. CASE k = n BY <1>8, <1>15, <1>17, <2>1, <2>2, InStore
  <2>3. CASE k # n BY <1>17, <2>1, <2>3, InStore
  <2>. QED BY <2>2, <2>3
<1>19. \A k \in Nodes : Holds(k) => Holds(k)' BY <1>12, <1>17 DEF Holds
<1>20. Longer /\ chains \subseteq chains' /\ Len(writes') \in Nat BY WriteTypes DEF Longer
<1>21. Appended' = Appended /\ Added(w)' = Added(w) /\ \A b : IsAdded(b)' = IsAdded(b) BY DEF Appended, Added, IsAdded
<1>22. (Raw \/ \E D : Based(D))'
  <2>1. \A D : Based(D) => \A v \in ToSet(D) : v < w BY <1>4 DEF Based
  <2>2. \A b \in AllBlocks' :
           \/ b \in AllBlocks
           \/ \E x \in Appended' : b = Added(x)' /\ \A D : Based(D) => \A v \in ToSet(D) : v < x
    BY <1>18, <1>21, <2>1
  <2>3. \A r \in Replicas : Holds(r) => Holds(r)' BY <1>1, <1>19
  <2>. QED BY <1>20, <2>2, <2>3, BaseStays DEF Loose
<1>23. ASSUME NEW k \in Nodes, NEW x \in GetAllBlocks(store'[k]), NEW y \in GetAllBlocks(store'[k])
       PROVE  x = y \/ IsAdded(x)' \/ IsAdded(y)'
  <2>1. IsAdded(Added(w)) BY DEF IsAdded
  <2>2. CASE x = Added(w) \/ y = Added(w) BY <1>21, <2>1, <2>2
  <2>3. CASE x # Added(w) /\ y # Added(w)
    <3>1. x \in GetAllBlocks(store[k]) /\ y \in GetAllBlocks(store[k])
      <4>1. CASE k = n BY <1>8, <1>15, <1>17, <1>23, <2>3, <4>1
      <4>2. CASE k # n BY <1>17, <1>23, <4>2
      <4>. QED BY <4>1, <4>2
    <3>. QED BY <1>21, <3>1 DEF Loose, OneBase
  <2>. QED BY <2>2, <2>3
<1>24. OneBase' BY <1>23 DEF OneBase
<1>25. ASSUME NEW k \in net' PROVE Underway(k)'
  <2>1. k \in net /\ k # m OBVIOUS
  <2>2. Underway(k) /\ k.to \in Nodes BY <2>1, Addressed DEF Loose
  <2>3. ASSUME k.type = "append_file", NEW b \in GetAllBlocks(store'[k.to]) PROVE b.client # k.client
    <3>1. CASE k.to # n BY <1>17, <2>2, <2>3, <3>1 DEF Underway
    <3>2. CASE k.to = n /\ b # Added(w) BY <1>8, <1>15, <1>17, <2>2, <2>3, <3>2 DEF Underway
    <3>3. CASE k.to = n /\ b = Added(w)
      <4>1. SUFFICES ASSUME b.client = k.client PROVE FALSE OBVIOUS
      <4>2. k.client = AppendClient(k.from, k.write) /\ k.client = AppendClient(m.from, m.write)
        BY <1>2, <1>6, <1>7, <2>2, <2>3, <3>3, <4>1 DEF Underway
      <4>3. k.from = m.from /\ k.write = m.write BY <4>2 DEF AppendClient
      <4>4. k \in Appends BY <2>1, <2>3, Addressed, Fields
      <4>5. k.client = m.client /\ k.to = m.to /\ k.type = m.type BY <1>2, <1>3, <2>3, <3>3, <4>2 DEF Underway
      <4>6. k = [type |-> k.type, from |-> k.from, to |-> k.to, client |-> k.client, write |-> k.write]
        BY <4>4 DEF Appends
      <4>7. m = [type |-> m.type, from |-> m.from, to |-> m.to, client |-> m.client, write |-> m.write]
        BY <1>5 DEF Appends
      <4>8. k = m BY <4>3, <4>5, <4>6, <4>7
      <4>. QED BY <2>1, <4>8
    <3>. QED BY <3>1, <3>2, <3>3
  <2>. QED BY <1>20, <2>1, <2>2, <2>3, StillUnderway
<1>26. Heading'
  <2>1. Holds(First) \/ \E k \in net : k.type = "append_file" /\ k.to = First BY DEF Loose, Heading
  <2>2. CASE First = n
    <3>1. store'[First] = g BY <1>17, <2>2
    <3>2. Holds(First)' BY <1>1, <1>12, <3>1 DEF Holds
    <3>. QED BY <1>1, <3>2 DEF Heading
  <2>3. CASE First # n
    <3>1. Holds(First)' \/ \E k \in net' : k.type = "append_file" /\ k.to = First BY <1>1, <1>3, <1>19, <2>1, <2>3
    <3>. QED BY <1>1, <3>1 DEF Heading
  <2>. QED BY <2>2, <2>3
<1>27. Picking'
  <2>1. \A k \in Nodes : merge[k].phase = "idle" BY DEF MergeGoesOn
  <2>. QED BY <2>1 DEF Picking
<1>28. Loose' BY <1>22, <1>24, <1>25, <1>26, <1>27 DEF Loose
<1>29. \A k \in Nodes : GetAllBlocks(store'[k]) # {} => k \in Replicas BY <1>3, <1>17 DEF Orderly
<1>. QED BY <1>28, <1>29, WriteOrderly

----------------------------------------------------------------------------
(* The writes *)

\* A file that is made has one block, whatever a failed create has left.
LEMMA NewBlocks ==
  ASSUME NEW f, ~f.exists, NEW id, NEW client, NEW data, NEW g, g = CreateFile(f, id, client, data)
  PROVE  g.exists /\ GetAllBlocks(g) = {[client |-> client, seq |-> 1, data |-> data]}
<1>1. PICK b : b = [client |-> client, seq |-> 1, data |-> data] OBVIOUS
<1>2. g = [id |-> id, blocks |-> <<b>>, exists |-> TRUE] BY <1>1 DEF CreateFile, NewFile
<1>3. g.exists /\ g.blocks = <<b>> BY <1>2
<1>4. DOMAIN <<b>> = {1} /\ <<b>>[1] = b OBVIOUS
<1>5. ToSet(<<b>>) = {b} BY <1>4 DEF ToSet
<1>. QED BY <1>1, <1>3, <1>5 DEF GetAllBlocks

\* and this block's content.
LEMMA NewContent ==
  ASSUME NEW f, ~f.exists, NEW id \in Nat, NEW client \in Clientele, NEW data, data \in Seq(Nat),
         NEW g, g = CreateFile(f, id, client, data)
  PROVE  ReadFile(g) = data
<1>1. PICK b : b = [client |-> client, seq |-> 1, data |-> data] OBVIOUS
<1>2. b \in Blocks /\ b.data = data BY <1>1 DEF Blocks, Clientele
<1>3. g = File(id, <<b>>, TRUE) BY <1>1 DEF CreateFile, NewFile, File
<1>4. PICK c \in Blocks : c = b BY <1>2
<1>5. ReadFile(File(id, <<c>>, TRUE)) = c.data BY OneBlock
<1>. QED BY <1>2, <1>3, <1>4, <1>5

\* A block that is there is of an append that was issued.
LEMMA AddedBefore ==
  ASSUME Sound, Chained, Raw \/ \E D : Based(D), Longer, Len(writes') \in Nat, NEW b \in AllBlocks, IsAdded(b)'
  PROVE  IsAdded(b)
<1>1. PICK w \in Appended' : b = Added(w)' BY DEF IsAdded
<1>2. w \in 1..Len(writes') /\ writes'[w].kind = "append" /\ w \in Nat BY <1>1 DEF Appended
<1>3. b = [client |-> AppendClient(writes'[w].by, w), seq |-> 1, data |-> <<w>>] BY <1>1 DEF Added
<1>4. b.data = <<w>> /\ ToSet(<<w>>) = {w} BY <1>2, <1>3, OneItem
<1>5. w \in 1..Len(writes) BY <1>4, BlockProper DEF Proper
<1>6. writes'[w] = writes[w] BY <1>5 DEF Longer
<1>7. w \in Appended /\ b = Added(w) BY <1>2, <1>3, <1>5, <1>6 DEF Appended, Added
<1>. QED BY <1>7 DEF IsAdded

\* The tables of a command, and its number.
LEMMA Issued ==
  ASSUME Sound, Chained, Orderly, Loose, NEW n \in Nodes, up[n], NEW kind, writes' = Append(writes, [by |-> n, kind |-> kind])
  PROVE  /\ Len(writes) \in Nat /\ Len(writes') = Len(writes) + 1 /\ Len(writes') \in Nat /\ Longer
         /\ writes'[Len(writes) + 1] = [by |-> n, kind |-> kind]
         /\ \A b \in AllBlocks : IsAdded(b)' => IsAdded(b)
         /\ Successors(FileHash, view[n], NumReplicas) = Replicas
         /\ \A i \in 1..Len(GetSuccessors(FileHash, view[n], NumReplicas)) :
              GetSuccessors(FileHash, view[n], NumReplicas)[i] \in Replicas
<1>1. Records /\ TablesRight BY Stands DEF Sound, Orderly
<1>2. Longer BY <1>1, LongerStep
<1>3. Len(writes) \in Nat /\ Len(writes') = Len(writes) + 1 BY <1>1, LastWrite
<1>4. Len(writes') \in Nat BY <1>3
<1>5. writes'[Len(writes) + 1] = [by |-> n, kind |-> kind]
  <2>1. writes \in Seq([by : Nodes, kind : {"create", "append"}]) BY <1>1 DEF Records
  <2>. QED BY <2>1
<1>6. \A b \in AllBlocks : IsAdded(b)' => IsAdded(b) BY <1>2, <1>4, AddedBefore DEF Loose
<1>7. Successors(FileHash, view[n], NumReplicas) = Replicas BY <1>1, ToReplicas
<1>8. Replicas = {GetSuccessors(FileHash, view[n], NumReplicas)[k] :
                    k \in 1..Len(GetSuccessors(FileHash, view[n], NumReplicas))} BY <1>1, ToReplicas
<1>. QED BY <1>2, <1>3, <1>4, <1>5, <1>6, <1>7, <1>8

\* Before a write the appends are headed for the primary.
LEMMA StillHeading ==
  ASSUME Loose, \A m \in net' : m.type = "append_file" => m \in net, \A m \in net : m.type = "append_file" => m \in net'
  PROVE  (\E m \in net' : m.type = "append_file") \/ (\E b \in AllBlocks : IsAdded(b)) =>
            Holds(First) \/ \E m \in net' : m.type = "append_file" /\ m.to = First
BY DEF Loose, Heading

\* A create whose messages are for the replicas.
LEMMA CreateUnderway ==
  ASSUME NEW c \in chains', NEW m, m.type = "replicate_file", m.write = c.write, m.client = Maker(c)',
         \A i \in 1..Len(m.succ) : m.succ[i] \in Replicas'
  PROVE  Underway(m)'
BY DEF Underway

\* create
LEMMA CreateOrderly ==
  ASSUME "write" \notin Overlaps, Sound, Chained, Orderly, NEW n \in Nodes, Create(n) PROVE Orderly'
<1>1. ~MergeGoesOn /\ Loose BY WriteStarts, NotMergingLoose
<1>2. PICK succ : succ = GetSuccessors(FileHash, view[n], NumReplicas) OBVIOUS
<1>3. PICK w : w = Len(writes) + 1 OBVIOUS
<1>4. /\ up[n] /\ UNCHANGED <<up, view, scans, merge>> /\ writes' = Append(writes, [by |-> n, kind |-> "create"])
      /\ chains' = chains \cup {[write |-> w, succ |-> succ, acked |-> TRUE]} /\ net \subseteq net'
  BY <1>2, <1>3, CreateDoes
<1>5. ~fresh' BY DEF Create
<1>6. PICK c \in chains' : c = [write |-> w, succ |-> succ, acked |-> TRUE] BY <1>4
<1>7. /\ Longer /\ Len(writes') \in Nat /\ writes'[w] = [by |-> n, kind |-> "create"]
      /\ (\A b \in AllBlocks : IsAdded(b)' => IsAdded(b)) /\ \A i \in 1..Len(succ) : succ[i] \in Replicas
  BY <1>1, <1>2, <1>3, <1>4, Issued
<1>8. Maker(c)' = CreateClient(n) /\ c.write = w
  <2>1. c.acked /\ c.write = w BY <1>6
  <2>2. writes'[w].by = n BY <1>7
  <2>. QED BY <2>1, <2>2 DEF Maker
<1>9. PICK new : Send(net, new) /\ \A x \in new : x.type = "replicate_file" /\ x.write = w /\ x.succ = succ /\ x.client = CreateClient(n)
  BY <1>2, <1>3 DEF Create, Replicate
<1>10. \A x \in net' : x \in net \/ x \in new BY <1>9, NewMail
<1>11. Replicas' = Replicas BY <1>4 DEF Replicas, Up
<1>12. ASSUME NEW x \in net', x \notin net PROVE x.type = "replicate_file" /\ Underway(x)'
  <2>1. x.type = "replicate_file" /\ x.write = w /\ x.succ = succ /\ x.client = CreateClient(n) BY <1>9, <1>10, <1>12
  <2>. QED BY <1>7, <1>8, <1>11, <2>1, CreateUnderway
<1>13. \A x \in net' : \/ x \in net
                       \/ x.type \notin MergeTypes /\ x.type # "append_file" /\ Underway(x)'
  BY <1>12 DEF MergeTypes
<1>14. chains \subseteq chains' BY <1>4
<1>15. CASE UNCHANGED store
  <2>1. (\E m \in net' : m.type = "append_file") \/ (\E b \in AllBlocks : IsAdded(b)) =>
            Holds(First) \/ \E m \in net' : m.type = "append_file" /\ m.to = First
    <3>1. \A m \in net' : m.type = "append_file" => m \in net BY <1>13
    <3>2. \A m \in net : m.type = "append_file" => m \in net' BY <1>4
    <3>. QED BY <1>1, <3>1, <3>2, StillHeading
  <2>. QED BY <1>1, <1>4, <1>5, <1>7, <1>13, <1>14, <1>15, <2>1, MailOnly
<1>16. CASE succ[1] = n /\ ~Holds(n) /\ store' = [store EXCEPT ![n] = CreateFile(@, FileHash, CreateClient(n), <<w>>)]
  <2>1. Len(succ) >= 1 /\ succ \in Seq(Nodes) BY <1>2, <1>4, HashTypes, RingFacts DEF Sound
  <2>2. n \in Replicas BY <1>7, <1>16, <2>1
  <2>3. PICK g : g = CreateFile(store[n], FileHash, CreateClient(n), <<w>>) OBVIOUS
  <2>4. store' = [store EXCEPT ![n] = g] BY <1>16, <2>3
  <2>5. g.exists /\ GetAllBlocks(g) = {[client |-> CreateClient(n), seq |-> 1, data |-> <<w>>]} BY <1>16, <2>3, NewBlocks DEF Holds
  <2>6. GetAllBlocks(g) = {Made(c)'} BY <1>8, <2>5 DEF Made
  <2>7. \A m \in net : m.type = "append_file" => m \in net' BY <1>4
  <2>8. UNCHANGED <<up, view, scans, merge>> BY <1>4
  <2>9. Longer /\ Len(writes') \in Nat /\ \A b \in AllBlocks : IsAdded(b)' => IsAdded(b) BY <1>7
  <2>10. ~Holds(n) /\ g.exists BY <1>16, <2>5
  <2>. QED BY <1>1, <1>5, <1>13, <1>14, <2>2, <2>4, <2>6, <2>7, <2>8, <2>9, <2>10, TakeMade
<1>. QED BY <1>2, <1>3, <1>15, <1>16, CreateDoes

\* the CLI's create
LEMMA CLICreateOrderly ==
  ASSUME "write" \notin Overlaps, Sound, Chained, Orderly, NEW n \in Nodes, CLICreate(n) PROVE Orderly'
<1>1. ~MergeGoesOn /\ Loose BY WriteStarts, NotMergingLoose
<1>2. PICK succ : succ = GetSuccessors(FileHash, view[n], NumReplicas) OBVIOUS
<1>3. PICK w : w = Len(writes) + 1 OBVIOUS
<1>4. /\ up[n] /\ UNCHANGED <<up, view, store, scans, merge>> /\ writes' = Append(writes, [by |-> n, kind |-> "create"])
      /\ chains' = chains \cup {[write |-> w, succ |-> succ, acked |-> FALSE]} /\ net \subseteq net'
  BY <1>2, <1>3, CLICreateDoes
<1>5. ~fresh' BY DEF CLICreate
<1>6. PICK c \in chains' : c = [write |-> w, succ |-> succ, acked |-> FALSE] BY <1>4
<1>7. /\ Longer /\ Len(writes') \in Nat /\ (\A b \in AllBlocks : IsAdded(b)' => IsAdded(b))
      /\ Successors(FileHash, view[n], NumReplicas) = Replicas
  BY <1>1, <1>4, Issued
<1>8. Maker(c)' = NoClient /\ c.write = w
  <2>1. ~c.acked /\ c.write = w BY <1>6
  <2>. QED BY <2>1 DEF Maker
<1>9. PICK new : /\ Send(net, new)
                 /\ \A x \in new : /\ x.type = "replicate_file" /\ x.write = w /\ x.client = NoClient
                                   /\ \E r \in Successors(FileHash, view[n], NumReplicas) : x.succ = <<r>>
  BY <1>3 DEF CLICreate, Replicate
<1>10. \A x \in net' : x \in net \/ x \in new BY <1>9, NewMail
<1>11. Replicas' = Replicas BY <1>4 DEF Replicas, Up
<1>12. ASSUME NEW x \in net', x \notin net PROVE x.type = "replicate_file" /\ Underway(x)'
  <2>1. x.type = "replicate_file" /\ x.write = w /\ x.client = NoClient BY <1>9, <1>10, <1>12
  <2>2. PICK r \in Replicas : x.succ = <<r>> BY <1>7, <1>9, <1>10, <1>12
  <2>3. \A i \in 1..Len(x.succ) : x.succ[i] \in Replicas BY <2>2
  <2>. QED BY <1>8, <1>11, <2>1, <2>3, CreateUnderway
<1>13. \A x \in net' : \/ x \in net
                       \/ x.type \notin MergeTypes /\ x.type # "append_file" /\ Underway(x)'
  BY <1>12 DEF MergeTypes
<1>14. (\E m \in net' : m.type = "append_file") \/ (\E b \in AllBlocks : IsAdded(b)) =>
            Holds(First) \/ \E m \in net' : m.type = "append_file" /\ m.to = First
  <2>1. \A m \in net' : m.type = "append_file" => m \in net BY <1>13
  <2>2. \A m \in net : m.type = "append_file" => m \in net' BY <1>4
  <2>. QED BY <1>1, <2>1, <2>2, StillHeading
<1>15. chains \subseteq chains' BY <1>4
<1>. QED BY <1>1, <1>4, <1>5, <1>7, <1>13, <1>14, <1>15, MailOnly

\* append: the primary has it coming, too.
LEMMA AppendToOrderly ==
  ASSUME "write" \notin Overlaps, Sound, Chained, Orderly, NEW n \in Nodes, AppendTo(n) PROVE Orderly'
<1>1. ~MergeGoesOn /\ Loose BY WriteStarts, NotMergingLoose
<1>2. PICK w : w = Len(writes) + 1 OBVIOUS
<1>3. /\ up[n] /\ UNCHANGED <<up, view, store, scans, merge, chains>> /\ writes' = Append(writes, [by |-> n, kind |-> "append"])
      /\ net \subseteq net'
  BY AppendToDoes
<1>4. ~fresh' BY DEF AppendTo
<1>5. /\ Longer /\ Len(writes') \in Nat /\ writes'[w] = [by |-> n, kind |-> "append"] /\ Len(writes) \in Nat
      /\ (\A b \in AllBlocks : IsAdded(b)' => IsAdded(b)) /\ Successors(FileHash, view[n], NumReplicas) = Replicas
      /\ Len(writes') = w
  BY <1>1, <1>2, <1>3, Issued
<1>7. PICK new : new = {[type |-> "append_file", from |-> n, to |-> r, client |-> AppendClient(n, w), write |-> w] : r \in Replicas} OBVIOUS
<1>8. Send(net, new) BY <1>2, <1>5, <1>7, Zenon DEF AppendTo
<1>9. net' = net \cup {x \in new : up[x.to]} BY <1>8 DEF Send, Reachable
<1>10. \A x \in new : /\ x.type = "append_file" /\ x.from = n /\ x.to \in Replicas /\ x.client = AppendClient(n, w) /\ x.write = w
  BY <1>7
<1>11. First \in Replicas /\ up[First] /\ Replicas \subseteq Nodes BY Stands DEF Orderly
<1>12. \E m \in net' : m.type = "append_file" /\ m.to = First
  <2>1. PICK m : m = [type |-> "append_file", from |-> n, to |-> First, client |-> AppendClient(n, w), write |-> w] OBVIOUS
  <2>2. m \in new /\ m.to = First /\ m.type = "append_file" BY <1>7, <1>11, <2>1
  <2>. QED BY <1>9, <1>11, <2>2
<1>13. Replicas' = Replicas BY <1>3 DEF Replicas, Up
<1>14. ASSUME NEW x \in net', x \notin net PROVE x.type = "append_file" /\ x.write = w /\ Underway(x)'
  <2>1. x.type = "append_file" /\ x.from = n /\ x.to \in Replicas /\ x.client = AppendClient(n, w) /\ x.write = w
    BY <1>9, <1>10, <1>14
  <2>2. w \in Appended' /\ writes'[w].by = n
    <3>1. w \in 1..Len(writes') BY <1>2, <1>5
    <3>. QED BY <1>5, <3>1 DEF Appended
  <2>3. ASSUME NEW b \in GetAllBlocks(store[x.to]) PROVE b.client # x.client
    <3>1. b \in AllBlocks BY <1>11, <2>1, InStore
    <3>2. CASE IsAdded(b)
      <4>1. PICK v \in Appended : b = Added(v) BY <3>2 DEF IsAdded
      <4>2. b.client = <<writes[v].by, 3, v>> /\ v \in 1..Len(writes) BY <4>1, AddedIs
      <4>3. v # w BY <1>2, <1>5, <4>2
      <4>. QED BY <2>1, <4>2, <4>3 DEF AppendClient
    <3>3. CASE IsMade(b)
      <4>1. b.client[2] # 3 BY <3>3, MadeIs DEF IsMade
      <4>. QED BY <2>1, <4>1 DEF AppendClient
    <3>4. ASSUME NEW D, b = Merged(D) PROVE b.client # x.client BY <2>1, <3>4, MergedIs DEF AppendClient
    <3>. QED BY <1>1, <3>1, <3>2, <3>3, <3>4 DEF Loose, Raw, Based, IsAdded
  <2>. QED BY <1>3, <1>13, <2>1, <2>2, <2>3 DEF Underway
<1>15. \A x \in net' : \/ x \in net
                       \/ /\ x.type \notin MergeTypes /\ Underway(x)'
                          /\ x.type = "append_file" => x.write = Len(writes) + 1
  BY <1>2, <1>14 DEF MergeTypes
<1>. QED BY <1>1, <1>3, <1>4, <1>5, <1>12, <1>15, MailOnly

\* A message of a write, or of a re-replication, is under way only while no merge goes on.
LEMMA OtherMail ==
  ASSUME Sound, Alone, Orderly, NEW m \in net, m.type \notin MergeTypes
  PROVE  ~fresh /\ ~MergeGoesOn /\ Loose /\ Underway(m)
<1>1. ~fresh BY DEF Alone, Asking, Driven, Spread, Spreading, GivenUp, MergeTypes
<1>2. ~MergeGoesOn BY <1>1 DEF Orderly
<1>3. Loose BY <1>2, NotMergingLoose
<1>. QED BY <1>1, <1>2, <1>3 DEF Loose

\* Nothing is written anew.
LEMMA SameWrites ==
  ASSUME Sound, UNCHANGED <<writes, chains>>
  PROVE  /\ Longer /\ Len(writes') \in Nat /\ chains \subseteq chains'
         /\ \A b : IsAdded(b)' => IsAdded(b)
<1>1. Longer /\ Len(writes') \in Nat BY WriteTypes DEF Longer
<1>. QED BY <1>1 DEF IsAdded, Appended, Added

\* A create that comes to a replica.
LEMMA RecvReplicateOrderly ==
  ASSUME Sound, Chained, Alone, Orderly, NEW m \in net, RecvReplicate(m) PROVE Orderly'
<1>1. /\ m.type = "replicate_file" /\ net \ {m} \subseteq net' /\ UNCHANGED <<up, view, scans, merge, writes, chains>>
  BY ReplicateDoes
<1>2. ~fresh /\ ~MergeGoesOn /\ Loose /\ Underway(m) BY <1>1, OtherMail DEF MergeTypes
<1>3. ~fresh' BY <1>2 DEF RecvReplicate
<1>4. Longer /\ Len(writes') \in Nat /\ chains \subseteq chains' /\ \A b : IsAdded(b)' => IsAdded(b) BY <1>1, SameWrites
<1>5. \A x \in net : x.type = "append_file" => x \in net' BY <1>1
<1>6. CASE Holds(m.to) /\ net' = net \ {m} /\ UNCHANGED store
  <2>1. \A x \in net' : x \in net BY <1>6
  <2>2. (\E x \in net' : x.type = "append_file") \/ (\E b \in AllBlocks : IsAdded(b)) =>
            Holds(First) \/ \E x \in net' : x.type = "append_file" /\ x.to = First
    BY <1>2, <1>5, <2>1, StillHeading
  <2>. QED BY <1>1, <1>2, <1>3, <1>4, <1>6, <2>1, <2>2, MailOnly
<1>7. CASE /\ ~Holds(m.to)
           /\ store' = [store EXCEPT ![m.to] = CreateFile(@, Float64(FileHash), m.client, <<m.write>>)]
           /\ \A x \in net' :
                \/ x \in net \ {m} \/ x.type = "replication_ack"
                \/ x.type = "replicate_file" /\ x.write = m.write /\ x.succ = m.succ /\ x.client = m.client
  <2>1. m.index \in 1..Len(m.succ) /\ m.to = m.succ[m.index] BY <1>1 DEF Sound, Mail, Fine, Linked
  <2>2. PICK c \in chains : c.write = m.write /\ m.client = Maker(c) BY <1>1, <1>2 DEF Underway
  <2>3. c \in chains' /\ Maker(c)' = Maker(c) BY <1>1 DEF Maker
  <2>4. m.to \in Replicas BY <1>1, <1>2, <2>1 DEF Underway
  <2>5. PICK g : g = CreateFile(store[m.to], Float64(FileHash), m.client, <<m.write>>) OBVIOUS
  <2>6. store' = [store EXCEPT ![m.to] = g] BY <1>7, <2>5
  <2>7. g.exists /\ GetAllBlocks(g) = {[client |-> m.client, seq |-> 1, data |-> <<m.write>>]} BY <1>7, <2>5, NewBlocks DEF Holds
  <2>8. GetAllBlocks(g) = {Made(c)'} BY <2>2, <2>3, <2>7 DEF Made
  <2>9. ASSUME NEW x \in net', x \notin net PROVE x.type \notin MergeTypes /\ x.type # "append_file" /\ Underway(x)'
    <3>1. CASE x.type = "replication_ack" BY <3>1 DEF Underway, MergeTypes
    <3>2. CASE x.type = "replicate_file" /\ x.write = m.write /\ x.succ = m.succ /\ x.client = m.client
      <4>1. \A i \in 1..Len(x.succ) : x.succ[i] \in Replicas BY <1>1, <1>2, <3>2 DEF Underway
      <4>2. Replicas' = Replicas BY <1>1 DEF Replicas, Up
      <4>3. Underway(x)' BY <2>2, <2>3, <3>2, <4>1, <4>2, CreateUnderway
      <4>. QED BY <3>2, <4>3 DEF MergeTypes
    <3>. QED BY <1>7, <2>9, <3>1, <3>2
  <2>. QED BY <1>1, <1>2, <1>3, <1>4, <1>5, <1>7, <2>3, <2>4, <2>6, <2>7, <2>8, <2>9, TakeMade
<1>. QED BY <1>6, <1>7, ReplicateDoes

\* An ack.
LEMMA RecvAckOrderly ==
  ASSUME Sound, Chained, Alone, Orderly, NEW m \in net, RecvAck(m) PROVE Orderly'
<1>1. /\ m.type = "replication_ack" /\ net \ {m} \subseteq net' /\ UNCHANGED <<up, view, store, scans, merge, writes, chains>>
      /\ \A x \in net' : x \in net \ {m} \/ x.type = "replication_ack"
  BY AckDoes
<1>2. ~fresh /\ ~MergeGoesOn /\ Loose BY <1>1, OtherMail DEF MergeTypes
<1>3. ~fresh' BY <1>2 DEF RecvAck
<1>4. Longer /\ Len(writes') \in Nat /\ chains \subseteq chains' /\ \A b : IsAdded(b)' => IsAdded(b) BY <1>1, SameWrites
<1>5. \A x \in net' : x \in net \/ (x.type \notin MergeTypes /\ Underway(x)' /\ x.type # "append_file")
  BY <1>1 DEF Underway, MergeTypes
<1>6. (\E x \in net' : x.type = "append_file") \/ (\E b \in AllBlocks : IsAdded(b)) =>
          Holds(First) \/ \E x \in net' : x.type = "append_file" /\ x.to = First
  <2>1. \A x \in net' : x.type = "append_file" => x \in net BY <1>1
  <2>2. \A x \in net : x.type = "append_file" => x \in net' BY <1>1
  <2>. QED BY <1>2, <2>1, <2>2, StillHeading
<1>. QED BY <1>1, <1>2, <1>3, <1>4, <1>5, <1>6, MailOnly

\* An append that comes to a replica.
LEMMA RecvAppendOrderly ==
  ASSUME Sound, Chained, Alone, Orderly, NEW m \in net, RecvAppend(m) PROVE Orderly'
<1>1. m.type = "append_file" /\ UNCHANGED <<up, view, scans, merge, writes, chains>> BY AppendDoes
<1>2. ~fresh /\ ~MergeGoesOn /\ Loose /\ Underway(m) BY <1>1, OtherMail DEF MergeTypes
<1>3. ~fresh' BY <1>2 DEF RecvAppend
<1>4. m.to \in Replicas /\ m.to \in Nodes /\ up[m.to] BY <1>1, <1>2, Stands DEF Underway, Orderly, Up
<1>5. Successors(FileHash, view[m.to], NumReplicas) = Replicas BY <1>4, Stands, ToReplicas DEF Orderly
<1>6. net' = net \ {m} /\ store' = [store EXCEPT ![m.to] = AppendFile(@, m.client, <<m.write>>)]
  BY <1>4, <1>5, AppendDoes
<1>. QED BY <1>1, <1>2, <1>3, <1>6, TakeAdded

----------------------------------------------------------------------------
(* The merge puts in order *)

\* The messages of a merge, and who drives it, tell its stage.
LEMMA StageLoose ==
  ASSUME Sound, Alone, Orderly
  PROVE  /\ \A m \in net : m.type = "merge_request" => fresh /\ Loose /\ net = {m} /\ NobodyMerges /\ up[m.to] /\ m.to \in Nodes
         /\ \A n \in Nodes : merge[n].phase = "collect" => fresh /\ Loose /\ Driven /\ n = First
         /\ \A n \in Nodes : merge[n].phase = "send" => fresh /\ Joined /\ n = First
         /\ \A m \in net : m.type \in {"merge_update", "merge_recreate"} => fresh /\ \E D : Renewed(D)
<1>1. ASSUME NEW m \in net, m.type = "merge_request" PROVE fresh /\ Loose /\ net = {m} /\ NobodyMerges /\ up[m.to] /\ m.to \in Nodes
  <2>1. fresh BY <1>1 DEF Orderly, MergeGoesOn, MergeTypes
  <2>2. net = {m} /\ NobodyMerges BY <1>1, <2>1 DEF Alone, Asking, Driven, Spread, Spreading, GivenUp
  <2>3. Loose BY <1>1 DEF Orderly, Joined, Driven, Renewed, Spreading
  <2>. QED BY <2>1, <2>2, <2>3, Fields DEF Sound, Mail, Fine
<1>2. ASSUME NEW n \in Nodes, merge[n].phase = "collect" PROVE fresh /\ Loose /\ Driven /\ n = First
  <2>1. fresh BY <1>2 DEF Orderly, MergeGoesOn
  <2>2. Driven /\ n = First BY <1>2, <2>1, DriverIsFirst
  <2>3. Loose BY <1>2, <2>2 DEF Orderly, Joined, Renewed, NobodyMerges
  <2>. QED BY <2>1, <2>2, <2>3
<1>3. ASSUME NEW n \in Nodes, merge[n].phase = "send" PROVE fresh /\ Joined /\ n = First
  <2>1. fresh BY <1>3 DEF Orderly, MergeGoesOn
  <2>2. Driven /\ n = First BY <1>3, <2>1, DriverIsFirst
  <2>3. Joined BY <1>3, <2>2 DEF Orderly, Loose, Picking, Renewed, NobodyMerges
  <2>. QED BY <2>1, <2>2, <2>3
<1>4. ASSUME NEW m \in net, m.type \in {"merge_update", "merge_recreate"} PROVE fresh /\ \E D : Renewed(D)
  <2>1. fresh BY <1>4 DEF Orderly, MergeGoesOn, MergeTypes
  <2>2. ~Loose BY <1>4 DEF Loose, Underway
  <2>3. ~Joined BY <1>4 DEF Joined, Driven
  <2>. QED BY <2>1, <2>2, <2>3 DEF Orderly
<1>. QED BY <1>1, <1>2, <1>3, <1>4

\* While it collects, nothing is written.
LEMMA BlocksStay ==
  ASSUME Sound, Chained, Loose, UNCHANGED <<up, store, writes, chains>>, \A m \in net' : m.type = "append_file" => m \in net
  PROVE  (Raw \/ \E D : Based(D))' /\ OneBase'
<1>1. Longer /\ Len(writes') \in Nat /\ chains \subseteq chains' BY SameWrites
<1>2. AllBlocks' = AllBlocks /\ \A n \in Nodes : Holds(n)' = Holds(n) BY DEF AllBlocks, Holds
<1>3. \A r \in Replicas : Holds(r) => Holds(r)' BY DEF Holds
<1>4. (Raw \/ \E D : Based(D))' BY <1>1, <1>2, <1>3, BaseStays DEF Loose
<1>5. OneBase' BY <1>1, SameBlocks DEF Loose, OneBase
<1>. QED BY <1>4, <1>5

\* The start of a merge.
LEMMA StartOrderly ==
  ASSUME Sound, Chained, Orderly, Loose, NobodyMerges, \A m \in net : m.type = "merge_request",
         NEW n \in Nodes, up[n], StartMerge(n, {}), fresh', UNCHANGED <<up, view, store, scans, writes, chains>>
  PROVE  Orderly'
<1>1. TablesRight /\ First \in Nodes /\ up[First] BY Stands DEF Orderly
<1>2. view[n] = Up /\ First = Primary(FileHash, view[n]) BY <1>1, ToReplicas
<1>3. merge \in [Nodes -> Merges] BY DEF Sound, Driving
<1>4. /\ \A m \in net' : m.type = "merge_request"
      /\ \A k \in Nodes : merge'[k].phase # "send" /\ (merge'[k].phase = "collect" => merge'[k].blocks = {})
      /\ MergeGoesOn'
  <2>1. CASE First = n
    <3>1. PICK x : /\ x = [phase |-> "collect", succ |-> Successors(FileHash, view[n], NumReplicas),
                           left |-> Successors(FileHash, view[n], NumReplicas), blocks |-> {}]
                   /\ merge' = [merge EXCEPT ![n] = x] /\ net' = {}
      BY <1>2, <2>1 DEF StartMerge
    <3>2. x.phase = "collect" /\ x.blocks = {} BY <3>1
    <3>3. merge'[n] = x /\ \A k \in Nodes \ {n} : merge'[k].phase = "idle" BY <1>3, <3>1 DEF NobodyMerges
    <3>. QED BY <3>1, <3>2, <3>3 DEF MergeGoesOn
  <2>2. CASE First # n
    <3>1. PICK m : m = [type |-> "merge_request", from |-> n, to |-> First] OBVIOUS
    <3>2. Send({}, {m}) /\ UNCHANGED merge BY <1>2, <2>2, <3>1 DEF StartMerge
    <3>3. m.to = First /\ m.type = "merge_request" BY <3>1
    <3>4. net' = {m} BY <1>1, <3>2, <3>3 DEF Send, Reachable
    <3>5. MergeGoesOn' BY <3>3, <3>4 DEF MergeGoesOn, MergeTypes
    <3>. QED BY <3>2, <3>3, <3>4, <3>5 DEF NobodyMerges
  <2>. QED BY <2>1, <2>2
<1>5. (Raw \/ \E D : Based(D))' /\ OneBase' BY <1>4, BlocksStay
<1>6. \A m \in net' : Underway(m)' BY <1>4 DEF Underway
<1>7. Heading'
  <2>1. First' = First /\ AllBlocks' = AllBlocks /\ Holds(First)' = Holds(First) BY DEF First, Up, AllBlocks, Holds
  <2>2. \A b : IsAdded(b)' => IsAdded(b) BY SameWrites
  <2>3. (\E b \in AllBlocks : IsAdded(b)) => Holds(First) BY DEF Loose, Heading
  <2>. QED BY <1>4, <2>1, <2>2, <2>3 DEF Heading
<1>8. Picking' BY <1>4 DEF Picking
<1>9. Loose' BY <1>4, <1>5, <1>6, <1>7, <1>8 DEF Loose
<1>10. Steady' /\ scans' = {} /\ Replicas' = Replicas BY DEF Orderly, Steady, Replicas, Up
<1>. QED BY <1>9, <1>10 DEF Orderly

\* The merge command,
LEMMA MergeOrderly ==
  ASSUME "merge" \notin Overlaps, Sound, Chained, Orderly, NEW n \in Nodes, Merge(n) PROVE Orderly'
<1>1. net = {} /\ ~MergeGoesOn BY DEF Merge
<1>2. NobodyMerges /\ Loose BY <1>1, NotMergingLoose DEF MergeGoesOn, NobodyMerges
<1>3. up[n] /\ StartMerge(n, {}) /\ UNCHANGED <<up, view, store, scans, writes, chains>> BY <1>1 DEF Merge
<1>4. fresh' BY Stands DEF Merge, Orderly
<1>. QED BY <1>1, <1>2, <1>3, <1>4, StartOrderly

\* and the one that a request brings.
LEMMA RecvMergeRequestOrderly ==
  ASSUME Sound, Chained, Alone, Orderly, NEW m \in net, RecvMergeRequest(m) PROVE Orderly'
<1>1. m.type = "merge_request" BY DEF RecvMergeRequest
<1>2. fresh /\ Loose /\ net = {m} /\ NobodyMerges /\ up[m.to] /\ m.to \in Nodes BY <1>1, StageLoose
<1>3. StartMerge(m.to, {}) /\ fresh' /\ UNCHANGED <<up, view, store, scans, writes, chains>> BY <1>2 DEF RecvMergeRequest
<1>. QED BY <1>1, <1>2, <1>3, StartOrderly

\* What is collected are blocks of stores.
LEMMA MergeCollectOrderly ==
  ASSUME Sound, Chained, Alone, Orderly, NEW n \in Nodes, NEW r \in Nodes, MergeCollect(n, r) PROVE Orderly'
<1>1. merge[n].phase = "collect" BY DEF MergeCollect
<1>2. fresh /\ Loose /\ Driven /\ n = First BY <1>1, StageLoose
<1>3. /\ merge' = [merge EXCEPT ![n].left = @ \ {r},
                     ![n].blocks = IF up[r] /\ Holds(r) THEN Collected(@, GetAllBlocks(store[r])) ELSE @]
      /\ UNCHANGED <<up, view, store, net, scans, fresh, writes, chains>>
  BY DEF MergeCollect
<1>4. merge \in [Nodes -> Merges] /\ merge[n] \in Merges BY DEF Sound, Driving
<1>5. PICK B : B = IF up[r] /\ Holds(r) THEN Collected(merge[n].blocks, GetAllBlocks(store[r])) ELSE merge[n].blocks OBVIOUS
<1>6. PICK left : merge'[n] = [[merge[n] EXCEPT !.left = left] EXCEPT !.blocks = B]
  <2>1. PICK x : x = [merge[n] EXCEPT !.left = @ \ {r}] OBVIOUS
  <2>2. x.blocks = merge[n].blocks BY <1>4, <2>1 DEF Merges
  <2>3. merge'[n] = [x EXCEPT !.blocks = B] BY <1>3, <1>4, <1>5, <2>1, <2>2
  <2>. QED BY <2>1, <2>3
<1>7. merge'[n].phase = "collect" /\ merge'[n].blocks = B BY <1>1, <1>4, <1>6 DEF Merges
<1>8. \A k \in Nodes \ {n} : merge'[k] = merge[k] BY <1>3, <1>4
<1>9. B \subseteq AllBlocks
  <2>1. merge[n].blocks \subseteq AllBlocks BY <1>1, <1>2 DEF Loose, Picking
  <2>2. GetAllBlocks(store[r]) \subseteq AllBlocks BY InStore
  <2>. QED BY <1>5, <2>1, <2>2 DEF Collected
<1>10. AllBlocks' = AllBlocks BY <1>3 DEF AllBlocks
<1>11. Picking' BY <1>2, <1>7, <1>8, <1>9, <1>10 DEF Loose, Picking
<1>12. (Raw \/ \E D : Based(D))' /\ OneBase' BY <1>2, <1>3, BlocksStay
<1>13. net' = {} /\ net = {} BY <1>2, <1>3 DEF Driven
<1>14. Heading'
  <2>1. First' = First /\ Holds(First)' = Holds(First) BY <1>3 DEF First, Up, Holds
  <2>2. \A b : IsAdded(b)' => IsAdded(b) BY <1>3, SameWrites
  <2>. QED BY <1>2, <1>10, <1>13, <2>1, <2>2 DEF Loose, Heading
<1>15. MergeGoesOn' BY <1>7 DEF MergeGoesOn
<1>16. Loose' BY <1>11, <1>12, <1>13, <1>14, <1>15 DEF Loose
<1>17. Steady' /\ scans' = {} /\ Replicas' = Replicas BY <1>3 DEF Orderly, Steady, Replicas, Up
<1>. QED BY <1>2, <1>3, <1>16, <1>17 DEF Orderly

\* MergeFile puts them in order; without a file there are no appends to put in order.
LEMMA MergeLocallyOrderly ==
  ASSUME Sound, Chained, CreatesOnce, Alone, Alone', Orderly, NEW n \in Nodes, MergeLocally(n) PROVE Orderly'
<1>1. merge[n].phase = "collect" BY DEF MergeLocally
<1>2. fresh /\ Loose /\ Driven /\ n = First BY <1>1, StageLoose
<1>3. UNCHANGED <<up, view, net, scans, fresh, writes, chains>> BY DEF MergeLocally
<1>4. merge \in [Nodes -> Merges] /\ store \in [Nodes -> Files] /\ merge[n] \in Merges BY DEF Sound, Driving, Shelf
<1>5. Steady' /\ scans' = {} /\ Replicas' = Replicas /\ First' = First /\ First \in Replicas
  BY <1>3, Stands DEF Orderly, Steady, Replicas, First, Up
<1>6. CASE Holds(n) /\ store' = [store EXCEPT ![n] = MergeFile(@, merge[n].blocks)]
           /\ merge' = [merge EXCEPT ![n].phase = "send", ![n].blocks = {}]
  <2>1. merge'[n] = [[merge[n] EXCEPT !.phase = "send"] EXCEPT !.blocks = {}] BY <1>4, <1>6
  <2>2. merge'[n].phase = "send" BY <1>4, <2>1 DEF Merges
  <2>3. Driven' BY <1>2, <1>3, <1>5, <2>2 DEF Alone, Asking, Spread, GivenUp, NobodyMerges
  <2>4. PICK f \in Files : f = store[n] BY <1>4
  <2>5. PICK S : S = merge[n].blocks OBVIOUS
  <2>6. S \in SUBSET AllBlocks BY <1>1, <1>2, <2>5 DEF Loose, Picking
  <2>7. S \in SUBSET Blocks /\ KeysDiffer(S) /\ IsFiniteSet(S) BY <1>4, <2>5 DEF Sound, Driving, Merges
  <2>8. Proper(ReadFile(MergeFile(f, S))) BY <1>2, <2>6, <2>7, MergeProper DEF Loose
  <2>9. store'[n] = MergeFile(f, S) /\ \A k \in Nodes \ {n} : store'[k] = store[k] BY <1>4, <1>6, <2>4, <2>5
  <2>10. Proper(ReadFile(store'[First])) BY <1>2, <2>8, <2>9
  <2>11. Longer /\ Len(writes') \in Nat BY <1>3, SameWrites
  <2>12. PICK D : D = ReadFile(store'[First]) OBVIOUS
  <2>13. Proper(D)' BY <2>10, <2>11, <2>12, SameProper
  <2>14. Joined' BY <1>2, <1>5, <2>2, <2>3, <2>12, <2>13 DEF Joined
  <2>15. \A k \in Nodes : GetAllBlocks(store'[k]) # {} => k \in Replicas BY <1>2, <1>5, <2>9 DEF Orderly
  <2>. QED BY <1>2, <1>3, <1>5, <2>14, <2>15 DEF Orderly
<1>7. CASE ~Holds(n) /\ merge' = [merge EXCEPT ![n] = Idle] /\ UNCHANGED store
  <2>1. merge'[n].phase = "idle" /\ \A k \in Nodes \ {n} : merge'[k] = merge[k] BY <1>4, <1>7 DEF Idle
  <2>2. \A k \in Nodes : merge'[k].phase = "idle" BY <1>2, <2>1 DEF Driven
  <2>3. net = {} /\ net' = {} BY <1>2, <1>3 DEF Driven
  <2>4. \A b \in AllBlocks : ~IsAdded(b) BY <1>2, <1>7, <2>3 DEF Loose, Heading
  <2>5. AllBlocks' = AllBlocks /\ \A b : IsAdded(b)' => IsAdded(b) BY <1>3, <1>7, SameWrites DEF AllBlocks
  <2>6. Compact' BY <2>4, <2>5 DEF Compact
  <2>7. Heading' BY <2>3, <2>4, <2>5 DEF Heading
  <2>8. Picking' BY <2>2 DEF Picking
  <2>9. (Raw \/ \E D : Based(D))' /\ OneBase' BY <1>2, <1>3, <1>7, BlocksStay
  <2>10. Loose' BY <2>3, <2>6, <2>7, <2>8, <2>9 DEF Loose
  <2>. QED BY <1>2, <1>3, <1>5, <1>7, <2>10 DEF Orderly
<1>. QED BY <1>6, <1>7 DEF MergeLocally

\* The updates are for all replicas.
LEMMA MergeSendOrderly ==
  ASSUME Sound, Alone, Orderly, NEW n \in Nodes, MergeSend(n) PROVE Orderly'
<1>1. merge[n].phase = "send" /\ merge' = [merge EXCEPT ![n] = Idle] /\ UNCHANGED <<up, view, store, scans, writes, chains>> BY SendDoes
<1>2. fresh /\ Joined /\ n = First BY <1>1, StageLoose
<1>3. Holds(n) /\ net = {} /\ merge[n].succ = Replicas BY <1>1, <1>2 DEF Joined, Driven
<1>4. PICK D : D = ReadFile(store[n]) OBVIOUS
<1>5. PICK new : new = {[type |-> "merge_update", from |-> n, to |-> r, data |-> D] : r \in Replicas} OBVIOUS
<1>6. Send({}, new) BY <1>3, <1>4, <1>5 DEF MergeSend
<1>7. Replicas \subseteq Up BY Stands DEF Orderly
<1>8. \A m \in new : m.type = "merge_update" /\ m.data = D /\ m.to \in Replicas /\ up[m.to]
  BY <1>5, <1>7 DEF Up
<1>9. net' = new BY <1>6, <1>8 DEF Send, Reachable
<1>10. \A m, k \in new : m.to = k.to => m = k BY <1>5
<1>11. \A r \in Replicas : \E m \in new : m.to = r
  <2>. TAKE r \in Replicas
  <2>1. [type |-> "merge_update", from |-> n, to |-> r, data |-> D] \in new BY <1>5
  <2>. QED BY <2>1
<1>12. Steady' /\ scans' = {} /\ Replicas' = Replicas BY <1>1 DEF Orderly, Steady, Replicas, Up
<1>13. Spreading(D)' BY <1>8, <1>9, <1>10, <1>11, <1>12 DEF Spreading
<1>14. merge \in [Nodes -> Merges] BY DEF Sound, Driving
<1>15. merge'[n].phase = "idle" /\ \A k \in Nodes \ {n} : merge'[k] = merge[k] BY <1>1, <1>14 DEF Idle
<1>16. NobodyMerges' BY <1>2, <1>15 DEF Joined, Driven, NobodyMerges
<1>17. Longer /\ Len(writes') \in Nat BY <1>1, SameWrites
<1>18. Proper(D)' BY <1>2, <1>4, <1>17, SameProper DEF Joined
<1>19. Renewed(D)' BY <1>8, <1>9, <1>11, <1>12, <1>13, <1>16, <1>18 DEF Renewed
<1>20. fresh' BY <1>2 DEF MergeSend
<1>. QED BY <1>1, <1>12, <1>19, <1>20 DEF Orderly

\* A replica deletes its file for the merged one,
LEMMA RecvMergeUpdateOrderly ==
  ASSUME Sound, Alone, Alone', Orderly, NEW m \in net, RecvMergeUpdate(m) PROVE Orderly'
<1>1. /\ m.type = "merge_update" /\ UNCHANGED <<up, view, scans, merge, writes, chains>>
      /\ store' = [store EXCEPT ![m.to] = NoFile]
  BY UpdateDoes
<1>2. PICK y : /\ y.type = "merge_recreate" /\ y.to = m.to /\ y.data = m.data /\ net' = (net \ {m}) \cup {y}
  BY UpdateDoes
<1>3. PICK D : fresh /\ Renewed(D) BY <1>1, StageLoose
<1>4. fresh' BY <1>3 DEF RecvMergeUpdate
<1>5. m.data = D /\ m.to \in Replicas BY <1>3 DEF Renewed, Spreading
<1>6. Spread' BY <1>2, <1>4 DEF Alone, Asking, Driven, GivenUp
<1>7. PICK E : Spreading(E)' BY <1>6 DEF Spread
<1>8. E = D BY <1>2, <1>5, <1>7 DEF Spreading
<1>9. Spreading(D)' /\ NobodyMerges' BY <1>6, <1>7, <1>8 DEF Spread
<1>10. Steady' /\ scans' = {} /\ Replicas' = Replicas /\ Replicas \subseteq Nodes
  BY <1>1, Stands DEF Orderly, Steady, Replicas, Up
<1>11. store \in [Nodes -> Files] BY DEF Sound, Shelf
<1>12. \A r \in Nodes \ {m.to} : store'[r] = store[r] BY <1>1, <1>11
<1>13. Longer /\ Len(writes') \in Nat BY <1>1, SameWrites
<1>14. Proper(D)' BY <1>3, <1>13, SameProper DEF Renewed
<1>15. \A x \in net' : x.to \in Replicas BY <1>2, <1>3, <1>5 DEF Renewed
<1>16. ASSUME NEW r \in Replicas PROVE GetAllBlocks(store'[r]) = {Merged(D)} \/ \E x \in net' : x.to = r
  <2>1. CASE r = m.to BY <1>2, <2>1
  <2>2. CASE r # m.to
    <3>1. store'[r] = store[r] BY <1>10, <1>12, <2>2
    <3>2. GetAllBlocks(store[r]) = {Merged(D)} \/ \E x \in net : x.to = r BY <1>3 DEF Renewed
    <3>. QED BY <1>2, <2>2, <3>1, <3>2
  <2>. QED BY <2>1, <2>2
<1>17. Renewed(D)' BY <1>9, <1>10, <1>14, <1>15, <1>16 DEF Renewed, Merged
<1>18. \A k \in Nodes : GetAllBlocks(store'[k]) # {} => k \in Replicas BY <1>5, <1>12 DEF Orderly
<1>. QED BY <1>4, <1>10, <1>17, <1>18 DEF Orderly

\* and makes it, of one block.
LEMMA RecreateOrderly ==
  ASSUME Sound, Alone, Alone', Orderly, NEW m \in net, Recreate(m) PROVE Orderly'
<1>1. /\ m.type = "merge_recreate" /\ UNCHANGED <<up, view, scans, merge, writes, chains, fresh>>
      /\ store' = [store EXCEPT ![m.to] = CreateFile(@, Float64(FileHash), MergedClient, m.data)] /\ net' = net \ {m}
  BY DEF Recreate
<1>2. PICK D : fresh /\ Renewed(D) BY <1>1, StageLoose
<1>3. m.data = D /\ m.to \in Replicas /\ ~Holds(m.to) BY <1>1, <1>2 DEF Renewed, Spreading
<1>4. Steady' /\ scans' = {} /\ Replicas' = Replicas /\ Replicas \subseteq Nodes
  BY <1>1, Stands DEF Orderly, Steady, Replicas, Up
<1>5. PICK f \in Files : f = store[m.to] /\ KeysApart(f) /\ ~f.exists BY <1>3, <1>4 DEF Sound, Shelf, Holds
<1>6. PICK id \in Nat : id = Float64(FileHash) BY HashTypes
<1>7. PICK client \in Clientele : client = MergedClient BY MergedIs DEF Merged
<1>8. D \in Seq(Nat) BY <1>2 DEF Renewed, Proper
<1>9. PICK g : g = CreateFile(f, id, client, D) OBVIOUS
<1>10. store \in [Nodes -> Files] /\ m.to \in Nodes BY <1>3, <1>4 DEF Sound, Shelf
<1>11. store'[m.to] = g /\ \A r \in Nodes \ {m.to} : store'[r] = store[r]
  BY <1>1, <1>3, <1>5, <1>6, <1>7, <1>9, <1>10
<1>12. g.exists /\ GetAllBlocks(g) = {Merged(D)} BY <1>5, <1>7, <1>9, NewBlocks DEF Merged
<1>13. ReadFile(g) = D
  <2>1. ~f.exists BY <1>5
  <2>. QED BY <2>1, <1>8, <1>9, NewContent
<1>14. Has(m.to, D)' BY <1>11, <1>12, <1>13 DEF Has, Holds
<1>15. NobodyMerges' BY <1>1, <1>2 DEF Renewed, NobodyMerges
<1>16. Spreading(D)'
  <2>1. ASSUME NEW x \in net'
        PROVE  /\ x.type \in {"merge_update", "merge_recreate"} /\ x.data = D
               /\ x.type = "merge_recreate" => ~Holds(x.to)'
    <3>1. x \in net /\ x # m BY <1>1
    <3>2. x.to # m.to /\ x.to \in Nodes BY <1>2, <3>1, Addressed DEF Renewed, Spreading
    <3>. QED BY <1>2, <1>11, <3>1, <3>2 DEF Renewed, Spreading, Holds
  <2>2. \A x, k \in net' : x.to = k.to => x = k BY <1>1, <1>2 DEF Renewed, Spreading
  <2>3. ASSUME NEW r \in Replicas PROVE Has(r, D)' \/ \E x \in net' : x.to = r
    <3>1. CASE r = m.to BY <1>14, <3>1
    <3>2. CASE r # m.to
      <4>1. store'[r] = store[r] BY <1>4, <1>11, <3>2
      <4>2. Has(r, D) \/ \E x \in net : x.to = r BY <1>2 DEF Renewed, Spreading
      <4>. QED BY <1>1, <3>2, <4>1, <4>2 DEF Has, Holds
    <3>. QED BY <3>1, <3>2
  <2>. QED BY <1>4, <2>1, <2>2, <2>3 DEF Spreading
<1>17. Longer /\ Len(writes') \in Nat BY <1>1, SameWrites
<1>18. Proper(D)' BY <1>2, <1>17, SameProper DEF Renewed
<1>19. ASSUME NEW r \in Replicas PROVE GetAllBlocks(store'[r]) = {Merged(D)} \/ \E x \in net' : x.to = r
  <2>1. CASE r = m.to BY <1>11, <1>12, <2>1
  <2>2. CASE r # m.to
    <3>1. store'[r] = store[r] BY <1>4, <1>11, <2>2
    <3>2. GetAllBlocks(store[r]) = {Merged(D)} \/ \E x \in net : x.to = r BY <1>2 DEF Renewed
    <3>. QED BY <1>1, <2>2, <3>1, <3>2
  <2>. QED BY <2>1, <2>2
<1>20. \A x \in net' : x.to \in Replicas BY <1>1, <1>2 DEF Renewed
<1>21. Renewed(D)' BY <1>4, <1>15, <1>16, <1>18, <1>19, <1>20 DEF Renewed, Merged
<1>22. \A k \in Nodes : GetAllBlocks(store'[k]) # {} => k \in Replicas BY <1>3, <1>11 DEF Orderly
<1>. QED BY <1>1, <1>2, <1>4, <1>21, <1>22 DEF Orderly

----------------------------------------------------------------------------
(* Every step keeps the order *)

\* Creates are known by their numbers after any step.
LEMMA ChainedStep == ASSUME Sound, Chained, [Next]_vars PROVE Chained'
<1>1. Numbered' BY NumberedStep DEF Chained
<1>2. \A d \in chains : d.write # Len(writes) + 1 BY WriteTypes DEF Chained, Numbered, IsCreate
<1>3. CASE chains' \subseteq chains BY <1>1, <1>3 DEF Chained
<1>4. ASSUME NEW c \in chains', c \notin chains PROVE Chained'
  <2>1. PICK n \in Nodes : Create(n) \/ CLICreate(n) BY <1>4, NewChain
  <2>2. PICK x : chains' = chains \cup {x} BY <2>1, CreateDoes, CLICreateDoes
  <2>3. x = c /\ c.write = Len(writes) + 1 BY <1>4, <2>2, NewChain
  <2>. QED BY <1>1, <1>2, <2>2, <2>3 DEF Chained
<1>. QED BY <1>3, <1>4

\* No step takes a write back.
LEMMA WritesGrow == ASSUME Sound, Sound', [Next]_vars PROVE Longer /\ Len(writes') \in Nat
<1>1. ASSUME NEW m \in net, Receive(m) PROVE UNCHANGED writes
  BY <1>1, Zenon DEF Receive, RecvReplicate, RecvAck, RecvAppend, RecvRereplicate, RecvMergeRequest, RecvMergeUpdate, Recreate
<1>2. ASSUME NEW n \in Nodes, Merge(n) \/ MergeLocally(n) \/ MergeSend(n) \/ \E r \in Nodes : MergeCollect(n, r)
      PROVE  UNCHANGED writes
  BY <1>2, Zenon DEF Merge, MergeLocally, MergeSend, MergeCollect
<1>3. ASSUME NEW n \in Nodes, NEW s, Crash(n) \/ Join(n) \/ LearnFailed(n, s) \/ LearnJoined(n, s) \/ LearnByProbe(n, s) PROVE UNCHANGED writes
  BY <1>3, Zenon DEF Crash, Join, LearnFailed, LearnJoined, LearnByProbe
<1>4. ASSUME NEW s \in scans, Scan(s) PROVE UNCHANGED writes BY <1>4, ScanDoes
<1>5. ASSUME UNCHANGED vars PROVE UNCHANGED writes BY <1>5 DEF vars
<1>6. ASSUME NEW n \in Nodes, Create(n) \/ CLICreate(n) \/ AppendTo(n) PROVE \E x : writes' = Append(writes, x)
  BY <1>6, Zenon DEF Create, CLICreate, AppendTo
<1>7. UNCHANGED writes \/ \E x : writes' = Append(writes, x) BY <1>1, <1>2, <1>3, <1>4, <1>5, <1>6 DEF Next
<1>8. Longer BY <1>7, LongerStep DEF Sound
<1>9. Len(writes') \in Nat
  <2>1. writes' \in Seq([by : Nodes, kind : {"create", "append"}]) BY DEF Sound, Records
  <2>. QED BY <2>1
<1>. QED BY <1>8, <1>9

\* So whoever has created once has not created twice before.
LEMMA CreatedOnce == ASSUME Sound, Sound', [Next]_vars, CreatesOnce' PROVE CreatesOnce
<1>1. Longer /\ Len(writes') \in Nat /\ Len(writes) \in Nat BY WritesGrow, WriteTypes
<1>2. \A w \in 1..Len(writes) : w \in 1..Len(writes') /\ writes'[w] = writes[w] BY <1>1 DEF Longer
<1>. QED BY <1>2 DEF CreatesOnce

\* If nobody has come or gone, the step was none of the membership.
LEMMA CalmBefore == ASSUME Sound, Rooted, [Next]_vars, Calm' PROVE Calm
<1>1. up \in [Nodes -> BOOLEAN] /\ \A k \in Nodes : up[k] => k \in view[k] BY DEF Sound, Tables
<1>2. NoJoins' BY DEF Calm, NoJoins
<1>3. NoJoins BY <1>2, NoJoinsBefore
<1>4. ASSUME UNCHANGED up PROVE Calm BY <1>3, <1>4 DEF Calm, NoJoins
<1>5. ASSUME NEW n \in Nodes, Crash(n) PROVE FALSE
  <2>1. up[n] /\ up' = [up EXCEPT ![n] = FALSE] BY <1>5 DEF Crash
  <2>2. n \in Started BY <1>1, <1>3, <2>1 DEF NoJoins
  <2>. QED BY <1>1, <2>1, <2>2 DEF Calm
<1>6. ASSUME NEW n \in Nodes, NEW s, LearnFailed(n, s) \/ LearnJoined(n, s) \/ LearnByProbe(n, s) PROVE UNCHANGED up
  BY <1>6, Zenon DEF LearnFailed, LearnJoined, LearnByProbe
<1>. QED BY <1>2, <1>4, <1>5, <1>6, MembershipStep, NobodyNew

\* and there was nobody to learn of.
LEMMA NothingLearned ==
  ASSUME Sound, Rooted, Orderly, Calm', NEW n \in Nodes
  PROVE  /\ ~Crash(n) /\ ~Join(n)
         /\ \A gone \in SUBSET (view[n] \ Up) : ~LearnFailed(n, gone)
         /\ \A new \in SUBSET (Up \ view[n]) : ~LearnJoined(n, new)
         /\ \A m \in Nodes : ~LearnByProbe(n, m)
<1>1. up \in [Nodes -> BOOLEAN] /\ Up = Started BY Stands DEF Sound, Tables, Orderly
<1>2. \A k \in Nodes : up[k] => view[k] = Up BY <1>1 DEF Orderly, Steady
<1>3. ~Crash(n)
  <2>1. up[n] => n \in Started BY <1>1 DEF Up
  <2>2. Crash(n) => up[n] /\ up' = [up EXCEPT ![n] = FALSE] BY DEF Crash
  <2>. QED BY <1>1, <2>1, <2>2 DEF Calm
<1>4. ~Join(n)
  <2>1. NoJoins' BY DEF Calm, NoJoins
  <2>. QED BY <2>1, NobodyNew
<1>5. \A gone \in SUBSET (view[n] \ Up) : ~LearnFailed(n, gone) BY <1>2 DEF LearnFailed
<1>6. \A new \in SUBSET (Up \ view[n]) : ~LearnJoined(n, new) BY <1>2 DEF LearnJoined
<1>7. ASSUME NEW m \in Nodes, LearnByProbe(n, m) PROVE FALSE
  <2>1. up[n] BY <1>7 DEF LearnByProbe
  <2>2. \E gone \in SUBSET (view[n] \ Up), new \in SUBSET (Up \ view[n]) : gone \cup new # {} BY <1>7, ProbeDoes
  <2>3. view[n] # Up BY <2>2
  <2>. QED BY <1>2, <2>1, <2>3
<1>. QED BY <1>3, <1>4, <1>5, <1>6, <1>7

\* All actions.
LEMMA OrderlyStep ==
  ASSUME "write" \notin Overlaps, "merge" \notin Overlaps, Sound, Rooted, Alone, Alone', Chained, CreatesOnce, Orderly,
         [Next]_vars, Calm'
  PROVE  Orderly'
<1>1. ASSUME NEW m \in net, Receive(m) PROVE Orderly'
  <2>1. ASSUME RecvRereplicate(m) PROVE FALSE
    <3>1. m.type = "rereplicate_file" BY <2>1 DEF RecvRereplicate
    <3>2. Underway(m) BY <3>1, OtherMail DEF MergeTypes
    <3>. QED BY <3>1, <3>2 DEF Underway
  <2>. QED BY <1>1, <2>1, RecvReplicateOrderly, RecvAckOrderly, RecvAppendOrderly, RecvMergeRequestOrderly,
              RecvMergeUpdateOrderly, RecreateOrderly DEF Receive
<1>2. ASSUME NEW n \in Nodes, Create(n) \/ CLICreate(n) \/ AppendTo(n) \/ Merge(n) PROVE Orderly'
  BY <1>2, CreateOrderly, CLICreateOrderly, AppendToOrderly, MergeOrderly
<1>3. ASSUME NEW n \in Nodes, MergeLocally(n) \/ MergeSend(n) PROVE Orderly'
  BY <1>3, MergeLocallyOrderly, MergeSendOrderly
<1>4. ASSUME NEW n \in Nodes, NEW r \in Nodes, MergeCollect(n, r) PROVE Orderly' BY <1>4, MergeCollectOrderly
<1>5. ASSUME NEW s \in scans, Scan(s) PROVE FALSE BY DEF Orderly
<1>6. CASE UNCHANGED vars
  <2>1. UNCHANGED <<up, view, store, net, scans, merge, writes, chains, fresh>> BY <1>6 DEF vars
  <2>2. Up' = Up /\ First' = First /\ Replicas' = Replicas /\ AllBlocks' = AllBlocks /\ MergeGoesOn' = MergeGoesOn
    BY <2>1 DEF Up, First, Replicas, AllBlocks, MergeGoesOn
  <2>3. /\ \A b : IsAdded(b)' = IsAdded(b) /\ IsMade(b)' = IsMade(b)
        /\ Appended' = Appended /\ \A w : Added(w)' = Added(w)
        /\ \A c : Maker(c)' = Maker(c)
    BY <2>1 DEF IsAdded, IsMade, Appended, Added, Made, Maker
  <2>4. \A D : Proper(D)' = Proper(D) BY <2>1 DEF Proper, Sequel
  <2>5. \A n : Holds(n)' = Holds(n) BY <2>1 DEF Holds
  <2>6. Raw' = Raw /\ OneBase' = OneBase /\ Compact' = Compact BY <2>1, <2>2, <2>3 DEF Raw, OneBase, Compact
  <2>7. \A D : Based(D) => Based(D)' BY <2>1, <2>2, <2>3, <2>4, <2>5 DEF Based, Merged
  <2>8. \A m : Underway(m) => Underway(m)' BY <2>1, <2>2, <2>3 DEF Underway
  <2>9. Heading => Heading' BY <2>1, <2>2, <2>3, <2>5 DEF Heading
  <2>10. Picking => Picking' BY <2>1, <2>2 DEF Picking
  <2>11. Loose => Loose' BY <2>1, <2>2, <2>6, <2>7, <2>8, <2>9, <2>10 DEF Loose
  <2>12. Joined => Joined' BY <2>1, <2>2, <2>4, <2>5 DEF Joined, Driven
  <2>13. \A D : Renewed(D) => Renewed(D)' BY <2>1, <2>2, <2>4, <2>5 DEF Renewed, NobodyMerges, Spreading, Has, Merged
  <2>14. Steady' BY <2>1 DEF Orderly, Steady
  <2>. QED BY <2>1, <2>2, <2>11, <2>12, <2>13, <2>14 DEF Orderly
<1>. QED BY <1>1, <1>2, <1>3, <1>4, <1>5, <1>6, NothingLearned DEF Next

\* ... for as long as nobody comes or goes, or creates twice.
LEMMA LinedStep ==
  ASSUME "write" \notin Overlaps, "merge" \notin Overlaps, Sound, Sound', Rooted, Alone, Alone', Lined, [Next]_vars
  PROVE  Lined'
<1>1. Chained' BY ChainedStep DEF Lined
<1>2. ASSUME Calm', CreatesOnce' PROVE Orderly'
  <2>1. Calm /\ CreatesOnce BY <1>2, CalmBefore, CreatedOnce
  <2>. QED BY <1>2, <2>1, OrderlyStep DEF Lined
<1>. QED BY <1>1, <1>2 DEF Lined

\* At first there is nothing to put in order.
LEMMA InitLined == Init => Lined /\ Rooted /\ Alone
<1>. SUFFICES ASSUME Init PROVE Lined /\ Rooted /\ Alone OBVIOUS
<1>1. /\ net = {} /\ scans = {} /\ chains = {} /\ ~fresh
      /\ \A n \in Nodes : store[n] = NoFile /\ merge[n] = Idle /\ up[n] = (n \in Started)
                          /\ view[n] = IF n \in Started THEN Started ELSE {}
  BY DEF Init
<1>2. Started \subseteq Nodes /\ Introducer \in Started BY RingAssumption
<1>3. Rooted BY <1>1, <1>2 DEF Rooted, Up
<1>4. Alone BY <1>1 DEF Alone
<1>5. Chained BY <1>1 DEF Chained, Numbered
<1>6. Steady BY <1>1 DEF Steady
<1>7. \A n \in Nodes : GetAllBlocks(store[n]) = {}
  <2>1. GetAllBlocks(NoFile) = {} BY DEF GetAllBlocks, NoFile, ToSet
  <2>. QED BY <1>1, <2>1
<1>8. AllBlocks = {} BY <1>7 DEF AllBlocks
<1>9. Raw /\ OneBase /\ Heading BY <1>1, <1>7, <1>8 DEF Raw, OneBase, Heading
<1>10. (\A n \in Nodes : merge[n].phase = "idle") /\ Picking BY <1>1, IdleType DEF Picking
<1>11. Loose BY <1>1, <1>9, <1>10 DEF Loose
<1>12. ~MergeGoesOn BY <1>1, <1>10 DEF MergeGoesOn
<1>13. Orderly BY <1>1, <1>6, <1>7, <1>11, <1>12 DEF Orderly
<1>. QED BY <1>3, <1>4, <1>5, <1>13 DEF Lined

\* After a merge that met neither a write nor another merge, with nobody coming or
\* going, each node's writes are in the order of their issue and none is there
\* twice, whichever replicas had missed or swapped them (MergeFile's sort by client
\* and sequence number, the time in the client id of an append, handleCLIMerge).
THEOREM InOrder ==
  ASSUME "write" \notin Overlaps, "merge" \notin Overlaps PROVE Spec => []OrderPerClient
<1>1. Init => Lined /\ Rooted /\ Alone BY InitLined
<1>2. Sound /\ Rooted /\ [Next]_vars => Rooted' BY RootedStep
<1>3. Sound /\ Alone /\ [Next]_vars => Alone' BY AloneStep
<1>4. Sound /\ Sound' /\ Rooted /\ Alone /\ Alone' /\ Lined /\ [Next]_vars => Lined' BY LinedStep
<1>5. Sound /\ Lined => OrderPerClient BY LinedOrder
<1>. QED BY <1>1, <1>2, <1>3, <1>4, <1>5, AlwaysSound, PTL DEF Spec

============================================================================
