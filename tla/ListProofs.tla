------------------------------ MODULE ListProofs ------------------------------
(***************************************************************************)
(* Facts about lists, folds and orders that the other proofs rest on: what *)
(* is true of 0 and passed on is true of every number, and what a fold     *)
(* computes step by step.                                                  *)
(***************************************************************************)
EXTENDS SequencesExt, FiniteSetTheorems, SequenceTheorems, TLAPS

-----------------------------------------------------------------------------
(* Induction, with a set in the place of a predicate. *)

\* A set of numbers that is not empty has a least one.
LEMMA LeastNumber ==
  ASSUME NEW S \in SUBSET Nat, S # {}
  PROVE  \E n \in S : \A m \in S : n <= m
<1>1. PICK R : R = OpToRel(<, Nat)
  OBVIOUS
<1>2. R = { x \in Nat \X Nat : x[1] < x[2] }
  BY <1>1, Zenon DEF OpToRel
<1>3. IsWellFoundedOn(R, Nat)
  BY <1>1, NatLessThanWellFounded, Zenon
<1>4. PICK x \in S : \A y \in S : ~(<<y, x>> \in R)
  BY <1>3, WFMin
<1>5. ASSUME NEW m \in S PROVE x <= m
  <2>1. x \in Nat /\ m \in Nat
    OBVIOUS
  <2>2. <<m, x>> \in Nat \X Nat /\ <<m, x>>[1] = m /\ <<m, x>>[2] = x
    BY <2>1
  <2>3. ~(m < x)
    BY <1>2, <1>4, <2>2
  <2> QED BY <2>1, <2>3
<1> QED BY <1>5

\* What holds of 0 and passes from each number to the next holds of all.
LEMMA Induction ==
  ASSUME NEW S, 0 \in S, \A n \in Nat : n \in S => n + 1 \in S
  PROVE  Nat \subseteq S
<1> SUFFICES ASSUME Nat \ S # {} PROVE FALSE
  OBVIOUS
<1>1. PICK n \in Nat \ S : \A m \in Nat \ S : n <= m
  BY LeastNumber
<1>2. n # 0 /\ n - 1 \in Nat
  BY <1>1
<1>3. n - 1 \in S
  BY <1>1, <1>2
<1> QED BY <1>1, <1>2, <1>3

\* The same up to a bound.
LEMMA InductionTo ==
  ASSUME NEW N \in Nat, NEW S, 0 \in S, \A n \in 0..(N - 1) : n \in S => n + 1 \in S
  PROVE  0..N \subseteq S
<1>1. Nat \subseteq S \cup { n \in Nat : n > N }
  <2> DEFINE U == S \cup { n \in Nat : n > N }
  <2>1. 0 \in U
    OBVIOUS
  <2>2. ASSUME NEW n \in Nat, n \in U PROVE n + 1 \in U
    BY <2>2
  <2> HIDE DEF U
  <2>3. Nat \subseteq U
    BY <2>1, <2>2, Induction
  <2> QED BY <2>3 DEF U
<1> QED BY <1>1

-----------------------------------------------------------------------------
(* Greatest and least elements. *)

\* An upper bound of a set that is in it is its maximum.
LEMMA MaxIs ==
  ASSUME NEW s \in SUBSET Int, NEW m \in s, \A x \in s : x <= m
  PROVE  Max(s) = m
<1>1. m \in s /\ \A y \in s : m >= y
  OBVIOUS
<1>2. Max(s) \in s /\ \A y \in s : Max(s) >= y
  BY <1>1 DEF Max
<1>3. Max(s) \in Int /\ m \in Int /\ m >= Max(s) /\ Max(s) >= m
  BY <1>1, <1>2
<1> QED BY <1>3

\* A set of numbers with a bound has a maximum.
LEMMA MaxOf ==
  ASSUME NEW n \in Nat, NEW s \in SUBSET (0..n), s # {}
  PROVE  Max(s) \in s /\ \A x \in s : x <= Max(s)
<1> DEFINE gaps == { n - x : x \in s }
<1>1. gaps \in SUBSET Nat /\ gaps # {}
  <2>1. \A x \in s : n - x \in Nat
    OBVIOUS
  <2> QED BY <2>1
<1>2. PICK g \in gaps : \A h \in gaps : g <= h
  BY <1>1, LeastNumber
<1>3. PICK m \in s : g = n - m
  OBVIOUS
<1>4. \A x \in s : x <= m
  <2> TAKE x \in s
  <2>1. g <= n - x /\ x \in 0..n /\ m \in 0..n
    BY <1>2
  <2> QED BY <1>3, <2>1
<1>5. Max(s) = m
  BY <1>4, MaxIs
<1> QED BY <1>4, <1>5

\* A set of numbers that is not empty has a minimum.
LEMMA MinOf ==
  ASSUME NEW s \in SUBSET Nat, s # {}
  PROVE  Min(s) \in s /\ \A x \in s : Min(s) <= x
<1>1. PICK m \in s : \A x \in s : m <= x
  BY LeastNumber
<1> QED BY <1>1 DEF Min

\* The elements of a set that are less than this one.
Under(S, x) == { y \in S : y < x }

\* The elements of a finite set of numbers have the ranks from 0 on, one each.
LEMMA RankExists ==
  ASSUME NEW S \in SUBSET Int, IsFiniteSet(S)
  PROVE  /\ Cardinality(S) \in Nat
         /\ \A k \in 0..(Cardinality(S) - 1) : \E x \in S : Cardinality(Under(S, x)) = k
         /\ \A x \in S : Cardinality(Under(S, x)) \in 0..(Cardinality(S) - 1)
         /\ \A x, y \in S : Cardinality(Under(S, x)) = Cardinality(Under(S, y)) => x = y
<1> DEFINE n == Cardinality(S)
           rank == [ x \in S |-> Cardinality(Under(S, x)) ]
<1>1. n \in Nat
  BY FS_CardinalityType
<1>2. \A x \in S : IsFiniteSet(Under(S, x)) /\ Cardinality(Under(S, x)) \in Nat /\ Cardinality(Under(S, x)) < n
  <2> TAKE x \in S
  <2> DEFINE T == Under(S, x)
  <2>1. T \in SUBSET S /\ x \notin T
    BY DEF Under
  <2> HIDE DEF T
  <2>2. IsFiniteSet(T) /\ Cardinality(T) <= n /\ (n = Cardinality(T) => S = T)
    BY <2>1, FS_Subset
  <2>3. Cardinality(T) \in Nat
    BY <2>2, FS_CardinalityType
  <2> QED BY <1>1, <2>1, <2>2, <2>3 DEF T
<1>3. rank \in [S -> 0..(n - 1)]
  BY <1>1, <1>2
<1>4. ASSUME NEW x \in S, NEW y \in S, x < y PROVE rank[x] < rank[y]
  <2> DEFINE T == Under(S, x)
             U == Under(S, y)
  <2>1. T \in SUBSET U /\ x \in U /\ x \notin T
    <3>1. \A z \in S : z < x => z < y
      BY <1>4
    <3>2. x < y /\ ~(x < x)
      BY <1>4
    <3> HIDE DEF rank
    <3> QED BY <3>1, <3>2, Zenon DEF Under
  <2>2. IsFiniteSet(U) /\ rank[x] = Cardinality(T) /\ rank[y] = Cardinality(U)
    BY <1>2
  <2>3. Cardinality(T) \in Nat /\ Cardinality(U) \in Nat
    BY <1>2
  <2> HIDE DEF T, U, rank
  <2>4. Cardinality(T) <= Cardinality(U) /\ (Cardinality(U) = Cardinality(T) => U = T)
    BY <2>1, <2>2, FS_Subset
  <2> QED BY <2>1, <2>2, <2>3, <2>4
<1> HIDE DEF rank
<1>5. \A x, y \in S : rank[x] = rank[y] => x = y
  <2> TAKE x, y \in S
  <2>1. x < y \/ y < x \/ x = y
    OBVIOUS
  <2>2. rank[x] \in Int /\ rank[y] \in Int
    BY <1>1, <1>3
  <2> QED BY <1>4, <2>1, <2>2
<1>6. rank \in Injection(S, 0..(n - 1))
  BY <1>3, <1>5 DEF Injection, IsInjective
<1>7. IsFiniteSet(0..(n - 1)) /\ Cardinality(0..(n - 1)) = n
  BY <1>1, FS_Interval
<1>8. rank \in Surjection(S, 0..(n - 1))
  BY <1>6, <1>7, FS_Injection
<1>9. \A k \in 0..(n - 1) : \E x \in S : rank[x] = k
  BY <1>8 DEF Surjection
<1> QED BY <1>1, <1>3, <1>5, <1>9 DEF rank

-----------------------------------------------------------------------------
(* Lists. *)

\* What is put in front of the rest of a list.
LEMMA InFront ==
  ASSUME NEW T, NEW s \in Seq(T), s # <<>>, NEW more \in Seq(T)
  PROVE  /\ more \o Tail(s) \in Seq(T)
         /\ \A x \in ToSet(s) : x = Head(s) \/ x \in ToSet(more \o Tail(s))
         /\ ToSet(more) \subseteq ToSet(more \o Tail(s))
<1>1. Tail(s) \in Seq(T) /\ Len(Tail(s)) = Len(s) - 1 /\ \A i \in 1..(Len(s) - 1) : Tail(s)[i] = s[i + 1]
  OBVIOUS
<1> DEFINE rest == Tail(s)
           all == more \o rest
<1> HIDE DEF rest
<1>2. all \in Seq(T) /\ Len(all) = Len(more) + Len(rest) /\ rest \in Seq(T) /\ Len(rest) = Len(s) - 1
  BY <1>1 DEF rest
<1>3. \A i \in 1..Len(more) : i \in 1..Len(all) /\ all[i] = more[i]
  BY <1>2
<1>4. \A i \in 1..Len(rest) : Len(more) + i \in 1..Len(all) /\ all[Len(more) + i] = rest[i]
  BY <1>2
<1>5. DOMAIN all = 1..Len(all) /\ DOMAIN more = 1..Len(more) /\ DOMAIN s = 1..Len(s)
  BY <1>2
<1> HIDE DEF all
<1>6. ToSet(more) \subseteq ToSet(all)
  BY <1>3, <1>5 DEF ToSet
<1>7. ASSUME NEW i \in DOMAIN s PROVE s[i] = Head(s) \/ s[i] \in ToSet(all)
  <2>1. CASE i = 1
    BY <2>1
  <2>2. CASE i # 1
    <3>1. i - 1 \in 1..Len(rest) /\ s[i] = rest[i - 1]
      BY <1>1, <1>2, <1>5, <2>2 DEF rest
    <3> QED BY <1>4, <1>5, <3>1 DEF ToSet
  <2> QED BY <2>1, <2>2
<1>8. \A x \in ToSet(s) : x = Head(s) \/ x \in ToSet(all)
  BY <1>7 DEF ToSet
<1> QED BY <1>2, <1>6, <1>8 DEF all, rest

\* The elements of two lists, one behind the other.
LEMMA ElementsOf ==
  ASSUME NEW T, NEW a \in Seq(T), NEW b \in Seq(T)
  PROVE  a \o b \in Seq(T) /\ ToSet(a \o b) = ToSet(a) \cup ToSet(b)
<1> DEFINE c == a \o b
<1>1. /\ c \in Seq(T) /\ Len(c) = Len(a) + Len(b)
      /\ \A i \in 1..Len(a) : c[i] = a[i]
      /\ \A i \in 1..Len(b) : c[Len(a) + i] = b[i]
  OBVIOUS
<1> HIDE DEF c
<1>2. DOMAIN a = 1..Len(a) /\ DOMAIN b = 1..Len(b) /\ DOMAIN c = 1..Len(c) /\ Len(a) \in Nat /\ Len(b) \in Nat
  BY <1>1
<1>3. ASSUME NEW i \in 1..Len(c) PROVE c[i] \in ToSet(a) \cup ToSet(b)
  <2>1. CASE i \in 1..Len(a)
    BY <1>1, <1>2, <2>1 DEF ToSet
  <2>2. CASE i \notin 1..Len(a)
    <3>1. i - Len(a) \in 1..Len(b) /\ i = Len(a) + (i - Len(a))
      BY <1>1, <1>2, <2>2
    <3>2. c[i] = b[i - Len(a)]
      BY <1>1, <3>1
    <3> QED BY <1>2, <3>1, <3>2 DEF ToSet
  <2> QED BY <2>1, <2>2
<1>4. ToSet(c) \subseteq ToSet(a) \cup ToSet(b)
  BY <1>2, <1>3 DEF ToSet
<1>5. ToSet(a) \subseteq ToSet(c)
  <2>1. \A i \in 1..Len(a) : i \in 1..Len(c)
    BY <1>1, <1>2
  <2> QED BY <1>1, <1>2, <2>1 DEF ToSet
<1>6. ToSet(b) \subseteq ToSet(c)
  <2>1. \A i \in 1..Len(b) : Len(a) + i \in 1..Len(c)
    BY <1>1, <1>2
  <2> QED BY <1>1, <1>2, <2>1 DEF ToSet
<1> QED BY <1>1, <1>4, <1>5, <1>6 DEF c

\* A list has its head, the elements of its tail, and no others.
LEMMA HeadAndTail ==
  ASSUME NEW T, NEW s \in Seq(T), s # <<>>
  PROVE  Tail(s) \in Seq(T) /\ ToSet(s) = {Head(s)} \cup ToSet(Tail(s))
<1>1. <<Head(s)>> \in Seq(T) /\ Tail(s) \in Seq(T) /\ s = <<Head(s)>> \o Tail(s)
  OBVIOUS
<1>2. ToSet(s) = ToSet(<<Head(s)>>) \cup ToSet(Tail(s))
  BY <1>1, ElementsOf
<1>3. ToSet(<<Head(s)>>) = {Head(s)}
  BY DEF ToSet
<1> QED BY <1>1, <1>2, <1>3

\* The elements of four lists, one behind the other.
LEMMA ElementsOfFour ==
  ASSUME NEW T, NEW a \in Seq(T), NEW b \in Seq(T), NEW c \in Seq(T), NEW d \in Seq(T)
  PROVE  /\ ((a \o b) \o c) \o d \in Seq(T)
         /\ ToSet(((a \o b) \o c) \o d) = ((ToSet(a) \cup ToSet(b)) \cup ToSet(c)) \cup ToSet(d)
<1>1. a \o b \in Seq(T) /\ ToSet(a \o b) = ToSet(a) \cup ToSet(b)
  BY ElementsOf
<1> DEFINE ab == a \o b
<1>2. ab \in Seq(T)
  BY <1>1
<1> HIDE DEF ab
<1>3. ab \o c \in Seq(T) /\ ToSet(ab \o c) = ToSet(ab) \cup ToSet(c)
  BY <1>2, ElementsOf
<1> DEFINE abc == ab \o c
<1>4. abc \in Seq(T)
  BY <1>3
<1> HIDE DEF abc
<1>5. abc \o d \in Seq(T) /\ ToSet(abc \o d) = ToSet(abc) \cup ToSet(d)
  BY <1>4, ElementsOf
<1> QED BY <1>1, <1>3, <1>5 DEF ab, abc

\* The elements of some lists.
AllOf(S, w) == UNION { ToSet(w[x]) : x \in S }

\* A list of lists in one, with the elements of each of them.
LEMMA FlattenIs ==
  ASSUME NEW T, NEW n \in Nat, NEW ss \in [1..n -> Seq(T)]
  PROVE  FlattenSeq(ss) \in Seq(T) /\ ToSet(FlattenSeq(ss)) = AllOf(1..n, ss)
<1>1. ss \in Seq(Seq(T)) /\ Len(ss) = n /\ DOMAIN ss = 1..n
  OBVIOUS
<1>2. CASE n = 0
  <2>1. FlattenSeq(ss) = <<>> /\ 1..n = {}
    BY <1>1, <1>2 DEF FlattenSeq
  <2>2. ToSet(<<>>) = {}
    BY DEF ToSet
  <2> QED BY <2>1, <2>2 DEF AllOf
<1>3. CASE n # 0
  <2> DEFINE Good(f, k) == \A i \in 1..k : f[i] = IF i = 1 THEN ss[i] ELSE f[i - 1] \o ss[i]
             S == { k \in 0..n : \E f \in [1..k -> Seq(T)] : Good(f, k) }
  <2>1. 0 \in S
    <3>1. [i \in 1..0 |-> <<>>] \in [1..0 -> Seq(T)] /\ Good([i \in 1..0 |-> <<>>], 0)
      OBVIOUS
    <3> HIDE DEF Good
    <3>2. \E f \in [1..0 -> Seq(T)] : Good(f, 0)
      BY <3>1
    <3>3. 0 \in 0..n
      OBVIOUS
    <3> QED BY <3>2, <3>3, Zenon
  <2>2. ASSUME NEW k \in 0..(n - 1), k \in S PROVE k + 1 \in S
    <3>1. PICK f \in [1..k -> Seq(T)] : Good(f, k)
      BY <2>2
    <3> DEFINE last == IF k = 0 THEN ss[1] ELSE f[k] \o ss[k + 1]
               g == [ i \in 1..(k + 1) |-> IF i = k + 1 THEN last ELSE f[i] ]
    <3>2. last \in Seq(T)
      <4>1. k + 1 \in 1..n /\ ss[k + 1] \in Seq(T)
        BY <1>1
      <4>2. CASE k = 0
        BY <4>1, <4>2
      <4>3. CASE k # 0
        <5>1. f[k] \in Seq(T)
          BY <4>3
        <5> QED BY <4>1, <4>3, <5>1
      <4> QED BY <4>2, <4>3
    <3>3. g \in [1..(k + 1) -> Seq(T)]
      <4> HIDE DEF last
      <4> QED BY <3>2
    <3>4. Good(g, k + 1)
      <4> SUFFICES ASSUME NEW i \in 1..(k + 1) PROVE g[i] = IF i = 1 THEN ss[i] ELSE g[i - 1] \o ss[i]
        OBVIOUS
      <4>1. CASE i = k + 1
        <5>1. g[i] = last
          BY <4>1
        <5>2. CASE k = 0
          BY <4>1, <5>1, <5>2
        <5>3. CASE k # 0
          <6>1. g[i - 1] = f[k]
            BY <4>1, <5>3
          <6>2. last = f[k] \o ss[k + 1]
            BY <5>3
          <6>3. i # 1
            BY <4>1, <5>3
          <6> HIDE DEF g, last
          <6> QED BY <4>1, <5>1, <6>1, <6>2, <6>3
        <5> QED BY <5>2, <5>3
      <4>2. CASE i # k + 1
        <5> HIDE DEF g
        <5>0. i \in 1..k
          BY <4>2
        <5>1. f[i] = IF i = 1 THEN ss[i] ELSE f[i - 1] \o ss[i]
          BY <3>1, <5>0
        <5>2. g[i] = f[i]
          BY <4>2 DEF g
        <5>3. i # 1 => g[i - 1] = f[i - 1]
          BY <5>0 DEF g
        <5> QED BY <5>1, <5>2, <5>3
      <4> QED BY <4>1, <4>2
    <3> HIDE DEF Good, g
    <3> QED BY <3>3, <3>4
  <2>3. 0..n \subseteq S
    <3> HIDE DEF S
    <3> QED BY <2>1, <2>2, InductionTo
  <2>4. n \in S
    <3> HIDE DEF S
    <3> QED BY <2>3
  <2>5. PICK f \in [1..n -> Seq(T)] : Good(f, n)
    BY <2>4
  <2>6. f = [ i \in 1..n |-> IF i = 1 THEN ss[i] ELSE f[i - 1] \o ss[i] ]
    BY <2>5
  <2> DEFINE def == CHOOSE g : g = [ i \in 1..Len(ss) |-> IF i = 1 THEN ss[i] ELSE g[i - 1] \o ss[i] ]
  <2>7. def = [ i \in 1..n |-> IF i = 1 THEN ss[i] ELSE def[i - 1] \o ss[i] ]
    BY <1>1, <2>6
  <2>8. FlattenSeq(ss) = def[n]
    BY <1>1, <1>3 DEF FlattenSeq
  <2> HIDE DEF def
  <2> DEFINE Up(i) == UNION { ToSet(ss[j]) : j \in 1..i }
             U == { k \in 0..n : \A i \in 1..k : def[i] \in Seq(T) /\ ToSet(def[i]) = Up(i) }
  <2>9. 0 \in U
    OBVIOUS
  <2>10. ASSUME NEW k \in 0..(n - 1), k \in U PROVE k + 1 \in U
    <3>1. k + 1 \in 1..n /\ ss[k + 1] \in Seq(T)
      BY <1>1
    <3>2. Up(k + 1) = Up(k) \cup ToSet(ss[k + 1])
      <4>1. 1..(k + 1) = (1..k) \cup {k + 1}
        OBVIOUS
      <4> QED BY <4>1
    <3>3. def[k + 1] \in Seq(T) /\ ToSet(def[k + 1]) = Up(k + 1)
      <4>1. CASE k = 0
        <5>1. k + 1 = 1 /\ def[k + 1] = ss[k + 1]
          BY <2>7, <3>1, <4>1
        <5>2. 1..k = {}
          BY <4>1
        <5>3. Up(k) = {}
          BY <5>2
        <5> HIDE DEF Up
        <5>4. Up(k + 1) = ToSet(ss[k + 1])
          BY <3>2, <5>3
        <5> QED BY <3>1, <5>1, <5>4
      <4>2. CASE k # 0
        <5>1. def[k + 1] = def[k] \o ss[k + 1]
          <6>1. k + 1 # 1 /\ (k + 1) - 1 = k
            BY <4>2
          <6>2. def[k + 1] = IF k + 1 = 1 THEN ss[k + 1] ELSE def[(k + 1) - 1] \o ss[k + 1]
            BY <2>7, <3>1
          <6> QED BY <6>1, <6>2
        <5> HIDE DEF Up
        <5>2. def[k] \in Seq(T) /\ ToSet(def[k]) = Up(k)
          <6>1. k \in 1..k
            BY <4>2
          <6> QED BY <2>10, <6>1
        <5>3. def[k] \o ss[k + 1] \in Seq(T) /\ ToSet(def[k] \o ss[k + 1]) = ToSet(def[k]) \cup ToSet(ss[k + 1])
          BY <3>1, <5>2, ElementsOf
        <5> QED BY <3>2, <5>1, <5>2, <5>3
      <4> QED BY <4>1, <4>2
    <3> HIDE DEF Up
    <3>4. \A i \in 1..(k + 1) : i = k + 1 \/ i \in 1..k
      OBVIOUS
    <3> QED BY <2>10, <3>3, <3>4
  <2>11. 0..n \subseteq U
    <3> HIDE DEF U
    <3> QED BY <2>9, <2>10, InductionTo
  <2>12. def[n] \in Seq(T) /\ ToSet(def[n]) = Up(n)
    <3>1. n \in U
      <4> HIDE DEF U
      <4> QED BY <2>11
    <3> HIDE DEF Up
    <3> QED BY <1>3, <3>1
  <2>13. Up(n) = AllOf(1..n, ss)
    BY DEF AllOf
  <2> HIDE DEF Up
  <2> QED BY <2>8, <2>12, <2>13
<1> QED BY <1>2, <1>3
-----------------------------------------------------------------------------
(* Folds. *)

\* The function a fold from the left over 1..n is defined by: `step` is the
\* operation with the elements of the list, T holds all its results.
FoldDefines(n, T, base, step, it) ==
  /\ it \in [SUBSET (1..n) -> T]
  /\ \A s \in SUBSET (1..n) : it[s] = IF s = {} THEN base ELSE step[Max(s)][it[s \ {Max(s)}]]

\* It exists when every step gives a result of the same kind.
LEMMA FoldExists ==
  ASSUME NEW T, NEW base \in T, NEW n \in Nat, NEW step \in [1..n -> [T -> T]]
  PROVE  \E it : FoldDefines(n, T, base, step, it)
<1> DEFINE Good(it, k) ==
             \A s \in SUBSET (1..k) : it[s] = IF s = {} THEN base ELSE step[Max(s)][it[s \ {Max(s)}]]
           S == { k \in 0..n : \E it \in [SUBSET (1..k) -> T] : Good(it, k) }
<1>1. 0 \in S
  <2>1. SUBSET (1..0) = {{}}
    OBVIOUS
  <2>2. [s \in SUBSET (1..0) |-> base] \in [SUBSET (1..0) -> T]
    OBVIOUS
  <2>3. Good([s \in SUBSET (1..0) |-> base], 0)
    BY <2>1
  <2> HIDE DEF Good
  <2> QED BY <2>2, <2>3
<1>2. ASSUME NEW k \in 0..(n - 1), k \in S PROVE k + 1 \in S
  <2>1. PICK it \in [SUBSET (1..k) -> T] : Good(it, k)
    BY <1>2
  <2> DEFINE more == [ s \in SUBSET (1..(k + 1)) |->
                         IF k + 1 \in s THEN step[k + 1][it[s \ {k + 1}]] ELSE it[s] ]
  <2>2. \A s \in SUBSET (1..(k + 1)) : s \ {k + 1} \in SUBSET (1..k) /\ (k + 1 \notin s => s \in SUBSET (1..k))
    OBVIOUS
  <2>3. more \in [SUBSET (1..(k + 1)) -> T]
    <3>1. ASSUME NEW s \in SUBSET (1..(k + 1)) PROVE more[s] \in T
      <4>1. CASE k + 1 \in s
        <5>1. it[s \ {k + 1}] \in T /\ k + 1 \in 1..n
          BY <2>2
        <5> QED BY <4>1, <5>1
      <4>2. CASE k + 1 \notin s
        BY <2>2, <4>2
      <4> QED BY <4>1, <4>2
    <3> QED BY <3>1
  <2>4. ASSUME NEW s \in SUBSET (1..(k + 1))
        PROVE  more[s] = IF s = {} THEN base ELSE step[Max(s)][more[s \ {Max(s)}]]
    <3>1. CASE k + 1 \in s
      <4>1. Max(s) = k + 1
        <5>1. s \in SUBSET Int /\ \A x \in s : x <= k + 1
          OBVIOUS
        <5> QED BY <3>1, <5>1, MaxIs
      <4>2. more[s \ {k + 1}] = it[s \ {k + 1}]
        BY <2>2
      <4> HIDE DEF more
      <4>3. more[s] = step[k + 1][it[s \ {k + 1}]]
        BY <3>1 DEF more
      <4> QED BY <3>1, <4>1, <4>2, <4>3
    <3>2. CASE k + 1 \notin s
      <4>1. s \in SUBSET (1..k)
        BY <2>2, <3>2
      <4>2. it[s] = IF s = {} THEN base ELSE step[Max(s)][it[s \ {Max(s)}]]
        BY <2>1, <4>1
      <4>3. more[s] = it[s]
        BY <3>2
      <4>4. more[s \ {Max(s)}] = it[s \ {Max(s)}]
        BY <3>2, <4>1
      <4> HIDE DEF more
      <4> QED BY <4>2, <4>3, <4>4
    <3> QED BY <3>1, <3>2
  <2>5. Good(more, k + 1)
    BY <2>4
  <2> HIDE DEF Good, more
  <2> QED BY <2>3, <2>5
<1>3. 0..n \subseteq S
  <2> HIDE DEF S
  <2> QED BY <1>1, <1>2, InductionTo
<1>4. n \in S
  <2> HIDE DEF S
  <2> QED BY <1>3
<1> QED BY <1>4 DEF FoldDefines

\* The steps of a fold, read off the function it is defined by.
LEMMA FoldSteps ==
  ASSUME NEW n \in Nat, NEW k \in 1..n
  PROVE  /\ 1..k \in SUBSET (1..n) /\ 1..k # {}
         /\ Max(1..k) = k /\ (1..k) \ {Max(1..k)} = 1..(k - 1)
<1>1. Max(1..k) = k
  <2>1. 1..k \in SUBSET Int /\ k \in 1..k /\ \A x \in 1..k : x <= k
    OBVIOUS
  <2> QED BY <2>1, MaxIs
<1> QED BY <1>1

\* A kind that every step of a fold keeps is the kind of all its results.
LEMMA FoldTyped ==
  ASSUME NEW T, NEW n \in Nat, NEW g, g[{}] \in T,
         \A s \in SUBSET (1..n) : s # {} /\ g[s \ {Max(s)}] \in T => g[s] \in T
  PROVE  \A k \in 0..n : g[1..k] \in T
<1> DEFINE S == { k \in 0..n : g[1..k] \in T }
<1>1. 0 \in S
  <2>1. 1..0 = {}
    OBVIOUS
  <2> QED BY <2>1
<1>2. ASSUME NEW k \in 0..(n - 1), k \in S PROVE k + 1 \in S
  <2>1. k + 1 \in 1..n /\ (k + 1) - 1 = k
    OBVIOUS
  <2>2. 1..(k + 1) \in SUBSET (1..n) /\ 1..(k + 1) # {} /\ (1..(k + 1)) \ {Max(1..(k + 1))} = 1..k
    BY <2>1, FoldSteps
  <2>3. g[1..(k + 1)] \in T
    BY <1>2, <2>2
  <2> QED BY <2>1, <2>3
<1>3. 0..n \subseteq S
  <2> HIDE DEF S
  <2> QED BY <1>1, <1>2, InductionTo
<1> QED BY <1>3

\* The results of a fold one after the other, `step` being its operation with
\* the elements of the list.
Iterates(n, T, base, step, r) ==
  r \in [0..n -> T] /\ r[0] = base /\ \A k \in 0..(n - 1) : r[k + 1] = step[k + 1][r[k]]

\* The function g folds by these steps as far as its results are of the kind T.
FoldsBy(n, T, base, step, g) ==
  /\ g[{}] = base
  /\ \A s \in SUBSET (1..n) : s # {} /\ g[s \ {Max(s)}] \in T => g[s] = step[Max(s)][g[s \ {Max(s)}]]

\* They are what the function a fold is defined by says of the first elements.
LEMMA FoldRuns ==
  ASSUME NEW T, NEW base \in T, NEW n \in Nat, NEW step \in [1..n -> [T -> T]],
         NEW g, FoldsBy(n, T, base, step, g)
  PROVE  \E r : Iterates(n, T, base, step, r) /\ r[n] = g[1..n]
<1> DEFINE r == [ k \in 0..n |-> g[1..k] ]
<1> USE DEF FoldsBy
<1>1. ASSUME NEW s \in SUBSET (1..n), s # {}, g[s \ {Max(s)}] \in T PROVE g[s] \in T
  <2>1. Max(s) \in 1..n
    <3>1. s \in SUBSET (0..n)
      OBVIOUS
    <3> QED BY <1>1, <3>1, MaxOf
  <2> QED BY <1>1, <2>1
<1>2. \A k \in 0..n : g[1..k] \in T
  BY <1>1, FoldTyped
<1>3. g[1..0] = base
  <2>1. 1..0 = {}
    OBVIOUS
  <2> QED BY <2>1
<1>4. ASSUME NEW k \in 0..(n - 1) PROVE g[1..(k + 1)] = step[k + 1][g[1..k]]
  <2>1. k + 1 \in 1..n /\ (k + 1) - 1 = k
    OBVIOUS
  <2>2. /\ 1..(k + 1) \in SUBSET (1..n) /\ 1..(k + 1) # {}
        /\ Max(1..(k + 1)) = k + 1 /\ (1..(k + 1)) \ {Max(1..(k + 1))} = 1..k
    BY <2>1, FoldSteps
  <2>3. g[1..k] \in T
    BY <1>2
  <2> QED BY <2>2, <2>3
<1>5. Iterates(n, T, base, step, r) /\ r[n] = g[1..n]
  BY <1>2, <1>3, <1>4 DEF Iterates
<1> QED BY <1>5

-----------------------------------------------------------------------------
(* Chains of which two may have the same start. *)

\* The numbers up to m are m numbers.
LEMMA CountTo ==
  ASSUME NEW m \in Nat
  PROVE  IsFiniteSet(1..m) /\ Cardinality(1..m) = m
<1>1. IsFiniteSet(1..m)
  BY FS_Interval
<1>2. Cardinality(1..m) = IF 1 > m THEN 0 ELSE m - 1 + 1
  BY FS_Interval
<1> QED BY <1>1, <1>2

Agreed(x, y, n) == { k \in 1..n : \A j \in 1..k : x[j] = y[j] }

\* The places of two chains that agree with all before them are the first ones.
LEMMA AgreedReaches ==
  ASSUME NEW x, NEW y, NEW n \in Nat, NEW i \in Nat \ {0}
  PROVE  /\ Cardinality(Agreed(x, y, n)) \in Nat
         /\ i <= Cardinality(Agreed(x, y, n)) <=> i <= n /\ \A j \in 1..i : x[j] = y[j]
<1> DEFINE C == { k \in 1..n : \A j \in 1..k : x[j] = y[j] }
<1>2. IsFiniteSet(C) /\ Cardinality(C) \in Nat
  <2>1. IsFiniteSet(1..n)
    BY FS_Interval
  <2>2. IsFiniteSet(C)
    BY <2>1, FS_Subset
  <2> QED BY <2>2, FS_CardinalityType
<1>3. Agreed(x, y, n) = C
  BY DEF Agreed
<1>4. CASE i \in C
  <2>1. 1..i \in SUBSET C
    <3>1. i \in 1..n /\ \A j \in 1..i : x[j] = y[j]
      BY <1>4
    <3>2. ASSUME NEW k \in 1..i PROVE k \in 1..n /\ \A j \in 1..k : x[j] = y[j]
      BY <3>1
    <3> QED BY <3>2
  <2>2. Cardinality(1..i) = i
    BY FS_Interval
  <2>3. Cardinality(1..i) <= Cardinality(C)
    BY <1>2, <2>1, FS_Subset
  <2>4. i <= n /\ \A j \in 1..i : x[j] = y[j]
    BY <1>4
  <2> HIDE DEF C
  <2> QED BY <1>2, <1>3, <2>2, <2>3, <2>4
<1>5. CASE i \notin C
  <2>1. C \in SUBSET (1..(i - 1))
    <3>1. ASSUME NEW k \in C, k >= i PROVE FALSE
      <4>1. k \in 1..n /\ i \in 1..n /\ \A j \in 1..k : x[j] = y[j]
        BY <3>1
      <4>2. \A j \in 1..i : x[j] = y[j]
        BY <3>1, <4>1
      <4> QED BY <1>5, <4>1, <4>2
    <3>2. ASSUME NEW k \in C PROVE k \in Nat \ {0}
      OBVIOUS
    <3> HIDE DEF C
    <3>3. ASSUME NEW k \in C PROVE k \in 1..(i - 1)
      BY <3>1, <3>2
    <3> QED BY <3>3
  <2>2. IsFiniteSet(1..(i - 1)) /\ Cardinality(1..(i - 1)) = i - 1
    <3>1. i - 1 \in Nat
      OBVIOUS
    <3> QED BY <3>1, CountTo
  <2>3. Cardinality(C) <= i - 1
    BY <2>1, <2>2, FS_Subset
  <2>4. ~(i <= n /\ \A j \in 1..i : x[j] = y[j])
    BY <1>5
  <2> HIDE DEF C
  <2> QED BY <1>2, <1>3, <2>3, <2>4
<1> QED BY <1>4, <1>5

Ran(c) == { c[i] : i \in 1..Len(c) }

Below(x, n) == { x[i] : i \in { j \in 2..Len(x) : j > n } }

\* Two chains agree up to n and share no function without agreeing up to it.
Fork(x, y, n) ==
  /\ \A i \in 1..Len(x) : i <= n => i <= Len(y) /\ x[i] = y[i]
  /\ \A i \in 1..Len(x), j \in 1..Len(y) : x[i] = y[j] => i = j /\ i <= n
  /\ \A i, j \in 1..Len(x) : x[i] = x[j] => i = j

\* What is below the fork is on one chain only.
LEMMA BelowIsApart ==
  ASSUME NEW x, NEW y, Len(x) \in Nat \ {0}, Len(y) \in Nat \ {0}, NEW n \in Nat, Fork(x, y, n)
  PROVE  Below(x, n) = (Ran(x) \ Ran(y)) \ {x[1], y[1]}
<1>1. ASSUME NEW i \in 1..Len(x) PROVE i > n <=> x[i] \notin Ran(y)
  <2>1. CASE i <= n
    <3>1. i \in 1..Len(y) /\ x[i] = y[i]
      BY <2>1 DEF Fork
    <3> QED BY <2>1, <3>1 DEF Ran
  <2>2. CASE i > n
    BY <2>2 DEF Fork, Ran
  <2> QED BY <2>1, <2>2
<1>2. ASSUME NEW i \in 1..Len(x) PROVE i = 1 <=> x[i] = x[1]
  BY DEF Fork
<1>3. ASSUME NEW i \in 1..Len(x), x[i] = y[1] PROVE i = 1
  BY <1>3 DEF Fork
<1>4. ASSUME NEW i \in 1..Len(x) PROVE i \in 2..Len(x) <=> i # 1
  OBVIOUS
<1>5. ASSUME NEW d \in Below(x, n) PROVE d \in (Ran(x) \ Ran(y)) \ {x[1], y[1]}
  <2>1. PICK i \in 2..Len(x) : i > n /\ d = x[i]
    BY <1>5 DEF Below
  <2>2. i \in 1..Len(x) /\ i # 1
    OBVIOUS
  <2>3. d \in Ran(x)
    BY <2>1, <2>2 DEF Ran
  <2> QED BY <1>1, <1>2, <1>3, <2>1, <2>2, <2>3
<1>6. ASSUME NEW d \in (Ran(x) \ Ran(y)) \ {x[1], y[1]} PROVE d \in Below(x, n)
  <2>1. PICK i \in 1..Len(x) : d = x[i]
    BY <1>6 DEF Ran
  <2>2. i > n /\ i # 1
    BY <1>1, <1>6, <2>1
  <2> QED BY <1>4, <2>1, <2>2 DEF Below
<1> QED BY <1>5, <1>6

\* A chain without the function itself keeps its other places.
LEMMA FrontLen ==
  ASSUME NEW S, NEW c \in Seq(S), c # <<>>
  PROVE  /\ Len(c) \in Nat \ {0} /\ Len(Front(c)) = Len(c) - 1
         /\ \A i \in 1..(Len(c) - 1) : Front(c)[i] = c[i]
<1>1. Len(c) \in Nat \ {0} /\ \A i \in 1..Len(c) : c[i] \in S
  OBVIOUS
<1>2. PICK n \in Nat : n = Len(c) - 1
  BY <1>1
<1>3. \A i \in 1..n : c[i] \in S
  <2>1. \A i \in 1..n : i \in 1..Len(c)
    BY <1>1, <1>2
  <2> QED BY <1>1, <2>1
<1>4. /\ Len(SubSeq(c, 1, n)) = IF 1 <= n THEN n - 1 + 1 ELSE 0
      /\ \A i \in 1..(n - 1 + 1) : SubSeq(c, 1, n)[i] = c[1 + i - 1]
  BY <1>3, SubSeqProperties
<1>5. Len(SubSeq(c, 1, n)) = n
  BY <1>2, <1>4
<1>6. ASSUME NEW i \in 1..n PROVE SubSeq(c, 1, n)[i] = c[i]
  BY <1>2, <1>4
<1> QED BY <1>1, <1>2, <1>5, <1>6 DEF Front
=============================================================================
