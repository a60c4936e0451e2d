-------------------------- MODULE ConfigSpaceProofs --------------------------
(***************************************************************************)
(* ParseConfig finds what the capability lists lead to, for images of any  *)
(* length with any pointers in them.                                       *)
(***************************************************************************)
EXTENDS ConfigSpace, ListProofs

-----------------------------------------------------------------------------
(* Walks along the pointers nx, from an entry, leaving only entries of S. *)

Trace(S, nx, from, k, w) ==
  /\ w \in [1..(k + 1) -> Nat] /\ w[1] = from
  /\ \A i \in 1..k : w[i] \in S /\ w[i + 1] = nx[w[i]]

\* A walk of at most n steps leads to p; p is among the first m of a walk.
Leads(S, nx, from, n, p) == \E k \in 0..n : \E w : Trace(S, nx, from, k, w) /\ w[k + 1] = p
Has(w, m, p) == \E i \in 1..m : p = w[i]

\* A walk that must leave the list, or may not enter N, after the entry e.
Stops(N, S, nx, e) == e \notin S \/ nx[e] \notin N \/ nx[e] = e

\* There is one way only to walk.
LEMMA SameTrace ==
  ASSUME NEW S, NEW nx, NEW from, NEW k \in Nat, NEW m \in Nat, NEW v, NEW w, k <= m,
         Trace(S, nx, from, k, v), Trace(S, nx, from, m, w)
  PROVE  \A i \in 1..(k + 1) : v[i] = w[i]
<1> DEFINE U == { i \in 0..k : v[i + 1] = w[i + 1] }
<1>1. 0 \in U
  BY DEF Trace
<1>2. ASSUME NEW i \in 0..(k - 1), i \in U PROVE i + 1 \in U
  <2>1. i + 1 \in 1..k /\ i + 1 \in 1..m /\ v[i + 1] = w[i + 1]
    BY <1>2
  <2>2. v[(i + 1) + 1] = nx[v[i + 1]] /\ w[(i + 1) + 1] = nx[w[i + 1]]
    BY <2>1 DEF Trace
  <2> QED BY <2>1, <2>2
<1>3. 0..k \subseteq U
  <2> HIDE DEF U
  <2> QED BY <1>1, <1>2, InductionTo
<1>4. ASSUME NEW i \in 1..(k + 1) PROVE v[i] = w[i]
  <2>1. i - 1 \in U /\ (i - 1) + 1 = i
    BY <1>3
  <2> QED BY <2>1
<1> QED BY <1>4

\* The first part of a walk is a walk.
LEMMA PartOfTrace ==
  ASSUME NEW S, NEW nx, NEW from, NEW m \in Nat, NEW w, Trace(S, nx, from, m, w), NEW k \in 0..m
  PROVE  \E v : Trace(S, nx, from, k, v) /\ v[k + 1] = w[k + 1]
<1> DEFINE v == [ i \in 1..(k + 1) |-> w[i] ]
<1>1. v \in [1..(k + 1) -> Nat] /\ v[1] = from /\ v[k + 1] = w[k + 1]
  BY DEF Trace
<1>2. \A i \in 1..k : v[i] \in S /\ v[i + 1] = nx[v[i]]
  BY DEF Trace
<1> QED BY <1>1, <1>2 DEF Trace

\* Every entry of a walk is the end of one.
LEMMA EntryOfTrace ==
  ASSUME NEW S, NEW nx, NEW from, NEW h \in Nat, NEW w, Trace(S, nx, from, h, w),
         NEW m \in 0..(h + 1), NEW n \in Int, m <= n + 1
  PROVE  \A i \in 1..m : Leads(S, nx, from, n, w[i])
<1> TAKE i \in 1..m
<1>1. PICK k \in 0..h : k + 1 = i
  <2>1. i - 1 \in 0..h /\ (i - 1) + 1 = i
    OBVIOUS
  <2> QED BY <2>1
<1>2. PICK v : Trace(S, nx, from, k, v) /\ v[k + 1] = w[k + 1]
  BY PartOfTrace
<1>3. k \in 0..n
  BY <1>1
<1> QED BY <1>1, <1>2, <1>3 DEF Leads

\* A walk to an entry of a finite set needs no more steps than it has others.
LEMMA ShortTrace ==
  ASSUME NEW N, IsFiniteSet(N), NEW S \in SUBSET N, NEW nx, NEW from, NEW k \in Nat, NEW w,
         Trace(S, nx, from, k, w), w[k + 1] \in N
  PROVE  \E j \in Nat : \E v : j < Cardinality(N) /\ Trace(S, nx, from, j, v) /\ v[j + 1] = w[k + 1]
<1> DEFINE p == w[k + 1]
           J == { j \in Nat : \E v : Trace(S, nx, from, j, v) /\ v[j + 1] = p }
<1>1. k \in J
  OBVIOUS
<1> HIDE DEF p
<1>2. PICK j \in J : \A m \in J : j <= m
  <2> HIDE DEF J
  <2>1. J \in SUBSET Nat /\ J # {}
    BY <1>1 DEF J
  <2> QED BY <2>1, LeastNumber
<1>3. j \in Nat
  OBVIOUS
<1>4. PICK v : Trace(S, nx, from, j, v) /\ v[j + 1] = p
  OBVIOUS
<1>5. ASSUME NEW a \in 1..(j + 1), NEW b \in 1..(j + 1), a < b, v[a] = v[b] PROVE FALSE
  <2> DEFINE n == j - (b - a)
             u == [ i \in 1..(n + 1) |-> IF i <= a THEN v[i] ELSE v[i + (b - a)] ]
  <2>1. n \in Nat /\ a <= n + 1 /\ n < j
    BY <1>3, <1>5
  <2>2. u \in [1..(n + 1) -> Nat]
    <3> SUFFICES ASSUME NEW i \in 1..(n + 1) PROVE u[i] \in Nat
      OBVIOUS
    <3>1. i \in 1..(j + 1) /\ (i > a => i + (b - a) \in 1..(j + 1))
      BY <1>3, <1>5, <2>1
    <3> QED BY <1>4, <3>1 DEF Trace
  <2>3. u[1] = from
    BY <1>4, <2>1 DEF Trace
  <2>4. ASSUME NEW i \in 1..n PROVE u[i] \in S /\ u[i + 1] = nx[u[i]]
    <3>0. /\ i \in 1..(n + 1) /\ i + 1 \in 1..(n + 1)
          /\ u[i] = (IF i <= a THEN v[i] ELSE v[i + (b - a)])
          /\ u[i + 1] = (IF i + 1 <= a THEN v[i + 1] ELSE v[(i + 1) + (b - a)])
      BY <2>1
    <3> HIDE DEF u
    <3>1. CASE i < a
      <4>1. i \in 1..j /\ u[i] = v[i] /\ u[i + 1] = v[i + 1]
        BY <1>3, <1>5, <2>1, <3>0, <3>1
      <4> QED BY <1>4, <4>1 DEF Trace
    <3>2. CASE i = a
      <4>1. b \in 1..j /\ u[i] = v[b] /\ u[i + 1] = v[b + 1]
        <5>1. (i + 1) + (b - a) = b + 1
          BY <1>3, <1>5, <3>2
        <5> QED BY <1>3, <1>5, <2>1, <3>0, <3>2, <5>1
      <4> QED BY <1>4, <4>1 DEF Trace
    <3>3. CASE i > a
      <4>1. i + (b - a) \in 1..j /\ u[i] = v[i + (b - a)] /\ u[i + 1] = v[(i + (b - a)) + 1]
        <5>1. (i + 1) + (b - a) = (i + (b - a)) + 1
          BY <1>3, <1>5
        <5> QED BY <1>3, <1>5, <2>1, <3>0, <3>3, <5>1
      <4> QED BY <1>4, <4>1 DEF Trace
    <3> QED BY <1>5, <3>1, <3>2, <3>3
  <2>5. u[n + 1] = p
    <3>1. CASE b = j + 1
      <4>1. n + 1 = a
        BY <1>3, <1>5, <3>1
      <4>2. u[n + 1] = v[a]
        BY <2>1, <4>1
      <4> QED BY <1>4, <1>5, <3>1, <4>2
    <3>2. CASE b # j + 1
      <4>1. n + 1 > a /\ (n + 1) + (b - a) = j + 1
        BY <1>3, <1>5, <3>2
      <4>2. u[n + 1] = v[(n + 1) + (b - a)]
        BY <2>1, <4>1
      <4> QED BY <1>4, <4>1, <4>2
    <3> QED BY <3>1, <3>2
  <2> HIDE DEF n, u
  <2>6. n \in J
    BY <2>1, <2>2, <2>3, <2>4, <2>5 DEF Trace
  <2> QED BY <1>2, <1>3, <2>1, <2>6
<1>6. v \in Injection(1..(j + 1), N)
  <2>1. \A i \in 1..(j + 1) : v[i] \in N
    <3> TAKE i \in 1..(j + 1)
    <3>1. CASE i = j + 1
      BY <1>4, <3>1 DEF p
    <3>2. CASE i # j + 1
      <4>1. i \in 1..j
        BY <1>3, <3>2
      <4> QED BY <1>4, <4>1 DEF Trace
    <3> QED BY <3>1, <3>2
  <2>2. v \in [1..(j + 1) -> N]
    BY <1>4, <2>1 DEF Trace
  <2>3. ASSUME NEW a \in 1..(j + 1), NEW b \in 1..(j + 1), v[a] = v[b] PROVE a = b
    BY <1>3, <1>5, <2>3
  <2> QED BY <2>2, <2>3 DEF Injection, IsInjective
<1>7. j + 1 <= Cardinality(N)
  <2>1. IsFiniteSet(1..(j + 1)) /\ Cardinality(1..(j + 1)) = j + 1
    BY <1>3, FS_Interval
  <2>2. Cardinality(1..(j + 1)) <= Cardinality(N)
    BY <1>6, FS_Injection
  <2> QED BY <2>1, <2>2
<1>8. Cardinality(N) \in Nat
  BY FS_CardinalityType
<1> QED BY <1>3, <1>4, <1>7, <1>8 DEF p

\* Where a walk came to a stop before the k-th entry of another one, it has seen
\* all entries that one has.
LEMMA AllSeen ==
  ASSUME NEW N, NEW S \in SUBSET N, NEW nx, NEW from, NEW k \in Nat, NEW h \in Nat, NEW v, NEW w,
         Trace(S, nx, from, k, v), Trace(S, nx, from, h, w), v[k + 1] \in N,
         Stops(N, S, nx, w[h + 1])
  PROVE  Has(w, h + 1, v[k + 1])
<1>1. CASE k <= h
  <2>1. v[k + 1] = w[k + 1] /\ k + 1 \in 1..(h + 1)
    <3>1. \A i \in 1..(k + 1) : v[i] = w[i]
      BY <1>1, SameTrace
    <3> QED BY <1>1, <3>1
  <2> QED BY <2>1 DEF Has
<1>2. CASE h < k
  <2>1. v[h + 1] = w[h + 1]
    <3>1. \A i \in 1..(h + 1) : w[i] = v[i]
      BY <1>2, SameTrace
    <3> QED BY <3>1
  <2>2. v[h + 1] \in S /\ v[(h + 1) + 1] = nx[v[h + 1]]
    <3>1. h + 1 \in 1..k
      BY <1>2
    <3> QED BY <3>1 DEF Trace
  <2>3. v[(h + 1) + 1] \in N
    <3>1. CASE h + 1 = k
      BY <3>1
    <3>2. CASE h + 1 # k
      <4>1. (h + 1) + 1 \in 1..k
        BY <1>2, <3>2
      <4> QED BY <4>1 DEF Trace
    <3> QED BY <3>1, <3>2
  <2>4. nx[w[h + 1]] = w[h + 1]
    BY <2>1, <2>2, <2>3 DEF Stops
  <2> DEFINE U == { i \in 0..(k - h) : v[(h + 1) + i] = w[h + 1] }
  <2>5. 0 \in U
    BY <1>2, <2>1
  <2>6. ASSUME NEW i \in 0..((k - h) - 1), i \in U PROVE i + 1 \in U
    <3>1. (h + 1) + i \in 1..k /\ v[(h + 1) + i] = w[h + 1] /\ i + 1 \in 0..(k - h)
      BY <1>2, <2>6
    <3>2. v[((h + 1) + i) + 1] = nx[v[(h + 1) + i]]
      BY <3>1 DEF Trace
    <3>3. ((h + 1) + i) + 1 = (h + 1) + (i + 1)
      BY <3>1
    <3> QED BY <2>4, <3>1, <3>2, <3>3
  <2>7. 0..(k - h) \subseteq U
    <3>1. k - h \in Nat
      BY <1>2
    <3> HIDE DEF U
    <3> QED BY <2>5, <2>6, <3>1, InductionTo
  <2>8. v[k + 1] = w[h + 1]
    <3>1. k - h \in U /\ (h + 1) + (k - h) = k + 1
      BY <1>2, <2>7
    <3> QED BY <3>1
  <2>9. h + 1 \in 1..(h + 1)
    OBVIOUS
  <2> QED BY <2>8, <2>9 DEF Has
<1> QED BY <1>1, <1>2

\* The same for all that walks of at most n steps lead to.
LEMMA LedWasSeen ==
  ASSUME NEW N, NEW S \in SUBSET N, NEW nx, NEW from, NEW n \in Int, NEW p \in N,
         Leads(S, nx, from, n, p),
         NEW h \in Nat, NEW w, Trace(S, nx, from, h, w),
         Stops(N, S, nx, w[h + 1])
  PROVE  Has(w, h + 1, p)
<1>1. PICK k, v : k \in 0..n /\ Trace(S, nx, from, k, v) /\ v[k + 1] = p
  BY DEF Leads
<1>2. k \in Nat /\ v[k + 1] \in N
  BY <1>1
<1>3. Has(w, h + 1, v[k + 1])
  BY <1>1, <1>2, AllSeen
<1> QED BY <1>1, <1>3

\* A longer walk has seen them all.
LEMMA LedIsOnTheWay ==
  ASSUME NEW S, NEW nx, NEW from, NEW n \in Int, NEW p, Leads(S, nx, from, n, p),
         NEW h \in Nat, NEW w, Trace(S, nx, from, h, w), NEW m \in Nat, n < m, m <= h + 1
  PROVE  Has(w, m, p)
<1>1. PICK k, v : k \in 0..n /\ Trace(S, nx, from, k, v) /\ v[k + 1] = p
  BY DEF Leads
<1>2. k \in Nat /\ k <= h /\ k + 1 \in 1..(k + 1) /\ k + 1 \in 1..m
  BY <1>1
<1>3. \A i \in 1..(k + 1) : v[i] = w[i]
  BY <1>1, <1>2, SameTrace
<1> QED BY <1>1, <1>2, <1>3 DEF Has

\* No walk to an entry of a finite set needs to be longer than the set.
LEMMA LedSoon ==
  ASSUME NEW N, IsFiniteSet(N), NEW S \in SUBSET N, NEW nx, NEW from, NEW n \in Int,
         NEW p \in N, Leads(S, nx, from, n, p)
  PROVE  Leads(S, nx, from, Cardinality(N) - 1, p)
<1>1. PICK k, v : k \in 0..n /\ Trace(S, nx, from, k, v) /\ v[k + 1] = p
  BY DEF Leads
<1>2. k \in Nat /\ v[k + 1] \in N
  BY <1>1
<1>3. PICK j, u : j \in Nat /\ j < Cardinality(N) /\ Trace(S, nx, from, j, u) /\ u[j + 1] = v[k + 1]
  BY <1>1, <1>2, ShortTrace
<1>4. j \in 0..(Cardinality(N) - 1)
  BY <1>3, FS_CardinalityType
<1> QED BY <1>1, <1>3, <1>4 DEF Leads

\* What the property calls listed is where a walk of as many entries leads.
LEMMA ListedIs ==
  ASSUME NEW L, IsFiniteSet(L.node), L.node \in SUBSET Nat, NEW S \in SUBSET L.node, NEW nx,
         \A x, y : <<x, y>> \in L.edge <=> x \in S /\ y \in L.node /\ y = nx[x],
         NEW from \in Nat, NEW p \in L.node, NEW n \in Nat
  PROVE  Listed(from, p, n, L) <=> Leads(S, nx, from, n - 1, p)
<1> DEFINE N == L.node
           least == Min({n, Cardinality(N)})
<1>1. Cardinality(N) \in Nat
  BY FS_CardinalityType
<1>2. least \in Nat /\ least <= n /\ least <= Cardinality(N) /\ (least = n \/ least = Cardinality(N))
  <2> DEFINE c == Cardinality(N)
             s == {n, c}
  <2> HIDE DEF c
  <2>1. s \in SUBSET Nat /\ s # {}
    BY <1>1 DEF c
  <2> HIDE DEF s
  <2>2. Min(s) \in s /\ \A x \in s : Min(s) <= x
    BY <2>1, MinOf
  <2> QED BY <1>1, <2>2 DEF s, c
<1> HIDE DEF least
<1>3. Listed(from, p, n, L) <=>
        \E k \in 1..least : \E path \in [1..k -> N] :
          /\ path[1] = from /\ path[k] = p
          /\ \A i \in 1..(k - 1) : <<path[i], path[i + 1]>> \in L.edge
  BY DEF Listed, least
<1>4. ASSUME NEW k \in 1..least, NEW path \in [1..k -> N], path[1] = from, path[k] = p,
             \A i \in 1..(k - 1) : <<path[i], path[i + 1]>> \in L.edge
      PROVE  \E j \in 0..(n - 1) : \E w : Trace(S, nx, from, j, w) /\ w[j + 1] = p
  <2>1. k - 1 \in 0..(n - 1) /\ (k - 1) + 1 = k
    BY <1>2
  <2>2. path \in [1..((k - 1) + 1) -> Nat]
    BY <2>1
  <2>3. \A i \in 1..(k - 1) : path[i] \in S /\ path[i + 1] = nx[path[i]]
    BY <1>4
  <2>4. Trace(S, nx, from, k - 1, path)
    BY <1>4, <2>2, <2>3 DEF Trace
  <2> QED BY <1>4, <2>1, <2>4
<1>5. ASSUME NEW k \in 0..(n - 1), NEW w, Trace(S, nx, from, k, w), w[k + 1] = p, k < Cardinality(N)
      PROVE  \E j \in 1..least : \E path \in [1..j -> N] :
               /\ path[1] = from /\ path[j] = p
               /\ \A i \in 1..(j - 1) : <<path[i], path[i + 1]>> \in L.edge
  <2>1. k + 1 \in 1..least /\ k \in Nat
    BY <1>1, <1>2, <1>5
  <2>2. \A i \in 1..(k + 1) : w[i] \in N
    <3> TAKE i \in 1..(k + 1)
    <3>1. i = k + 1 \/ i \in 1..k
      BY <2>1
    <3> QED BY <1>5, <3>1 DEF Trace
  <2>3. w \in [1..(k + 1) -> N]
    BY <1>5, <2>2 DEF Trace
  <2>4. \A i \in 1..((k + 1) - 1) : <<w[i], w[i + 1]>> \in L.edge
    <3> TAKE i \in 1..((k + 1) - 1)
    <3>1. i \in 1..k /\ i + 1 \in 1..(k + 1)
      BY <2>1
    <3>2. w[i] \in S /\ w[i + 1] = nx[w[i]] /\ w[i + 1] \in N
      BY <1>5, <2>2, <3>1 DEF Trace
    <3> QED BY <3>2
  <2>5. w[1] = from /\ w[k + 1] = p
    BY <1>5 DEF Trace
  <2> QED BY <2>1, <2>3, <2>4, <2>5
<1>6. ASSUME NEW k \in 0..(n - 1), NEW w, Trace(S, nx, from, k, w), w[k + 1] = p
      PROVE  \E j \in 0..(n - 1) : \E v : Trace(S, nx, from, j, v) /\ v[j + 1] = p /\ j < Cardinality(N)
  <2>1. CASE k < Cardinality(N)
    BY <1>6, <2>1
  <2>2. CASE ~(k < Cardinality(N))
    <3>1. PICK j, v : j \in Nat /\ j < Cardinality(N) /\ Trace(S, nx, from, j, v) /\ v[j + 1] = w[k + 1]
      BY <1>6, ShortTrace
    <3>2. j \in 0..(n - 1)
      BY <1>1, <2>2, <3>1
    <3> QED BY <1>6, <3>1, <3>2
  <2> QED BY <2>1, <2>2
<1> QED BY <1>3, <1>4, <1>5, <1>6 DEF Leads

-----------------------------------------------------------------------------
(* The invariant: each loop is at the end of a walk and has kept what is in *)
(* the entries it has left.                                                 *)

Config == [type : Int, mps : Int, ext : BOOLEAN, acs : BOOLEAN, ctl : SUBSET STRING]

\* The entries that were read, and their pointers.
StdRead == { p \in DOMAIN img.std : p >= StdFirst /\ p + 1 <= len }
ExtRead == { p \in DOMAIN img.ext : p >= ExtFirst /\ p + 2 <= len }
StdHead == img.head
StdNext == [ p \in DOMAIN img.std |-> img.std[p].next ]
ExtNext == [ p \in DOMAIN img.ext |-> img.ext[p].next ]

\* A header of zeros ends the second list.
ExtOpen == { p \in ExtRead : img.ext[p].id # "none" }

IsPCIe(p) == p \in StdRead /\ img.std[p].id = "pcie" /\ p + 2 <= len
IsACS(p) == p \in ExtRead /\ img.ext[p].id = "acs" /\ p + 3 <= len

StdLeads(p) == Leads(StdRead, StdNext, StdHead, Cardinality(StdRead) - 1, p)
ExtLeads(p) == Leads(ExtOpen, ExtNext, ExtFirst, ExtHops - 1, p)

StdWalked(w) ==
  /\ Trace(StdRead, StdNext, StdHead, hops, w) /\ w[hops + 1] = ptr
  /\ cfg.type # Unread <=> \E i \in 1..hops : IsPCIe(w[i])
ExtWalked(w) ==
  /\ Trace(ExtOpen, ExtNext, ExtFirst, hops, w) /\ w[hops + 1] = ptr
  /\ cfg.acs = TRUE <=> \E i \in 1..hops : IsACS(w[i])
  /\ cfg.acs = TRUE => \E i \in 1..hops : IsACS(w[i]) /\ cfg.ctl = Control(w[i])

\* What the loops have found when they are over.
StdFound(c) ==
  EnoughTurns => (c.type # Unread <=> img.caps = TRUE /\ \E p : IsPCIe(p) /\ StdLeads(p))
ExtFound(c) ==
  /\ c.acs = TRUE <=> c.ext = TRUE /\ \E p : IsACS(p) /\ ExtLeads(p)
  /\ c.acs = TRUE => \E p : IsACS(p) /\ ExtLeads(p) /\ c.ctl = Control(p)

NoACS(c) == c.ext = FALSE /\ c.acs = FALSE /\ c.ctl = {}

IInv ==
  /\ img \in Images /\ len \in Nat /\ ptr \in Nat /\ hops \in Nat /\ cfg \in Config
  /\ pc \in {"start", "std", "ext", "done"}
  /\ pc = "start" => cfg = Nothing /\ hops = 0
  /\ pc = "std" => /\ len >= StdFirst /\ img.caps = TRUE /\ NoACS(cfg)
                   /\ \E w : StdWalked(w)
  /\ pc = "ext" => /\ cfg.ext = TRUE /\ hops <= ExtHops /\ StdFound(cfg)
                   /\ \E w : ExtWalked(w)
  /\ pc = "done" => (len >= StdFirst => StdFound(cfg)) /\ ExtFound(cfg)

-----------------------------------------------------------------------------
\* What the assumptions say of the entries that were read.
LEMMA Entries ==
  ASSUME img \in Images, len \in Nat
  PROVE  /\ img.caps \in BOOLEAN /\ StdHead \in Nat
         /\ IsFiniteSet(StdRead) /\ StdRead \in SUBSET Nat /\ StdRead \subseteq DOMAIN img.std
         /\ EnoughTurns => Cardinality(StdRead) <= StdHops
         /\ \A p \in DOMAIN img.std : /\ p \in Nat /\ StdNext[p] = img.std[p].next /\ img.std[p].next \in Nat
                                      /\ img.std[p].type \in Nat /\ img.std[p].mps \in Nat
                                      /\ img.std[p].id \in {"pcie", "other"}
         /\ IsFiniteSet(ExtRead) /\ ExtRead \in SUBSET Nat /\ ExtRead \subseteq DOMAIN img.ext
         /\ ExtOpen \subseteq ExtRead
         /\ \A p \in DOMAIN img.ext : /\ p \in Nat /\ ExtNext[p] = img.ext[p].next /\ img.ext[p].next \in Nat
                                      /\ img.ext[p].ctl \in SUBSET STRING
                                      /\ img.ext[p].id \in {"acs", "other", "none"}
<1>1. /\ img.caps \in BOOLEAN /\ StdHead \in Nat
      /\ IsFiniteSet(DOMAIN img.std) /\ DOMAIN img.std \subseteq Nat
      /\ IsFiniteSet(DOMAIN img.ext) /\ DOMAIN img.ext \subseteq Nat
  BY ImageAssumption DEF StdHead
<1>2. \A p \in DOMAIN img.std : img.std[p] \in [id : {"pcie", "other"}, next : Nat, type : Nat, mps : Nat]
  BY ImageAssumption
<1>3. \A p \in DOMAIN img.ext :
        img.ext[p] \in [id : {"acs", "other", "none"}, next : Nat, able : SUBSET STRING, ctl : SUBSET STRING]
  BY ImageAssumption
<1>4. StdRead \subseteq DOMAIN img.std /\ ExtRead \subseteq DOMAIN img.ext /\ ExtOpen \subseteq ExtRead
  BY DEF StdRead, ExtRead, ExtOpen
<1>5. IsFiniteSet(StdRead) /\ Cardinality(StdRead) <= Cardinality(DOMAIN img.std) /\ IsFiniteSet(ExtRead)
  BY <1>1, <1>4, FS_Subset
<1>6. EnoughTurns => Cardinality(StdRead) <= StdHops
  <2> SUFFICES ASSUME EnoughTurns PROVE Cardinality(StdRead) <= StdHops
    OBVIOUS
  <2>1. Cardinality(StdRead) \in Nat /\ Cardinality(DOMAIN img.std) \in Nat /\ StdHops \in Nat
    BY <1>1, <1>5, FS_CardinalityType, LayoutAssumption
  <2>2. Cardinality(DOMAIN img.std) <= StdHops
    BY DEF EnoughTurns
  <2> QED BY <1>5, <2>1, <2>2
<1>7. \A p \in DOMAIN img.std : StdNext[p] = img.std[p].next
  BY DEF StdNext
<1>8. \A p \in DOMAIN img.ext : ExtNext[p] = img.ext[p].next
  BY DEF ExtNext
<1>9. \A p \in DOMAIN img.std : /\ img.std[p].next \in Nat
                                /\ img.std[p].type \in Nat /\ img.std[p].mps \in Nat
                                /\ img.std[p].id \in {"pcie", "other"}
  BY <1>2
<1>10. \A p \in DOMAIN img.ext : /\ img.ext[p].next \in Nat /\ img.ext[p].ctl \in SUBSET STRING
                                 /\ img.ext[p].id \in {"acs", "other", "none"}
  BY <1>3
<1>11. StdRead \in SUBSET Nat /\ ExtRead \in SUBSET Nat
  BY <1>1, <1>4
<1> QED BY <1>1, <1>4, <1>5, <1>6, <1>7, <1>8, <1>9, <1>10, <1>11

\* A walk that makes one step more.
LEMMA OneMore ==
  ASSUME NEW S, NEW nx, NEW from, NEW k \in Nat, NEW w, Trace(S, nx, from, k, w),
         w[k + 1] \in S, nx[w[k + 1]] \in Nat
  PROVE  \E v : /\ Trace(S, nx, from, k + 1, v) /\ v[(k + 1) + 1] = nx[w[k + 1]]
                /\ \A i \in 1..(k + 1) : v[i] = w[i]
<1> DEFINE v == [ i \in 1..((k + 1) + 1) |-> IF i = k + 2 THEN nx[w[k + 1]] ELSE w[i] ]
<1>1. v \in [1..((k + 1) + 1) -> Nat]
  <2> SUFFICES ASSUME NEW i \in 1..((k + 1) + 1) PROVE v[i] \in Nat
    OBVIOUS
  <2>1. i = k + 2 \/ i \in 1..(k + 1)
    OBVIOUS
  <2> QED BY <2>1 DEF Trace
<1>2. \A i \in 1..(k + 1) : v[i] = w[i]
  OBVIOUS
<1>3. v[(k + 1) + 1] = nx[w[k + 1]]
  OBVIOUS
<1> HIDE DEF v
<1>4. \A i \in 1..(k + 1) : v[i] \in S /\ v[i + 1] = nx[v[i]]
  <2> TAKE i \in 1..(k + 1)
  <2>1. CASE i = k + 1
    BY <1>2, <1>3, <2>1
  <2>2. CASE i # k + 1
    <3>1. i \in 1..k /\ i + 1 \in 1..(k + 1)
      BY <2>2
    <3> QED BY <1>2, <3>1 DEF Trace
  <2> QED BY <2>1, <2>2
<1>5. v[1] = from
  <2>1. 1 \in 1..(k + 1)
    OBVIOUS
  <2> QED BY <1>2, <2>1 DEF Trace
<1> QED BY <1>1, <1>2, <1>3, <1>4, <1>5 DEF Trace

\* The first entry is the start of a walk.
LEMMA NoStep ==
  ASSUME NEW S, NEW nx, NEW from \in Nat
  PROVE  \E w : Trace(S, nx, from, 0, w) /\ w[1] = from
<1> DEFINE w == [ i \in 1..(0 + 1) |-> from ]
<1>1. w \in [1..(0 + 1) -> Nat] /\ w[1] = from /\ \A i \in 1..0 : w[i] \in S /\ w[i + 1] = nx[w[i]]
  OBVIOUS
<1> QED BY <1>1 DEF Trace

\* What is found does not depend on where the loops are.
LEMMA SameImage ==
  ASSUME NEW c, img' = img, len' = len, cfg' = c
  PROVE  /\ StdFound(c) => StdFound(cfg)'
         /\ ExtFound(c) => ExtFound(cfg)'
<1>1. /\ StdRead' = StdRead /\ StdNext' = StdNext /\ StdHead' = StdHead
      /\ ExtRead' = ExtRead /\ ExtNext' = ExtNext /\ ExtOpen' = ExtOpen
  BY DEF StdHead, StdRead, StdNext, ExtRead, ExtNext, ExtOpen
<1>2. \A p : (IsPCIe(p)' <=> IsPCIe(p)) /\ (IsACS(p)' <=> IsACS(p))
  BY <1>1 DEF IsPCIe, IsACS
<1>3. \A p : /\ (StdLeads(p)' <=> StdLeads(p)) /\ (ExtLeads(p)' <=> ExtLeads(p))
             /\ Control(p)' = Control(p)
  BY <1>1 DEF StdLeads, ExtLeads, Control
<1>4. StdFound(c) => StdFound(cfg)'
  BY <1>2, <1>3 DEF StdFound, EnoughTurns
<1>5. ExtFound(c) => ExtFound(cfg)'
  BY <1>2, <1>3 DEF ExtFound
<1> QED BY <1>4, <1>5

\* The entries the lists lead to are among the first m of a walk.
StdSeen(m, w) == \A p \in StdRead : StdLeads(p) => Has(w, m, p)
ExtSeen(m, w) == \A p \in ExtRead : ExtLeads(p) => Has(w, m, p)

\* A walk that is over has found all that the first list leads to.
LEMMA StdOver ==
  ASSUME img \in Images, len \in Nat, img.caps = TRUE,
         NEW c, NEW h \in Nat, NEW w, Trace(StdRead, StdNext, StdHead, h, w), NEW m \in 0..(h + 1),
         c.type # Unread <=> \E i \in 1..m : IsPCIe(w[i]),
         StdSeen(m, w)
  PROVE  StdFound(c)
<1>1. ASSUME NEW i \in 1..m, IsPCIe(w[i]) PROVE StdLeads(w[i])
  <2>1. Leads(StdRead, StdNext, StdHead, h, w[i])
    <3>1. h \in Int /\ m <= h + 1
      OBVIOUS
    <3> QED BY <3>1, EntryOfTrace
  <2>2. w[i] \in StdRead /\ IsFiniteSet(StdRead) /\ StdRead \in SUBSET StdRead
    BY <1>1, Entries DEF IsPCIe
  <2>3. PICK p : p = w[i]
    OBVIOUS
  <2> QED BY <2>1, <2>2, <2>3, LedSoon DEF StdLeads
<1>2. ASSUME NEW p, IsPCIe(p), StdLeads(p) PROVE \E i \in 1..m : IsPCIe(w[i])
  <2>1. p \in StdRead
    BY <1>2 DEF IsPCIe
  <2> QED BY <1>2, <2>1 DEF StdSeen, Has
<1> QED BY <1>1, <1>2 DEF StdFound

\* A walk that is over has found all that is among the first entries of the
\* second list.
LEMMA ExtOver ==
  ASSUME NEW c, c.ext = TRUE, NEW h \in Nat, NEW w, Trace(ExtOpen, ExtNext, ExtFirst, h, w),
         NEW m \in 0..(h + 1), m <= ExtHops,
         c.acs = TRUE <=> \E i \in 1..m : IsACS(w[i]),
         c.acs = TRUE => \E i \in 1..m : IsACS(w[i]) /\ c.ctl = Control(w[i]),
         ExtSeen(m, w)
  PROVE  ExtFound(c)
<1>1. ASSUME NEW i \in 1..m, IsACS(w[i]) PROVE ExtLeads(w[i])
  <2>1. ExtHops - 1 \in Int /\ m <= (ExtHops - 1) + 1
    BY LayoutAssumption
  <2> QED BY <2>1, EntryOfTrace DEF ExtLeads
<1>2. ASSUME NEW p, IsACS(p), ExtLeads(p) PROVE \E i \in 1..m : IsACS(w[i])
  <2>1. p \in ExtRead
    BY <1>2 DEF IsACS
  <2> QED BY <1>2, <2>1 DEF ExtSeen, Has
<1>3. c.acs = TRUE => \E p : IsACS(p) /\ ExtLeads(p) /\ c.ctl = Control(p)
  BY <1>1
<1> QED BY <1>1, <1>2, <1>3 DEF ExtFound

\* The second loop starts, or there is nothing to read for it.
LEMMA ExtendInv ==
  ASSUME IInv, img' = img, len' = len, NEW c \in Config, NoACS(c), StdFound(c), Extend(c)
  PROVE  IInv'
<1>0. /\ img \in Images /\ len \in Nat /\ ptr \in Nat /\ hops \in Nat
      /\ ExtFirst \in Nat /\ ExtHops \in Nat
  BY LayoutAssumption DEF IInv
<1>1. CASE len >= ExtFirst + 2
  <2>1. pc' = "ext" /\ ptr' = ExtFirst /\ hops' = 0 /\ cfg' = [c EXCEPT !.ext = TRUE]
    BY <1>1 DEF Extend
  <2>2. /\ cfg' \in Config /\ cfg'.ext = TRUE /\ cfg'.acs = FALSE /\ cfg'.ctl = {} /\ cfg'.type = c.type
    BY <2>1 DEF Config, NoACS
  <2>3. PICK d : cfg' = d
    OBVIOUS
  <2>4. StdFound(d)
    BY <2>2, <2>3 DEF StdFound
  <2>5. StdFound(cfg)'
    BY <2>3, <2>4, SameImage
  <2>6. PICK w : Trace(ExtOpen, ExtNext, ExtFirst, 0, w) /\ w[1] = ExtFirst
    BY <1>0, NoStep
  <2>7. ExtWalked(w)'
    <3>1. ExtOpen' = ExtOpen /\ ExtNext' = ExtNext
      BY DEF ExtOpen, ExtRead, ExtNext
    <3> QED BY <2>1, <2>2, <2>6, <3>1 DEF ExtWalked
  <2>8. \E x : ExtWalked(x)'
    BY <2>7
  <2> QED BY <1>0, <2>1, <2>2, <2>5, <2>8 DEF IInv
<1>2. CASE ~(len >= ExtFirst + 2)
  <2>1. pc' = "done" /\ cfg' = c /\ ptr' = ptr /\ hops' = hops
    BY <1>2 DEF Extend
  <2>2. ExtFound(c)
    BY DEF ExtFound, NoACS
  <2>3. StdFound(cfg)' /\ ExtFound(cfg)'
    BY <2>1, <2>2, SameImage
  <2> QED BY <1>0, <2>1, <2>3 DEF IInv
<1> QED BY <1>1, <1>2

-----------------------------------------------------------------------------
(* What one turn takes from an entry. *)

\* The type is known once the entry is the PCI Express capability and its
\* register was read (pci.go:401-410).
LEMMA TakesPCIe ==
  ASSUME IInv, StdMore(hops, ptr),
         NEW e, e = StdAt(img, ptr), NEW c, c = TakePCIe(cfg, e, ptr)
  PROVE  /\ c \in Config /\ (NoACS(cfg) => NoACS(c))
         /\ c.type # Unread <=> cfg.type # Unread \/ IsPCIe(ptr)
<1>0. img \in Images /\ len \in Nat /\ ptr \in Nat /\ cfg \in Config /\ ptr >= StdFirst /\ ptr + 1 <= len
  BY DEF IInv, StdMore
<1>1. CASE ptr \in DOMAIN img.std
  <2>1. e = img.std[ptr]
    BY <1>1 DEF StdAt
  <2>2. e.type \in Nat /\ e.mps \in Nat /\ ptr \in StdRead
    BY <1>0, <1>1, <2>1, Entries DEF StdRead
  <2>3. IsPCIe(ptr) <=> e.id = "pcie" /\ ptr + 2 <= len
    BY <2>1, <2>2 DEF IsPCIe
  <2>4. CASE e.id # "pcie"
    BY <1>0, <2>3, <2>4 DEF TakePCIe
  <2>5. CASE e.id = "pcie"
    <3>1. c = [ cfg EXCEPT !.type = IF ptr + 2 <= len THEN e.type ELSE @,
                           !.mps  = IF ptr + 5 <= len THEN e.mps ELSE @ ]
      BY <2>5 DEF TakePCIe
    <3>2. /\ c.type = (IF ptr + 2 <= len THEN e.type ELSE cfg.type)
          /\ c.ext = cfg.ext /\ c.acs = cfg.acs /\ c.ctl = cfg.ctl
      BY <1>0, <3>1 DEF Config
    <3>3. c \in Config
      <4> DEFINE t == IF ptr + 2 <= len THEN e.type ELSE cfg.type
                 m == IF ptr + 5 <= len THEN e.mps ELSE cfg.mps
      <4>1. t \in Int /\ m \in Int
        BY <1>0, <2>2 DEF Config
      <4>2. c = [ cfg EXCEPT !.type = t, !.mps = m ]
        BY <3>1
      <4> HIDE DEF t, m
      <4> QED BY <1>0, <4>1, <4>2 DEF Config
    <3>4. NoACS(cfg) => NoACS(c)
      BY <3>2 DEF NoACS
    <3>5. e.type # Unread
      BY <2>2 DEF Unread
    <3>6. c.type # Unread <=> cfg.type # Unread \/ IsPCIe(ptr)
      BY <2>3, <2>5, <3>2, <3>5
    <3> QED BY <3>3, <3>4, <3>6
  <2> QED BY <2>4, <2>5
<1>2. CASE ptr \notin DOMAIN img.std
  <2>1. e.id = "other" /\ ~IsPCIe(ptr)
    BY <1>2 DEF StdAt, Empty, IsPCIe, StdRead
  <2>2. c = cfg
    BY <2>1 DEF TakePCIe
  <2> QED BY <1>0, <2>1, <2>2
<1> QED BY <1>1, <1>2

\* ACS is there once the entry is the ACS capability and its register was read;
\* the bits are the control bits (pci.go:426-431).
LEMMA TakesACS ==
  ASSUME IInv, ExtMore(hops, ptr),
         NEW e, e = ExtAt(img, ptr), NEW c, c = TakeACS(cfg, e, ptr)
  PROVE  /\ c \in Config /\ c.type = cfg.type /\ c.ext = cfg.ext
         /\ c.acs = TRUE <=> cfg.acs = TRUE \/ IsACS(ptr)
         /\ c.acs = TRUE => (cfg.acs = TRUE /\ c.ctl = cfg.ctl) \/ (IsACS(ptr) /\ c.ctl = Control(ptr))
<1>0. img \in Images /\ len \in Nat /\ ptr \in Nat /\ cfg \in Config /\ ptr >= ExtFirst /\ ptr + 2 <= len
  BY DEF IInv, ExtMore
<1>1. CASE ptr \in DOMAIN img.ext
  <2>1. e = img.ext[ptr]
    BY <1>1 DEF ExtAt
  <2>2. e.ctl \in SUBSET STRING /\ ptr \in ExtRead
    BY <1>0, <1>1, <2>1, Entries DEF ExtRead
  <2>3. IsACS(ptr) <=> e.id = "acs" /\ ptr + 3 <= len
    BY <2>1, <2>2 DEF IsACS
  <2>4. CASE e.id # "acs" \/ ptr + 3 > len
    <3>1. ~IsACS(ptr)
      BY <1>0, <2>3, <2>4
    <3>2. c = cfg
      BY <2>4 DEF TakeACS
    <3> QED BY <1>0, <3>1, <3>2
  <2>5. CASE ~(e.id # "acs" \/ ptr + 3 > len)
    <3>1. IsACS(ptr)
      BY <1>0, <2>3, <2>5
    <3>2. c = [cfg EXCEPT !.acs = TRUE, !.ctl = IF ptr + 4 <= len THEN e.ctl ELSE {}]
      BY <2>5 DEF TakeACS
    <3>3. /\ c.type = cfg.type /\ c.ext = cfg.ext /\ c.acs = TRUE
          /\ c.ctl = (IF ptr + 4 <= len THEN e.ctl ELSE {})
      BY <1>0, <3>2 DEF Config
    <3>4. c \in Config
      BY <1>0, <2>2, <3>2 DEF Config
    <3>5. c.ctl = Control(ptr)
      BY <2>1, <3>3 DEF Control
    <3> QED BY <3>1, <3>3, <3>4, <3>5
  <2> QED BY <2>4, <2>5
<1>2. CASE ptr \notin DOMAIN img.ext
  <2>1. e.id = "none" /\ ~IsACS(ptr)
    BY <1>2 DEF ExtAt, NoHeader, IsACS, ExtRead
  <2>2. c = cfg
    BY <2>1 DEF TakeACS
  <2> QED BY <1>0, <2>1, <2>2
<1> QED BY <1>1, <1>2

-----------------------------------------------------------------------------
(* The steps. *)

\* The loops start where the image is long enough (pci.go:395-399).
LEMMA StartInv == IInv /\ Start => IInv'
<1> SUFFICES ASSUME IInv, Start PROVE IInv'
  OBVIOUS
<1>0. /\ img' = img /\ len' = len /\ cfg = Nothing /\ hops = 0 /\ pc = "start"
      /\ img \in Images /\ len \in Nat /\ ptr \in Nat /\ hops \in Nat /\ cfg \in Config
  BY DEF IInv, Start
<1>1. NoACS(cfg) /\ cfg.type = Unread /\ cfg.ext = FALSE
  BY <1>0 DEF Nothing, NoACS
<1>2. CASE len < StdFirst
  <2>1. pc' = "done" /\ ptr' = ptr /\ hops' = hops /\ cfg' = cfg
    BY <1>2 DEF Start
  <2>2. ExtFound(cfg)
    BY <1>1 DEF ExtFound, NoACS
  <2>3. ExtFound(cfg)'
    <3>1. PICK d : d = cfg
      OBVIOUS
    <3>2. ExtFound(d) /\ cfg' = d
      BY <2>1, <2>2, <3>1
    <3> QED BY <1>0, <3>2, SameImage
  <2>4. ~(len' >= StdFirst)
    BY <1>0, <1>2, LayoutAssumption
  <2> QED BY <1>0, <2>1, <2>3, <2>4 DEF IInv
<1>3. CASE ~(len < StdFirst) /\ img.caps
  <2>1. pc' = "std" /\ ptr' = img.head /\ hops' = hops /\ cfg' = cfg
    BY <1>3 DEF Start
  <2>2. img.caps = TRUE /\ StdHead \in Nat /\ ptr' = StdHead
    BY <1>0, <1>3, <2>1, Entries DEF StdHead
  <2>3. PICK w : Trace(StdRead, StdNext, StdHead, 0, w) /\ w[1] = StdHead
    BY <2>2, NoStep
  <2>4. StdWalked(w)'
    <3>1. StdRead' = StdRead /\ StdNext' = StdNext /\ StdHead' = StdHead
      BY <1>0 DEF StdRead, StdNext, StdHead
    <3> QED BY <1>0, <1>1, <2>1, <2>2, <2>3, <3>1 DEF StdWalked
  <2>5. \E x : StdWalked(x)'
    BY <2>4
  <2>6. len' >= StdFirst /\ (img.caps = TRUE)' /\ NoACS(cfg)'
    BY <1>0, <1>1, <1>3, <2>1, <2>2, LayoutAssumption DEF NoACS
  <2> QED BY <1>0, <2>1, <2>2, <2>5, <2>6 DEF IInv
<1>4. CASE ~(len < StdFirst) /\ ~img.caps
  <2>1. Extend(cfg)
    BY <1>4 DEF Start
  <2>2. StdFound(cfg)
    BY <1>1, <1>4 DEF StdFound
  <2> QED BY <1>0, <1>1, <2>1, <2>2, ExtendInv
<1> QED BY <1>2, <1>3, <1>4

\* A turn of the first loop (pci.go:399-415).
LEMMA StdStepInv == IInv /\ StdStep => IInv'
<1> SUFFICES ASSUME IInv, StdStep PROVE IInv'
  OBVIOUS
<1>0. /\ img' = img /\ len' = len /\ pc = "std" /\ StdMore(hops, ptr)
      /\ img \in Images /\ len \in Nat /\ ptr \in Nat /\ hops \in Nat
      /\ len >= StdFirst /\ img.caps = TRUE /\ NoACS(cfg)
  BY DEF IInv, StdStep
<1>1. PICK e : e = StdAt(img, ptr)
  OBVIOUS
<1>2. PICK c : c = TakePCIe(cfg, e, ptr)
  OBVIOUS
<1>3. PICK w : StdWalked(w)
  BY <1>0 DEF IInv
<1>4. c \in Config /\ NoACS(c) /\ (c.type # Unread <=> cfg.type # Unread \/ IsPCIe(ptr))
  BY <1>0, <1>1, <1>2, TakesPCIe
<1>5. c.type # Unread <=> \E i \in 1..(hops + 1) : IsPCIe(w[i])
  <2>1. \A i : i \in 1..(hops + 1) <=> i \in 1..hops \/ i = hops + 1
    BY <1>0
  <2>2. w[hops + 1] = ptr /\ (cfg.type # Unread <=> \E i \in 1..hops : IsPCIe(w[i]))
    BY <1>3 DEF StdWalked
  <2> QED BY <1>4, <2>1, <2>2
<1>6. Trace(StdRead, StdNext, StdHead, hops, w) /\ w[hops + 1] = ptr
  BY <1>3 DEF StdWalked
<1>7. ptr \in StdRead => StdNext[ptr] = e.next /\ e.next \in Nat
  <2> SUFFICES ASSUME ptr \in StdRead PROVE StdNext[ptr] = e.next /\ e.next \in Nat
    OBVIOUS
  <2>1. ptr \in DOMAIN img.std
    BY <1>0, Entries
  <2>2. e = img.std[ptr]
    BY <1>1, <2>1 DEF StdAt
  <2> QED BY <1>0, <2>1, <2>2, Entries
<1>8. CASE e.next \in {0, ptr}
  <2>1. Extend(c)
    BY <1>1, <1>2, <1>8 DEF StdStep
  <2>2. Stops(StdRead, StdRead, StdNext, w[hops + 1])
    <3>1. 0 \notin StdRead
      BY LayoutAssumption DEF StdRead
    <3> QED BY <1>6, <1>7, <1>8, <3>1 DEF Stops
  <2>3. ASSUME NEW p \in StdRead, StdLeads(p) PROVE Has(w, hops + 1, p)
    <3>1. StdRead \in SUBSET StdRead /\ Cardinality(StdRead) - 1 \in Int
      BY <1>0, Entries, FS_CardinalityType
    <3>2. Leads(StdRead, StdNext, StdHead, Cardinality(StdRead) - 1, p)
      BY <2>3 DEF StdLeads
    <3> QED BY <1>0, <1>6, <2>2, <3>1, <3>2, LedWasSeen
  <2>4. hops + 1 \in 0..(hops + 1) /\ StdSeen(hops + 1, w)
    BY <1>0, <2>3 DEF StdSeen
  <2>5. StdFound(c)
    BY <1>0, <1>5, <1>6, <2>4, StdOver
  <2> QED BY <1>0, <1>4, <2>1, <2>5, ExtendInv
<1>9. CASE e.next \notin {0, ptr}
  <2>1. ptr' = e.next /\ hops' = hops + 1 /\ cfg' = c /\ pc' = pc
    BY <1>1, <1>2, <1>9 DEF StdStep
  <2>2. ptr \in StdRead
    <3>1. ptr \in DOMAIN img.std
      BY <1>1, <1>9 DEF StdAt, Empty
    <3> QED BY <1>0, <3>1 DEF StdRead, StdMore
  <2>3. PICK v : /\ Trace(StdRead, StdNext, StdHead, hops + 1, v) /\ v[(hops + 1) + 1] = StdNext[ptr]
                 /\ \A i \in 1..(hops + 1) : v[i] = w[i]
    BY <1>0, <1>6, <1>7, <2>2, OneMore
  <2>4. StdWalked(v)'
    <3>1. StdRead' = StdRead /\ StdNext' = StdNext /\ StdHead' = StdHead
      BY <1>0 DEF StdRead, StdNext, StdHead
    <3>2. \A p : IsPCIe(p)' <=> IsPCIe(p)
      BY <1>0, <3>1 DEF IsPCIe
    <3>3. c.type # Unread <=> \E i \in 1..(hops + 1) : IsPCIe(v[i])
      BY <1>5, <2>3
    <3>4. Trace(StdRead, StdNext, StdHead, hops', v) /\ v[hops' + 1] = ptr'
      BY <1>7, <2>1, <2>2, <2>3
    <3>5. cfg'.type # Unread <=> \E i \in 1..hops' : IsPCIe(v[i])
      BY <2>1, <3>3
    <3> QED BY <3>1, <3>2, <3>4, <3>5 DEF StdWalked
  <2>5. \E x : StdWalked(x)'
    BY <2>4
  <2>6. ptr' \in Nat /\ hops' \in Nat /\ cfg' \in Config /\ NoACS(cfg)'
    BY <1>0, <1>4, <1>7, <2>1, <2>2 DEF NoACS
  <2> QED BY <1>0, <2>1, <2>5, <2>6 DEF IInv
<1> QED BY <1>8, <1>9

\* The first loop is over.
LEMMA StdEndsInv == IInv /\ StdEnds => IInv'
<1> SUFFICES ASSUME IInv, StdEnds PROVE IInv'
  OBVIOUS
<1>0. /\ img' = img /\ len' = len /\ pc = "std" /\ ~StdMore(hops, ptr) /\ Extend(cfg)
      /\ img \in Images /\ len \in Nat /\ ptr \in Nat /\ hops \in Nat /\ cfg \in Config
      /\ img.caps = TRUE /\ NoACS(cfg) /\ StdHops \in Nat
  BY LayoutAssumption DEF IInv, StdEnds
<1>1. PICK w : StdWalked(w)
  BY <1>0 DEF IInv
<1>2. /\ Trace(StdRead, StdNext, StdHead, hops, w) /\ w[hops + 1] = ptr
      /\ cfg.type # Unread <=> \E i \in 1..hops : IsPCIe(w[i])
  BY <1>1 DEF StdWalked
<1>3. ASSUME EnoughTurns, NEW p \in StdRead, StdLeads(p) PROVE Has(w, hops, p)
  <2>1. /\ Leads(StdRead, StdNext, StdHead, Cardinality(StdRead) - 1, p)
        /\ Cardinality(StdRead) \in Nat /\ Cardinality(StdRead) - 1 \in Int
        /\ StdRead \in SUBSET StdRead
    BY <1>0, <1>3, Entries, FS_CardinalityType DEF StdLeads
  <2>2. CASE hops >= StdHops
    <3>1. Cardinality(StdRead) <= StdHops
      BY <1>0, <1>3, Entries
    <3>2. Cardinality(StdRead) - 1 < hops /\ hops <= hops + 1
      BY <1>0, <2>1, <2>2, <3>1
    <3> QED BY <1>0, <1>2, <2>1, <3>2, LedIsOnTheWay
  <2>3. CASE ~(hops >= StdHops)
    <3>1. ptr \notin StdRead
      BY <1>0, <2>3 DEF StdMore, StdRead
    <3>2. w[hops + 1] \notin StdRead
      BY <1>2, <3>1
    <3>3. Has(w, hops + 1, p)
      <4>1. Stops(StdRead, StdRead, StdNext, w[hops + 1])
        BY <3>2 DEF Stops
      <4> QED BY <1>0, <1>2, <2>1, <4>1, LedWasSeen
    <3>4. \A i \in 1..(hops + 1) : i \in 1..hops \/ i = hops + 1
      BY <1>0
    <3> QED BY <3>2, <3>3, <3>4 DEF Has
  <2> QED BY <2>2, <2>3
<1>4. StdFound(cfg)
  <2> SUFFICES ASSUME EnoughTurns PROVE StdFound(cfg)
    BY DEF StdFound
  <2>1. hops \in 0..(hops + 1) /\ StdSeen(hops, w)
    BY <1>0, <1>3 DEF StdSeen
  <2>2. PICK c : c = cfg
    OBVIOUS
  <2>3. StdFound(c)
    BY <1>0, <1>2, <2>1, <2>2, StdOver
  <2> QED BY <2>2, <2>3
<1> QED BY <1>0, <1>4, ExtendInv

\* A turn of the second loop (pci.go:420-437).
LEMMA ExtStepInv == IInv /\ ExtStep => IInv'
<1> SUFFICES ASSUME IInv, ExtStep PROVE IInv'
  OBVIOUS
<1>0. /\ img' = img /\ len' = len /\ pc = "ext" /\ ExtMore(hops, ptr)
      /\ img \in Images /\ len \in Nat /\ ptr \in Nat /\ hops \in Nat
      /\ cfg.ext = TRUE /\ StdFound(cfg)
      /\ hops + 1 <= ExtHops /\ ExtHops \in Nat
  BY LayoutAssumption DEF IInv, ExtStep, ExtMore
<1>1. PICK e : e = ExtAt(img, ptr)
  OBVIOUS
<1>2. PICK c : c = TakeACS(cfg, e, ptr)
  OBVIOUS
<1>3. PICK w : ExtWalked(w)
  BY <1>0 DEF IInv
<1>4. /\ c \in Config /\ c.type = cfg.type /\ c.ext = cfg.ext
      /\ c.acs = TRUE <=> cfg.acs = TRUE \/ IsACS(ptr)
      /\ c.acs = TRUE => (cfg.acs = TRUE /\ c.ctl = cfg.ctl) \/ (IsACS(ptr) /\ c.ctl = Control(ptr))
  BY <1>0, <1>1, <1>2, TakesACS
<1>5. /\ Trace(ExtOpen, ExtNext, ExtFirst, hops, w) /\ w[hops + 1] = ptr
      /\ cfg.acs = TRUE <=> \E i \in 1..hops : IsACS(w[i])
      /\ cfg.acs = TRUE => \E i \in 1..hops : IsACS(w[i]) /\ cfg.ctl = Control(w[i])
  BY <1>3 DEF ExtWalked
<1>6. \A i : i \in 1..(hops + 1) <=> i \in 1..hops \/ i = hops + 1
  BY <1>0
<1>7. c.acs = TRUE <=> \E i \in 1..(hops + 1) : IsACS(w[i])
  BY <1>4, <1>5, <1>6
<1>8. c.acs = TRUE => \E i \in 1..(hops + 1) : IsACS(w[i]) /\ c.ctl = Control(w[i])
  <2> SUFFICES ASSUME c.acs = TRUE
               PROVE  \E i \in 1..(hops + 1) : IsACS(w[i]) /\ c.ctl = Control(w[i])
    OBVIOUS
  <2>1. CASE cfg.acs = TRUE /\ c.ctl = cfg.ctl
    BY <1>5, <1>6, <2>1
  <2>2. CASE IsACS(ptr) /\ c.ctl = Control(ptr)
    BY <1>5, <1>6, <2>2
  <2> QED BY <1>4, <2>1, <2>2
<1>9. StdFound(c)
  BY <1>0, <1>4 DEF StdFound
<1>10. ptr \in ExtRead => ExtNext[ptr] = e.next /\ e.next \in Nat /\ e = img.ext[ptr]
  <2> SUFFICES ASSUME ptr \in ExtRead PROVE ExtNext[ptr] = e.next /\ e.next \in Nat /\ e = img.ext[ptr]
    OBVIOUS
  <2>1. ptr \in DOMAIN img.ext
    BY <1>0, Entries
  <2>2. e = img.ext[ptr]
    BY <1>1, <2>1 DEF ExtAt
  <2> QED BY <1>0, <2>1, <2>2, Entries
<1>11. CASE e.id = "none" \/ e.next \in {0, ptr}
  <2>1. pc' = "done" /\ ptr' = ptr /\ hops' = hops /\ cfg' = c
    BY <1>1, <1>2, <1>11 DEF ExtStep
  <2>2. Stops(ExtRead, ExtOpen, ExtNext, w[hops + 1])
    <3>1. CASE ptr \in ExtOpen
      <4>1. ptr \in ExtRead /\ e.next \in {0, ptr}
        BY <1>10, <1>11, <3>1 DEF ExtOpen
      <4>2. 0 \notin ExtRead
        BY LayoutAssumption DEF ExtRead
      <4> QED BY <1>5, <1>10, <4>1, <4>2 DEF Stops
    <3>2. CASE ptr \notin ExtOpen
      BY <1>5, <3>2 DEF Stops
    <3> QED BY <3>1, <3>2
  <2>3. ASSUME NEW p \in ExtRead, ExtLeads(p) PROVE Has(w, hops + 1, p)
    <3>1. ExtOpen \in SUBSET ExtRead /\ ExtHops - 1 \in Int
      BY <1>0, Entries
    <3>2. Leads(ExtOpen, ExtNext, ExtFirst, ExtHops - 1, p)
      BY <2>3 DEF ExtLeads
    <3> QED BY <1>0, <1>5, <2>2, <3>1, <3>2, LedWasSeen
  <2>4. hops + 1 \in 0..(hops + 1) /\ ExtSeen(hops + 1, w)
    BY <1>0, <2>3 DEF ExtSeen
  <2>5. ExtFound(c)
    BY <1>0, <1>4, <1>5, <1>7, <1>8, <2>4, ExtOver
  <2>6. StdFound(cfg)' /\ ExtFound(cfg)'
    BY <1>0, <1>9, <2>1, <2>5, SameImage
  <2> QED BY <1>0, <1>4, <2>1, <2>6 DEF IInv
<1>12. CASE ~(e.id = "none" \/ e.next \in {0, ptr})
  <2>1. ptr' = e.next /\ hops' = hops + 1 /\ cfg' = c /\ pc' = pc
    BY <1>1, <1>2, <1>12 DEF ExtStep, Turn
  <2>2. ptr \in ExtRead /\ ptr \in ExtOpen
    <3>1. ptr \in DOMAIN img.ext
      BY <1>1, <1>12 DEF ExtAt, NoHeader
    <3>2. ptr \in ExtRead
      BY <1>0, <3>1 DEF ExtRead, ExtMore
    <3> QED BY <1>10, <1>12, <3>2 DEF ExtOpen
  <2>3. PICK v : /\ Trace(ExtOpen, ExtNext, ExtFirst, hops + 1, v) /\ v[(hops + 1) + 1] = ExtNext[ptr]
                 /\ \A i \in 1..(hops + 1) : v[i] = w[i]
    BY <1>0, <1>5, <1>10, <2>2, OneMore
  <2>4. ExtWalked(v)'
    <3>1. ExtRead' = ExtRead /\ ExtOpen' = ExtOpen /\ ExtNext' = ExtNext
      BY <1>0 DEF ExtOpen, ExtRead, ExtNext
    <3>2. \A p : (IsACS(p)' <=> IsACS(p)) /\ Control(p)' = Control(p)
      BY <1>0, <3>1 DEF IsACS, Control
    <3>3. c.acs = TRUE <=> \E i \in 1..(hops + 1) : IsACS(v[i])
      BY <1>7, <2>3
    <3>4. c.acs = TRUE => \E i \in 1..(hops + 1) : IsACS(v[i]) /\ c.ctl = Control(v[i])
      BY <1>8, <2>3
    <3>5. Trace(ExtOpen, ExtNext, ExtFirst, hops', v) /\ v[hops' + 1] = ptr'
      BY <1>10, <2>1, <2>2, <2>3
    <3>6. cfg'.acs = TRUE <=> \E i \in 1..hops' : IsACS(v[i])
      BY <2>1, <3>3
    <3>7. cfg'.acs = TRUE => \E i \in 1..hops' : IsACS(v[i]) /\ cfg'.ctl = Control(v[i])
      BY <1>0, <2>1, <3>4
    <3> QED BY <3>1, <3>2, <3>5, <3>6, <3>7 DEF ExtWalked
  <2>5. \E x : ExtWalked(x)'
    BY <2>4
  <2>6. StdFound(cfg)'
    BY <1>0, <1>9, <2>1, SameImage
  <2>7. ptr' \in Nat /\ hops' \in Nat /\ cfg' \in Config /\ cfg'.ext = TRUE /\ hops' <= ExtHops
    BY <1>0, <1>4, <1>10, <2>1, <2>2
  <2> QED BY <1>0, <2>1, <2>5, <2>6, <2>7 DEF IInv
<1> QED BY <1>11, <1>12

\* The second loop is over.
LEMMA ExtEndsInv == IInv /\ ExtEnds => IInv'
<1> SUFFICES ASSUME IInv, ExtEnds PROVE IInv'
  OBVIOUS
<1>0. /\ img' = img /\ len' = len /\ pc = "ext" /\ ~ExtMore(hops, ptr)
      /\ pc' = "done" /\ ptr' = ptr /\ hops' = hops /\ cfg' = cfg
      /\ img \in Images /\ len \in Nat /\ ptr \in Nat /\ hops \in Nat /\ cfg \in Config
      /\ cfg.ext = TRUE /\ hops <= ExtHops /\ StdFound(cfg) /\ ExtHops \in Nat
  BY LayoutAssumption DEF IInv, ExtEnds
<1>1. PICK w : ExtWalked(w)
  BY <1>0 DEF IInv
<1>2. /\ Trace(ExtOpen, ExtNext, ExtFirst, hops, w) /\ w[hops + 1] = ptr
      /\ cfg.acs = TRUE <=> \E i \in 1..hops : IsACS(w[i])
      /\ cfg.acs = TRUE => \E i \in 1..hops : IsACS(w[i]) /\ cfg.ctl = Control(w[i])
  BY <1>1 DEF ExtWalked
<1>3. ASSUME NEW p \in ExtRead, ExtLeads(p) PROVE Has(w, hops, p)
  <2>1. Leads(ExtOpen, ExtNext, ExtFirst, ExtHops - 1, p) /\ ExtHops - 1 \in Int
    BY <1>0, <1>3 DEF ExtLeads
  <2>2. CASE hops = ExtHops
    <3>1. ExtHops - 1 < hops /\ hops <= hops + 1
      BY <1>0, <2>2
    <3> QED BY <1>0, <1>2, <2>1, <3>1, LedIsOnTheWay
  <2>3. CASE hops # ExtHops
    <3>1. ptr \notin ExtRead
      BY <1>0, <2>3 DEF ExtMore, ExtRead
    <3>2. Has(w, hops + 1, p)
      <4>1. ExtOpen \in SUBSET ExtRead
        BY <1>0, Entries
      <4>2. Stops(ExtRead, ExtOpen, ExtNext, w[hops + 1])
        BY <1>2, <3>1, <4>1 DEF Stops
      <4> QED BY <1>0, <1>2, <2>1, <4>1, <4>2, LedWasSeen
    <3>3. \A i \in 1..(hops + 1) : i \in 1..hops \/ i = hops + 1
      BY <1>0
    <3> QED BY <1>2, <3>1, <3>2, <3>3 DEF Has
  <2> QED BY <2>2, <2>3
<1>4. hops \in 0..(hops + 1) /\ ExtSeen(hops, w)
  BY <1>0, <1>3 DEF ExtSeen
<1>5. PICK c : c = cfg
  OBVIOUS
<1>6. ExtFound(c) /\ StdFound(c) /\ cfg' = c
  <2>1. ExtFound(c)
    BY <1>0, <1>2, <1>4, <1>5, ExtOver
  <2> QED BY <1>0, <1>5, <2>1
<1>7. StdFound(cfg)' /\ ExtFound(cfg)'
  BY <1>0, <1>6, SameImage
<1> QED BY <1>0, <1>7 DEF IInv

LEMMA Inductive == Spec => []IInv
<1>1. Init => IInv
  <2> SUFFICES ASSUME Init PROVE IInv
    OBVIOUS
  <2>1. Nothing \in Config
    BY DEF Nothing, Config, Unread
  <2> QED BY <2>1, LayoutAssumption DEF Init, IInv
<1>2. IInv /\ [Next]_vars => IInv'
  <2> SUFFICES ASSUME IInv, [Next]_vars PROVE IInv'
    OBVIOUS
  <2>1. CASE UNCHANGED vars
    <3>1. /\ img' = img /\ len' = len /\ pc' = pc /\ ptr' = ptr /\ hops' = hops /\ cfg' = cfg
      BY <2>1 DEF vars
    <3>2. PICK c : c = cfg
      OBVIOUS
    <3>3. (StdFound(cfg) => StdFound(cfg)') /\ (ExtFound(cfg) => ExtFound(cfg)')
      BY <3>1, <3>2, SameImage
    <3>4. \A w : (StdWalked(w) => StdWalked(w)') /\ (ExtWalked(w) => ExtWalked(w)')
      <4>1. /\ StdRead' = StdRead /\ StdNext' = StdNext /\ StdHead' = StdHead
            /\ ExtRead' = ExtRead /\ ExtNext' = ExtNext /\ ExtOpen' = ExtOpen
        BY <3>1 DEF StdHead, StdRead, StdNext, ExtRead, ExtNext, ExtOpen
      <4>2. \A p : (IsPCIe(p)' <=> IsPCIe(p)) /\ (IsACS(p)' <=> IsACS(p)) /\ Control(p)' = Control(p)
        BY <3>1, <4>1 DEF IsPCIe, IsACS, Control
      <4> QED BY <3>1, <4>1, <4>2 DEF StdWalked, ExtWalked
    <3> QED BY <3>1, <3>3, <3>4 DEF IInv, NoACS
  <2>2. CASE Start
    BY <2>2, StartInv
  <2>3. CASE StdStep
    BY <2>3, StdStepInv
  <2>4. CASE StdEnds
    BY <2>4, StdEndsInv
  <2>5. CASE ExtStep
    BY <2>5, ExtStepInv
  <2>6. CASE ExtEnds
    BY <2>6, ExtEndsInv
  <2> QED BY <2>1, <2>2, <2>3, <2>4, <2>5, <2>6 DEF Next
<1> QED BY <1>1, <1>2, PTL DEF Spec

-----------------------------------------------------------------------------
(* The theorems. *)

\* The parser finds the PCI Express capability exactly when the list leads to
\* it (pci.go:399-415), on every image whose first list has no more places than
\* the loop has turns.
THEOREM FindsPCIe == ASSUME EnoughTurns PROVE Spec => []PCIeFoundIfListed
<1>1. IInv => PCIeFoundIfListed
  <2> SUFFICES ASSUME IInv, pc = "done", len >= StdFirst
               PROVE  LET L == Listing(img.std, StdFirst, 1)
                      IN cfg.type # Unread <=>
                           /\ img.caps
                           /\ \E p \in L.node : /\ img.std[p].id = "pcie" /\ p + 2 <= len
                                                /\ Listed(img.head, p, Cardinality(L.node), L)
    BY DEF PCIeFoundIfListed
  <2>0. img \in Images /\ len \in Nat /\ StdFound(cfg)
    BY DEF IInv
  <2>1. PICK L : L = Listing(img.std, StdFirst, 1)
    OBVIOUS
  <2>2. L.node = StdRead
    BY <2>1 DEF Listing, StdRead
  <2>3. \A x, y : <<x, y>> \in L.edge <=> x \in StdRead /\ y \in L.node /\ y = StdNext[x]
    <3>1. L.edge = { x \in StdRead \X StdRead : x[2] = img.std[x[1]].next /\ img.std[x[1]].id # "none" }
      BY <2>1 DEF Listing, StdRead
    <3>2. \A x \in StdRead : StdNext[x] = img.std[x].next /\ img.std[x].id # "none"
      BY <2>0, Entries
    <3> QED BY <2>2, <3>1, <3>2
  <2>4. ASSUME NEW p \in StdRead
        PROVE  Listed(img.head, p, Cardinality(L.node), L) <=> StdLeads(p)
    <3>1. /\ IsFiniteSet(L.node) /\ L.node \in SUBSET Nat /\ StdRead \in SUBSET L.node /\ p \in L.node
          /\ StdHead \in Nat /\ Cardinality(L.node) \in Nat
      BY <2>0, <2>2, Entries, FS_CardinalityType
    <3>2. Listed(StdHead, p, Cardinality(L.node), L)
            <=> Leads(StdRead, StdNext, StdHead, Cardinality(L.node) - 1, p)
      BY <2>3, <3>1, ListedIs
    <3> QED BY <2>2, <3>2 DEF StdLeads, StdHead
  <2>5. cfg.type # Unread <=>
          /\ img.caps
          /\ \E p \in L.node : /\ img.std[p].id = "pcie" /\ p + 2 <= len
                               /\ Listed(img.head, p, Cardinality(L.node), L)
    <3>1. img.caps \in BOOLEAN
      BY <2>0, Entries
    <3>2. \A p : IsPCIe(p) /\ StdLeads(p) <=>
                   p \in L.node /\ img.std[p].id = "pcie" /\ p + 2 <= len
                     /\ Listed(img.head, p, Cardinality(L.node), L)
      BY <2>2, <2>4 DEF IsPCIe
    <3> QED BY <2>0, <3>1, <3>2 DEF StdFound
  <2> QED BY <2>1, <2>5
<1> QED BY <1>1, Inductive, PTL

\* Without the capability there are no bits.
NoBits == cfg.acs = TRUE \/ cfg.ctl = {}

\* No step takes bits without the capability (pci.go:426-431).
LEMMA NoBitsInvariance == Spec => []NoBits
<1>1. Init => NoBits
  BY DEF Init, NoBits, Nothing
<1>2. IInv /\ NoBits /\ [Next]_vars => NoBits'
  <2> SUFFICES ASSUME IInv, NoBits, [Next]_vars PROVE NoBits'
    OBVIOUS
  <2>0. cfg \in Config
    BY DEF IInv
  <2>1. \A c, e, p : c \in Config => /\ TakePCIe(c, e, p).acs = c.acs /\ TakePCIe(c, e, p).ctl = c.ctl
                                    /\ [TakePCIe(c, e, p) EXCEPT !.ext = TRUE].acs = c.acs
                                    /\ [TakePCIe(c, e, p) EXCEPT !.ext = TRUE].ctl = c.ctl
                                    /\ [c EXCEPT !.ext = TRUE].acs = c.acs
                                    /\ [c EXCEPT !.ext = TRUE].ctl = c.ctl
    BY DEF TakePCIe, Config
  <2>2. CASE Start
    BY <2>0, <2>1, <2>2 DEF Start, Extend, NoBits
  <2>3. CASE StdStep
    <3>1. PICK c : c = TakePCIe(cfg, StdAt(img, ptr), ptr)
      OBVIOUS
    <3>2. cfg' = c \/ cfg' = [c EXCEPT !.ext = TRUE]
      BY <2>3, <3>1 DEF StdStep, Extend
    <3>3. /\ c.acs = cfg.acs /\ c.ctl = cfg.ctl
          /\ [c EXCEPT !.ext = TRUE].acs = cfg.acs /\ [c EXCEPT !.ext = TRUE].ctl = cfg.ctl
      BY <2>0, <2>1, <3>1
    <3> QED BY <3>2, <3>3 DEF NoBits
  <2>4. CASE StdEnds
    BY <2>0, <2>1, <2>4 DEF StdEnds, Extend, NoBits
  <2>5. CASE ExtStep
    <3>1. cfg' = TakeACS(cfg, ExtAt(img, ptr), ptr)
      BY <2>5 DEF ExtStep
    <3>2. cfg' = cfg \/ cfg'.acs = TRUE
      BY <2>0, <3>1 DEF TakeACS, Config
    <3> QED BY <3>2 DEF NoBits
  <2>6. CASE ExtEnds \/ UNCHANGED vars
    BY <2>6 DEF ExtEnds, vars, NoBits
  <2> QED BY <2>2, <2>3, <2>4, <2>5, <2>6 DEF Next
<1> QED BY <1>1, <1>2, Inductive, PTL DEF Spec

\* The ACS capability is found exactly when it is one of the first ExtHops
\* entries of the second list; then the bits are exactly the control bits of such
\* an entry, none of them lost and none made up, except that a register which was
\* not read shows none; otherwise there are no bits (pci.go:417-437).  So of every
\* image, cut anywhere, lists that run in circles included.
THEOREM FindsACS == Spec => []ACSFoundIfListed
<1>1. IInv /\ NoBits => ACSFoundIfListed
  <2> SUFFICES ASSUME IInv, NoBits, pc = "done"
               PROVE  LET L == Listing(img.ext, ExtFirst, 2)
                          acs == { p \in L.node : /\ img.ext[p].id = "acs" /\ p + 3 <= len
                                                  /\ Listed(ExtFirst, p, ExtHops, L) }
                      IN /\ cfg.acs <=> cfg.ext /\ acs # {}
                         /\ cfg.ctl \in (IF cfg.acs THEN { Control(p) : p \in acs } ELSE {{}})
    BY DEF ACSFoundIfListed
  <2>0. img \in Images /\ len \in Nat /\ cfg \in Config /\ ExtFound(cfg) /\ ExtFirst \in Nat /\ ExtHops \in Nat
    BY LayoutAssumption DEF IInv
  <2>1. PICK L : L = Listing(img.ext, ExtFirst, 2)
    OBVIOUS
  <2>2. L.node = ExtRead
    BY <2>1 DEF Listing, ExtRead
  <2>3. \A x, y : <<x, y>> \in L.edge <=> x \in ExtOpen /\ y \in L.node /\ y = ExtNext[x]
    <3>1. L.edge = { x \in ExtRead \X ExtRead : x[2] = img.ext[x[1]].next /\ img.ext[x[1]].id # "none" }
      BY <2>1 DEF Listing, ExtRead
    <3>2. \A x \in ExtRead : ExtNext[x] = img.ext[x].next
      BY <2>0, Entries
    <3>3. \A x : x \in ExtOpen <=> x \in ExtRead /\ img.ext[x].id # "none"
      BY DEF ExtOpen
    <3> QED BY <2>2, <3>1, <3>2, <3>3
  <2>4. ASSUME NEW p \in ExtRead PROVE Listed(ExtFirst, p, ExtHops, L) <=> ExtLeads(p)
    <3>1. /\ IsFiniteSet(L.node) /\ L.node \in SUBSET Nat /\ ExtOpen \in SUBSET L.node /\ p \in L.node
      BY <2>0, <2>2, Entries
    <3>2. Listed(ExtFirst, p, ExtHops, L) <=> Leads(ExtOpen, ExtNext, ExtFirst, ExtHops - 1, p)
      BY <2>0, <2>3, <3>1, ListedIs
    <3> QED BY <3>2 DEF ExtLeads
  <2>5. PICK acs : acs = { p \in L.node : /\ img.ext[p].id = "acs" /\ p + 3 <= len
                                          /\ Listed(ExtFirst, p, ExtHops, L) }
    OBVIOUS
  <2>6. \A p : p \in acs <=> IsACS(p) /\ ExtLeads(p)
    BY <2>2, <2>4, <2>5 DEF IsACS
  <2>7. cfg.acs <=> cfg.ext /\ acs # {}
    <3>1. cfg.acs \in BOOLEAN /\ cfg.ext \in BOOLEAN
      BY <2>0 DEF Config
    <3>2. cfg.acs = TRUE <=> cfg.ext = TRUE /\ \E p : p \in acs
      BY <2>0, <2>6 DEF ExtFound
    <3> QED BY <3>1, <3>2
  <2>8. cfg.ctl \in (IF cfg.acs THEN { Control(p) : p \in acs } ELSE {{}})
    <3>1. cfg.acs = TRUE => \E p \in acs : cfg.ctl = Control(p)
      BY <2>0, <2>6 DEF ExtFound
    <3>2. cfg.acs \in BOOLEAN
      BY <2>0 DEF Config
    <3> QED BY <3>1, <3>2 DEF NoBits
  <2> QED BY <2>1, <2>5, <2>7, <2>8
<1> QED BY <1>1, Inductive, NoBitsInvariance, PTL
=============================================================================
