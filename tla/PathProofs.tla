----------------------------- MODULE PathProofs -----------------------------
(***************************************************************************)
(* Facts about the operators of Path and Checks for any values, and the    *)
(* theorems about Build and Topology.                                      *)
(***************************************************************************)
EXTENDS Build, Topology, ListProofs

LinkFacts ==
  [w : Nat \cup {Unread}, s : Nat \cup {Unread}, mw : Nat \cup {Unread}, ms : Nat \cup {Unread}]

\* gpu-link judges a link of which everything was read exactly as README.md:89
\* says: FAIL below the smaller maximum, WARN when only the slot is smaller,
\* PASS at the smaller maximum (build.go:82-103, checks.go:27-36).
THEOREM GpuLinkExact ==
  ASSUME NEW own \in LinkFacts, NEW up \in LinkFacts,
         own.w # Unread, own.s # Unread, BothEnds(own, up),
         own.mw > 0, own.ms > 0, up.mw > 0, up.ms > 0
  PROVE  LET full == /\ (own.w >= own.mw \/ own.w >= up.mw)
                     /\ (own.s >= own.ms \/ own.s >= up.ms)
             limited == own.mw > up.mw \/ own.ms > up.ms
         IN /\ GpuLink(Judge(own, up)) = "FAIL" <=> ~full
            /\ GpuLink(Judge(own, up)) = "WARN" <=> full /\ limited
            /\ GpuLink(Judge(own, up)) = "PASS" <=> full /\ ~limited
<1> DEFINE l == Judge(own, up)
<1>1. /\ l.known
      /\ l.degraded <=> Degraded(own, up)
      /\ l.limited <=> (own.mw > up.mw \/ own.ms > up.ms)
  BY DEF Judge, PlatformLimited
<1>2. Degraded(own, up) <=> own.w < Lesser(own.mw, up.mw) \/ own.s < Lesser(own.ms, up.ms)
  BY DEF Degraded, ExpWidth, ExpSpeed, Lesser
<1>3. own \in LinkFacts /\ up \in LinkFacts
  OBVIOUS
<1>4. Degraded(own, up) <=> ~(/\ (own.w >= own.mw \/ own.w >= up.mw)
                              /\ (own.s >= own.ms \/ own.s >= up.ms))
  BY <1>2, <1>3 DEF Lesser, LinkFacts, Unread
<1>5. /\ GpuLink(l) = "FAIL" <=> l.degraded
      /\ GpuLink(l) = "WARN" <=> ~l.degraded /\ l.limited
      /\ GpuLink(l) = "PASS" <=> ~l.degraded /\ ~l.limited
  <2> HIDE DEF l
  <2> QED BY <1>1 DEF GpuLink
<1> QED BY <1>1, <1>4, <1>5

-----------------------------------------------------------------------------
(* Two functions. *)

Chains == Seq(Int)

\* The length of the common prefix is a number and the same from both ends
\* (locality.go:50-56).
LEMMA CommonPrefixType ==
  ASSUME NEW x \in Chains, NEW y \in Chains
  PROVE  CommonPrefix(x, y) \in Nat /\ CommonPrefix(x, y) = CommonPrefix(y, x)
<1> DEFINE I == 1..Lesser(Len(x), Len(y))
           C == { i \in I : \A j \in 1..i : x[j] = y[j] }
<1>1. Lesser(Len(x), Len(y)) \in Nat /\ Lesser(Len(x), Len(y)) = Lesser(Len(y), Len(x))
  BY DEF Lesser, Chains
<1>2. IsFiniteSet(I)
  BY <1>1, FS_Interval
<1>3. IsFiniteSet(C)
  BY <1>2, FS_Subset
<1>4. Cardinality(C) \in Nat
  BY <1>3, FS_CardinalityType
<1>5. C = { i \in 1..Lesser(Len(y), Len(x)) : \A j \in 1..i : y[j] = x[j] }
  BY <1>1
<1> QED BY <1>4, <1>5 DEF CommonPrefix

\* The ancestors of a function form a chain as well.
LEMMA FrontType ==
  ASSUME NEW x \in Chains
  PROVE  Front(x) \in Chains
<1>1. \A i \in 1..(Len(x) - 1) : x[i] \in Int
  BY DEF Chains
<1>2. Len(x) - 1 \in Int
  BY DEF Chains
<1> QED BY <1>1, <1>2, SubSeqProperties DEF Front, Chains

\* Two functions see each other at the same locality, so that both GPUs of a
\* pair judge it as a PCIe pair or neither does (locality.go:12-37).
THEOREM ClassifySymmetric ==
  ASSUME NEW devs, NEW a, NEW b, devs[a].chain \in Chains, devs[b].chain \in Chains
  PROVE  Classify(devs, a, b) = Classify(devs, b, a)
<1> DEFINE fa == devs[a].chain
           fb == devs[b].chain
           common == CommonPrefix(Front(fa), Front(fb))
<1>1. /\ CommonPrefix(Front(fa), Front(fb)) \in Nat
      /\ CommonPrefix(Front(fa), Front(fb)) = CommonPrefix(Front(fb), Front(fa))
  BY FrontType, CommonPrefixType
<1>2. Len(fa) \in Nat /\ Len(fb) \in Nat
  BY DEF Chains
<1>3. (Len(fa) - 1 - common) + (Len(fb) - 1 - common)
        = (Len(fb) - 1 - common) + (Len(fa) - 1 - common)
  BY <1>1, <1>2
<1> QED BY <1>1, <1>3 DEF Classify

\* The links between two functions are the same seen from either of them.
LEMMA PathLinksSymmetric ==
  ASSUME NEW devs, NEW a, NEW b, devs[a].chain \in Chains, devs[b].chain \in Chains
  PROVE  PathLinks(devs, a, b) = PathLinks(devs, b, a)
<1>1. CommonPrefix(devs[a].chain, devs[b].chain) = CommonPrefix(devs[b].chain, devs[a].chain)
  BY CommonPrefixType
<1> QED BY <1>1 DEF PathLinks

\* A redirecting bridge between two PCIe peers fails p2p-acs of both GPUs: the
\* verdict does not depend on the end from which the path was walked
\* (locality.go:175-190, checks.go:102-128).
THEOREM RedirectFailsBoth ==
  ASSUME NEW devs, NEW gpus, NEW a \in gpus, NEW b \in gpus, a # b,
         devs[a].chain \in Chains, devs[b].chain \in Chains,
         OverPCIe(devs, a, b), ACSOn(devs, a, b) # {}
  PROVE  P2PACS(devs, a, gpus) = "FAIL" /\ P2PACS(devs, b, gpus) = "FAIL"
<1>1. OverPCIe(devs, b, a)
  BY ClassifySymmetric DEF OverPCIe
<1>2. ACSOn(devs, b, a) # {}
  BY PathLinksSymmetric DEF ACSOn, ACSUnread, Switches
<1> QED BY <1>1, <1>2 DEF P2PACS

-----------------------------------------------------------------------------
(* The capacity of the way to a NIC. *)

\* A known capacity is a lower bound of every hop and of the port, and one of
\* them reaches it: the bottleneck exists (locality.go:134-158).
THEOREM CapacityIsBottleneck ==
  ASSUME NEW devs, NEW states, NEW g, NEW n, NEW gbps \in Nat,
         \A d \in PathLinks(devs, g, n) : Linked(states, d).mbps \in Nat,
         Capacity(devs, states, g, n, gbps) # 0
  PROVE  LET cap == Capacity(devs, states, g, n, gbps)
             way == PathLinks(devs, g, n)
         IN /\ cap <= gbps * 125
            /\ \A d \in way : Linked(states, d).known /\ cap <= Linked(states, d).mbps
            /\ cap = gbps * 125 \/ \E d \in way : cap = Linked(states, d).mbps
<1> DEFINE way == PathLinks(devs, g, n)
           hops == { Linked(states, d) : d \in way }
           M == { l.mbps : l \in hops } \cup { gbps * 125 }
<1>1. /\ gbps > 0
      /\ \A l \in hops : l.known
      /\ Capacity(devs, states, g, n, gbps) = Min(M)
  BY DEF Capacity
<1>2. M \in SUBSET Nat /\ gbps * 125 \in M
  OBVIOUS
<1>4. Min(M) \in M /\ \A k \in M : Min(M) <= k
  <2> HIDE DEF M
  <2> QED BY <1>2, MinOf
<1>5. \A d \in way : Linked(states, d) \in hops /\ Linked(states, d).mbps \in M
  OBVIOUS
<1>6. Min(M) = gbps * 125 \/ \E d \in way : Min(M) = Linked(states, d).mbps
  <2> DEFINE least == Min(M)
  <2>1. least \in M
    BY <1>4
  <2> HIDE DEF least
  <2> QED BY <2>1 DEF least
<1>7. \A d \in way : Linked(states, d).known /\ Min(M) <= Linked(states, d).mbps
  BY <1>1, <1>4, <1>5
<1> HIDE DEF M
<1> QED BY <1>1, <1>2, <1>4, <1>6, <1>7

-----------------------------------------------------------------------------
(* The order of the attachments. *)

View(x) == /\ x.rdma \in BOOLEAN /\ x.up \in BOOLEAN /\ x.loc \in Localities
           /\ x.gbps \in Int /\ x.nic \in Int

\* The weights of rank do not run into each other: RDMA preference decides
\* before the state of the port, that before an unknown locality, that before
\* the distance (locality.go:96-108).
THEOREM RankLexicographic ==
  ASSUME NEW x, NEW y, View(x), View(y)
  PROVE  LET Bad(z) == PreferRDMA /\ ~z.rdma
             Unk(z) == z.loc = LocUnknown
         IN Rank(x) < Rank(y) <=>
              \/ ~Bad(x) /\ Bad(y)
              \/ Bad(x) = Bad(y) /\ x.up /\ ~y.up
              \/ Bad(x) = Bad(y) /\ x.up = y.up /\ ~Unk(x) /\ Unk(y)
              \/ Bad(x) = Bad(y) /\ x.up = y.up /\ Unk(x) = Unk(y) /\ x.loc < y.loc
<1> DEFINE R(z) == IF PreferRDMA /\ ~z.rdma THEN 1000 ELSE 0
           U(z) == IF ~z.up THEN 100 ELSE 0
           K(z) == IF z.loc = LocUnknown THEN 50 ELSE 0
<1>1. PreferRDMA \in BOOLEAN
  BY PreferAssumption
<1>2. x.loc \in 0..5 /\ y.loc \in 0..5
  BY DEF View, Localities, LocUnknown, LocSYS
<1>3. /\ R(x) \in {0, 1000} /\ R(y) \in {0, 1000} /\ U(x) \in {0, 100} /\ U(y) \in {0, 100}
      /\ K(x) \in {0, 50} /\ K(y) \in {0, 50}
  OBVIOUS
<1>4. /\ Rank(x) = R(x) + U(x) + K(x) + x.loc
      /\ Rank(y) = R(y) + U(y) + K(y) + y.loc
  BY DEF Rank
<1>5. Rank(x) < Rank(y) <=>
        \/ R(x) < R(y)
        \/ R(x) = R(y) /\ U(x) < U(y)
        \/ R(x) = R(y) /\ U(x) = U(y) /\ K(x) < K(y)
        \/ R(x) = R(y) /\ U(x) = U(y) /\ K(x) = K(y) /\ x.loc < y.loc
  <2> HIDE DEF R, U, K
  <2> QED BY <1>2, <1>3, <1>4
<1>6. /\ R(x) < R(y) <=> ~(PreferRDMA /\ ~x.rdma) /\ (PreferRDMA /\ ~y.rdma)
      /\ R(x) = R(y) <=> ((PreferRDMA /\ ~x.rdma) = (PreferRDMA /\ ~y.rdma))
  BY <1>1 DEF View
<1>7. /\ U(x) < U(y) <=> x.up /\ ~y.up
      /\ U(x) = U(y) <=> (x.up = y.up)
  BY DEF View
<1>8. /\ K(x) < K(y) <=> x.loc # LocUnknown /\ y.loc = LocUnknown
      /\ K(x) = K(y) <=> ((x.loc = LocUnknown) = (y.loc = LocUnknown))
  OBVIOUS
<1> HIDE DEF R, U, K
<1> QED BY <1>5, <1>6, <1>7, <1>8

\* Among attachments of different NICs the comparison is a strict total order:
\* the head of the sorted list is one NIC, whatever order the attachments came
\* in (locality.go:109-117).
THEOREM BeforeIsTotalOrder ==
  ASSUME NEW x, NEW y, NEW z, View(x), View(y), View(z)
  PROVE  /\ ~Before(x, x)
         /\ x.nic # y.nic => Before(x, y) \/ Before(y, x)
         /\ Before(x, y) => ~Before(y, x)
         /\ Before(x, y) /\ Before(y, z) => Before(x, z)
<1>1. Rank(x) \in Int /\ Rank(y) \in Int /\ Rank(z) \in Int
  BY DEF Rank, View, Localities, LocUnknown, LocSYS
<1> QED BY <1>1 DEF Before, View

-----------------------------------------------------------------------------
(* The port of a NIC. *)

PortType == [src : {"none", "rdma", "net"}, score : Int, gbps : Nat, up : BOOLEAN, known : BOOLEAN]

\* The candidate that an RDMA port or an interface is.
CandidateRDMA(p) == Candidate("rdma", p.gbps, p.state, "ACTIVE")
CandidateNet(p) == Candidate("net", p.mbps \div 1000, p.state, "up")

\* A candidate and the better of two of them are ports.
LEMMA FasterType ==
  ASSUME NEW b \in PortType, NEW c \in PortType
  PROVE  Faster(b, c) \in PortType
  BY DEF Faster

LEMMA CandidateType ==
  ASSUME NEW src \in {"rdma", "net"}, NEW gbps \in Nat, NEW state, NEW upState
  PROVE  Candidate(src, gbps, state, upState) \in PortType
<1>1. Boost \in Nat
  BY DEF Boost
<1> QED BY <1>1 DEF Candidate, PortType

\* The function a search for the fastest of the candidates c is defined by.
Search(n, base, c, it) ==
  it = [ s \in SUBSET (1..n) |-> IF s = {} THEN base ELSE Faster(it[s \ {Max(s)}], c[Max(s)]) ]

\* The search has a result.
LEMMA SearchExists ==
  ASSUME NEW n \in Nat, NEW base \in PortType, NEW c \in [1..n -> PortType]
  PROVE  \E it : Search(n, base, c, it)
<1> DEFINE step == [ i \in 1..n |-> [ b \in PortType |-> Faster(b, c[i]) ] ]
<1>1. step \in [1..n -> [PortType -> PortType]]
  BY FasterType
<1>2. PICK it : FoldDefines(n, PortType, base, step, it)
  <2> HIDE DEF step
  <2> QED BY <1>1, FoldExists, Zenon
<1>3. /\ it \in [SUBSET (1..n) -> PortType]
      /\ \A s \in SUBSET (1..n) : it[s] = IF s = {} THEN base ELSE step[Max(s)][it[s \ {Max(s)}]]
  <2> HIDE DEF step
  <2> QED BY <1>2 DEF FoldDefines
<1>4. ASSUME NEW s \in SUBSET (1..n), s # {}
      PROVE  step[Max(s)][it[s \ {Max(s)}]] = Faster(it[s \ {Max(s)}], c[Max(s)])
  <2>1. Max(s) \in s
    <3>1. s \in SUBSET (0..n)
      OBVIOUS
    <3> QED BY <1>4, <3>1, MaxOf
  <2>2. it[s \ {Max(s)}] \in PortType
    BY <1>3
  <2> QED BY <2>1, <2>2
<1>5. it = [ s \in SUBSET (1..n) |-> IF s = {} THEN base ELSE Faster(it[s \ {Max(s)}], c[Max(s)]) ]
  BY <1>3, <1>4
<1> QED BY <1>5 DEF Search

\* No candidate beats the port b, and b is where the search began or one of them.
Stands(b, base, n, c) ==
  /\ b \in PortType /\ base.score <= b.score
  /\ \A i \in 1..n : c[i].score <= b.score
  /\ b = base \/ \E i \in 1..n : b = c[i]

\* The result of the search stands against all candidates.
LEMMA SearchFinds ==
  ASSUME NEW n \in Nat, NEW base \in PortType, NEW c \in [1..n -> PortType],
         NEW it, Search(n, base, c, it)
  PROVE  Stands(it[1..n], base, n, c)
<1> DEFINE S == { k \in 0..n : Stands(it[1..k], base, k, c) }
<1>1. 0 \in S
  <2>1. 1..0 = {} /\ {} \in SUBSET (1..n)
    OBVIOUS
  <2>2. it[1..0] = base
    BY <2>1 DEF Search
  <2>3. base.score <= base.score
    BY DEF PortType
  <2> QED BY <2>1, <2>2, <2>3 DEF Stands
<1>2. ASSUME NEW k \in 0..(n - 1), k \in S PROVE k + 1 \in S
  <2>1. k + 1 \in 1..n /\ (k + 1) - 1 = k /\ c[k + 1] \in PortType
    OBVIOUS
  <2>2. /\ 1..(k + 1) \in SUBSET (1..n) /\ 1..(k + 1) # {}
        /\ Max(1..(k + 1)) = k + 1 /\ (1..(k + 1)) \ {Max(1..(k + 1))} = 1..k
    BY <2>1, FoldSteps
  <2>3. it[1..(k + 1)] = Faster(it[1..k], c[k + 1])
    BY <2>2 DEF Search
  <2>4. Stands(it[1..k], base, k, c)
    BY <1>2
  <2>5. 1..(k + 1) = 1..k \cup {k + 1}
    OBVIOUS
  <2>6. Stands(Faster(it[1..k], c[k + 1]), base, k + 1, c)
    <3>1. PICK b : b = it[1..k]
      OBVIOUS
    <3>2. /\ b.score \in Int /\ base.score \in Int /\ c[k + 1].score \in Int
          /\ \A i \in 1..k : c[i].score \in Int
      BY <2>1, <2>4, <3>1 DEF Stands, PortType
    <3>3. CASE c[k + 1].score > b.score
      <4>1. Faster(b, c[k + 1]) = c[k + 1]
        BY <3>3 DEF Faster
      <4>2. Stands(c[k + 1], base, k + 1, c)
        BY <2>1, <2>4, <2>5, <3>1, <3>2, <3>3 DEF Stands
      <4> QED BY <3>1, <4>1, <4>2
    <3>4. CASE ~(c[k + 1].score > b.score)
      <4>1. Faster(b, c[k + 1]) = b
        BY <3>4 DEF Faster
      <4>2. Stands(b, base, k + 1, c)
        BY <2>1, <2>4, <2>5, <3>1, <3>2, <3>4 DEF Stands
      <4> QED BY <3>1, <4>1, <4>2
    <3> QED BY <3>3, <3>4
  <2> QED BY <2>1, <2>3, <2>6
<1>3. 0..n \subseteq S
  <2> HIDE DEF S
  <2> QED BY <1>1, <1>2, InductionTo
<1> QED BY <1>3

\* The fold over the RDMA ports is such a search (build.go:127-141).
LEMMA BestRDMA ==
  ASSUME NEW list \in Seq(RDMAPort), NEW base \in PortType
  PROVE  Stands(FoldLeft(FasterRDMA, base, list), base, Len(list), [ i \in 1..Len(list) |-> CandidateRDMA(list[i]) ])
<1> DEFINE n == Len(list)
           c == [ i \in 1..n |-> CandidateRDMA(list[i]) ]
           IsFold(it) == it = [ s \in SUBSET (1..n) |->
                                  IF s = {} THEN base ELSE FasterRDMA(it[s \ {Max(s)}], list[Max(s)]) ]
<1>1. n \in Nat /\ DOMAIN list = 1..n /\ \A i \in 1..n : list[i].gbps \in Nat
  <2>1. \A i \in 1..n : list[i] \in RDMAPort
    BY ElementOfSeq, LenProperties
  <2> QED BY <2>1, LenProperties DEF RDMAPort
<1>2. c \in [1..n -> PortType]
  BY <1>1, CandidateType DEF CandidateRDMA
<1>3. ASSUME NEW it PROVE IsFold(it) <=> Search(n, base, c, it)
  <2>1. ASSUME NEW s \in SUBSET (1..n), s # {}
        PROVE  FasterRDMA(it[s \ {Max(s)}], list[Max(s)]) = Faster(it[s \ {Max(s)}], c[Max(s)])
    <3>1. Max(s) \in s
      <4>1. s \in SUBSET (0..n)
        BY <1>1
      <4> QED BY <1>1, <2>1, <4>1, MaxOf
    <3> QED BY <3>1 DEF FasterRDMA, CandidateRDMA
  <2> QED BY <2>1 DEF Search
<1>4. PICK g : Search(n, base, c, g) /\ FoldLeft(FasterRDMA, base, list) = g[1..n]
  <2>1. FoldLeft(FasterRDMA, base, list) = (CHOOSE g : IsFold(g))[1..n]
    BY <1>1 DEF FoldLeft, MapThenFoldSet
  <2>2. \E g : IsFold(g)
    <3> HIDE DEF IsFold, c
    <3>1. \E g : Search(n, base, c, g)
      BY <1>1, <1>2, SearchExists
    <3> QED BY <1>3, <3>1
  <2>3. IsFold(CHOOSE g : IsFold(g))
    <3> HIDE DEF IsFold
    <3> QED BY <2>2
  <2> HIDE DEF IsFold
  <2> QED BY <1>3, <2>1, <2>3
<1>5. Stands(g[1..n], base, n, c)
  <2> HIDE DEF c, n
  <2> QED BY <1>1, <1>2, <1>4, SearchFinds
<1> QED BY <1>4, <1>5

\* So is the fold over the interfaces (build.go:149-159).
LEMMA BestNet ==
  ASSUME NEW list \in Seq(NetPort), NEW base \in PortType
  PROVE  Stands(FoldLeft(FasterNet, base, list), base, Len(list), [ i \in 1..Len(list) |-> CandidateNet(list[i]) ])
<1> DEFINE n == Len(list)
           c == [ i \in 1..n |-> CandidateNet(list[i]) ]
           IsFold(it) == it = [ s \in SUBSET (1..n) |->
                                  IF s = {} THEN base ELSE FasterNet(it[s \ {Max(s)}], list[Max(s)]) ]
<1>1. n \in Nat /\ DOMAIN list = 1..n /\ \A i \in 1..n : list[i].mbps \in Nat
  <2>1. \A i \in 1..n : list[i] \in NetPort
    BY ElementOfSeq, LenProperties
  <2> QED BY <2>1, LenProperties DEF NetPort
<1>2. c \in [1..n -> PortType]
  <2>1. \A i \in 1..n : list[i].mbps \div 1000 \in Nat
    BY <1>1
  <2> QED BY <1>1, <2>1, CandidateType DEF CandidateNet
<1>3. ASSUME NEW it PROVE IsFold(it) <=> Search(n, base, c, it)
  <2>1. ASSUME NEW s \in SUBSET (1..n), s # {}
        PROVE  FasterNet(it[s \ {Max(s)}], list[Max(s)]) = Faster(it[s \ {Max(s)}], c[Max(s)])
    <3>1. Max(s) \in s
      <4>1. s \in SUBSET (0..n)
        BY <1>1
      <4> QED BY <1>1, <2>1, <4>1, MaxOf
    <3>2. Max(s) \in 1..n
      BY <3>1
    <3>3. c[Max(s)] = CandidateNet(list[Max(s)])
      BY <3>2
    <3> HIDE DEF c
    <3> QED BY <3>3 DEF FasterNet, CandidateNet
  <2> QED BY <2>1 DEF Search
<1>4. PICK g : Search(n, base, c, g) /\ FoldLeft(FasterNet, base, list) = g[1..n]
  <2>1. FoldLeft(FasterNet, base, list) = (CHOOSE g : IsFold(g))[1..n]
    BY <1>1 DEF FoldLeft, MapThenFoldSet
  <2>2. \E g : IsFold(g)
    <3> HIDE DEF IsFold, c
    <3>1. \E g : Search(n, base, c, g)
      BY <1>1, <1>2, SearchExists
    <3> QED BY <1>3, <3>1
  <2>3. IsFold(CHOOSE g : IsFold(g))
    <3> HIDE DEF IsFold
    <3> QED BY <2>2
  <2> HIDE DEF IsFold
  <2> QED BY <1>3, <2>1, <2>3
<1>5. Stands(g[1..n], base, n, c)
  <2> HIDE DEF c, n
  <2> QED BY <1>1, <1>2, <1>4, SearchFinds
<1> QED BY <1>4, <1>5

\* No port is as fast as the weight of being active.
BelowBoostIn(rs, ns) == /\ \A i \in 1..Len(rs) : rs[i].gbps < Boost
                        /\ \A i \in 1..Len(ns) : ns[i].mbps \div 1000 < Boost

\* What pickPort returns, for lists of any length (build.go:110-160).
LEMMA PickPortFacts ==
  ASSUME NEW rs \in Seq(RDMAPort), NEW ns \in Seq(NetPort), BelowBoostIn(rs, ns)
  PROVE  LET port == PickPort(rs, ns)
             active == { i \in 1..Len(rs) : rs[i].state = "ACTIVE" }
             up == { i \in 1..Len(ns) : ns[i].state = "up" }
         IN /\ active # {} => /\ port.src = "rdma" /\ port.up /\ port.known
                              /\ \E i \in active : port.gbps = rs[i].gbps
                              /\ \A i \in active : rs[i].gbps <= port.gbps
            /\ ~port.known => up = {}
            /\ ~port.up /\ port.src = "net" => up = {}
<1> DEFINE direct == FoldLeft(FasterRDMA, NoPort, rs)
           other == FoldLeft(FasterNet, direct, ns)
           cr == [ i \in 1..Len(rs) |-> CandidateRDMA(rs[i]) ]
           cn == [ i \in 1..Len(ns) |-> CandidateNet(ns[i]) ]
           rate == [ i \in 1..Len(ns) |-> ns[i].mbps \div 1000 ]
           active == { i \in 1..Len(rs) : rs[i].state = "ACTIVE" }
           up == { i \in 1..Len(ns) : ns[i].state = "up" }
<1>1. NoPort \in PortType /\ Boost \in Nat /\ NoPort.score < Boost
  BY DEF NoPort, PortType, Boost
<1>2. Stands(direct, NoPort, Len(rs), cr)
  BY <1>1, BestRDMA
<1>3. Stands(other, direct, Len(ns), cn)
  <2>1. direct \in PortType
    BY <1>2 DEF Stands
  <2> HIDE DEF direct
  <2> QED BY <2>1, BestNet
<1>4. \A i \in 1..Len(rs) :
        /\ rs[i].gbps \in Nat /\ rs[i].gbps < Boost /\ cr[i].gbps = rs[i].gbps /\ cr[i].src = "rdma"
        /\ cr[i].score = (IF rs[i].state = "ACTIVE" THEN rs[i].gbps + Boost ELSE rs[i].gbps)
        /\ rs[i].state = "ACTIVE" => cr[i].up /\ cr[i].known
  <2> TAKE i \in 1..Len(rs)
  <2>1. rs[i] \in RDMAPort
    BY ElementOfSeq, LenProperties
  <2>2. rs[i].gbps \in Nat /\ rs[i].gbps < Boost
    BY <2>1 DEF RDMAPort, BelowBoostIn
  <2>3. cr[i] = Candidate("rdma", rs[i].gbps, rs[i].state, "ACTIVE")
    BY DEF CandidateRDMA
  <2>4. "ACTIVE" # ""
    OBVIOUS
  <2> HIDE DEF cr
  <2>5. /\ Candidate("rdma", rs[i].gbps, rs[i].state, "ACTIVE").src = "rdma" /\ Candidate("rdma", rs[i].gbps, rs[i].state, "ACTIVE").gbps = rs[i].gbps
        /\ Candidate("rdma", rs[i].gbps, rs[i].state, "ACTIVE").score = (IF rs[i].state = "ACTIVE" THEN rs[i].gbps + Boost ELSE rs[i].gbps)
    BY Zenon DEF Candidate
  <2>6. rs[i].state = "ACTIVE" => Candidate("rdma", rs[i].gbps, rs[i].state, "ACTIVE").up
    BY Zenon DEF Candidate
  <2>7. rs[i].state # "" => Candidate("rdma", rs[i].gbps, rs[i].state, "ACTIVE").known
    BY Zenon DEF Candidate
  <2> QED BY <2>2, <2>4, <2>5, <2>6, <2>7, <2>3
<1>5. \A i \in 1..Len(ns) :
        /\ rate[i] \in Nat /\ rate[i] < Boost /\ cn[i].src = "net"
        /\ cn[i].score = (IF ns[i].state = "up" THEN rate[i] + Boost ELSE rate[i])
        /\ ns[i].state = "up" => cn[i].up /\ cn[i].known
  <2> TAKE i \in 1..Len(ns)
  <2>1. ns[i] \in NetPort
    BY ElementOfSeq, LenProperties
  <2>2. ns[i].mbps \in Nat
    BY <2>1 DEF NetPort
  <2>3. rate[i] = ns[i].mbps \div 1000 /\ rate[i] \in Nat /\ rate[i] < Boost
    BY <2>2 DEF BelowBoostIn
  <2>4. cn[i] = Candidate("net", rate[i], ns[i].state, "up") /\ "up" # ""
    BY <2>3 DEF CandidateNet
  <2> HIDE DEF rate, cn
  <2>5. /\ Candidate("net", rate[i], ns[i].state, "up").src = "net" /\ Candidate("net", rate[i], ns[i].state, "up").gbps = rate[i]
        /\ Candidate("net", rate[i], ns[i].state, "up").score = (IF ns[i].state = "up" THEN rate[i] + Boost ELSE rate[i])
    BY Zenon DEF Candidate
  <2>6. ns[i].state = "up" => Candidate("net", rate[i], ns[i].state, "up").up
    BY Zenon DEF Candidate
  <2>7. ns[i].state # "" => Candidate("net", rate[i], ns[i].state, "up").known
    BY Zenon DEF Candidate
  <2>8. cn[i].src = "net" /\ cn[i].score = (IF ns[i].state = "up" THEN rate[i] + Boost ELSE rate[i])
    BY <2>4, <2>5
  <2>9. ns[i].state = "up" => cn[i].up /\ cn[i].known
    BY <2>4, <2>6, <2>7
  <2> QED BY <2>3, <2>8, <2>9
<1>6. PickPort(rs, ns) = IF direct.known THEN direct ELSE other
  BY DEF PickPort
<1> HIDE DEF direct, other, cr, cn, rate
<1>7. active # {} => /\ direct.src = "rdma" /\ direct.up /\ direct.known
                     /\ \E i \in active : direct.gbps = rs[i].gbps
                     /\ \A i \in active : rs[i].gbps <= direct.gbps
  <2> SUFFICES ASSUME NEW a \in active
               PROVE  /\ direct.src = "rdma" /\ direct.up /\ direct.known
                      /\ \E i \in active : direct.gbps = rs[i].gbps
                      /\ \A i \in active : rs[i].gbps <= direct.gbps
    OBVIOUS
  <2>1. cr[a].score >= Boost /\ cr[a].score <= direct.score /\ cr[a].score \in Int /\ direct.score \in Int
    <3>1. cr[a].score = rs[a].gbps + Boost /\ rs[a].gbps \in Nat
      BY <1>4
    <3>2. cr[a].score <= direct.score /\ direct.score \in Int
      BY <1>2 DEF Stands, PortType
    <3> QED BY <1>1, <3>1, <3>2
  <2>2. PICK j \in 1..Len(rs) : direct = cr[j]
    BY <1>1, <1>2, <2>1 DEF Stands, NoPort
  <2>3. rs[j].state = "ACTIVE"
    <3>1. ASSUME rs[j].state # "ACTIVE" PROVE FALSE
      <4>1. cr[j].score = rs[j].gbps /\ rs[j].gbps < Boost /\ rs[j].gbps \in Nat
        BY <1>4, <3>1
      <4> QED BY <1>1, <2>1, <2>2, <4>1
    <3> QED BY <3>1
  <2>4. direct.src = "rdma" /\ direct.up /\ direct.known /\ direct.gbps = rs[j].gbps
    BY <1>4, <2>2, <2>3
  <2>5. \A i \in active : rs[i].gbps <= direct.gbps
    <3> TAKE i \in active
    <3>1. cr[i].score <= direct.score
      BY <1>2 DEF Stands
    <3>2. cr[i].score = rs[i].gbps + Boost /\ rs[i].gbps \in Nat
      BY <1>4
    <3>3. direct.score = rs[j].gbps + Boost /\ direct.gbps = rs[j].gbps /\ rs[j].gbps \in Nat
      BY <1>4, <2>2, <2>3
    <3> QED BY <1>1, <3>1, <3>2, <3>3
  <2> QED BY <2>3, <2>4, <2>5
<1>8. ~direct.known /\ up # {} => other.known /\ other.up
  <2> SUFFICES ASSUME ~direct.known, NEW a \in up PROVE other.known /\ other.up
    OBVIOUS
  <2>1. cn[a].score >= Boost /\ cn[a].score <= other.score /\ cn[a].score \in Int /\ other.score \in Int
    <3>1. cn[a].score = rate[a] + Boost /\ rate[a] \in Nat
      BY <1>5
    <3>2. cn[a].score <= other.score /\ other.score \in Int
      BY <1>3 DEF Stands, PortType
    <3> QED BY <1>1, <3>1, <3>2
  <2>2. direct.score < Boost
    <3>1. CASE direct = NoPort
      BY <1>1, <3>1
    <3>2. ASSUME NEW j \in 1..Len(rs), direct = cr[j] PROVE direct.score < Boost
      BY <1>4, <3>2
    <3> QED BY <1>2, <3>1, <3>2 DEF Stands
  <2>3. PICK j \in 1..Len(ns) : other = cn[j]
    <3>1. other # direct
      BY <1>1, <2>1, <2>2
    <3> QED BY <1>3, <3>1 DEF Stands
  <2>4. ns[j].state = "up"
    <3>1. cn[j].score >= Boost
      BY <1>1, <2>1, <2>3
    <3>2. ASSUME ns[j].state # "up" PROVE FALSE
      <4>1. cn[j].score = rate[j] /\ rate[j] \in Nat /\ rate[j] < Boost
        BY <1>5, <3>2
      <4> QED BY <1>1, <3>1, <4>1
    <3> QED BY <3>2
  <2> QED BY <1>5, <2>3, <2>4
<1>9. direct.src # "net"
  <2>1. CASE direct = NoPort
    BY <2>1 DEF NoPort
  <2>2. ASSUME NEW j \in 1..Len(rs), direct = cr[j] PROVE direct.src # "net"
    BY <1>4, <2>2
  <2> QED BY <1>2, <2>1, <2>2 DEF Stands
<1> QED BY <1>6, <1>7, <1>8, <1>9

-----------------------------------------------------------------------------
(* Build is a function of its inputs, for every host: the loops over the    *)
(* GPUs share Report.Devices, yet no verdict depends on the loop.           *)


\* Report.Devices after the chains of the GPUs in S were walked.
Grown(S) ==
  [ d \in DOMAIN h.dev \cup UNION { ToSet(h.dev[g].chain) : g \in S } |->
      IF d \in DOMAIN h.dev THEN h.dev[d] ELSE Bare ]

PureChecks(g) == ChecksOf(h, AllDevices(h), AllLinks(h), AllNics(h), Gpus(h.dev), g)

\* What holds between two turns of the loops.
IInv ==
  /\ h \in Hosts
  /\ pc \in {"list", "gpus", "judge", "done"}
  /\ todo \subseteq Gpus(h.dev)
  /\ pc \in {"list", "gpus"} => checks = <<>>
  /\ pc = "list" => nics = <<>>
  /\ pc # "list" => links = AllLinks(h) /\ nics = AllNics(h)
  /\ pc = "gpus" => devices = Grown(Gpus(h.dev) \ todo)
  /\ pc \in {"judge", "done"} =>
       devices = AllDevices(h) /\ checks = [ g \in Gpus(h.dev) \ todo |-> PureChecks(g) ]
  /\ pc = "done" => todo = {}

-----------------------------------------------------------------------------
\* Before the first chain is walked Report.Devices is what was listed.
LEMMA NothingWalked ==
  ASSUME h \in Hosts
  PROVE  Grown({}) = h.dev
<1>1. h.dev = [d \in DOMAIN h.dev |-> h.dev[d]]
  BY HostAssumption
<1> QED BY <1>1 DEF Grown

\* What hops adds for one more GPU does not depend on the GPUs before it
\* (build.go:241-249).
LEMMA OneMoreWalked ==
  ASSUME NEW S, NEW g \in DOMAIN h.dev
  PROVE  Extend(Grown(S), g) = Grown(S \cup {g})
<1> DEFINE Walked(T) == UNION { ToSet(h.dev[x].chain) : x \in T }
<1>1. Grown(S)[g] = h.dev[g]
  BY DEF Grown
<1>2. DOMAIN Grown(S) = DOMAIN h.dev \cup Walked(S)
  BY DEF Grown
<1>3. Walked(S \cup {g}) = Walked(S) \cup ToSet(h.dev[g].chain)
  OBVIOUS
<1>4. DOMAIN h.dev \cup Walked(S \cup {g}) = DOMAIN Grown(S) \cup ToSet(Grown(S)[g].chain)
  BY <1>1, <1>2, <1>3
<1>5. ASSUME NEW d \in DOMAIN h.dev \cup Walked(S \cup {g})
      PROVE  (IF d \in DOMAIN Grown(S) THEN Grown(S)[d] ELSE Bare)
               = IF d \in DOMAIN h.dev THEN h.dev[d] ELSE Bare
  BY <1>2 DEF Grown
<1>6. Grown(S \cup {g}) = [ d \in DOMAIN h.dev \cup Walked(S \cup {g}) |->
                              IF d \in DOMAIN h.dev THEN h.dev[d] ELSE Bare ]
  BY DEF Grown
<1>7. Extend(Grown(S), g) = [ d \in DOMAIN Grown(S) \cup ToSet(Grown(S)[g].chain) |->
                                IF d \in DOMAIN Grown(S) THEN Grown(S)[d] ELSE Bare ]
  BY DEF Extend
<1> HIDE DEF Walked
<1> QED BY <1>4, <1>5, <1>6, <1>7

\* With every GPU walked the devices are those of the pure function.
LEMMA AllWalked == Grown(Gpus(h.dev)) = AllDevices(h)
  BY DEF Grown, AllDevices

\* A GPU is one of the listed functions.
LEMMA GpusListed == \A g \in Gpus(h.dev) : g \in DOMAIN h.dev
  BY DEF Gpus

-----------------------------------------------------------------------------
\* The invariant holds when Build starts.
LEMMA InitIInv == Init => IInv
  BY DEF Init, IInv

\* Every step of Build keeps the invariant.
LEMMA NextIInv == IInv /\ [Next]_vars => IInv'
<1> SUFFICES ASSUME IInv, [Next]_vars PROVE IInv'
  OBVIOUS
<1> DEFINE G == Gpus(h.dev)
<1>1. CASE List
  <2>1. h' = h /\ pc' = "gpus" /\ todo' = G /\ checks' = <<>>
    BY <1>1 DEF List, IInv
  <2>2. links' = AllLinks(h) /\ nics' = AllNics(h)
    BY <1>1 DEF List, AllLinks, AllNics
  <2>3. devices' = Grown(G \ G)
    BY <1>1, NothingWalked DEF List, IInv
  <2> QED BY <2>1, <2>2, <2>3 DEF IInv, Grown, AllLinks, AllNics, Gpus
<1>2. CASE GpusBuilt
  <2>1. h' = h /\ pc' = "judge" /\ todo' = G /\ links' = links /\ nics' = nics
    BY <1>2 DEF GpusBuilt
  <2>2. devices' = AllDevices(h)
    <3>1. devices = Grown(G \ {})
      BY <1>2 DEF GpusBuilt, Ready, IInv
    <3>2. G \ {} = G
      OBVIOUS
    <3> QED BY <1>2, <3>1, <3>2, AllWalked DEF GpusBuilt
  <2>3. checks' = [ g \in G \ G |-> PureChecks(g) ]
    <3>1. checks' = <<>>
      BY <1>2 DEF GpusBuilt, IInv
    <3> QED BY <3>1
  <2>4. links = AllLinks(h) /\ nics = AllNics(h) /\ h \in Hosts
    BY <1>2 DEF GpusBuilt, IInv
  <2> QED BY <2>1, <2>2, <2>3, <2>4 DEF IInv, PureChecks
<1>3. CASE Return
  BY <1>3 DEF Return, IInv, PureChecks, Grown
<1>4. CASE Again
  BY <1>4 DEF Again, IInv
<1>5. ASSUME NEW g \in todo, AddGPU(g) PROVE IInv'
  <2>1. /\ h' = h /\ pc' = "gpus" /\ pc = "gpus" /\ todo' = todo \ {g}
        /\ links' = links /\ nics' = nics /\ checks' = checks
    BY <1>5 DEF AddGPU
  <2>2. g \in DOMAIN h.dev /\ devices = Grown(G \ todo)
    BY <2>1, GpusListed DEF IInv
  <2>3. (G \ todo) \cup {g} = G \ (todo \ {g})
    BY DEF IInv
  <2>4. devices' = Grown(G \ (todo \ {g}))
    BY <1>5, <2>2, <2>3, OneMoreWalked DEF AddGPU
  <2> QED BY <2>1, <2>4 DEF IInv, Grown
<1>6. ASSUME NEW g \in todo, JudgeGPU(g) PROVE IInv'
  <2>1. /\ h' = h /\ pc' = "judge" /\ pc = "judge" /\ todo' = todo \ {g}
        /\ links' = links /\ nics' = nics /\ devices' = devices
    BY <1>6 DEF JudgeGPU
  <2>2. /\ devices = AllDevices(h) /\ links = AllLinks(h) /\ nics = AllNics(h)
        /\ checks = [ x \in G \ todo |-> PureChecks(x) ]
    BY <2>1 DEF IInv
  <2>3. checks' = [ x \in DOMAIN checks \cup {g} |-> IF x = g THEN PureChecks(g) ELSE checks[x] ]
    BY <1>6, <2>2 DEF JudgeGPU, PureChecks
  <2>4. G \ (todo \ {g}) = (G \ todo) \cup {g} /\ g \notin G \ todo
    BY DEF IInv
  <2>5. checks' = [ x \in G \ (todo \ {g}) |-> PureChecks(x) ]
    BY <2>2, <2>3, <2>4
  <2> QED BY <2>1, <2>2, <2>5 DEF IInv, PureChecks
<1>7. CASE UNCHANGED vars
  BY <1>7 DEF vars, IInv, Grown, PureChecks
<1> QED BY <1>1, <1>2, <1>3, <1>4, <1>5, <1>6, <1>7 DEF Next

\* The invariant holds all along the two builds.
LEMMA Inductive == Spec => []IInv
<1> QED BY InitIInv, NextIInv, PTL DEF Spec

-----------------------------------------------------------------------------
\* The checks of Build are those of a function of the host (build.go:26-42).
THEOREM Pure == Spec => []ChecksArePure
<1>1. IInv => ChecksArePure
  <2> SUFFICES ASSUME IInv, pc = "done" PROVE checks = ChecksFor(h)
    BY DEF ChecksArePure
  <2>1. checks = [ g \in Gpus(h.dev) \ {} |-> PureChecks(g) ]
    BY DEF IInv
  <2>2. Gpus(h.dev) \ {} = Gpus(h.dev)
    OBVIOUS
  <2> QED BY <2>1, <2>2 DEF ChecksFor, PureChecks
<1> QED BY <1>1, Inductive, PTL

\* No path is judged with a bridge of a GPU's chain missing from the devices
\* (build.go:245-249).
THEOREM Complete == Spec => []ChainsComplete
<1>1. IInv => ChainsComplete
  BY DEF IInv, ChainsComplete, AllDevices
<1> QED BY <1>1, Inductive, PTL

\* Walking chains changes nothing sysfs said (build.go:245-249).
THEOREM OnlyGrow == Spec => DevicesOnlyGrow
<1> DEFINE Kept == pc = "gpus" => \A d \in DOMAIN devices :
                                     d \in DOMAIN devices' /\ devices'[d] = devices[d]
<1>1. [Next]_vars => [Kept]_vars
  <2>1. ASSUME NEW g \in todo, AddGPU(g) PROVE Kept
    BY <2>1 DEF AddGPU, Extend
  <2>2. ASSUME NEW g \in todo, JudgeGPU(g) PROVE Kept
    BY <2>2 DEF JudgeGPU
  <2>3. ASSUME List \/ GpusBuilt \/ Return \/ Again PROVE Kept
    BY <2>3 DEF List, GpusBuilt, Return, Again
  <2> QED BY <2>1, <2>2, <2>3 DEF Next
<1> QED BY <1>1, PTL DEF Spec, DevicesOnlyGrow

\* Type correctness of the report while it is built (model.go:223-232).
THEOREM TypeCorrect == Spec => []TypeOK
<1>1. IInv => TypeOK
  <2> SUFFICES ASSUME IInv PROVE TypeOK
    OBVIOUS
  <2>1. pc # "list" => DOMAIN links = DOMAIN h.dev /\ DOMAIN nics = Nics(h.dev)
    BY DEF IInv, AllLinks, AllNics
  <2>2. \A g : DOMAIN PureChecks(g) = CheckNames
    BY DEF PureChecks, ChecksOf, CheckNames
  <2>3. CASE pc \in {"list", "gpus"}
    BY <2>1, <2>3 DEF IInv, TypeOK
  <2>4. CASE pc \in {"judge", "done"}
    <3>1. DOMAIN checks = Gpus(h.dev) \ todo /\ \A g \in DOMAIN checks : checks[g] = PureChecks(g)
      BY <2>4 DEF IInv
    <3> QED BY <2>1, <2>2, <2>4, <3>1 DEF IInv, TypeOK
  <2> QED BY <2>3, <2>4 DEF IInv
<1> QED BY <1>1, Inductive, PTL

-----------------------------------------------------------------------------
(* The port of every NIC of a report, for any RDMA devices and interfaces. *)

\* No port is as fast as the weight of being active: 2^20 Gb/s.
BelowBoost ==
  \A x \in Hosts :
    /\ \A i \in DOMAIN x.rdma : \A k \in DOMAIN x.rdma[i].ports : x.rdma[i].ports[k].gbps < Boost
    /\ \A i \in DOMAIN x.net : x.net[i].mbps \div 1000 < Boost

\* The lists a NIC's port is picked from, before they are put together.
PortsOfNic(n) == [ i \in DOMAIN h.rdma |-> IF h.rdma[i].bdf = n THEN h.rdma[i].ports ELSE <<>> ]
NetsOfNic(n) == [ i \in DOMAIN h.net |-> IF h.net[i].bdf = n THEN << h.net[i] >> ELSE <<>> ]

\* The RDMA ports of a NIC as one list: typed, slow enough, and those of its
\* devices (build.go:104-118).
LEMMA PortsPicked ==
  ASSUME h \in Hosts, BelowBoost, NEW n
  PROVE  LET rs == FlattenSeq(PortsOfNic(n))
         IN /\ rs \in Seq(RDMAPort) /\ \A i \in 1..Len(rs) : rs[i].gbps < Boost
            /\ Active(n) = { rs[i] : i \in { j \in 1..Len(rs) : rs[j].state = "ACTIVE" } }
<1> DEFINE ss == PortsOfNic(n)
           k == Len(h.rdma)
           rs == FlattenSeq(ss)
<1>1. k \in Nat /\ DOMAIN h.rdma = 1..k
  BY PortAssumption, LenProperties
<1>2. \A i \in 1..k : h.rdma[i].ports \in Seq(RDMAPort)
  BY <1>1, PortAssumption
<1>3. DOMAIN ss = 1..k /\ \A i \in 1..k : ss[i] = IF h.rdma[i].bdf = n THEN h.rdma[i].ports ELSE <<>>
  BY <1>1 DEF PortsOfNic
<1>4. ss \in [1..k -> Seq(RDMAPort)]
  <2>1. \A i \in 1..k : ss[i] \in Seq(RDMAPort)
    <3>1. <<>> \in Seq(RDMAPort)
      OBVIOUS
    <3> TAKE i \in 1..k
    <3>2. ss[i] = (IF h.rdma[i].bdf = n THEN h.rdma[i].ports ELSE <<>>) /\ h.rdma[i].ports \in Seq(RDMAPort)
      BY <1>2, <1>3
    <3> HIDE DEF ss, k
    <3> QED BY <3>1, <3>2
  <2>2. ss = [ i \in 1..k |-> ss[i] ]
    BY <1>1 DEF PortsOfNic
  <2> HIDE DEF ss, k
  <2> QED BY <2>1, <2>2
<1>5. rs \in Seq(RDMAPort) /\ ToSet(rs) = AllOf(1..k, ss)
  <2> HIDE DEF ss, k
  <2> QED BY <1>1, <1>4, FlattenIs
<1>6. DOMAIN rs = 1..Len(rs) /\ Len(rs) \in Nat
  <2> HIDE DEF rs
  <2> QED BY <1>5, LenProperties
<1>7. \A p : p \in ToSet(rs) <=> \E i \in 1..k : h.rdma[i].bdf = n /\ p \in ToSet(h.rdma[i].ports)
  <2> TAKE p
  <2>1. p \in ToSet(rs) <=> \E i \in 1..k : p \in ToSet(ss[i])
    <3> HIDE DEF rs, ss, k
    <3> QED BY <1>5 DEF AllOf
  <2>2. ToSet(<<>>) = {}
    BY DEF ToSet
  <2>3. \A i \in 1..k : p \in ToSet(ss[i]) <=> h.rdma[i].bdf = n /\ p \in ToSet(h.rdma[i].ports)
    <3> TAKE i \in 1..k
    <3> HIDE DEF ss, k
    <3> QED BY <1>3, <2>2
  <2> HIDE DEF rs, ss, k
  <2> QED BY <2>1, <2>3
<1>8. ASSUME NEW i \in 1..Len(rs) PROVE rs[i].gbps < Boost
  <2>1. rs[i] \in ToSet(rs)
    BY <1>6 DEF ToSet
  <2>2. PICK j \in 1..k : rs[i] \in ToSet(h.rdma[j].ports)
    BY <1>7, <2>1
  <2>3. PICK m \in DOMAIN h.rdma[j].ports : rs[i] = h.rdma[j].ports[m]
    BY <2>2 DEF ToSet
  <2> QED BY <1>1, <2>3 DEF BelowBoost
<1>9. Active(n) = { rs[i] : i \in { j \in 1..Len(rs) : rs[j].state = "ACTIVE" } }
  <2>1. \A p : p \in Active(n) <=> p.state = "ACTIVE" /\ \E i \in 1..k : h.rdma[i].bdf = n /\ p \in ToSet(h.rdma[i].ports)
    <3> HIDE DEF k
    <3> QED BY <1>1 DEF Active
  <2>2. \A p : p \in ToSet(rs) <=> \E i \in 1..Len(rs) : p = rs[i]
    <3> HIDE DEF rs
    <3> QED BY <1>6 DEF ToSet
  <2>3. \A p : p \in { rs[i] : i \in { j \in 1..Len(rs) : rs[j].state = "ACTIVE" } }
                <=> p.state = "ACTIVE" /\ \E i \in 1..Len(rs) : p = rs[i]
    <3> HIDE DEF rs
    <3> QED OBVIOUS
  <2> DEFINE lhs == Active(n)
             rhs == { rs[i] : i \in { j \in 1..Len(rs) : rs[j].state = "ACTIVE" } }
  <2>4. \A p : p \in lhs <=> p \in rhs
    <3> HIDE DEF rs, ss, k
    <3> QED BY <1>7, <2>1, <2>2, <2>3
  <2> HIDE DEF lhs, rhs
  <2>5. lhs = rhs
    BY <2>4
  <2> QED BY <2>5 DEF lhs, rhs
<1> HIDE DEF rs, ss, k
<1> QED BY <1>5, <1>8, <1>9 DEF rs, ss

\* The interfaces of a NIC as one list (build.go:119-125).
LEMMA NetsPicked ==
  ASSUME h \in Hosts, BelowBoost, NEW n
  PROVE  LET ns == FlattenSeq(NetsOfNic(n))
         IN /\ ns \in Seq(NetPort) /\ \A i \in 1..Len(ns) : ns[i].mbps \div 1000 < Boost
            /\ Up(n) # {} => \E j \in 1..Len(ns) : ns[j].state = "up"
<1> DEFINE ss == NetsOfNic(n)
           k == Len(h.net)
           ns == FlattenSeq(ss)
<1>1. k \in Nat /\ DOMAIN h.net = 1..k /\ \A i \in 1..k : h.net[i] \in NetPort
  <2>1. h.net \in Seq(NetPort)
    BY PortAssumption
  <2> QED BY <2>1, LenProperties, ElementOfSeq
<1>3. DOMAIN ss = 1..k /\ \A i \in 1..k : ss[i] = IF h.net[i].bdf = n THEN << h.net[i] >> ELSE <<>>
  BY <1>1 DEF NetsOfNic
<1>4. ss \in [1..k -> Seq(NetPort)]
  <2>1. \A i \in 1..k : ss[i] \in Seq(NetPort)
    <3>1. \A x \in NetPort : << x >> \in Seq(NetPort)
      OBVIOUS
    <3> TAKE i \in 1..k
    <3>2. ss[i] = (IF h.net[i].bdf = n THEN << h.net[i] >> ELSE <<>>) /\ h.net[i] \in NetPort
      BY <1>1, <1>3
    <3>3. <<>> \in Seq(NetPort)
      OBVIOUS
    <3> HIDE DEF ss, k
    <3> QED BY <3>1, <3>2, <3>3
  <2>2. ss = [ i \in 1..k |-> ss[i] ]
    BY <1>1 DEF NetsOfNic
  <2> HIDE DEF ss, k
  <2> QED BY <2>1, <2>2
<1>5. ns \in Seq(NetPort) /\ ToSet(ns) = AllOf(1..k, ss)
  <2> HIDE DEF ss, k
  <2> QED BY <1>1, <1>4, FlattenIs
<1>6. DOMAIN ns = 1..Len(ns) /\ Len(ns) \in Nat
  <2> HIDE DEF ns
  <2> QED BY <1>5, LenProperties
<1>7. \A p : p \in ToSet(ns) <=> \E i \in 1..k : h.net[i].bdf = n /\ p = h.net[i]
  <2> TAKE p
  <2>1. p \in ToSet(ns) <=> \E i \in 1..k : p \in ToSet(ss[i])
    <3> HIDE DEF ns, ss, k
    <3> QED BY <1>5 DEF AllOf
  <2>2. ToSet(<<>>) = {} /\ \A x : ToSet(<< x >>) = {x}
    BY DEF ToSet
  <2>3. \A i \in 1..k : p \in ToSet(ss[i]) <=> h.net[i].bdf = n /\ p = h.net[i]
    <3> TAKE i \in 1..k
    <3> HIDE DEF ss, k
    <3> QED BY <1>3, <2>2
  <2> HIDE DEF ns, ss, k
  <2> QED BY <2>1, <2>3
<1>8. ASSUME NEW i \in 1..Len(ns) PROVE ns[i].mbps \div 1000 < Boost
  <2>1. ns[i] \in ToSet(ns)
    BY <1>6 DEF ToSet
  <2>2. PICK j \in 1..k : ns[i] = h.net[j]
    BY <1>7, <2>1
  <2> QED BY <1>1, <2>2 DEF BelowBoost
<1>9. ASSUME NEW i \in Up(n) PROVE \E j \in 1..Len(ns) : ns[j].state = "up"
  <2>1. i \in 1..k /\ h.net[i].bdf = n /\ h.net[i].state = "up"
    BY <1>1 DEF Up
  <2>2. h.net[i] \in ToSet(ns)
    BY <1>7, <2>1
  <2>3. PICK j \in 1..Len(ns) : ns[j] = h.net[i]
    BY <1>6, <2>2 DEF ToSet
  <2> QED BY <2>1, <2>3
<1> HIDE DEF ns, ss, k
<1> QED BY <1>5, <1>8, <1>9 DEF ns, ss

\* What pickPort returned for every NIC of the report.
LEMMA PortFacts ==
  ASSUME IInv, BelowBoost, NEW n \in DOMAIN nics
  PROVE  /\ Active(n) # {} => /\ nics[n].port.src = "rdma" /\ nics[n].port.up /\ nics[n].port.known
                              /\ \E p \in Active(n) : nics[n].port.gbps = p.gbps
                              /\ \A p \in Active(n) : p.gbps <= nics[n].port.gbps
         /\ ~nics[n].port.known => Up(n) = {}
         /\ ~nics[n].port.up /\ nics[n].port.src = "net" => Up(n) = {}
<1> DEFINE rs == FlattenSeq(PortsOfNic(n))
           ns == FlattenSeq(NetsOfNic(n))
           port == PickPort(rs, ns)
           active == { i \in 1..Len(rs) : rs[i].state = "ACTIVE" }
           up == { i \in 1..Len(ns) : ns[i].state = "up" }
<1>1. h \in Hosts
  BY DEF IInv
<1>2. nics[n].port = port
  <2>1. nics = AllNics(h)
    <3>1. pc # "list"
      BY DEF IInv
    <3> QED BY <3>1 DEF IInv
  <2> QED BY <2>1 DEF AllNics, NicOf, PortsOfNic, NetsOfNic
<1>3. rs \in Seq(RDMAPort) /\ \A i \in 1..Len(rs) : rs[i].gbps < Boost
  BY <1>1, PortsPicked
<1>4. ns \in Seq(NetPort) /\ \A i \in 1..Len(ns) : ns[i].mbps \div 1000 < Boost
  BY <1>1, NetsPicked
<1>5. Active(n) = { rs[i] : i \in active } /\ (Up(n) # {} => up # {})
  BY <1>1, PortsPicked, NetsPicked
<1>6. /\ active # {} => /\ port.src = "rdma" /\ port.up /\ port.known
                        /\ \E i \in active : port.gbps = rs[i].gbps
                        /\ \A i \in active : rs[i].gbps <= port.gbps
      /\ ~port.known => up = {}
      /\ ~port.up /\ port.src = "net" => up = {}
  <2> HIDE DEF rs, ns
  <2> QED BY <1>3, <1>4, PickPortFacts DEF BelowBoostIn
<1> HIDE DEF rs, ns, port, active, up
<1> QED BY <1>2, <1>5, <1>6

\* A NIC with an active RDMA port shows the fastest of them, for any devices and
\* ports in any order, as long as no rate reaches 2^20 Gb/s: a port that is not
\* active would win from there on (build.go:127-147).
THEOREM FastestOfAny == ASSUME BelowBoost PROVE Spec => []FastestActive
<1>1. IInv => FastestActive
  <2> SUFFICES ASSUME IInv, NEW n \in DOMAIN nics, Active(n) # {}
               PROVE  /\ nics[n].port.src = "rdma" /\ nics[n].port.up
                      /\ nics[n].port.gbps = Max({ p.gbps : p \in Active(n) })
    BY DEF FastestActive
  <2>1. PICK p \in Active(n) : nics[n].port.gbps = p.gbps
    BY PortFacts
  <2>2. /\ nics[n].port.src = "rdma" /\ nics[n].port.up /\ \A q \in Active(n) : q.gbps <= p.gbps
        /\ \A q \in Active(n) : q.gbps \in Int
    <3>1. \A q \in Active(n) : q.gbps \in Int
      <4>1. h \in Hosts
        BY DEF IInv
      <4> DEFINE rs == FlattenSeq(PortsOfNic(n))
      <4>2. rs \in Seq(RDMAPort) /\ \A q \in Active(n) : \E i \in 1..Len(rs) : q = rs[i]
        BY <4>1, PortsPicked
      <4> HIDE DEF rs
      <4>3. \A i \in 1..Len(rs) : rs[i] \in RDMAPort
        BY <4>2, ElementOfSeq
      <4>4. \A x \in RDMAPort : x.gbps \in Nat
        BY DEF RDMAPort
      <4> QED BY <4>2, <4>3, <4>4
    <3> QED BY <2>1, <3>1, PortFacts
  <2>3. Max({ q.gbps : q \in Active(n) }) = p.gbps
    <3> DEFINE s == { q.gbps : q \in Active(n) }
    <3>1. s \in SUBSET Int /\ p.gbps \in s /\ \A x \in s : x <= p.gbps
      BY <2>2
    <3> HIDE DEF s
    <3>2. Max(s) = p.gbps
      BY <3>1, MaxIs
    <3> QED BY <3>2 DEF s
  <2> QED BY <2>1, <2>2, <2>3
<1> QED BY <1>1, Inductive, PTL

\* nic-port is not UNKNOWN of a NIC with a working port (build.go:145-159).
THEOREM UnknownOfNoWorkingPort == ASSUME BelowBoost PROVE Spec => []UnknownHidesNoWorkingPort
<1>1. IInv => UnknownHidesNoWorkingPort
  BY PortFacts DEF UnknownHidesNoWorkingPort
<1> QED BY <1>1, Inductive, PTL

\* nic-port is not FAIL of a NIC with a working port (build.go:127-159).
THEOREM DownOfNoWorkingPort == ASSUME BelowBoost PROVE Spec => []DownIsDown
<1>1. IInv => DownIsDown
  BY PortFacts DEF DownIsDown
<1> QED BY <1>1, Inductive, PTL

-----------------------------------------------------------------------------
(* Localities and path links over every hierarchy, see Topology. *)

\* What a list of all numbers above each one is, as resolve builds it.
Ancestors(n, above, f) == f = [ e \in 0..n |-> IF e = 0 THEN <<>> ELSE Append(f[above[e]], e) ]

\* Every number has a list, where the one above is always a smaller one.
LEMMA AncestorsExist ==
  ASSUME NEW n \in Nat, NEW above, \A e \in 1..n : above[e] \in 0..(e - 1)
  PROVE  \E f : Ancestors(n, above, f)
<1> DEFINE Good(f, k) == \A e \in 0..k : f[e] = IF e = 0 THEN <<>> ELSE Append(f[above[e]], e)
           T == Seq(Nat)
           S == { k \in 0..n : \E f \in [0..k -> T] : Good(f, k) }
<1>1. 0 \in S
  <2> DEFINE f == [e \in 0..0 |-> <<>>]
  <2>1. f \in [0..0 -> T] /\ Good(f, 0)
    OBVIOUS
  <2> HIDE DEF Good, f
  <2> QED BY <2>1
<1>2. ASSUME NEW k \in 0..(n - 1), k \in S PROVE k + 1 \in S
  <2>1. PICK f \in [0..k -> T] : Good(f, k)
    BY <1>2
  <2>2. PICK u : u = above[k + 1]
    OBVIOUS
  <2>3. u \in 0..k /\ k + 1 \in 1..n
    BY <2>2
  <2> DEFINE last == Append(f[u], k + 1)
             g == [ e \in 0..(k + 1) |-> IF e = k + 1 THEN last ELSE f[e] ]
  <2>4. last \in T
    <3>1. f[u] \in T
      BY <2>3
    <3> QED BY <3>1
  <2>5. g \in [0..(k + 1) -> T]
    <3> HIDE DEF last
    <3> QED BY <2>4
  <2>6. Good(g, k + 1)
    <3> SUFFICES ASSUME NEW e \in 0..(k + 1) PROVE g[e] = IF e = 0 THEN <<>> ELSE Append(g[above[e]], e)
      OBVIOUS
    <3>1. CASE e = k + 1
      <4>1. g[e] = last /\ g[u] = f[u] /\ e # 0
        BY <2>3, <3>1
      <4> HIDE DEF g
      <4> QED BY <2>2, <3>1, <4>1
    <3>2. CASE e # k + 1
      <4>1. e \in 0..k /\ g[e] = f[e]
        BY <3>2
      <4>2. f[e] = IF e = 0 THEN <<>> ELSE Append(f[above[e]], e)
        BY <2>1, <4>1
      <4>3. e # 0 => g[above[e]] = f[above[e]]
        <5> SUFFICES ASSUME e # 0 PROVE g[above[e]] = f[above[e]]
          OBVIOUS
        <5>1. e \in 1..n
          BY <4>1
        <5>2. above[e] \in 0..k
          BY <4>1, <5>1
        <5> QED BY <5>2
      <4> HIDE DEF g
      <4> QED BY <4>1, <4>2, <4>3
    <3> QED BY <3>1, <3>2
  <2> HIDE DEF Good, g
  <2> QED BY <2>5, <2>6
<1>3. n \in S
  <2>1. 0..n \subseteq S
    <3> HIDE DEF S
    <3> QED BY <1>1, <1>2, InductionTo
  <2> HIDE DEF S
  <2> QED BY <2>1
<1>4. PICK f \in [0..n -> T] : Good(f, n)
  BY <1>3
<1>5. f = [ e \in 0..n |-> IF e = 0 THEN <<>> ELSE Append(f[above[e]], e) ]
  BY <1>4
<1> QED BY <1>5 DEF Ancestors

-----------------------------------------------------------------------------
Kinds == {"root", "up", "down", "end"}

\* The hierarchy is one of PCIe: what is above what, and a port has either one
\* switch or functions of an endpoint below it.
Wired ==
  /\ kind \in Seq(Kinds) /\ parent \in Seq(Nat) /\ hb \in Seq(HostBridges)
  /\ Len(parent) = Len(kind) /\ Len(hb) = Len(kind)
  /\ \A d \in Functions :
       /\ parent[d] < d
       /\ kind[d] = "root" <=> parent[d] = 0
       /\ parent[d] # 0 => hb[d] = hb[parent[d]]
       /\ kind[d] \in {"up", "end"} => kind[parent[d]] \in {"root", "down"}
       /\ kind[d] = "down" => kind[parent[d]] = "up"
  /\ \A d, e \in Functions : kind[d] = "up" /\ parent[d] = parent[e] => d = e

LEMMA WiredAdd ==
  ASSUME Wired, NEW k \in Kinds, NEW p \in 0..Len(kind), NEW b \in HostBridges, Add(k, p, b),
         k = "root" <=> p = 0,
         p # 0 => b = hb[p],
         k \in {"up", "end"} => kind[p] \in {"root", "down"},
         k = "down" => kind[p] = "up",
         k = "up" => Children(p) = {},
         p # 0 => \A c \in Children(p) : kind[c] # "up"
  PROVE  Wired'
<1>1. PICK n \in Nat : n = Len(kind)
  BY DEF Wired
<1>2. /\ kind \in Seq(Kinds) /\ parent \in Seq(Nat) /\ hb \in Seq(HostBridges)
      /\ Len(parent) = n /\ Len(hb) = n /\ Functions = 1..n
  BY <1>1 DEF Wired, Functions
<1>3. kind' = Append(kind, k) /\ parent' = Append(parent, p) /\ hb' = Append(hb, b)
  BY DEF Add
<1>4. /\ kind' \in Seq(Kinds) /\ parent' \in Seq(Nat) /\ hb' \in Seq(HostBridges)
      /\ Len(kind') = n + 1 /\ Len(parent') = n + 1 /\ Len(hb') = n + 1 /\ Functions' = 1..(n + 1)
  BY <1>1, <1>2, <1>3 DEF Functions
<1>5. /\ \A d \in 1..n : kind'[d] = kind[d] /\ parent'[d] = parent[d] /\ hb'[d] = hb[d]
      /\ kind'[n + 1] = k /\ parent'[n + 1] = p /\ hb'[n + 1] = b
  BY <1>1, <1>2, <1>3
<1>6. \A d \in 1..n : /\ parent[d] < d /\ parent[d] \in Nat
                      /\ kind[d] = "root" <=> parent[d] = 0
                      /\ parent[d] # 0 => hb[d] = hb[parent[d]]
                      /\ kind[d] \in {"up", "end"} => kind[parent[d]] \in {"root", "down"}
                      /\ kind[d] = "down" => kind[parent[d]] = "up"
  BY <1>2 DEF Wired
<1>7. ASSUME NEW d \in 1..(n + 1)
      PROVE  /\ parent'[d] < d
             /\ kind'[d] = "root" <=> parent'[d] = 0
             /\ parent'[d] # 0 => hb'[d] = hb'[parent'[d]]
             /\ kind'[d] \in {"up", "end"} => kind'[parent'[d]] \in {"root", "down"}
             /\ kind'[d] = "down" => kind'[parent'[d]] = "up"
  <2>1. CASE d = n + 1
    <3>1. p < d /\ (p # 0 => p \in 1..n)
      BY <1>1, <2>1
    <3>2. p # 0 => hb'[p] = hb[p] /\ kind'[p] = kind[p]
      BY <1>5, <3>1
    <3> QED BY <1>5, <2>1, <3>1, <3>2
  <2>2. CASE d # n + 1
    <3>1. d \in 1..n
      BY <2>2
    <3>2. parent[d] # 0 => parent[d] \in 1..n
      BY <1>6, <3>1
    <3>3. parent[d] # 0 => kind'[parent[d]] = kind[parent[d]] /\ hb'[parent[d]] = hb[parent[d]]
      BY <1>5, <3>2
    <3>4. kind[d] \in {"up", "end", "down"} => parent[d] # 0
      BY <1>6, <3>1
    <3> QED BY <1>5, <1>6, <3>1, <3>3, <3>4
  <2> QED BY <2>1, <2>2
<1>8. ASSUME NEW d \in 1..(n + 1), NEW e \in 1..(n + 1), kind'[d] = "up", parent'[d] = parent'[e] PROVE d = e
  <2>1. \A c : c \in Children(p) <=> c \in 1..n /\ parent[c] = p
    BY <1>2 DEF Children
  <2>2. CASE d \in 1..n /\ e \in 1..n
    BY <1>2, <1>5, <1>8, <2>2 DEF Wired
  <2>3. CASE d = n + 1 /\ e \in 1..n
    <3>1. e \in Children(p)
      BY <1>5, <1>8, <2>1, <2>3
    <3> QED BY <1>5, <1>8, <2>3, <3>1
  <2>4. CASE e = n + 1 /\ d \in 1..n
    <3>1. d \in Children(p) /\ kind[d] = "up" /\ parent[d] = p
      BY <1>5, <1>8, <2>1, <2>4
    <3>2. p # 0
      BY <1>6, <2>4, <3>1
    <3> QED BY <3>1, <3>2
  <2> QED BY <2>2, <2>3, <2>4
<1> QED BY <1>1, <1>4, <1>7, <1>8 DEF Wired

\* The hierarchies that grow are hierarchies of PCIe.
LEMMA StaysWired == TopologySpec => []Wired
<1>1. TopologyInit => Wired
  <2> SUFFICES ASSUME TopologyInit PROVE Wired
    OBVIOUS
  <2>1. kind = <<>> /\ parent = <<>> /\ hb = <<>>
    BY DEF TopologyInit
  <2>2. Functions = {}
    BY <2>1 DEF Functions
  <2> QED BY <2>1, <2>2 DEF Wired
<1>2. Wired /\ [TopologyNext]_topologyVars => Wired'
  <2> SUFFICES ASSUME Wired, [TopologyNext]_topologyVars PROVE Wired'
    OBVIOUS
  <2>0. /\ Len(kind) \in Nat /\ Functions = 1..Len(kind)
        /\ kind \in Seq(Kinds) /\ hb \in Seq(HostBridges) /\ Len(hb) = Len(kind)
    BY DEF Wired, Functions
  <2>1. CASE UNCHANGED topologyVars
    BY <2>1 DEF topologyVars, Wired, Functions
  <2>2. ASSUME NEW b \in HostBridges, AddRoot(b) PROVE Wired'
    <3>1. Add("root", 0, b) /\ "root" \in Kinds /\ 0 \in 0..Len(kind)
      BY <2>0, <2>2 DEF AddRoot, Kinds
    <3> QED BY <3>1, WiredAdd
  <2>3. ASSUME NEW p \in Functions, AddSwitch(p) PROVE Wired'
    <3>1. /\ Add("up", p, hb[p]) /\ kind[p] \in {"root", "down"} /\ Children(p) = {}
          /\ "up" \in Kinds /\ p \in 0..Len(kind) /\ p # 0 /\ hb[p] \in HostBridges
      BY <2>0, <2>3 DEF AddSwitch, Kinds
    <3> QED BY <3>1, WiredAdd
  <2>4. ASSUME NEW p \in Functions, AddDownstream(p) PROVE Wired'
    <3>1. /\ Add("down", p, hb[p]) /\ kind[p] = "up"
          /\ "down" \in Kinds /\ p \in 0..Len(kind) /\ p # 0 /\ hb[p] \in HostBridges
      BY <2>0, <2>4 DEF AddDownstream, Kinds
    <3>2. \A c \in Children(p) : kind[c] # "up"
      BY <3>1 DEF Wired, Children
    <3> QED BY <3>1, <3>2, WiredAdd
  <2>5. ASSUME NEW p \in Functions, AddEndpoint(p) PROVE Wired'
    <3>1. /\ Add("end", p, hb[p]) /\ kind[p] \in {"root", "down"}
          /\ \A c \in Children(p) : kind[c] = "end"
          /\ "end" \in Kinds /\ p \in 0..Len(kind) /\ p # 0 /\ hb[p] \in HostBridges
      BY <2>0, <2>5 DEF AddEndpoint, Kinds
    <3> QED BY <3>1, WiredAdd
  <2> QED BY <2>1, <2>2, <2>3, <2>4, <2>5 DEF TopologyNext
<1> QED BY <1>1, <1>2, PTL DEF TopologySpec

\* The list of d runs from a number without one above it to d, each below the
\* one before, and starts with the list of each of its elements.  Whatever goes
\* down from above to below is the same for all of them.
Line(n, above, of, f, d) ==
  /\ f[d] \in Seq(1..n) /\ Len(f[d]) \in Nat \ {0} /\ f[d][Len(f[d])] = d
  /\ above[f[d][1]] = 0
  /\ \A i \in 2..Len(f[d]) : above[f[d][i]] = f[d][i - 1]
  /\ \A i \in 1..Len(f[d]) : /\ Len(f[f[d][i]]) = i
                             /\ \A j \in 1..i : f[f[d][i]][j] = f[d][j]
                             /\ of[f[d][i]] = of[d]

LEMMA AncestorsAre ==
  ASSUME NEW n \in Nat, NEW above, NEW of, NEW f, Ancestors(n, above, f),
         \A e \in 1..n : above[e] \in 0..(e - 1) /\ (above[e] # 0 => of[e] = of[above[e]])
  PROVE  \A d \in 1..n : Line(n, above, of, f, d)
<1> DEFINE U == { k \in 0..n : \A d \in 1..k : Line(n, above, of, f, d) }
<1>1. 0 \in U
  OBVIOUS
<1>2. ASSUME NEW k \in 0..(n - 1), k \in U PROVE k + 1 \in U
  <2>0. \A x \in 1..k : Line(n, above, of, f, x)
    BY <1>2
  <2> HIDE DEF U
  <2>1. PICK d \in 1..n : d = k + 1
    OBVIOUS
  <2>2. PICK u \in 0..k : u = above[d]
    BY <2>1
  <2>3. f[d] = Append(f[u], d) /\ f[0] = <<>>
    <3>1. \A e \in 0..n : f[e] = IF e = 0 THEN <<>> ELSE Append(f[above[e]], e)
      BY DEF Ancestors
    <3>2. d \in 0..n /\ d # 0 /\ 0 \in 0..n
      BY <2>1
    <3> QED BY <2>2, <3>1, <3>2
  <2>4. Line(n, above, of, f, d)
    <3>1. CASE u = 0
      <4>1. PICK e : e = f[d]
        OBVIOUS
      <4>2. PICK c : c = f[u]
        OBVIOUS
      <4>3. e \in Seq(1..n) /\ Len(e) = 1 /\ e[1] = d
        <5>1. e = Append(c, d) /\ c = <<>>
          BY <2>3, <3>1, <4>1, <4>2
        <5>2. c \in Seq(1..n) /\ Len(c) = 0
          BY <5>1
        <5> QED BY <5>1, <5>2
      <4>4. \A i \in 1..Len(e) : Len(f[e[i]]) = i /\ of[e[i]] = of[d] /\ \A j \in 1..i : f[e[i]][j] = e[j]
        BY <4>1, <4>3
      <4>5. above[e[1]] = 0
        BY <2>2, <3>1, <4>3
      <4>6. \A i \in 2..Len(e) : above[e[i]] = e[i - 1]
        BY <4>3
      <4>7. Len(e) \in Nat \ {0} /\ e[Len(e)] = d
        BY <4>3
      <4> QED BY <4>1, <4>3, <4>4, <4>5, <4>6, <4>7 DEF Line
    <3>2. CASE u # 0
      <4>1. Line(n, above, of, f, u) /\ of[d] = of[u]
        BY <2>0, <2>2, <3>2
      <4>2. PICK c : c = f[u]
        OBVIOUS
      <4>3. PICK e : e = f[d]
        OBVIOUS
      <4>4. PICK m \in Nat \ {0} : m = Len(c)
        BY <4>1, <4>2 DEF Line
      <4>5. /\ c \in Seq(1..n) /\ c[m] = u /\ above[c[1]] = 0
            /\ \A i \in 2..m : above[c[i]] = c[i - 1]
            /\ \A i \in 1..m : Len(f[c[i]]) = i /\ of[c[i]] = of[u] /\ \A j \in 1..i : f[c[i]][j] = c[j]
        BY <4>1, <4>2, <4>4 DEF Line
      <4>6. e \in Seq(1..n) /\ Len(e) = m + 1 /\ e[m + 1] = d /\ \A i \in 1..m : e[i] = c[i]
        BY <2>3, <4>2, <4>3, <4>4, <4>5
      <4>7. above[e[1]] = 0
        <5>1. 1 \in 1..m
          BY <4>4
        <5>2. e[1] = c[1]
          BY <4>6, <5>1
        <5> QED BY <4>5, <5>2
      <4>8. \A i \in 2..(m + 1) : above[e[i]] = e[i - 1]
        <5> TAKE i \in 2..(m + 1)
        <5>1. CASE i = m + 1
          BY <2>2, <4>5, <4>6, <5>1
        <5>2. CASE i # m + 1
          <6>1. i \in 2..m /\ i \in 1..m /\ i - 1 \in 1..m
            BY <5>2
          <6> QED BY <4>5, <4>6, <6>1
        <5> QED BY <5>1, <5>2
      <4>9. \A i \in 1..(m + 1) : Len(f[e[i]]) = i /\ of[e[i]] = of[d] /\ \A j \in 1..i : f[e[i]][j] = e[j]
        <5> TAKE i \in 1..(m + 1)
        <5>1. CASE i = m + 1
          BY <4>3, <4>6, <5>1
        <5>2. CASE i # m + 1
          <6>1. i \in 1..m /\ \A j \in 1..i : j \in 1..m
            BY <5>2
          <6>2. e[i] = c[i] /\ \A j \in 1..i : e[j] = c[j]
            BY <4>6, <6>1
          <6>3. Len(f[c[i]]) = i /\ of[c[i]] = of[u]
            BY <4>5, <6>1
          <6>4. \A j \in 1..i : f[c[i]][j] = c[j]
            BY <4>5, <6>1
          <6>5. ASSUME NEW j \in 1..i PROVE f[e[i]][j] = e[j]
            <7>1. f[c[i]][j] = c[j] /\ e[j] = c[j]
              BY <6>2, <6>4
            <7> QED BY <6>2, <7>1
          <6>6. of[d] = of[u]
            BY <4>1
          <6>7. Len(f[e[i]]) = i /\ of[e[i]] = of[d]
            BY <6>2, <6>3, <6>6
          <6> QED BY <6>5, <6>7
        <5> QED BY <5>1, <5>2
      <4>10. e \in Seq(1..n) /\ Len(e) \in Nat \ {0} /\ e[Len(e)] = d
        BY <4>6
      <4>11. \A i \in 2..Len(e) : above[e[i]] = e[i - 1]
        BY <4>6, <4>8
      <4>12. \A i \in 1..Len(e) : Len(f[e[i]]) = i /\ of[e[i]] = of[d] /\ \A j \in 1..i : f[e[i]][j] = e[j]
        BY <4>6, <4>9
      <4> QED BY <4>3, <4>7, <4>10, <4>11, <4>12 DEF Line
    <3> QED BY <3>1, <3>2
  <2>5. \A x \in 1..(k + 1) : x \in 1..k \/ x = d
    BY <2>1
  <2> QED BY <2>0, <2>4, <2>5 DEF U
<1>3. 0..n \subseteq U
  <2> HIDE DEF U
  <2> QED BY <1>1, <1>2, InductionTo
<1>4. n \in U
  <2> HIDE DEF U
  <2> QED BY <1>3
<1> QED BY <1>4

\* The chains resolve finds.
LEMMA ChainsAre ==
  ASSUME Wired
  PROVE  \E f : /\ \A d \in Functions : Chain(d) = f[d] /\ Line(Len(kind), parent, hb, f, d)
<1>1. PICK n \in Nat : n = Len(kind)
  BY DEF Wired
<1>2. /\ Functions = 1..n
      /\ \A e \in 1..n : parent[e] \in 0..(e - 1) /\ (parent[e] # 0 => hb[e] = hb[parent[e]])
  BY <1>1 DEF Wired, Functions
<1> DEFINE f == CHOOSE g : g = [ e \in 0..n |-> IF e = 0 THEN <<>> ELSE Append(g[parent[e]], e) ]
<1>3. PICK up : up = parent
  OBVIOUS
<1>4. \E g : Ancestors(n, up, g)
  BY <1>2, <1>3, AncestorsExist
<1>5. Ancestors(n, up, f)
  BY <1>3, <1>4 DEF Ancestors
<1>6. \A d \in Functions : Chain(d) = f[d]
  BY <1>1 DEF Chain
<1> HIDE DEF f
<1>7. PICK of : of = hb
  OBVIOUS
<1>8. \A d \in 1..n : Line(n, up, of, f, d)
  BY <1>2, <1>3, <1>5, <1>7, AncestorsAre
<1> QED BY <1>1, <1>2, <1>3, <1>6, <1>7, <1>8

\* The way down to a, each place of it known by the function that stands there.
Descends(a, c) ==
  /\ c \in Seq(Functions) /\ Len(c) \in Nat \ {0} /\ c[Len(c)] = a
  /\ \A i \in 1..Len(c) : /\ c[i] \in Functions /\ Len(Chain(c[i])) = i /\ hb[c[i]] = hb[a]
                          /\ \A j \in 1..i : Chain(c[i])[j] = c[j]
                          /\ kind[c[i]] = "root" <=> i = 1
  /\ \A i \in 2..Len(c) : parent[c[i]] = c[i - 1]

LEMMA ChainDescends ==
  ASSUME Wired, NEW a \in Functions
  PROVE  /\ Descends(a, Chain(a)) /\ a \in DOMAIN Devs /\ DOMAIN Devs = Functions
         /\ Devs[a].chain = Chain(a) /\ Devs[a].hb = hb[a]
<1>1. PICK f : \A d \in Functions : Chain(d) = f[d] /\ Line(Len(kind), parent, hb, f, d)
  BY ChainsAre
<1>2. PICK n \in Nat : n = Len(kind)
  BY DEF Wired
<1>3. /\ Functions = 1..n
      /\ \A d \in 1..n : (kind[d] = "root" <=> parent[d] = 0)
  BY <1>2 DEF Wired, Functions
<1>4. PICK c : c = Chain(a)
  OBVIOUS
<1>5. /\ c \in Seq(1..n) /\ Len(c) \in Nat \ {0} /\ c[Len(c)] = a
      /\ parent[c[1]] = 0
      /\ \A i \in 2..Len(c) : parent[c[i]] = c[i - 1]
      /\ \A i \in 1..Len(c) : /\ Len(f[c[i]]) = i
                              /\ \A j \in 1..i : f[c[i]][j] = c[j]
                              /\ hb[c[i]] = hb[a]
  <2>1. Line(n, parent, hb, f, a) /\ c = f[a]
    BY <1>1, <1>2, <1>4
  <2> QED BY <2>1 DEF Line
<1>6. ASSUME NEW i \in 1..Len(c)
      PROVE  /\ c[i] \in Functions /\ Chain(c[i]) = f[c[i]]
             /\ kind[c[i]] = "root" <=> i = 1
  <2>1. c[i] \in Functions
    BY <1>3, <1>5
  <2>2. CASE i = 1
    <3>1. parent[c[i]] = 0
      BY <1>5, <2>2
    <3> QED BY <1>1, <1>3, <2>1, <2>2, <3>1
  <2>3. CASE i # 1
    <3>1. i \in 2..Len(c) /\ i - 1 \in 1..Len(c)
      BY <1>5, <2>3
    <3>2. parent[c[i]] = c[i - 1] /\ c[i - 1] \in 1..n
      BY <1>5, <3>1
    <3>3. parent[c[i]] # 0
      BY <3>2
    <3> QED BY <1>1, <1>3, <2>1, <2>3, <3>3
  <2> QED BY <1>1, <2>1, <2>2, <2>3
<1>7. Descends(a, c)
  <2>1. \A i \in 1..Len(c) : /\ c[i] \in Functions /\ Len(Chain(c[i])) = i /\ hb[c[i]] = hb[a]
                             /\ \A j \in 1..i : Chain(c[i])[j] = c[j]
                             /\ kind[c[i]] = "root" <=> i = 1
    <3> TAKE i \in 1..Len(c)
    <3>1. Len(f[c[i]]) = i /\ hb[c[i]] = hb[a] /\ \A j \in 1..i : f[c[i]][j] = c[j]
      BY <1>5
    <3>2. c[i] \in Functions /\ Chain(c[i]) = f[c[i]] /\ (kind[c[i]] = "root" <=> i = 1)
      BY <1>6
    <3> QED BY <3>1, <3>2
  <2> QED BY <1>3, <1>5, <2>1 DEF Descends
<1>8. /\ a \in DOMAIN Devs /\ DOMAIN Devs = Functions
      /\ Devs[a].chain = Chain(a) /\ Devs[a].hb = hb[a]
  BY DEF Devs, Bare
<1> QED BY <1>4, <1>7, <1>8

\* Where two chains meet they are the same, to the root.
LEMMA ChainsMeet ==
  ASSUME NEW a, NEW x, Descends(a, x), NEW b, NEW y, Descends(b, y),
         NEW i \in 1..Len(x), NEW j \in 1..Len(y), x[i] = y[j]
  PROVE  i = j /\ hb[a] = hb[b] /\ \A k \in 1..i : x[k] = y[k]
<1>1. Len(Chain(x[i])) = i /\ hb[x[i]] = hb[a] /\ \A k \in 1..i : Chain(x[i])[k] = x[k]
  BY DEF Descends
<1>2. Len(Chain(y[j])) = j /\ hb[y[j]] = hb[b] /\ \A k \in 1..j : Chain(y[j])[k] = y[k]
  BY DEF Descends
<1> QED BY <1>1, <1>2

\* The common prefix reaches position i exactly when both chains agree up to it
\* (locality.go:50-56).
LEMMA CommonReaches ==
  ASSUME NEW x, NEW y, Len(x) \in Nat, Len(y) \in Nat, NEW i \in Nat \ {0}
  PROVE  /\ CommonPrefix(x, y) \in Nat
         /\ i <= CommonPrefix(x, y) <=> i <= Len(x) /\ i <= Len(y) /\ \A j \in 1..i : x[j] = y[j]
<1>1. PICK n : n = Lesser(Len(x), Len(y))
  OBVIOUS
<1>2. n \in Nat /\ (i <= n <=> i <= Len(x) /\ i <= Len(y))
  BY <1>1 DEF Lesser
<1>3. CommonPrefix(x, y) = Cardinality(Agreed(x, y, n))
  BY <1>1 DEF CommonPrefix, Agreed
<1> QED BY <1>2, <1>3, AgreedReaches

\* Of two chains of one hierarchy, n is where they part.
LEMMA Forks ==
  ASSUME NEW a, NEW x, Descends(a, x), NEW b, NEW y, Descends(b, y), NEW n \in Nat,
         \A i \in Nat \ {0} : i <= n <=> /\ hb[a] = hb[b]
                                        /\ i <= Len(x) /\ i <= Len(y) /\ \A j \in 1..i : x[j] = y[j]
  PROVE  Fork(x, y, n)
<1>1. Len(x) \in Nat /\ Len(y) \in Nat
  BY DEF Descends
<1>2. ASSUME NEW i \in 1..Len(x), i <= n PROVE i <= Len(y) /\ x[i] = y[i]
  BY <1>1, <1>2
<1>3. ASSUME NEW i \in 1..Len(x), NEW j \in 1..Len(y), x[i] = y[j] PROVE i = j /\ i <= n
  <2>1. i = j /\ hb[a] = hb[b] /\ \A k \in 1..i : x[k] = y[k]
    BY <1>3, ChainsMeet
  <2>2. i \in Nat \ {0} /\ i <= Len(x) /\ i <= Len(y)
    BY <1>1, <2>1
  <2> QED BY <2>1, <2>2
<1>4. ASSUME NEW i \in 1..Len(x), NEW j \in 1..Len(x), x[i] = x[j] PROVE i = j
  BY <1>4, ChainsMeet
<1> QED BY <1>2, <1>3, <1>4 DEF Fork

\* A function holds another one when it is on its chain.
LEMMA HoldsIs ==
  ASSUME Wired, NEW a \in Functions, NEW d
  PROVE  Holds(d, a) <=> d \in Ran(Chain(a))
<1>1. PICK c : c = Chain(a)
  OBVIOUS
<1>2. c \in Seq(Functions) /\ Devs[a].chain = c
  BY <1>1, ChainDescends DEF Descends
<1>3. DOMAIN c = 1..Len(c)
  BY <1>2
<1> QED BY <1>1, <1>2, <1>3 DEF Holds, Ran

\* The links between two functions are the edges of the hierarchy that part
\* them, in any hierarchy of PCIe of any size (locality.go:58-79).
THEOREM LinksAreTheWay == TopologySpec => []LinksPartTheEnds
<1>1. Wired => LinksPartTheEnds
  <2> SUFFICES ASSUME Wired, NEW a \in Functions, NEW b \in Functions, a # b
               PROVE  PathLinks(Devs, a, b) =
                        { d \in Functions : kind[d] # "root" /\ Holds(d, a) # Holds(d, b) }
    BY DEF LinksPartTheEnds, Ends
  <2>1. PICK x, y : x = Chain(a) /\ y = Chain(b)
    OBVIOUS
  <2>2. /\ Descends(a, x) /\ Descends(b, y) /\ DOMAIN Devs = Functions
        /\ Devs[a].chain = x /\ Devs[b].chain = y /\ Devs[a].hb = hb[a] /\ Devs[b].hb = hb[b]
    BY <2>1, ChainDescends
  <2>3. PICK n : n = (IF hb[a] = hb[b] THEN CommonPrefix(x, y) ELSE 0)
    OBVIOUS
  <2>4. Len(x) \in Nat \ {0} /\ Len(y) \in Nat \ {0}
    BY <2>2 DEF Descends
  <2>5. /\ n \in Nat
        /\ \A i \in Nat \ {0} : i <= n <=> /\ hb[a] = hb[b]
                                         /\ i <= Len(x) /\ i <= Len(y) /\ \A j \in 1..i : x[j] = y[j]
    <3>1. CASE hb[a] = hb[b]
      BY <2>3, <2>4, <3>1, CommonReaches
    <3>2. CASE hb[a] # hb[b]
      BY <2>3, <3>2
    <3> QED BY <3>1, <3>2
  <2>6. Fork(x, y, n)
    BY <2>2, <2>5, Forks
  <2>7. Fork(y, x, n)
    <3>1. \A i \in Nat \ {0} : i <= n <=> /\ hb[b] = hb[a]
                                        /\ i <= Len(y) /\ i <= Len(x) /\ \A j \in 1..i : y[j] = x[j]
      BY <2>5
    <3> QED BY <2>2, <2>5, <3>1, Forks
  <2>8. PathLinks(Devs, a, b) = (Below(x, n) \cup Below(y, n)) \cap Functions
    BY <2>2, <2>3 DEF PathLinks, Below
  <2>9. /\ Below(x, n) = (Ran(x) \ Ran(y)) \ {x[1], y[1]}
        /\ Below(y, n) = (Ran(y) \ Ran(x)) \ {y[1], x[1]}
    BY <2>4, <2>5, <2>6, <2>7, BelowIsApart
  <2>10. /\ \A d \in Ran(x) : d \in Functions /\ (kind[d] = "root" <=> d = x[1])
         /\ \A d \in Ran(y) : d \in Functions /\ (kind[d] = "root" <=> d = y[1])
    <3>1. ASSUME NEW e, NEW c, Descends(e, c), NEW d \in Ran(c)
          PROVE  d \in Functions /\ (kind[d] = "root" <=> d = c[1])
      <4>1. PICK i \in 1..Len(c) : d = c[i]
        BY DEF Ran
      <4>2. 1 \in 1..Len(c) /\ (kind[d] = "root" <=> i = 1) /\ d \in Functions
        BY <3>1, <4>1 DEF Descends
      <4>3. d = c[1] => i = 1
        BY <3>1, <4>1, <4>2 DEF Descends
      <4> QED BY <4>1, <4>2, <4>3
    <3> QED BY <2>2, <3>1
  <2>11. x[1] \in Ran(x) /\ y[1] \in Ran(y)
    BY <2>4 DEF Ran
  <2>12. \A d : (Holds(d, a) <=> d \in Ran(x)) /\ (Holds(d, b) <=> d \in Ran(y))
    BY <2>1, HoldsIs
  <2>13. \A d : Holds(d, a) \in BOOLEAN /\ Holds(d, b) \in BOOLEAN
    BY DEF Holds
  <2>14. \A d : Holds(d, a) # Holds(d, b) <=> d \in (Ran(x) \ Ran(y)) \cup (Ran(y) \ Ran(x))
    BY <2>12, <2>13
  <2>15. ASSUME NEW d
         PROVE  d \in (Below(x, n) \cup Below(y, n)) \cap Functions
                  <=> d \in Functions /\ kind[d] # "root" /\ Holds(d, a) # Holds(d, b)
    BY <2>9, <2>10, <2>11, <2>14
  <2> QED BY <2>8, <2>15
<1> QED BY <1>1, StaysWired, PTL

\* Nothing is below the function of an endpoint, the ports of a switch are below
\* its upstream port, and what is below another port is either one switch or
\* functions of an endpoint.
LEMMA Downward ==
  ASSUME Wired, NEW d \in Functions, kind[d] # "root"
  PROVE  /\ kind[parent[d]] \in {"root", "up", "down"}
         /\ kind[parent[d]] = "up" => kind[d] = "down"
         /\ kind[parent[d]] \in {"root", "down"} => kind[d] \in {"up", "end"}
         /\ \A e \in Functions : kind[d] = "up" /\ parent[d] = parent[e] => d = e
<1>1. kind[d] \in Kinds
  BY DEF Wired, Functions
<1> QED BY <1>1 DEF Wired, Kinds

\* The ends a and b, whose chains x and y agree in their first f ports.
Parted(a, b, x, y, f) ==
  /\ Descends(a, x) /\ Descends(b, y) /\ kind[a] = "end" /\ kind[b] = "end" /\ a # b
  /\ f \in Nat \ {0} /\ f < Len(x) /\ f < Len(y)
  /\ \A j \in 1..f : x[j] = y[j]
  /\ x[f + 1] = y[f + 1] => f + 1 >= Len(x) \/ f + 1 >= Len(y)

\* They share the functions of their first f places and no other.
LEMMA SharedAre ==
  ASSUME Wired, NEW a, NEW b, NEW x, NEW y, NEW f, Parted(a, b, x, y, f),
         NEW i \in 1..Len(x), NEW j \in 1..Len(y), x[i] = y[j]
  PROVE  i = j /\ i <= f
<1>0. /\ Len(x) \in Nat /\ Len(y) \in Nat /\ f \in Nat \ {0} /\ f < Len(x) /\ f < Len(y)
      /\ Descends(a, x) /\ Descends(b, y)
  BY DEF Parted, Descends
<1>1. i = j /\ \A k \in 1..i : x[k] = y[k]
  BY <1>0, ChainsMeet
<1>2. ASSUME i > f PROVE FALSE
  <2>1. f + 1 \in 1..i /\ f + 1 \in 1..Len(x) /\ f + 1 \in 1..Len(y)
    BY <1>0, <1>1, <1>2
  <2>2. x[f + 1] = y[f + 1]
    BY <1>1, <2>1
  <2>3. f + 1 = Len(x) \/ f + 1 = Len(y)
    BY <1>0, <2>1, <2>2 DEF Parted
  <2>4. x[Len(x)] = a /\ y[Len(y)] = b /\ kind[a] = "end" /\ kind[b] = "end" /\ a # b
    BY DEF Parted, Descends
  <2>5. CASE f + 1 = Len(x) /\ f + 1 = Len(y)
    BY <2>2, <2>4, <2>5
  <2>6. CASE f + 1 = Len(x) /\ f + 1 # Len(y)
    <3>1. f + 2 \in 2..Len(y) /\ f + 2 \in 1..Len(y) /\ f + 2 # 1
      BY <1>0, <2>1, <2>6
    <3>2. parent[y[f + 2]] = y[f + 1] /\ kind[y[f + 2]] # "root" /\ y[f + 2] \in Functions
      <4>1. (f + 2) - 1 = f + 1
        BY <1>0
      <4> QED BY <1>0, <3>1, <4>1 DEF Descends
    <3> QED BY <2>2, <2>4, <2>6, <3>2, Downward
  <2>7. CASE f + 1 # Len(x) /\ f + 1 = Len(y)
    <3>1. f + 2 \in 2..Len(x) /\ f + 2 \in 1..Len(x) /\ f + 2 # 1
      BY <1>0, <2>1, <2>7
    <3>2. parent[x[f + 2]] = x[f + 1] /\ kind[x[f + 2]] # "root" /\ x[f + 2] \in Functions
      <4>1. (f + 2) - 1 = f + 1
        BY <1>0
      <4> QED BY <1>0, <3>1, <4>1 DEF Descends
    <3> QED BY <2>2, <2>4, <2>7, <3>2, Downward
  <2> QED BY <2>3, <2>5, <2>6, <2>7
<1> QED BY <1>0, <1>1, <1>2

\* Strictly between place f and the end of a chain.
Inside(x, f) == { x[i] : i \in { k \in 1..Len(x) : f < k /\ k < Len(x) } }

\* A transfer between them crosses the lowest port they share and what is
\* between it and them.
LEMMA OnTheWayIs ==
  ASSUME Wired, NEW a \in Functions, NEW b \in Functions, NEW x, NEW y, NEW f, Parted(a, b, x, y, f),
         x = Chain(a), y = Chain(b)
  PROVE  OnTheWay(a, b) = {x[f]} \cup Inside(x, f) \cup Inside(y, f)
<1>0. /\ Len(x) \in Nat \ {0} /\ Len(y) \in Nat \ {0} /\ f \in Nat \ {0} /\ f < Len(x) /\ f < Len(y)
      /\ Descends(a, x) /\ Descends(b, y) /\ x[Len(x)] = a /\ y[Len(y)] = b /\ a # b
      /\ \A j \in 1..f : x[j] = y[j]
  BY DEF Parted, Descends
<1>1. \A d : (Holds(d, a) <=> d \in Ran(x)) /\ (Holds(d, b) <=> d \in Ran(y))
  BY HoldsIs
<1>2. \A d : Holds(d, a) \in BOOLEAN /\ Holds(d, b) \in BOOLEAN
  BY DEF Holds
<1>3. \A i \in 1..Len(x), j \in 1..Len(y) : x[i] = y[j] => i = j /\ i <= f
  BY SharedAre
<1>4. /\ \A i, j \in 1..Len(x) : x[i] = x[j] => i = j
      /\ \A i, j \in 1..Len(y) : y[i] = y[j] => i = j
  BY <1>0, ChainsMeet
<1>5. /\ \A i \in 1..Len(x) : x[i] \in Functions /\ Len(Chain(x[i])) = i
      /\ \A i \in 1..Len(y) : y[i] \in Functions
  BY <1>0 DEF Descends
<1> DEFINE apart == { d \in Functions \ {a, b} : Holds(d, a) # Holds(d, b) }
           both == { d \in Functions : Holds(d, a) /\ Holds(d, b) }
           lowest == { d \in both : \A e \in both : Len(Chain(e)) <= Len(Chain(d)) }
<1>6. OnTheWay(a, b) = apart \cup lowest
  BY DEF OnTheWay
<1>7. both = { x[i] : i \in 1..f }
  <2>1. ASSUME NEW d \in both PROVE \E i \in 1..f : d = x[i]
    <3>1. d \in Ran(x) /\ d \in Ran(y)
      <4>1. Holds(d, a) /\ Holds(d, b)
        OBVIOUS
      <4> QED BY <1>1, <4>1
    <3>2. PICK i \in 1..Len(x), j \in 1..Len(y) : d = x[i] /\ d = y[j]
      BY <3>1 DEF Ran
    <3>3. i \in 1..f
      <4>1. x[i] = y[j]
        BY <3>2
      <4>2. i <= f
        BY <1>3, <4>1
      <4> QED BY <1>0, <4>2
    <3> QED BY <3>2, <3>3
  <2>2. ASSUME NEW i \in 1..f PROVE x[i] \in both
    <3>1. i \in 1..Len(x) /\ i \in 1..Len(y) /\ x[i] = y[i]
      BY <1>0
    <3>2. x[i] \in Ran(x) /\ x[i] \in Ran(y) /\ x[i] \in Functions
      BY <1>5, <3>1 DEF Ran
    <3> QED BY <1>1, <3>2
  <2> HIDE DEF both
  <2> QED BY <2>1, <2>2
<1>8. lowest = {x[f]}
  <2>1. \A i \in 1..f : i \in 1..Len(x) /\ Len(Chain(x[i])) = i /\ i <= f
    BY <1>0, <1>5
  <2>2. f \in 1..f
    BY <1>0
  <2> HIDE DEF both
  <2>3. ASSUME NEW d \in lowest PROVE d = x[f]
    <3>1. PICK i \in 1..f : d = x[i]
      BY <1>7
    <3>2. Len(Chain(x[f])) <= Len(Chain(d))
      BY <1>7, <2>2
    <3>3. f <= i
      BY <2>1, <2>2, <3>1, <3>2
    <3>4. i = f
      BY <1>0, <2>1, <3>3
    <3> QED BY <3>1, <3>4
  <2>4. x[f] \in lowest
    <3>1. x[f] \in both
      BY <1>7, <2>2
    <3>2. ASSUME NEW e \in both PROVE Len(Chain(e)) <= Len(Chain(x[f]))
      <4>1. PICK i \in 1..f : e = x[i]
        BY <1>7
      <4> QED BY <2>1, <2>2, <4>1
    <3> QED BY <3>1, <3>2
  <2> HIDE DEF lowest
  <2> QED BY <2>3, <2>4
<1>9. apart = Inside(x, f) \cup Inside(y, f)
  <2>1. ASSUME NEW d \in apart PROVE d \in Inside(x, f) \cup Inside(y, f)
    <3>1. d # a /\ d # b /\ ((d \in Ran(x) /\ d \notin Ran(y)) \/ (d \in Ran(y) /\ d \notin Ran(x)))
      <4>1. d # a /\ d # b /\ Holds(d, a) # Holds(d, b)
        OBVIOUS
      <4> QED BY <1>1, <1>2, <4>1
    <3>2. CASE d \in Ran(x) /\ d \notin Ran(y)
      <4>1. PICK i \in 1..Len(x) : d = x[i]
        BY <3>2 DEF Ran
      <4>2. i < Len(x)
        BY <1>0, <3>1, <4>1
      <4>3. i > f
        <5>1. i <= f => i \in 1..Len(y) /\ x[i] = y[i]
          BY <1>0
        <5> QED BY <1>0, <3>2, <4>1, <5>1 DEF Ran
      <4> QED BY <4>1, <4>2, <4>3 DEF Inside
    <3>3. CASE d \in Ran(y) /\ d \notin Ran(x)
      <4>1. PICK i \in 1..Len(y) : d = y[i]
        BY <3>3 DEF Ran
      <4>2. i < Len(y)
        BY <1>0, <3>1, <4>1
      <4>3. i > f
        <5>1. i <= f => i \in 1..Len(x) /\ x[i] = y[i]
          BY <1>0
        <5> QED BY <1>0, <3>3, <4>1, <5>1 DEF Ran
      <4> QED BY <4>1, <4>2, <4>3 DEF Inside
    <3> QED BY <3>1, <3>2, <3>3
  <2>2. ASSUME NEW i \in 1..Len(x), f < i, i < Len(x) PROVE x[i] \in apart
    <3>1. x[i] \in Ran(x) /\ x[i] \in Functions
      BY <1>5 DEF Ran
    <3>2. x[i] \notin Ran(y)
      BY <1>0, <1>3, <2>2 DEF Ran
    <3>3. Len(x) \in 1..Len(x) /\ Len(y) \in 1..Len(y)
      BY <1>0
    <3>4. x[i] # a /\ x[i] # b
      BY <1>0, <1>4, <2>2, <3>2, <3>3 DEF Ran
    <3> QED BY <1>1, <1>2, <3>1, <3>2, <3>4
  <2>3. ASSUME NEW i \in 1..Len(y), f < i, i < Len(y) PROVE y[i] \in apart
    <3>1. y[i] \in Ran(y) /\ y[i] \in Functions
      BY <1>5 DEF Ran
    <3>2. y[i] \notin Ran(x)
      BY <1>0, <1>3, <2>3 DEF Ran
    <3>3. Len(x) \in 1..Len(x) /\ Len(y) \in 1..Len(y)
      BY <1>0
    <3>4. y[i] # a /\ y[i] # b
      BY <1>0, <1>4, <2>3, <3>2, <3>3 DEF Ran
    <3> QED BY <1>1, <1>2, <3>1, <3>2, <3>4
  <2> HIDE DEF apart
  <2> QED BY <2>1, <2>2, <2>3 DEF Inside
<1> QED BY <1>6, <1>8, <1>9

\* At a root port or a downstream port two ends part only where they are the
\* functions of one endpoint; the port is on the way and nothing else.
LEMMA AtPort ==
  ASSUME Wired, NEW a, NEW b, NEW x, NEW y, NEW f, Parted(a, b, x, y, f),
         kind[x[f]] # "up"
  PROVE  Len(x) = f + 1 /\ Len(y) = f + 1
<1>0. /\ Len(x) \in Nat \ {0} /\ Len(y) \in Nat \ {0} /\ f \in Nat \ {0} /\ f < Len(x) /\ f < Len(y)
      /\ Descends(a, x) /\ Descends(b, y) /\ x[f] = y[f]
  <2>1. /\ Descends(a, x) /\ Descends(b, y) /\ f \in Nat \ {0} /\ f < Len(x) /\ f < Len(y)
        /\ \A j \in 1..f : x[j] = y[j]
    BY DEF Parted
  <2>2. Len(x) \in Nat \ {0} /\ Len(y) \in Nat \ {0}
    BY <2>1 DEF Descends
  <2>3. f \in 1..f
    BY <2>1
  <2> QED BY <2>1, <2>2, <2>3
<1>1. /\ f + 1 \in 2..Len(x) /\ f + 1 \in 2..Len(y) /\ (f + 1) - 1 = f
      /\ f + 1 \in 1..Len(x) /\ f + 1 \in 1..Len(y) /\ f + 1 # 1 /\ f \in 1..Len(x)
  BY <1>0
<1>2. PICK u, d, e : u = x[f] /\ d = x[f + 1] /\ e = y[f + 1]
  OBVIOUS
<1>3. /\ d \in Functions /\ kind[d] # "root" /\ parent[d] = u
      /\ e \in Functions /\ kind[e] # "root" /\ parent[e] = u
  BY <1>0, <1>1, <1>2 DEF Descends
<1>4. d # e
  <2>1. PICK g : g = f + 1
    OBVIOUS
  <2>2. g \in 1..Len(x) /\ g \in 1..Len(y) /\ d = x[g] /\ e = y[g]
    BY <1>1, <1>2, <2>1
  <2>3. ASSUME d = e PROVE g <= f
    <3>1. x[g] = y[g]
      BY <2>2, <2>3
    <3> QED BY <2>2, <3>1, SharedAre
  <2> QED BY <1>0, <2>1, <2>3
<1>5. kind[u] \in {"root", "down"}
  BY <1>2, <1>3, Downward
<1>6. kind[d] = "end" /\ kind[e] = "end"
  BY <1>3, <1>4, <1>5, Downward
<1>7. ASSUME f + 1 # Len(x) PROVE FALSE
  <2>1. f + 2 \in 2..Len(x) /\ f + 2 \in 1..Len(x) /\ f + 2 # 1 /\ (f + 2) - 1 = f + 1
    BY <1>0, <1>7
  <2>2. x[f + 2] \in Functions /\ kind[x[f + 2]] # "root" /\ parent[x[f + 2]] = d
    BY <1>0, <1>2, <2>1 DEF Descends
  <2> QED BY <1>6, <2>2, Downward
<1>8. ASSUME f + 1 # Len(y) PROVE FALSE
  <2>1. f + 2 \in 2..Len(y) /\ f + 2 \in 1..Len(y) /\ f + 2 # 1 /\ (f + 2) - 1 = f + 1
    BY <1>0, <1>8
  <2>2. y[f + 2] \in Functions /\ kind[y[f + 2]] # "root" /\ parent[y[f + 2]] = e
    BY <1>0, <1>2, <2>1 DEF Descends
  <2> QED BY <1>6, <2>2, Downward
<1> QED BY <1>7, <1>8

\* Below an upstream port the next port on a chain to an end is a downstream
\* port of the same switch, and the one after it, when it is not the end, the
\* upstream port of another switch.
LEMMA BelowSwitch ==
  ASSUME Wired, NEW a, NEW x, Descends(a, x), kind[a] = "end", NEW f \in Nat \ {0}, f < Len(x),
         kind[x[f]] = "up"
  PROVE  /\ f + 2 <= Len(x)
         /\ kind[x[f + 1]] = "down" /\ parent[x[f + 1]] = x[f]
         /\ f + 2 < Len(x) => kind[x[f + 2]] = "up"
<1>0. Len(x) \in Nat \ {0} /\ x[Len(x)] = a
  BY DEF Descends
<1>1. f + 1 \in 2..Len(x) /\ f + 1 \in 1..Len(x) /\ f + 1 # 1 /\ (f + 1) - 1 = f
  BY <1>0
<1>2. x[f + 1] \in Functions /\ kind[x[f + 1]] # "root" /\ parent[x[f + 1]] = x[f]
  BY <1>1 DEF Descends
<1>3. kind[x[f + 1]] = "down"
  BY <1>2, Downward
<1>4. f + 1 # Len(x)
  BY <1>0, <1>3
<1>5. f + 2 <= Len(x)
  BY <1>0, <1>1, <1>4
<1>6. ASSUME f + 2 < Len(x) PROVE kind[x[f + 2]] = "up"
  <2>1. f + 2 \in 2..Len(x) /\ f + 2 \in 1..Len(x) /\ f + 2 # 1 /\ (f + 2) - 1 = f + 1
    BY <1>0, <1>6
  <2>2. x[f + 2] \in Functions /\ kind[x[f + 2]] # "root" /\ parent[x[f + 2]] = x[f + 1]
    BY <2>1 DEF Descends
  <2>3. kind[x[f + 2]] \in {"up", "end"}
    BY <1>3, <2>2, Downward
  <2>4. f + 3 \in 2..Len(x) /\ f + 3 \in 1..Len(x) /\ f + 3 # 1 /\ (f + 3) - 1 = f + 2
    BY <1>0, <1>6
  <2>5. x[f + 3] \in Functions /\ kind[x[f + 3]] # "root" /\ parent[x[f + 3]] = x[f + 2]
    BY <2>4 DEF Descends
  <2> QED BY <2>3, <2>5, Downward
<1> QED BY <1>2, <1>3, <1>5, <1>6

\* Two ends below one root port cross at most one switch exactly when their
\* chains have at most two ports more than they share.
LEMMA SwitchesAre ==
  ASSUME Wired, NEW a \in Functions, NEW b \in Functions, NEW x, NEW y, NEW f, Parted(a, b, x, y, f),
         x = Chain(a), y = Chain(b)
  PROVE  Cardinality(SwitchesCrossed(a, b)) <= 1 <=> (Len(x) - 1 - f) + (Len(y) - 1 - f) <= 2
<1>0. /\ Len(x) \in Nat \ {0} /\ Len(y) \in Nat \ {0} /\ f \in Nat \ {0} /\ f < Len(x) /\ f < Len(y)
      /\ Descends(a, x) /\ Descends(b, y) /\ kind[a] = "end" /\ kind[b] = "end" /\ x[f] = y[f]
  BY DEF Parted, Descends
<1>1. PICK way : way = OnTheWay(a, b)
  OBVIOUS
<1>2. PICK s : s = SwitchesCrossed(a, b)
  OBVIOUS
<1>3. way = {x[f]} \cup Inside(x, f) \cup Inside(y, f)
  BY <1>1, OnTheWayIs
<1>4. s = { SwitchOf(p) : p \in { q \in way : kind[q] # "root" } }
  BY <1>1, <1>2 DEF SwitchesCrossed
<1>5. IsFiniteSet(s) /\ Cardinality(s) \in Nat
  <2>1. PICK n \in Nat : n = Len(kind) /\ Functions = 1..n
    BY DEF Wired, Functions
  <2>2. way \subseteq Functions
    BY <1>1, <2>1 DEF OnTheWay
  <2>3. \A p \in way : SwitchOf(p) \in 0..n
    BY <2>1, <2>2 DEF SwitchOf, Wired
  <2>4. s \in SUBSET (0..n) /\ IsFiniteSet(0..n)
    BY <1>4, <2>3, FS_Interval
  <2> QED BY <2>4, FS_Subset, FS_CardinalityType
<1>6. ASSUME NEW t, s \subseteq {t} PROVE Cardinality(s) <= 1
  <2>1. IsFiniteSet({t}) /\ Cardinality({t}) = 1
    BY FS_Singleton
  <2> QED BY <1>6, <2>1, FS_Subset
<1>7. ASSUME NEW t \in s, NEW v \in s, t # v PROVE ~(Cardinality(s) <= 1)
  <2>1. IsFiniteSet(s \ {v}) /\ Cardinality(s \ {v}) = Cardinality(s) - 1
    BY <1>5, FS_RemoveElement
  <2>2. IsFiniteSet({t}) /\ Cardinality({t}) = 1
    BY FS_Singleton
  <2>3. {t} \in SUBSET (s \ {v})
    BY <1>7
  <2>4. 1 <= Cardinality(s \ {v})
    BY <2>1, <2>2, <2>3, FS_Subset
  <2> QED BY <1>5, <2>1, <2>4
<1>8. CASE kind[x[f]] # "up"
  <2>1. Len(x) = f + 1 /\ Len(y) = f + 1
    BY <1>8, AtPort
  <2>2. Inside(x, f) = {} /\ Inside(y, f) = {}
    BY <1>0, <2>1 DEF Inside
  <2>3. s \subseteq {SwitchOf(x[f])}
    BY <1>3, <1>4, <2>2
  <2>4. Cardinality(s) <= 1
    BY <1>6, <2>3
  <2> QED BY <1>0, <1>2, <2>1, <2>4
<1>9. CASE kind[x[f]] = "up"
  <2>1. /\ f + 2 <= Len(x) /\ f + 2 <= Len(y)
        /\ kind[x[f + 1]] = "down" /\ parent[x[f + 1]] = x[f]
        /\ kind[y[f + 1]] = "down" /\ parent[y[f + 1]] = x[f]
        /\ f + 2 < Len(x) => kind[x[f + 2]] = "up"
        /\ f + 2 < Len(y) => kind[y[f + 2]] = "up"
    BY <1>0, <1>9, BelowSwitch
  <2>2. x[f] \in s
    <3>1. SwitchOf(x[f]) = x[f] /\ x[f] \in way
      BY <1>3, <1>9 DEF SwitchOf
    <3> QED BY <1>4, <1>9, <3>1
  <2>3. CASE Len(x) = f + 2 /\ Len(y) = f + 2
    <3>1. Inside(x, f) \subseteq {x[f + 1]} /\ Inside(y, f) \subseteq {y[f + 1]}
      <4>1. \A k \in 1..(f + 2) : f < k /\ k < f + 2 => k = f + 1
        BY <1>0
      <4> QED BY <2>3, <4>1 DEF Inside
    <3>2. \A p \in way : SwitchOf(p) = x[f]
      BY <1>3, <1>9, <2>1, <3>1 DEF SwitchOf
    <3>3. s \subseteq {x[f]}
      BY <1>4, <3>2
    <3>4. Cardinality(s) <= 1
      BY <1>6, <3>3
    <3> QED BY <1>0, <1>2, <2>3, <3>4
  <2>4. CASE f + 2 < Len(x)
    <3>1. f + 2 \in 1..Len(x) /\ f \in 1..Len(x) /\ f < f + 2
      BY <1>0, <2>4
    <3>2. x[f + 2] \in Inside(x, f)
      BY <2>4, <3>1 DEF Inside
    <3>3. x[f + 2] \in s
      <4>1. SwitchOf(x[f + 2]) = x[f + 2] /\ x[f + 2] \in way /\ kind[x[f + 2]] # "root"
        BY <1>3, <2>1, <2>4, <3>2 DEF SwitchOf
      <4> QED BY <1>4, <4>1
    <3>4. x[f] # x[f + 2]
      <4>1. Len(Chain(x[f])) = f /\ Len(Chain(x[f + 2])) = f + 2
        BY <1>0, <3>1 DEF Descends
      <4> QED BY <1>0, <4>1
    <3>5. ~(Cardinality(s) <= 1)
      BY <1>7, <2>2, <3>3, <3>4
    <3>6. ~((Len(x) - 1 - f) + (Len(y) - 1 - f) <= 2)
      BY <1>0, <2>1, <2>4
    <3> QED BY <1>2, <3>5, <3>6
  <2>5. CASE f + 2 < Len(y)
    <3>1. f + 2 \in 1..Len(y) /\ f \in 1..Len(y) /\ f < f + 2
      BY <1>0, <2>5
    <3>2. y[f + 2] \in Inside(y, f)
      BY <2>5, <3>1 DEF Inside
    <3>3. y[f + 2] \in s
      <4>1. SwitchOf(y[f + 2]) = y[f + 2] /\ y[f + 2] \in way /\ kind[y[f + 2]] # "root"
        BY <1>3, <2>1, <2>5, <3>2 DEF SwitchOf
      <4> QED BY <1>4, <4>1
    <3>4. x[f] # y[f + 2]
      <4>1. Len(Chain(y[f])) = f /\ Len(Chain(y[f + 2])) = f + 2
        BY <1>0, <3>1 DEF Descends
      <4> QED BY <1>0, <4>1
    <3>5. ~(Cardinality(s) <= 1)
      BY <1>7, <2>2, <3>3, <3>4
    <3>6. ~((Len(x) - 1 - f) + (Len(y) - 1 - f) <= 2)
      BY <1>0, <2>1, <2>5
    <3> QED BY <1>2, <3>5, <3>6
  <2> QED BY <1>0, <2>1, <2>3, <2>4, <2>5
<1> QED BY <1>8, <1>9

\* PIX, PXB and PHB mean what the documentation says of any two functions of
\* endpoints below one host bridge, in any hierarchy of PCIe of any size
\* (locality.go:12-37; docs/architecture.md:59-60).
THEOREM LocalityIsExact == TopologySpec => []LocalityCountsSwitches
<1>1. Wired => LocalityCountsSwitches
  <2> SUFFICES ASSUME Wired, NEW a \in Ends, NEW b \in Ends, a # b, hb[a] = hb[b]
               PROVE  LET one == \E r \in Functions : kind[r] = "root" /\ Holds(r, a) /\ Holds(r, b)
                      IN Classify(Devs, a, b) =
                           IF ~one THEN LocPHB
                           ELSE IF Cardinality(SwitchesCrossed(a, b)) <= 1 THEN LocPIX ELSE LocPXB
    BY DEF LocalityCountsSwitches
  <2>1. a \in Functions /\ b \in Functions /\ kind[a] = "end" /\ kind[b] = "end"
    BY DEF Ends
  <2>2. PICK x, y : x = Chain(a) /\ y = Chain(b)
    OBVIOUS
  <2>3. /\ Descends(a, x) /\ Descends(b, y)
        /\ Devs[a].chain = x /\ Devs[b].chain = y /\ Devs[a].hb = hb[a] /\ Devs[b].hb = hb[b]
    BY <2>1, <2>2, ChainDescends
  <2>4. /\ x \in Seq(Functions) /\ y \in Seq(Functions) /\ x # <<>> /\ y # <<>>
        /\ Len(x) \in Nat \ {0} /\ Len(y) \in Nat \ {0}
    <3>1. x \in Seq(Functions) /\ y \in Seq(Functions) /\ Len(x) \in Nat \ {0} /\ Len(y) \in Nat \ {0}
      BY <2>3 DEF Descends
    <3> QED BY <3>1
  <2>5. Len(x) > 1 /\ Len(y) > 1
    <3>1. PICK n, m : n = Len(x) /\ m = Len(y)
      OBVIOUS
    <3>2. n \in Nat \ {0} /\ m \in Nat \ {0} /\ n \in 1..n /\ m \in 1..m
      BY <2>4, <3>1
    <3>3. n # 1 /\ m # 1
      <4>1. x[n] = a /\ y[m] = b /\ kind[a] # "root" /\ kind[b] # "root"
        BY <2>1, <2>3, <3>1 DEF Descends
      <4>2. (kind[x[n]] = "root" <=> n = 1) /\ (kind[y[m]] = "root" <=> m = 1)
        BY <2>3, <3>1, <3>2 DEF Descends
      <4> QED BY <4>1, <4>2
    <3>4. n > 1 /\ m > 1
      BY <3>2, <3>3
    <3> QED BY <3>1, <3>4
  <2>6. PICK v, w : v = Front(x) /\ w = Front(y)
    OBVIOUS
  <2>7. /\ Len(v) = Len(x) - 1 /\ \A i \in 1..(Len(x) - 1) : v[i] = x[i]
        /\ Len(w) = Len(y) - 1 /\ \A i \in 1..(Len(y) - 1) : w[i] = y[i]
    BY <2>4, <2>6, FrontLen
  <2>8. PICK f : f = CommonPrefix(v, w)
    OBVIOUS
  <2>9. /\ f \in Nat
        /\ \A i \in Nat \ {0} : i <= f <=> i < Len(x) /\ i < Len(y) /\ \A j \in 1..i : x[j] = y[j]
    <3>1. Len(v) \in Nat /\ Len(w) \in Nat
      BY <2>4, <2>7
    <3>2. \A i \in Nat \ {0} : f \in Nat /\ (i <= f <=> i <= Len(v) /\ i <= Len(w) /\ \A j \in 1..i : v[j] = w[j])
      BY <2>8, <3>1, CommonReaches
    <3>3. ASSUME NEW i \in Nat \ {0}
          PROVE  i <= f <=> i < Len(x) /\ i < Len(y) /\ \A j \in 1..i : x[j] = y[j]
      <4>1. i <= Len(v) /\ i <= Len(w) <=> i < Len(x) /\ i < Len(y)
        BY <2>4, <2>7
      <4>2. i < Len(x) /\ i < Len(y) => \A j \in 1..i : v[j] = x[j] /\ w[j] = y[j]
        BY <2>4, <2>7
      <4>3. i <= f <=> i <= Len(v) /\ i <= Len(w) /\ \A j \in 1..i : v[j] = w[j]
        BY <3>2
      <4> QED BY <4>1, <4>2, <4>3
    <3>4. f \in Nat
      BY <3>2
    <3> QED BY <3>3, <3>4
  <2>10. Classify(Devs, a, b) =
           IF f = 0 THEN LocPHB
           ELSE IF (Len(x) - 1 - f) + (Len(y) - 1 - f) <= 2 THEN LocPIX ELSE LocPXB
    <3>1. hb[a] # "" /\ hb[b] # ""
      <4>1. hb[a] \in HostBridges
        BY <2>1 DEF Wired, Functions
      <4> QED BY <4>1, BoundAssumption
    <3> QED BY <2>3, <2>6, <2>8, <3>1 DEF Classify
  <2>11. PICK one \in BOOLEAN : one = (\E r \in Functions : kind[r] = "root" /\ Holds(r, a) /\ Holds(r, b))
    OBVIOUS
  <2>12. one = TRUE <=> f # 0
    <3>1. \A d : (Holds(d, a) <=> d \in Ran(x)) /\ (Holds(d, b) <=> d \in Ran(y))
      BY <2>1, <2>2, HoldsIs
    <3>2. ASSUME NEW r \in Functions, kind[r] = "root", r \in Ran(x), r \in Ran(y) PROVE f # 0
      <4>1. PICK i \in 1..Len(x), j \in 1..Len(y) : r = x[i] /\ r = y[j]
        BY <3>2 DEF Ran
      <4>2. i = 1 /\ j = 1
        BY <2>3, <3>2, <4>1 DEF Descends
      <4>3. \A k \in 1..1 : x[k] = y[k]
        <5>1. \A k \in 1..1 : k = 1
          OBVIOUS
        <5>2. x[1] = y[1]
          BY <4>1, <4>2
        <5> QED BY <5>1, <5>2
      <4>4. 1 <= f
        BY <2>5, <2>9, <4>3
      <4> QED BY <2>9, <4>4
    <3>3. ASSUME f # 0 PROVE \E r \in Functions : kind[r] = "root" /\ r \in Ran(x) /\ r \in Ran(y)
      <4>1. 1 <= f /\ 1 \in 1..1 /\ 1 \in 1..Len(x) /\ 1 \in 1..Len(y)
        BY <2>4, <2>9, <3>3
      <4>2. x[1] = y[1]
        BY <2>9, <4>1
      <4>3. x[1] \in Functions /\ kind[x[1]] = "root"
        BY <2>3, <4>1 DEF Descends
      <4> QED BY <4>1, <4>2, <4>3 DEF Ran
    <3> QED BY <2>11, <3>1, <3>2, <3>3
  <2>13. ASSUME f # 0
         PROVE  Cardinality(SwitchesCrossed(a, b)) <= 1 <=> (Len(x) - 1 - f) + (Len(y) - 1 - f) <= 2
    <3>1. f < Len(x) /\ f < Len(y) /\ \A j \in 1..f : x[j] = y[j]
      BY <2>9, <2>13
    <3>2. x[f + 1] = y[f + 1] => f + 1 >= Len(x) \/ f + 1 >= Len(y)
      <4> SUFFICES ASSUME x[f + 1] = y[f + 1], f + 1 < Len(x), f + 1 < Len(y) PROVE FALSE
        BY <2>4, <2>9
      <4>1. \A j \in 1..(f + 1) : x[j] = y[j]
        <5>1. \A j \in 1..(f + 1) : j \in 1..f \/ j = f + 1
          BY <2>9
        <5> QED BY <3>1, <5>1
      <4>2. f + 1 <= f
        BY <2>9, <4>1
      <4> QED BY <2>9, <4>2
    <3>3. Parted(a, b, x, y, f)
      BY <2>1, <2>3, <2>9, <2>13, <3>1, <3>2 DEF Parted
    <3> QED BY <2>1, <2>2, <3>3, SwitchesAre
  <2> QED BY <2>10, <2>11, <2>12, <2>13
<1> QED BY <1>1, StaysWired, PTL
=============================================================================
