----------------------------- MODULE SightProofs -----------------------------
(***************************************************************************)
(* What the checks say of a host of which any part could not be read, for  *)
(* every host and every set of unreadable attributes.                      *)
(***************************************************************************)
EXTENDS Sight, ListProofs

-----------------------------------------------------------------------------
(* Chains. *)

\* The common prefix reaches position i exactly when both chains agree up to it
\* (locality.go:50-56).
LEMMA CommonPrefixReaches ==
  ASSUME NEW x, NEW y, Len(x) \in Nat, Len(y) \in Nat, NEW i \in Nat \ {0}
  PROVE  /\ CommonPrefix(x, y) \in Nat
         /\ i <= CommonPrefix(x, y) <=> i <= Len(x) /\ i <= Len(y) /\ \A j \in 1..i : x[j] = y[j]
<1>1. PICK n : n = Lesser(Len(x), Len(y))
  OBVIOUS
<1>2. n \in Nat /\ (i <= n <=> i <= Len(x) /\ i <= Len(y))
  BY <1>1 DEF Lesser
<1>3. CommonPrefix(x, y) = Cardinality(Agreed(x, y, n))
  BY <1>1 DEF CommonPrefix, Agreed
<1> QED BY <1>2, <1>3, AgreedReaches

\* What is on one of two chains only, the ports at the root aside.
Apart(x, y) == ((Ran(x) \cup Ran(y)) \ (Ran(x) \cap Ran(y))) \ {x[1], y[1]}

\* Two chains that meet start at the same root port.
Rooted(x, y) == Ran(x) \cap Ran(y) # {} => x[1] = y[1]

\* A function of the report stands where it stands in dev.
InPlace(devs, dev, d) ==
  d \in DOMAIN dev /\ devs[d].chain = dev[d].chain /\ devs[d].hb = dev[d].hb

WellPlaced(dev) == IsTree(dev) /\ dev \in [DOMAIN dev -> FunctionType]

\* The links between two functions of one tree are those of the functions that
\* are above one of them only, the ports at the root aside.
LEMMA LinksAreBetween ==
  ASSUME NEW dev, WellPlaced(dev), NEW devs, NEW a, NEW b, InPlace(devs, dev, a), InPlace(devs, dev, b)
  PROVE  /\ PathLinks(devs, a, b) = Apart(dev[a].chain, dev[b].chain) \cap DOMAIN devs
         /\ Rooted(dev[a].chain, dev[b].chain)
<1>0. /\ IsTree(dev) /\ dev \in [DOMAIN dev -> FunctionType]
      /\ a \in DOMAIN dev /\ b \in DOMAIN dev
      /\ devs[a].chain = dev[a].chain /\ devs[b].chain = dev[b].chain
      /\ devs[a].hb = dev[a].hb /\ devs[b].hb = dev[b].hb
  BY DEF WellPlaced, InPlace
<1>1. PICK ca, cb : ca = dev[a].chain /\ cb = dev[b].chain
  OBVIOUS
<1>2. PICK n : n = (IF dev[a].hb = dev[b].hb THEN CommonPrefix(ca, cb) ELSE 0)
  OBVIOUS
<1>3. Len(ca) \in Nat \ {0} /\ Len(cb) \in Nat \ {0}
  <2>1. ca \in Seq(Int) /\ cb \in Seq(Int)
    BY <1>0, <1>1 DEF FunctionType
  <2>2. ca # <<>> /\ cb # <<>>
    BY <1>0, <1>1 DEF IsTree
  <2> QED BY <2>1, <2>2
<1>4. \A i \in 1..Len(ca), j \in 1..Len(cb) :
        ca[i] = cb[j] => dev[a].hb = dev[b].hb /\ i = j /\ \A k \in 1..i : ca[k] = cb[k]
  BY <1>0, <1>1 DEF IsTree
<1>5. /\ \A i, j \in 1..Len(ca) : ca[i] = ca[j] => i = j
      /\ \A i, j \in 1..Len(cb) : cb[i] = cb[j] => i = j
  BY <1>0, <1>1 DEF IsTree
<1>6. /\ n \in Nat
      /\ \A i \in Nat \ {0} : i <= n <=> /\ dev[a].hb = dev[b].hb
                                       /\ i <= Len(ca) /\ i <= Len(cb) /\ \A j \in 1..i : ca[j] = cb[j]
  <2>1. CASE dev[a].hb = dev[b].hb
    BY <1>2, <1>3, <2>1, CommonPrefixReaches
  <2>2. CASE dev[a].hb # dev[b].hb
    BY <1>2, <2>2
  <2> QED BY <2>1, <2>2
<1>7. Fork(ca, cb, n)
  <2>1. ASSUME NEW i \in 1..Len(ca), i <= n PROVE i <= Len(cb) /\ ca[i] = cb[i]
    BY <1>3, <1>6, <2>1
  <2>2. ASSUME NEW i \in 1..Len(ca), NEW j \in 1..Len(cb), ca[i] = cb[j] PROVE i = j /\ i <= n
    BY <1>3, <1>4, <1>6, <2>2
  <2> QED BY <1>5, <2>1, <2>2 DEF Fork
<1>8. Fork(cb, ca, n)
  <2>1. ASSUME NEW i \in 1..Len(cb), i <= n PROVE i <= Len(ca) /\ cb[i] = ca[i]
    BY <1>3, <1>6, <2>1
  <2>2. ASSUME NEW i \in 1..Len(cb), NEW j \in 1..Len(ca), cb[i] = ca[j] PROVE i = j /\ i <= n
    <3>1. ca[j] = cb[i]
      BY <2>2
    <3>2. dev[a].hb = dev[b].hb /\ j = i /\ \A k \in 1..j : ca[k] = cb[k]
      BY <1>4, <3>1
    <3> QED BY <1>3, <1>6, <3>2
  <2> QED BY <1>5, <2>1, <2>2 DEF Fork
<1>9. PathLinks(devs, a, b) = (Below(ca, n) \cup Below(cb, n)) \cap DOMAIN devs
  BY <1>0, <1>1, <1>2 DEF PathLinks, Below
<1>10. Ran(ca) \cap Ran(cb) # {} => ca[1] = cb[1]
  <2> SUFFICES ASSUME NEW i \in 1..Len(ca), NEW j \in 1..Len(cb), ca[i] = cb[j]
               PROVE  ca[1] = cb[1]
    BY DEF Ran
  <2> QED BY <1>3, <1>4
<1>11. /\ Below(ca, n) = (Ran(ca) \ Ran(cb)) \ {ca[1], cb[1]}
       /\ Below(cb, n) = (Ran(cb) \ Ran(ca)) \ {cb[1], ca[1]}
  BY <1>3, <1>6, <1>7, <1>8, BelowIsApart
<1>12. Below(ca, n) \cup Below(cb, n) = Apart(ca, cb)
  BY <1>11 DEF Apart
<1> QED BY <1>1, <1>9, <1>10, <1>12 DEF Rooted

-----------------------------------------------------------------------------
(* What is seen of a function. *)

\* An attribute that was not read is a zero next to a status, the others are
\* what they are (pci.go:249-330).
LEMMA DimKeeps ==
  ASSUME NEW f \in FunctionType, NEW W
  PROVE  /\ Dim(f, W).chain = f.chain /\ Dim(f, W).hb = f.hb /\ Dim(f, W).vf = f.vf
         /\ Dim(f, W).link = [ w  |-> IF "w" \in W THEN Unread ELSE f.link.w,
                               s  |-> IF "s" \in W THEN Unread ELSE f.link.s,
                               mw |-> IF "mw" \in W THEN Unread ELSE f.link.mw,
                               ms |-> IF "ms" \in W THEN Unread ELSE f.link.ms ]
         /\ Dim(f, W).class = IF "class" \in W THEN "other" ELSE f.class
         /\ Dim(f, W).entry = IF "class" \in W THEN NoEntry ELSE f.entry
         /\ Dim(f, W).cfg.read /\ Dim(f, W).cfg.ext => Dim(f, W).cfg = f.cfg
         /\ Dim(f, W).cfg.type \in {Unread, f.cfg.type}
<1>1. PICK e : e = Dim(f, W)
  OBVIOUS
<1>2. /\ e.chain = f.chain /\ e.hb = f.hb /\ e.vf = f.vf
      /\ e.class = (IF "class" \in W THEN "other" ELSE f.class)
      /\ e.entry = (IF "class" \in W THEN NoEntry ELSE f.entry)
  BY <1>1 DEF Dim, FunctionType
<1>3. e.link = [ w  |-> IF "w" \in W THEN Unread ELSE f.link.w,
                 s  |-> IF "s" \in W THEN Unread ELSE f.link.s,
                 mw |-> IF "mw" \in W THEN Unread ELSE f.link.mw,
                 ms |-> IF "ms" \in W THEN Unread ELSE f.link.ms ]
  BY <1>1 DEF Dim, FunctionType
<1>4. e.cfg = IF "config" \in W THEN NoConfig
              ELSE IF "rootOnly" \in W THEN [NoConfig EXCEPT !.read = TRUE] ELSE f.cfg
  BY <1>1 DEF Dim, FunctionType
<1>5. /\ ~NoConfig.read /\ ~NoConfig.ext /\ NoConfig.type = Unread
      /\ ~[NoConfig EXCEPT !.read = TRUE].ext /\ [NoConfig EXCEPT !.read = TRUE].type = Unread
  BY DEF NoConfig
<1>6. (e.cfg.read /\ e.cfg.ext => e.cfg = f.cfg) /\ e.cfg.type \in {Unread, f.cfg.type}
  <2>1. CASE "config" \in W
    BY <1>4, <1>5, <2>1
  <2>2. CASE "config" \notin W /\ "rootOnly" \in W
    BY <1>4, <1>5, <2>2
  <2>3. CASE "config" \notin W /\ "rootOnly" \notin W
    BY <1>4, <2>3
  <2> QED BY <2>1, <2>2, <2>3
<1> QED BY <1>1, <1>2, <1>3, <1>6

LEMMA DimClass ==
  ASSUME NEW f \in FunctionType, NEW W
  PROVE  /\ Dim(f, W).vf = f.vf
         /\ Dim(f, W).class = IF "class" \in W THEN "other" ELSE f.class
         /\ Dim(f, W).entry = IF "class" \in W THEN NoEntry ELSE f.entry
  BY DimKeeps

LEMMA DimConfig ==
  ASSUME NEW f \in FunctionType, NEW W
  PROVE  Dim(f, W).cfg.read /\ Dim(f, W).cfg.ext => Dim(f, W).cfg = f.cfg
  BY DimKeeps

\* A function is taken for a bridge or for a GPU only if it is one.
LEMMA DimRole ==
  ASSUME NEW f \in FunctionType, NEW W
  PROVE  /\ "class" \notin W => Role(Dim(f, W)) = Role(f)
         /\ "class" \in W => Role(Dim(f, W)) = "other"
<1>1. "class" \notin W => Dim(f, W).vf = f.vf /\ Dim(f, W).class = f.class /\ Dim(f, W).entry = f.entry
  BY DimClass
<1>2. "class" \in W => Dim(f, W).class = "other" /\ Dim(f, W).entry = NoEntry
  BY DimClass
<1> QED BY <1>1, <1>2 DEF Role

\* A function Read returns is one of the host, with what could be read of it.
LEMMA SeenDevice ==
  ASSUME IsHost(truth)
  PROVE  /\ DOMAIN Seen.dev \subseteq DOMAIN truth.dev
         /\ \A d \in DOMAIN Seen.dev : Seen.dev[d] = Dim(truth.dev[d], At(<<d>>))
  BY DEF Seen, IsHost

\* The devices of the report: those listed, and a bare bridge for every other
\* function on the chain of a GPU (build.go:241-249).
LEMMA SeenDevices ==
  ASSUME IsHost(truth)
  PROVE  LET D == AllDevices(Seen)
         IN /\ DOMAIN Seen.dev \subseteq DOMAIN D
            /\ \A g \in SeenGpus : Ran(truth.dev[g].chain) \subseteq DOMAIN D
            /\ \A d \in DOMAIN Seen.dev : D[d] = Seen.dev[d]
            /\ \A d \in DOMAIN D \ DOMAIN Seen.dev : D[d] = Bare
<1>1. \A g \in SeenGpus : g \in DOMAIN Seen.dev /\ Seen.dev[g].chain = truth.dev[g].chain
  <2> SUFFICES ASSUME NEW g \in SeenGpus
               PROVE  g \in DOMAIN Seen.dev /\ Seen.dev[g].chain = truth.dev[g].chain
    OBVIOUS
  <2>1. g \in DOMAIN Seen.dev
    BY DEF SeenGpus, Gpus
  <2>2. g \in DOMAIN truth.dev /\ Seen.dev[g] = Dim(truth.dev[g], At(<<g>>))
    BY <2>1, SeenDevice
  <2>3. truth.dev[g] \in FunctionType
    BY <2>2 DEF IsHost
  <2>4. Dim(truth.dev[g], At(<<g>>)).chain = truth.dev[g].chain
    BY <2>3, DimKeeps
  <2> QED BY <2>1, <2>2, <2>4
<1>2. \A c : ToSet(c) = { c[i] : i \in DOMAIN c }
  BY DEF ToSet
<1>3. \A g \in SeenGpus : Ran(truth.dev[g].chain) = ToSet(Seen.dev[g].chain)
  <2> SUFFICES ASSUME NEW g \in SeenGpus PROVE Ran(truth.dev[g].chain) = ToSet(Seen.dev[g].chain)
    OBVIOUS
  <2>1. truth.dev[g] \in FunctionType
    BY <1>1, SeenDevice DEF IsHost
  <2>2. truth.dev[g].chain \in Seq(Int)
    BY <2>1 DEF FunctionType
  <2>3. DOMAIN truth.dev[g].chain = 1..Len(truth.dev[g].chain)
    BY <2>2
  <2> QED BY <1>1, <1>2, <2>3 DEF Ran
<1>4. \A g \in SeenGpus : g \in Gpus(Seen.dev)
  BY DEF SeenGpus
<1> QED BY <1>3, <1>4 DEF AllDevices

\* What holds all the time: the host is one of Truths, and what is unreadable
\* is what may be.
IInv == IsHost(truth) /\ lost \subseteq Losable

\* The host is one of a machine, and only what may be lost is.
LEMMA Invariance == Spec => []IInv
<1>1. Init => IInv
  BY TruthAssumption DEF Init, IInv
<1>2. IInv /\ [Next]_vars => IInv'
  <2> SUFFICES ASSUME IInv, [Next]_vars PROVE IInv'
    OBVIOUS
  <2>1. truth' = truth
    BY DEF Next, Lose, vars
  <2>2. lost' \subseteq Losable
    BY DEF IInv, Next, Lose, vars
  <2>3. IsHost(truth)'
    BY <2>1 DEF IInv, IsHost
  <2> QED BY <2>2, <2>3 DEF IInv
<1> QED BY <1>1, <1>2, PTL DEF Spec

-----------------------------------------------------------------------------
(* Peers. *)

\* A function of the report that sysfs listed has the chain and the host bridge
\* it really has.
LEMMA SeenChain ==
  ASSUME IsHost(truth), NEW g \in DOMAIN Seen.dev
  PROVE  /\ g \in DOMAIN truth.dev /\ truth.dev[g] \in FunctionType
         /\ AllDevices(Seen)[g] = Dim(truth.dev[g], At(<<g>>))
         /\ AllDevices(Seen)[g].chain = truth.dev[g].chain
         /\ AllDevices(Seen)[g].hb = truth.dev[g].hb
<1>1. g \in DOMAIN truth.dev /\ AllDevices(Seen)[g] = Dim(truth.dev[g], At(<<g>>))
  BY SeenDevice, SeenDevices
<1>2. truth.dev[g] \in FunctionType
  BY <1>1 DEF IsHost
<1>3. Dim(truth.dev[g], At(<<g>>)).chain = truth.dev[g].chain /\ Dim(truth.dev[g], At(<<g>>)).hb = truth.dev[g].hb
  BY <1>2, DimKeeps
<1> QED BY <1>1, <1>2, <1>3

\* What the report takes for a GPU was listed and is a GPU.
LEMMA SeenGpuIsOne ==
  ASSUME IsHost(truth), NEW g \in SeenGpus
  PROVE  g \in DOMAIN Seen.dev /\ Role(truth.dev[g]) = "gpu"
<1>1. g \in DOMAIN Seen.dev /\ Role(Seen.dev[g]) = "gpu"
  BY DEF SeenGpus, Gpus
<1>2. truth.dev[g] \in FunctionType /\ Seen.dev[g] = Dim(truth.dev[g], At(<<g>>))
  BY <1>1, SeenChain, SeenDevice
<1> QED BY <1>1, <1>2, DimRole

\* Two GPUs are seen as peers over PCIe exactly when a function is above both
\* (locality.go:12-37).
LEMMA PeersShareAPort ==
  ASSUME IsHost(truth), NEW g \in SeenGpus, NEW o \in SeenGpus, g # o
  PROVE  OverPCIe(AllDevices(Seen), g, o)
           <=> Ran(truth.dev[g].chain) \cap Ran(truth.dev[o].chain) # {}
<1>1. PICK D : D = AllDevices(Seen)
  OBVIOUS
<1>2. PICK cg, co : cg = truth.dev[g].chain /\ co = truth.dev[o].chain
  OBVIOUS
<1>3. /\ g \in DOMAIN truth.dev /\ o \in DOMAIN truth.dev
      /\ D[g].chain = cg /\ D[o].chain = co
      /\ D[g].hb = truth.dev[g].hb /\ D[o].hb = truth.dev[o].hb
      /\ truth.dev[g] \in FunctionType /\ truth.dev[o] \in FunctionType
      /\ Role(truth.dev[g]) = "gpu" /\ Role(truth.dev[o]) = "gpu"
  BY <1>1, <1>2, SeenChain, SeenGpuIsOne
<1>4. /\ cg \in Seq(Int) /\ co \in Seq(Int)
      /\ truth.dev[g].hb # "" /\ truth.dev[o].hb # ""
  BY <1>2, <1>3 DEF FunctionType
<1>5. IsTree(truth.dev)
  BY DEF IsHost
<1>6. /\ cg # <<>> /\ co # <<>> /\ cg[Len(cg)] = g /\ co[Len(co)] = o
      /\ \A i \in 1..(Len(cg) - 1) : Role(truth.dev[cg[i]]) = "bridge"
      /\ \A i \in 1..(Len(co) - 1) : Role(truth.dev[co[i]]) = "bridge"
      /\ \A i \in 1..Len(cg), j \in 1..Len(co) :
           cg[i] = co[j] => truth.dev[g].hb = truth.dev[o].hb /\ \A k \in 1..i : cg[k] = co[k]
  BY <1>2, <1>3, <1>5 DEF IsTree
<1>7. Len(cg) \in Nat \ {0} /\ Len(co) \in Nat \ {0}
  <2>1. cg # <<>> /\ co # <<>>
    BY <1>6
  <2> QED BY <1>4, <2>1, FrontLen
<1>8. /\ Len(Front(cg)) = Len(cg) - 1 /\ Len(Front(co)) = Len(co) - 1
      /\ Len(cg) > 1 => Front(cg)[1] = cg[1]
      /\ Len(co) > 1 => Front(co)[1] = co[1]
  <2>1. cg # <<>> /\ co # <<>>
    BY <1>6
  <2>2. /\ Len(Front(cg)) = Len(cg) - 1 /\ Len(Front(co)) = Len(co) - 1
        /\ \A i \in 1..(Len(cg) - 1) : Front(cg)[i] = cg[i]
        /\ \A i \in 1..(Len(co) - 1) : Front(co)[i] = co[i]
    BY <1>4, <2>1, FrontLen
  <2> QED BY <1>7, <2>2
<1>9. PICK n : n = CommonPrefix(Front(cg), Front(co))
  OBVIOUS
<1>10. n \in Nat /\ (n # 0 <=> Len(cg) > 1 /\ Len(co) > 1 /\ cg[1] = co[1])
  <2>1. /\ n \in Nat
        /\ 1 <= n <=> /\ 1 <= Len(Front(cg)) /\ 1 <= Len(Front(co))
                      /\ \A j \in 1..1 : Front(cg)[j] = Front(co)[j]
    <3>1. Len(Front(cg)) \in Nat /\ Len(Front(co)) \in Nat
      BY <1>7, <1>8
    <3> QED BY <1>9, <3>1, CommonPrefixReaches
  <2> QED BY <1>7, <1>8, <2>1
<1>11. OverPCIe(D, g, o) <=> truth.dev[g].hb = truth.dev[o].hb /\ n # 0
  <2>1. Classify(D, g, o) \in {LocPIX, LocPXB} <=> truth.dev[g].hb = truth.dev[o].hb /\ n # 0
    <3>1. CASE truth.dev[g].hb # truth.dev[o].hb
      <4>1. Classify(D, g, o) \in {LocUnknown, LocNODE, LocSYS}
        BY <1>3, <3>1 DEF Classify
      <4> QED BY <3>1, <4>1 DEF LocUnknown, LocPIX, LocPXB, LocNODE, LocSYS
    <3>2. CASE truth.dev[g].hb = truth.dev[o].hb
      <4>1. n = 0 => Classify(D, g, o) = LocPHB
        BY <1>3, <1>4, <1>9, <3>2 DEF Classify
      <4>2. n # 0 => Classify(D, g, o) \in {LocPIX, LocPXB}
        BY <1>3, <1>4, <1>9, <3>2 DEF Classify
      <4> QED BY <3>2, <4>1, <4>2 DEF LocPIX, LocPXB, LocPHB
    <3> QED BY <3>1, <3>2
  <2> QED BY <2>1 DEF OverPCIe
<1>12. ASSUME Ran(cg) \cap Ran(co) # {}
       PROVE  truth.dev[g].hb = truth.dev[o].hb /\ n # 0
  <2>1. PICK i \in 1..Len(cg), j \in 1..Len(co) : cg[i] = co[j]
    BY <1>12 DEF Ran
  <2>2. truth.dev[g].hb = truth.dev[o].hb /\ cg[1] = co[1]
    BY <1>6, <1>7, <2>1
  <2>3. Len(cg) > 1
    <3>0. SUFFICES ASSUME Len(cg) = 1 PROVE FALSE
      <4>1. ASSUME NEW k \in Nat \ {0}, k # 1 PROVE k > 1
        BY <4>1
      <4> QED BY <1>7, <4>1
    <3>1. co[1] = g /\ Len(co) # 1
      BY <1>6, <2>2, <3>0
    <3> QED BY <1>3, <1>6, <1>7, <3>1
  <2>4. Len(co) > 1
    <3>0. SUFFICES ASSUME Len(co) = 1 PROVE FALSE
      <4>1. ASSUME NEW k \in Nat \ {0}, k # 1 PROVE k > 1
        BY <4>1
      <4> QED BY <1>7, <4>1
    <3>1. cg[1] = o /\ Len(cg) # 1
      BY <1>6, <2>2, <3>0
    <3> QED BY <1>3, <1>6, <1>7, <3>1
  <2> QED BY <1>10, <2>2, <2>3, <2>4
<1>13. ASSUME n # 0 PROVE Ran(cg) \cap Ran(co) # {}
  <2>1. cg[1] = co[1] /\ 1 \in 1..Len(cg) /\ 1 \in 1..Len(co)
    BY <1>7, <1>10, <1>13
  <2> QED BY <2>1 DEF Ran
<1> QED BY <1>1, <1>2, <1>11, <1>12, <1>13

-----------------------------------------------------------------------------
(* The verdicts. *)

\* The checks the theorems are about, as ChecksFor computes them.
LEMMA SeenVerdicts ==
  ASSUME NEW g \in SeenGpus
  PROVE  /\ SeenChecks[g].p2p_acs = P2PACS(AllDevices(Seen), g, SeenGpus)
         /\ SeenChecks[g].gpu_link = GpuLink(Linked(AllLinks(Seen), g))
         /\ SeenChecks[g].upstream_links = UpstreamLinks(AllDevices(Seen), AllLinks(Seen), g)
  BY DEF SeenChecks, SeenGpus, ChecksFor, ChecksOf

\* The chain of a function is a list of functions of the host that ends in it.
LEMMA ChainOf ==
  ASSUME IsHost(truth), NEW d \in DOMAIN truth.dev
  PROVE  LET c == truth.dev[d].chain
         IN /\ truth.dev[d] \in FunctionType /\ c \in Seq(Int) /\ Len(c) \in Nat \ {0} /\ c[Len(c)] = d
            /\ ToSet(c) = Ran(c) /\ Ran(c) \subseteq DOMAIN truth.dev
<1>1. PICK c : c = truth.dev[d].chain
  OBVIOUS
<1>2. truth.dev[d] \in FunctionType /\ IsTree(truth.dev)
  BY DEF IsHost
<1>3. c \in Seq(Int)
  BY <1>1, <1>2 DEF FunctionType
<1>4. c # <<>> /\ c[Len(c)] = d /\ \A i \in 1..(Len(c) - 1) : c[i] \in DOMAIN truth.dev
  BY <1>1, <1>2 DEF IsTree
<1>5. Len(c) \in Nat \ {0}
  <2>1. c # <<>>
    BY <1>4
  <2> QED BY <1>3, <2>1, FrontLen
<1>6. DOMAIN c = 1..Len(c)
  BY <1>3
<1>7. ASSUME NEW i \in 1..Len(c) PROVE c[i] \in DOMAIN truth.dev
  <2>1. i = Len(c) \/ i \in 1..(Len(c) - 1)
    BY <1>5
  <2> QED BY <1>4, <2>1
<1> QED BY <1>1, <1>2, <1>3, <1>4, <1>5, <1>6, <1>7 DEF ToSet, Ran

\* The functions between two GPUs of the report are those whose links are
\* traversed, if they are peers, and none otherwise.
LEMMA BetweenIsPath ==
  ASSUME IsHost(truth), NEW g \in SeenGpus, NEW o \in SeenGpus, g # o
  PROVE  Between(g, o) = IF OverPCIe(AllDevices(Seen), g, o) THEN PathLinks(AllDevices(Seen), g, o) ELSE {}
<1>1. PICK D : D = AllDevices(Seen)
  OBVIOUS
<1>2. PICK cg, co : cg = truth.dev[g].chain /\ co = truth.dev[o].chain
  OBVIOUS
<1>3. /\ g \in DOMAIN truth.dev /\ o \in DOMAIN truth.dev
      /\ D[g].chain = cg /\ D[o].chain = co
      /\ D[g].hb = truth.dev[g].hb /\ D[o].hb = truth.dev[o].hb
  BY <1>1, <1>2, SeenChain, SeenGpuIsOne
<1>4. /\ ToSet(cg) = Ran(cg) /\ ToSet(co) = Ran(co)
      /\ Len(cg) \in Nat \ {0} /\ Len(co) \in Nat \ {0}
  BY <1>2, <1>3, ChainOf
<1>5. Ran(cg) \subseteq DOMAIN D /\ Ran(co) \subseteq DOMAIN D
  BY <1>1, <1>2, SeenDevices
<1>6. /\ PathLinks(D, g, o) = Apart(cg, co) \cap DOMAIN D
      /\ Ran(cg) \cap Ran(co) # {} => cg[1] = co[1]
  <2>1. WellPlaced(truth.dev)
    BY DEF IsHost, WellPlaced
  <2>2. InPlace(D, truth.dev, g) /\ InPlace(D, truth.dev, o)
    BY <1>2, <1>3 DEF InPlace
  <2>3. PICK t : t = truth.dev
    OBVIOUS
  <2>4. WellPlaced(t) /\ InPlace(D, t, g) /\ InPlace(D, t, o)
    BY <2>1, <2>2, <2>3
  <2>5. PathLinks(D, g, o) = Apart(t[g].chain, t[o].chain) \cap DOMAIN D
    BY <2>4, LinksAreBetween
  <2>6. Rooted(t[g].chain, t[o].chain)
    BY <2>4, LinksAreBetween
  <2> QED BY <1>2, <2>3, <2>5, <2>6 DEF Rooted
<1>7. OverPCIe(D, g, o) <=> Ran(cg) \cap Ran(co) # {}
  BY <1>1, <1>2, PeersShareAPort
<1>8. cg[1] \in Ran(cg) /\ co[1] \in Ran(co)
  BY <1>4 DEF Ran
<1>9. CASE Ran(cg) \cap Ran(co) # {}
  <2>1. Between(g, o) = (Ran(cg) \ Ran(co)) \cup (Ran(co) \ Ran(cg))
    BY <1>2, <1>4, <1>9 DEF Between
  <2>2. Between(g, o) = Apart(cg, co) \cap DOMAIN D
    BY <1>5, <1>6, <1>8, <1>9, <2>1 DEF Apart
  <2> QED BY <1>1, <1>6, <1>7, <1>9, <2>2
<1>10. CASE Ran(cg) \cap Ran(co) = {}
  BY <1>1, <1>2, <1>4, <1>7, <1>10 DEF Between
<1> QED BY <1>9, <1>10

\* A bridge known from a chain only has no configuration space (build.go:241-249).
LEMMA BareIsUnread == Role(Bare) = "bridge" /\ ~Bare.cfg.read
<1>1. Bare.vf = FALSE /\ Bare.entry = NoEntry /\ Bare.class = "bridge" /\ Bare.cfg = NoConfig
  BY DEF Bare
<1> QED BY <1>1 DEF Role, NoConfig

\* A bridge on the way that redirects is seen to, or is not seen whole.
LEMMA RedirectIsSeenOrUnread ==
  ASSUME IsHost(truth), NEW g, NEW o, NEW d \in PathLinks(AllDevices(Seen), g, o),
         d \in DOMAIN truth.dev, "class" \notin At(<<d>>), Redirects(d)
  PROVE  d \in ACSOn(AllDevices(Seen), g, o) \cup ACSUnread(AllDevices(Seen), g, o)
<1>1. PICK D : D = AllDevices(Seen)
  OBVIOUS
<1>2. truth.dev[d] \in FunctionType /\ Role(truth.dev[d]) = "bridge"
  BY DEF IsHost, Redirects
<1>3. CASE d \in DOMAIN Seen.dev
  <2>1. D[d] = Dim(truth.dev[d], At(<<d>>))
    BY <1>1, <1>3, SeenChain
  <2>2. Role(D[d]) = "bridge"
    BY <1>2, <2>1, DimRole
  <2>3. D[d].cfg.read /\ D[d].cfg.ext => D[d].cfg = truth.dev[d].cfg
    <3>1. LET f == Dim(truth.dev[d], At(<<d>>)) IN f.cfg.read /\ f.cfg.ext => f.cfg = truth.dev[d].cfg
      BY <1>2, DimConfig
    <3> QED BY <2>1, <3>1
  <2>4. truth.dev[d].cfg.acs /\ truth.dev[d].cfg.ctl \cap ACSRedirectMask # {}
    BY DEF Redirects, ACSRedirectMask
  <2> QED BY <1>1, <2>2, <2>3, <2>4 DEF ACSOn, ACSUnread, Switches
<1>4. CASE d \notin DOMAIN Seen.dev
  <2>1. D[d] = Bare
    BY <1>1, <1>4, SeenDevices DEF PathLinks
  <2>2. Role(D[d]) = "bridge" /\ ~D[d].cfg.read
    BY <2>1, BareIsUnread
  <2> QED BY <1>1, <2>2 DEF ACSUnread, Switches
<1> QED BY <1>3, <1>4

\* p2p-acs says PASS of no GPU with a redirecting bridge on the way to a peer,
\* however little of the host can be read, as long as the classes can
\* (checks.go:102-128, locality.go:175-190).
THEOREM AcsPassIsSound ==
  ASSUME \A x \in Losable : x[2] # "class"
  PROVE  Spec => []AcsPassSound
<1>1. ASSUME IInv PROVE AcsPassSound
  <2> SUFFICES ASSUME NEW g \in SeenGpus, SeenChecks[g].p2p_acs = "PASS",
                      NEW o \in SeenGpus \ {g}, NEW d \in Between(g, o), Redirects(d)
               PROVE  FALSE
    BY DEF AcsPassSound
  <2>1. IsHost(truth)
    BY <1>1 DEF IInv
  <2>2. OverPCIe(AllDevices(Seen), g, o) /\ d \in PathLinks(AllDevices(Seen), g, o)
    BY <2>1, BetweenIsPath
  <2>3. "class" \notin At(<<d>>)
    BY <1>1 DEF IInv, At
  <2>4. d \in DOMAIN truth.dev
    <3>1. g \in DOMAIN truth.dev /\ o \in DOMAIN truth.dev
      BY <2>1, SeenChain, SeenGpuIsOne
    <3>2. ToSet(truth.dev[g].chain) \cup ToSet(truth.dev[o].chain) \subseteq DOMAIN truth.dev
      BY <2>1, <3>1, ChainOf
    <3> QED BY <3>2 DEF Between
  <2>5. d \in ACSOn(AllDevices(Seen), g, o) \cup ACSUnread(AllDevices(Seen), g, o)
    BY <2>1, <2>2, <2>3, <2>4, RedirectIsSeenOrUnread
  <2>6. P2PACS(AllDevices(Seen), g, SeenGpus) = "PASS"
    BY SeenVerdicts
  <2> QED BY <2>2, <2>5, <2>6 DEF P2PACS
<1> QED BY <1>1, Invariance, PTL

\* p2p-acs says FAIL only of a GPU with a redirecting bridge on the way to a
\* peer (locality.go:186).
THEOREM AcsFailIsSound == Spec => []AcsFailSound
<1>1. ASSUME IInv PROVE AcsFailSound
  <2> SUFFICES ASSUME NEW g \in SeenGpus, SeenChecks[g].p2p_acs = "FAIL"
               PROVE  \E o \in SeenGpus \ {g} : \E d \in Between(g, o) : Redirects(d)
    BY DEF AcsFailSound
  <2>1. IsHost(truth)
    BY <1>1 DEF IInv
  <2>2. P2PACS(AllDevices(Seen), g, SeenGpus) = "FAIL"
    BY SeenVerdicts
  <2>3. PICK o \in SeenGpus \ {g} :
          OverPCIe(AllDevices(Seen), g, o) /\ ACSOn(AllDevices(Seen), g, o) # {}
    BY <2>2 DEF P2PACS
  <2>4. PICK d : d \in ACSOn(AllDevices(Seen), g, o)
    BY <2>3
  <2>5. PICK D : D = AllDevices(Seen)
    OBVIOUS
  <2>6. /\ d \in PathLinks(D, g, o) /\ d \in DOMAIN D /\ Role(D[d]) = "bridge"
        /\ D[d].cfg.read /\ D[d].cfg.ext /\ D[d].cfg.acs /\ D[d].cfg.ctl \cap ACSRedirectMask # {}
    BY <2>4, <2>5 DEF ACSOn, ACSUnread, Switches, PathLinks
  <2>7. d \in DOMAIN Seen.dev
    <3> SUFFICES ASSUME d \notin DOMAIN Seen.dev PROVE FALSE
      OBVIOUS
    <3>1. D[d] = Bare
      BY <2>1, <2>5, <2>6, SeenDevices
    <3> QED BY <2>6, <3>1, BareIsUnread
  <2>8. truth.dev[d] \in FunctionType /\ D[d] = Dim(truth.dev[d], At(<<d>>)) /\ d \in DOMAIN truth.dev
    BY <2>1, <2>5, <2>7, SeenChain
  <2>9. Role(truth.dev[d]) = "bridge" /\ D[d].cfg = truth.dev[d].cfg
    <3>1. truth.dev[d] \in FunctionType
      BY <2>8
    <3>2. Role(Dim(truth.dev[d], At(<<d>>))) \in {Role(truth.dev[d]), "other"}
      BY <3>1, DimRole
    <3>3. LET f == Dim(truth.dev[d], At(<<d>>)) IN f.cfg.read /\ f.cfg.ext => f.cfg = truth.dev[d].cfg
      BY <3>1, DimConfig
    <3> QED BY <2>6, <2>8, <3>2, <3>3
  <2>10. Redirects(d)
    BY <2>1, <2>6, <2>8, <2>9 DEF Redirects, ACSRedirectMask, IsHost
  <2>11. d \in Between(g, o)
    BY <2>1, <2>3, <2>5, <2>6, BetweenIsPath
  <2> QED BY <2>10, <2>11
<1> QED BY <1>1, Invariance, PTL

-----------------------------------------------------------------------------
(* Links. *)

\* A link of the report that is known is that of a listed function with a parent
\* on its chain, read with its current width and speed.
LEMMA KnownLink ==
  ASSUME IsHost(truth), NEW d, Linked(AllLinks(Seen), d).known
  PROVE  /\ d \in DOMAIN Seen.dev /\ Len(truth.dev[d].chain) >= 2
         /\ LET c == truth.dev[d].chain
                p == c[Len(c) - 1]
                own == Dim(truth.dev[d], At(<<d>>)).link
            IN /\ own.w # Unread /\ own.s # Unread
               /\ Linked(AllLinks(Seen), d)
                    = Judge(own, IF p \in DOMAIN Seen.dev THEN Dim(truth.dev[p], At(<<p>>)).link ELSE NoLink)
<1>1. d \in DOMAIN Seen.dev /\ Linked(AllLinks(Seen), d) = LinkOf(Seen.dev, d)
  BY DEF Linked, UnknownLink, AllLinks
<1>2. PICK c : c = truth.dev[d].chain
  OBVIOUS
<1>3. /\ Seen.dev[d] = Dim(truth.dev[d], At(<<d>>)) /\ Seen.dev[d].chain = c
      /\ Len(c) \in Nat
  <2>1. d \in DOMAIN truth.dev /\ truth.dev[d] \in FunctionType
        /\ Seen.dev[d] = Dim(truth.dev[d], At(<<d>>))
    BY <1>1, SeenDevice, SeenChain
  <2>2. Dim(truth.dev[d], At(<<d>>)).chain = truth.dev[d].chain
    <3>1. PICK h, W : h = truth.dev[d] /\ W = At(<<d>>)
      OBVIOUS
    <3>2. h \in FunctionType
      BY <2>1, <3>1
    <3>3. Dim(h, W).chain = h.chain
      BY <3>2, DimKeeps
    <3> QED BY <3>1, <3>3
  <2>3. Len(c) \in Nat
    BY <1>2, <2>1, ChainOf
  <2> QED BY <1>2, <2>1, <2>2, <2>3
<1>4. PICK p : p = c[Len(c) - 1]
  OBVIOUS
<1>5. PICK own, up :
        /\ own = Seen.dev[d].link
        /\ up = IF p \in DOMAIN Seen.dev THEN Seen.dev[p].link ELSE NoLink
  OBVIOUS
<1>6. LinkOf(Seen.dev, d) = IF Len(c) < 2 THEN UnknownLink ELSE Judge(own, up)
  BY <1>3, <1>4, <1>5 DEF LinkOf
<1>7. Len(c) >= 2 /\ LinkOf(Seen.dev, d) = Judge(own, up)
  BY <1>1, <1>3, <1>6 DEF UnknownLink
<1>8. own.w # Unread /\ own.s # Unread
  BY <1>1, <1>7 DEF Judge, UnknownLink
<1>9. p \in DOMAIN Seen.dev => Seen.dev[p] = Dim(truth.dev[p], At(<<p>>))
  BY SeenDevice
<1> QED BY <1>1, <1>2, <1>3, <1>4, <1>5, <1>7, <1>8, <1>9

LinkRead(l) == l.w \in Nat /\ l.s \in Nat /\ l.mw \in Nat \ {0} /\ l.ms \in Nat \ {0}
SameNow(own, l) == own.w = l.w /\ own.s = l.s
SameMax(own, l) == own.mw = l.mw /\ own.ms = l.ms

\* A link that could be read is a list of numbers, and it is seen as it is.
LEMMA DimLink ==
  ASSUME NEW f \in FunctionType, NEW W
  PROVE  /\ LinkRead(f.link)
         /\ Dim(f, W).link.w # Unread /\ Dim(f, W).link.s # Unread => SameNow(Dim(f, W).link, f.link)
         /\ "mw" \notin W /\ "ms" \notin W => SameMax(Dim(f, W).link, f.link)
<1>1. LinkRead(f.link)
  BY DEF FunctionType, LinkRead
<1>2. PICK l : l = Dim(f, W).link
  OBVIOUS
<1>3. l = [ w  |-> IF "w" \in W THEN Unread ELSE f.link.w,
            s  |-> IF "s" \in W THEN Unread ELSE f.link.s,
            mw |-> IF "mw" \in W THEN Unread ELSE f.link.mw,
            ms |-> IF "ms" \in W THEN Unread ELSE f.link.ms ]
  BY <1>2, DimKeeps
<1> QED BY <1>1, <1>2, <1>3 DEF SameNow, SameMax

\* A link that is not judged degraded, though it may have been compared with one
\* end only, runs at what the lesser of both ends can do (build.go:82-103).
LEMMA NotDegradedIsHealthy ==
  ASSUME NEW l, LinkRead(l), NEW m, LinkRead(m),
         NEW own, SameNow(own, l), SameMax(own, l),
         NEW up, up = NoLink \/ SameMax(up, m), ~Degraded(own, up)
  PROVE  (l.w >= l.mw \/ l.w >= m.mw) /\ (l.s >= l.ms \/ l.s >= m.ms)
<1>1. CASE up = NoLink
  <2>1. ~BothEnds(own, up)
    BY <1>1 DEF NoLink, BothEnds
  <2> QED BY <2>1 DEF Degraded, ExpWidth, ExpSpeed, LinkRead, SameNow, SameMax
<1>2. CASE SameMax(up, m)
  <2>1. BothEnds(own, up)
    BY <1>2 DEF BothEnds, Unread, LinkRead, SameMax
  <2> QED BY <1>2, <2>1 DEF Degraded, ExpWidth, ExpSpeed, Lesser, LinkRead, SameNow, SameMax
<1> QED BY <1>1, <1>2

\* With the maxima readable, a known link that is not called degraded is not.
LEMMA KnownLinkIsHealthy ==
  ASSUME IsHost(truth), \A x \in lost : x[2] \notin {"mw", "ms"},
         NEW d, Linked(AllLinks(Seen), d).known, ~Linked(AllLinks(Seen), d).degraded
  PROVE  Healthy(d)
<1>1. PICK c, p : c = truth.dev[d].chain /\ p = c[Len(c) - 1]
  OBVIOUS
<1>2. PICK own : own = Dim(truth.dev[d], At(<<d>>)).link
  OBVIOUS
<1>3. PICK up : up = IF p \in DOMAIN Seen.dev THEN Dim(truth.dev[p], At(<<p>>)).link ELSE NoLink
  OBVIOUS
<1>4. /\ d \in DOMAIN Seen.dev /\ Len(c) >= 2 /\ own.w # Unread /\ own.s # Unread
      /\ Linked(AllLinks(Seen), d) = Judge(own, up)
  BY <1>1, <1>2, <1>3, KnownLink
<1>5. d \in DOMAIN truth.dev /\ p \in DOMAIN truth.dev
  <2>1. d \in DOMAIN truth.dev
    BY <1>4, SeenDevice
  <2>2. Len(c) \in Nat /\ Ran(c) \subseteq DOMAIN truth.dev
    BY <1>1, <2>1, ChainOf
  <2>3. Len(c) - 1 \in 1..Len(c)
    BY <1>4, <2>2
  <2>4. p \in Ran(c)
    BY <1>1, <2>3 DEF Ran
  <2> QED BY <2>1, <2>2, <2>4
<1>6. PICK f, g : f = truth.dev[d] /\ g = truth.dev[p]
  OBVIOUS
<1>7. f \in FunctionType /\ g \in FunctionType
  BY <1>5, <1>6, ChainOf
<1>8. \A e : "mw" \notin At(<<e>>) /\ "ms" \notin At(<<e>>)
  BY DEF At
<1>9. LinkRead(f.link) /\ SameNow(own, f.link) /\ SameMax(own, f.link)
  BY <1>2, <1>4, <1>6, <1>7, <1>8, DimLink
<1>10. LinkRead(g.link) /\ (up = NoLink \/ SameMax(up, g.link))
  BY <1>3, <1>6, <1>7, <1>8, DimLink
<1>11. ~Degraded(own, up)
  BY <1>4 DEF Judge
<1>12. /\ f.link.w >= f.link.mw \/ f.link.w >= g.link.mw
       /\ f.link.s >= f.link.ms \/ f.link.s >= g.link.ms
  BY <1>9, <1>10, <1>11, NotDegradedIsHealthy
<1> QED BY <1>1, <1>6, <1>12 DEF Healthy

\* gpu-link and upstream-links say PASS only of links that run at what both ends
\* can do, however little else can be read, as long as the maxima can
\* (checks.go:25-59, build.go:77-103).
THEOREM LinkPassIsSound ==
  ASSUME \A x \in Losable : x[2] \notin {"mw", "ms"}
  PROVE  Spec => []LinkPassSound
<1>1. ASSUME IInv PROVE LinkPassSound
  <2>0. IsHost(truth) /\ \A x \in lost : x[2] \notin {"mw", "ms"}
    BY <1>1 DEF IInv
  <2> SUFFICES ASSUME NEW g \in SeenGpus
               PROVE  /\ SeenChecks[g].gpu_link = "PASS" => Healthy(g)
                      /\ SeenChecks[g].upstream_links = "PASS" =>
                           \A i \in 2..(Len(truth.dev[g].chain) - 1) : Healthy(truth.dev[g].chain[i])
    BY DEF LinkPassSound
  <2>1. ASSUME SeenChecks[g].gpu_link = "PASS" PROVE Healthy(g)
    <3>1. GpuLink(Linked(AllLinks(Seen), g)) = "PASS"
      BY <2>1, SeenVerdicts
    <3>2. Linked(AllLinks(Seen), g).known /\ ~Linked(AllLinks(Seen), g).degraded
      BY <3>1 DEF GpuLink
    <3> QED BY <2>0, <3>2, KnownLinkIsHealthy
  <2>2. ASSUME SeenChecks[g].upstream_links = "PASS", NEW i \in 2..(Len(truth.dev[g].chain) - 1)
        PROVE  Healthy(truth.dev[g].chain[i])
    <3>1. PICK c, d : c = truth.dev[g].chain /\ d = c[i]
      OBVIOUS
    <3>2. PICK D : D = AllDevices(Seen)
      OBVIOUS
    <3>3. g \in DOMAIN truth.dev /\ D[g].chain = c
      BY <2>0, <3>1, <3>2, SeenChain, SeenGpuIsOne
    <3>4. Len(c) \in Nat /\ Ran(c) \subseteq DOMAIN truth.dev /\ Ran(c) \subseteq DOMAIN D
      BY <2>0, <3>1, <3>2, <3>3, ChainOf, SeenDevices
    <3>5. d \in DOMAIN truth.dev /\ d \in DOMAIN D
      BY <3>1, <3>4 DEF Ran
    <3>6. D[d].cfg.type # 4
      <4>1. CASE d \in DOMAIN Seen.dev
        <5>1. truth.dev[d] \in FunctionType /\ D[d] = Dim(truth.dev[d], At(<<d>>))
          BY <2>0, <3>2, <4>1, SeenChain
        <5>2. Dim(truth.dev[d], At(<<d>>)).cfg.type \in {Unread, truth.dev[d].cfg.type}
          BY <5>1, DimKeeps
        <5>3. Len(truth.dev[d].chain) # 1
          <6>1. PICK x : x = truth.dev[d].chain
            OBVIOUS
          <6>2. x[Len(x)] = d /\ Len(x) \in Nat \ {0}
            BY <2>0, <3>5, <6>1, ChainOf
          <6>3. \A j \in 1..Len(x), k \in 1..Len(c) : x[j] = c[k] => j = k
            BY <2>0, <3>1, <3>3, <3>5, <6>1 DEF IsHost, IsTree
          <6>4. Len(x) \in 1..Len(x) /\ i \in 1..Len(c) /\ i # 1
            BY <3>1, <3>4, <6>2
          <6> QED BY <3>1, <6>1, <6>2, <6>3, <6>4
        <5> QED BY <2>0, <3>5, <5>1, <5>2, <5>3 DEF IsHost, Unread
      <4>2. CASE d \notin DOMAIN Seen.dev
        <5>1. D[d] = Bare
          BY <2>0, <3>2, <3>5, <4>2, SeenDevices
        <5>2. Bare.cfg = NoConfig
          BY DEF Bare
        <5> QED BY <5>1, <5>2 DEF NoConfig, Unread
      <4> QED BY <4>1, <4>2
    <3>7. d \in Uppers(D, c)
      BY <3>1, <3>6 DEF Uppers
    <3>8. UpstreamLinks(D, AllLinks(Seen), g) = "PASS"
      BY <2>2, <3>2, SeenVerdicts
    <3>9. Linked(AllLinks(Seen), d).known /\ ~Linked(AllLinks(Seen), d).degraded
      BY <3>3, <3>7, <3>8 DEF UpstreamLinks
    <3> QED BY <2>0, <3>1, <3>9, KnownLinkIsHealthy
  <2> QED BY <2>1, <2>2
<1> QED BY <1>1, Invariance, PTL

-----------------------------------------------------------------------------
(* The capacity of the way to a NIC. *)

\* What is known of the bandwidth of a link is what it is.
LEMMA KnownBandwidth ==
  ASSUME IsHost(truth), NEW d, Linked(AllLinks(Seen), d).known
  PROVE  Linked(AllLinks(Seen), d).mbps = truth.dev[d].link.w * LaneMBps(truth.dev[d].link.s)
<1>1. PICK own, up :
        /\ own = Dim(truth.dev[d], At(<<d>>)).link
        /\ d \in DOMAIN Seen.dev /\ own.w # Unread /\ own.s # Unread
        /\ Linked(AllLinks(Seen), d) = Judge(own, up)
  BY KnownLink
<1>2. truth.dev[d] \in FunctionType
  BY <1>1, SeenChain
<1>3. SameNow(own, truth.dev[d].link)
  BY <1>1, <1>2, DimLink
<1>4. Judge(own, up).mbps = own.w * LaneMBps(own.s)
  BY <1>1 DEF Judge
<1> QED BY <1>1, <1>3, <1>4 DEF SameNow

\* As long as the chain of the NIC is listed, the capacity is that of the
\* slowest hop or not known, whatever else is missing (locality.go:134-158,
\* build.go:241-249).
THEOREM CapacityIsExactOrZero == Spec => []CapacityExactOrZero
<1>1. ASSUME IInv PROVE CapacityExactOrZero
  <2> SUFFICES ASSUME NEW g \in SeenGpus, NEW n \in Nics(Seen.dev),
                      ToSet(truth.dev[n].chain) \subseteq DOMAIN Seen.dev
               PROVE  SeenCapacity(g, n) \in {0, Slowest(g, n, NicOf(Seen, n).port.gbps)}
    BY DEF CapacityExactOrZero
  <2>1. IsHost(truth)
    BY <1>1 DEF IInv
  <2>2. PICK D, L, gbps : D = AllDevices(Seen) /\ L = AllLinks(Seen) /\ gbps = NicOf(Seen, n).port.gbps
    OBVIOUS
  <2>3. PICK cg, cn : cg = truth.dev[g].chain /\ cn = truth.dev[n].chain
    OBVIOUS
  <2>4. /\ g \in DOMAIN truth.dev /\ n \in DOMAIN truth.dev
        /\ D[g].chain = cg /\ D[n].chain = cn
        /\ D[g].hb = truth.dev[g].hb /\ D[n].hb = truth.dev[n].hb
    <3>1. n \in DOMAIN Seen.dev
      BY DEF Nics
    <3> QED BY <2>1, <2>2, <2>3, <3>1, SeenChain, SeenGpuIsOne
  <2>5. ToSet(cg) = Ran(cg) /\ ToSet(cn) = Ran(cn)
    BY <2>1, <2>3, <2>4, ChainOf
  <2>6. Ran(cg) \subseteq DOMAIN D /\ Ran(cn) \subseteq DOMAIN D
    BY <2>1, <2>2, <2>3, <2>5, SeenDevices
  <2>7. PathLinks(D, g, n) = Apart(cg, cn) \cap DOMAIN D
    <3>1. WellPlaced(truth.dev)
      BY <2>1 DEF IsHost, WellPlaced
    <3>2. InPlace(D, truth.dev, g) /\ InPlace(D, truth.dev, n)
      BY <2>3, <2>4 DEF InPlace
    <3>3. PICK t : t = truth.dev
      OBVIOUS
    <3>4. WellPlaced(t) /\ InPlace(D, t, g) /\ InPlace(D, t, n)
      BY <3>1, <3>2, <3>3
    <3>5. PathLinks(D, g, n) = Apart(t[g].chain, t[n].chain) \cap DOMAIN D
      BY <3>4, LinksAreBetween
    <3> QED BY <2>3, <3>3, <3>5
  <2>8. PICK way : way = Apart(cg, cn)
    OBVIOUS
  <2>9. PathLinks(D, g, n) = way
    BY <2>6, <2>7, <2>8 DEF Apart
  <2>10. PICK T : T = { truth.dev[d].link.w * LaneMBps(truth.dev[d].link.s) : d \in way }
    OBVIOUS
  <2>11. Slowest(g, n, gbps) = Min(T \cup { gbps * 125 })
    BY <2>3, <2>5, <2>8, <2>10 DEF Slowest, Apart
  <2>12. PICK hops : hops = { Linked(L, d) : d \in way }
    OBVIOUS
  <2>13. SeenCapacity(g, n) = IF gbps <= 0 \/ \E l \in hops : ~l.known \/ l.mbps = 0 THEN 0
                             ELSE Min({ l.mbps : l \in hops } \cup { gbps * 125 })
    BY <2>2, <2>9, <2>12 DEF SeenCapacity, Capacity
  <2>14. CASE \E l \in hops : ~l.known
    BY <2>13, <2>14
  <2>15. CASE \A l \in hops : l.known
    <3>1. \A d \in way : Linked(L, d).mbps = truth.dev[d].link.w * LaneMBps(truth.dev[d].link.s)
      BY <2>1, <2>2, <2>12, <2>15, KnownBandwidth
    <3>2. { l.mbps : l \in hops } = T
      BY <2>10, <2>12, <3>1
    <3> QED BY <2>2, <2>11, <2>13, <3>2
  <2> QED BY <2>14, <2>15
<1> QED BY <1>1, Invariance, PTL
=============================================================================
