-------------------------------- MODULE Path --------------------------------
(***************************************************************************)
(* The path model of internal/datapath: the judgement of one link, the     *)
(* locality of two functions, the links between them, the capacity of the  *)
(* way to a NIC port, the port that stands for a NIC and the order of the  *)
(* NICs as seen from a GPU.  All of it is pure; `devs` is Report.Devices,  *)
(* a function from PCI addresses to what sysfs said, `links` the LinkState *)
(* of every device.                                                        *)
(*                                                                         *)
(* PCI addresses are numbers: sorting by address is sorting by <.  A value *)
(* sysfs did not give is Unread.  Speeds are in 0.1 GT/s, bandwidth is in  *)
(* MB/s where the code has a float of GB/s.                                *)
(***************************************************************************)
EXTENDS Integers, SequencesExt

CONSTANT PreferRDMA \* Options.PreferRDMA
ASSUME PreferAssumption == PreferRDMA \in BOOLEAN

Unread == -1

-----------------------------------------------------------------------------
(* What sysfs says of one function.  The type of a configuration space is  *)
(* the PCIe port type, Unread without a PCIe capability.                   *)

NoLink == [w |-> Unread, s |-> Unread, mw |-> Unread, ms |-> Unread]
NoEntry == [role |-> "none", nvlink |-> FALSE, gbps |-> 0]
NoConfig == [read |-> FALSE, type |-> Unread, mps |-> 0, ext |-> FALSE, acs |-> FALSE, ctl |-> {}]

\* A bridge on a chain that bus/pci/devices did not list.
Bare == [chain |-> <<>>, hb |-> "", vf |-> FALSE, entry |-> NoEntry, class |-> "bridge",
         link |-> NoLink, numa |-> Unread, aer |-> 0, cfg |-> NoConfig]

\* The device table wins over the class code; a virtual function is neither.
Role(f) ==
  CASE f.vf -> "other"
    [] ~f.vf /\ f.entry # NoEntry -> f.entry.role
    [] ~f.vf /\ f.entry = NoEntry /\ f.class = "bridge" -> "bridge"
    [] ~f.vf /\ f.entry = NoEntry /\ f.class = "display" -> "gpu"
    [] ~f.vf /\ f.entry = NoEntry /\ f.class = "network" -> "nic"
    [] OTHER -> "other"

-----------------------------------------------------------------------------
(* One link. *)

LaneMBps(speed) ==
  CASE speed = 25 -> 250
    [] speed = 50 -> 500
    [] speed = 80 -> 985
    [] speed = 160 -> 1969
    [] speed = 320 -> 3938
    [] speed = 640 -> 7563
    [] OTHER -> 0

Lesser(a, b) == IF a < b THEN a ELSE b

\* The four maxima were read: the link can be judged against both ends.
BothEnds(own, up) ==
  own.mw # Unread /\ own.ms # Unread /\ up.mw # Unread /\ up.ms # Unread

ExpWidth(own, up) == IF BothEnds(own, up) THEN Lesser(own.mw, up.mw) ELSE own.mw
ExpSpeed(own, up) == IF BothEnds(own, up) THEN Lesser(own.ms, up.ms) ELSE own.ms

Degraded(own, up) ==
  /\ ExpWidth(own, up) > 0 /\ ExpSpeed(own, up) > 0
  /\ own.w < ExpWidth(own, up) \/ own.s < ExpSpeed(own, up)

PlatformLimited(own, up) ==
  BothEnds(own, up) /\ (own.mw > up.mw \/ own.ms > up.ms)

UnknownLink == [known |-> FALSE, degraded |-> FALSE, limited |-> FALSE, mbps |-> 0]

Judge(own, up) ==
  IF own.w = Unread \/ own.s = Unread THEN UnknownLink
  ELSE [ known    |-> TRUE,
         degraded |-> Degraded(own, up),
         limited  |-> PlatformLimited(own, up),
         mbps     |-> own.w * LaneMBps(own.s) ]

\* A function added to devs after the links were judged has the zero LinkState.
Linked(links, d) == IF d \in DOMAIN links THEN links[d] ELSE UnknownLink

\* Report.link: a root port has no link upward, a parent may be unlisted.
LinkOf(devs, d) ==
  LET chain == devs[d].chain
      parent == chain[Len(chain) - 1]
  IN IF Len(chain) < 2 THEN UnknownLink
     ELSE Judge(devs[d].link, IF parent \in DOMAIN devs THEN devs[parent].link ELSE NoLink)

-----------------------------------------------------------------------------
(* Two functions. *)

LocUnknown == 0
LocPIX == 1
LocPXB == 2
LocPHB == 3
LocNODE == 4
LocSYS == 5
Localities == LocUnknown..LocSYS

NumaOf(devs, d) ==
  LET f == devs[d]
      FromRoot == f.chain # <<>> /\ f.chain[1] \in DOMAIN devs /\ devs[f.chain[1]].numa >= 0
  IN IF f.numa >= 0 THEN f.numa
     ELSE IF FromRoot THEN devs[f.chain[1]].numa ELSE -1

\* Mutant of CommonPrefix: the last elements are not compared.
CommonPrefixShort(a, b) ==
  Cardinality({ i \in 1..(Lesser(Len(a), Len(b)) - 1) : \A j \in 1..i : a[j] = b[j] })

\* The number of leading elements two chains share.
CommonPrefix(a, b) ==
  Cardinality({ i \in 1..Lesser(Len(a), Len(b)) : \A j \in 1..i : a[j] = b[j] })

Classify(devs, a, b) ==
  LET fa == devs[a]
      fb == devs[b]
      na == NumaOf(devs, a)
      nb == NumaOf(devs, b)
      common == CommonPrefix(Front(fa.chain), Front(fb.chain))
      traversed == (Len(fa.chain) - 1 - common) + (Len(fb.chain) - 1 - common)
  IN IF fa.hb = "" \/ fb.hb = "" THEN LocUnknown
     ELSE IF fa.hb # fb.hb
       THEN IF na < 0 \/ nb < 0 THEN LocUnknown ELSE IF na = nb THEN LocNODE ELSE LocSYS
       ELSE IF common = 0 THEN LocPHB ELSE IF traversed <= 2 THEN LocPIX ELSE LocPXB

\* Mutant of PathLinks: the link above the common ancestor is counted as well.
PathLinksAndAncestor(devs, a, b) ==
  LET common == IF devs[a].hb = devs[b].hb THEN CommonPrefix(devs[a].chain, devs[b].chain) ELSE 0
      From(c) == { c[i] : i \in { j \in 2..Len(c) : j >= common } }
  IN (From(devs[a].chain) \cup From(devs[b].chain)) \cap DOMAIN devs

\* The functions whose links are traversed between a and b.  A root port has
\* no link; a function that is not in devs is passed over.
PathLinks(devs, a, b) ==
  LET ca == devs[a].chain
      cb == devs[b].chain
      common == IF devs[a].hb = devs[b].hb THEN CommonPrefix(ca, cb) ELSE 0
      Below(c) == { c[i] : i \in { j \in 2..Len(c) : j > common } }
  IN (Below(ca) \cup Below(cb)) \cap DOMAIN devs

\* Mutant of Capacity: hops that are not known are passed over.
CapacityOfKnown(devs, links, g, n, gbps) ==
  LET hops == { Linked(links, d) : d \in PathLinks(devs, g, n) }
  IN IF gbps <= 0 THEN 0 ELSE Min({ l.mbps : l \in { k \in hops : k.known } } \cup { gbps * 125 })

\* The slowest hop from a GPU to the port of a NIC, 0 when it is not known.
Capacity(devs, links, g, n, gbps) ==
  LET hops == { Linked(links, d) : d \in PathLinks(devs, g, n) }
  IN IF gbps <= 0 \/ \E l \in hops : ~l.known \/ l.mbps = 0 THEN 0
     ELSE Min({ l.mbps : l \in hops } \cup { gbps * 125 })

-----------------------------------------------------------------------------
(* The port of a NIC. *)

Boost == 2 ^ 20
NoPort == [src |-> "none", score |-> -1, gbps |-> 0, up |-> FALSE, known |-> FALSE]

\* Mutants of Candidate: an active port scores its rate only; RDMA ports are
\* compared with the operstate of interfaces.
CandidateByRate(src, gbps, state, upState) ==
  [src |-> src, score |-> gbps, gbps |-> gbps, up |-> state = upState, known |-> state # ""]
CandidateOperstate(src, gbps, state, upState) ==
  [ src |-> src, score |-> IF state = "up" THEN gbps + Boost ELSE gbps,
    gbps |-> gbps, up |-> state = "up", known |-> state # "" ]

Candidate(src, gbps, state, upState) ==
  [ src   |-> src,
    score |-> IF state = upState THEN gbps + Boost ELSE gbps,
    gbps  |-> gbps,
    up    |-> state = upState,
    known |-> state # "" ]

Faster(best, cand) == IF cand.score > best.score THEN cand ELSE best

\* The better of the best so far and one more RDMA port or interface.
FasterRDMA(best, p) == Faster(best, Candidate("rdma", p.gbps, p.state, "ACTIVE"))
FasterNet(best, p) == Faster(best, Candidate("net", p.mbps \div 1000, p.state, "up"))

\* Mutant of PickPort: an RDMA port keeps the interfaces out whatever it says.
PickPortRDMA(rdma, net) ==
  LET first == FoldLeft(FasterRDMA, NoPort, rdma)
  IN IF rdma # <<>> THEN first ELSE FoldLeft(FasterNet, first, net)

\* rdma: the ports of the RDMA devices on the NIC in order, as [state, gbps];
\* net: its network interfaces, as [state, mbps].  "" is a state not read.
\* The search goes on among the interfaces, with the best RDMA port so far as
\* the one to beat, when that port's state was not read.
PickPort(rdma, net) ==
  LET first == FoldLeft(FasterRDMA, NoPort, rdma)
  IN IF first.known THEN first ELSE FoldLeft(FasterNet, first, net)

-----------------------------------------------------------------------------
(* The order of the attachments [nic, loc, rdma, up, gbps, mbps]. *)

Rank(x) ==
  (IF PreferRDMA /\ ~x.rdma THEN 1000 ELSE 0) + (IF ~x.up THEN 100 ELSE 0)
    + (IF x.loc = LocUnknown THEN 50 ELSE 0) + x.loc

Before(x, y) ==
  \/ Rank(x) < Rank(y)
  \/ Rank(x) = Rank(y) /\ x.gbps > y.gbps
  \/ Rank(x) = Rank(y) /\ x.gbps = y.gbps /\ x.nic < y.nic
=============================================================================
