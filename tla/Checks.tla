------------------------------- MODULE Checks -------------------------------
(***************************************************************************)
(* The nine checks of internal/datapath/checks.go and what they are made   *)
(* from: the NICs with their ports, the attachments and peers of a GPU.    *)
(*                                                                         *)
(* A host h is what the reader and the nvidia-smi parsers return:          *)
(*   h.dev     PCI address -> what sysfs said of the function              *)
(*   h.rdma    the RDMA devices in order, [name, bdf, ports]               *)
(*   h.net     the network interfaces in order, [bdf, state, mbps]         *)
(*   h.smi     PCI address -> [index, uuid] of the inventory rows          *)
(*   h.nvlink  UUID -> [up, all], the counts of NVLink states              *)
(*   h.topo    the matrix: .rel, <<name, name>> -> locality, and .cols,    *)
(*             NIC column -> RDMA name                                     *)
(***************************************************************************)
EXTENDS Path

CONSTANT Target \* Options.LocalityTarget, the worst acceptable locality
ASSUME TargetAssumption == Target \in LocPIX..LocSYS

Gpus(devs) == { d \in DOMAIN devs : Role(devs[d]) = "gpu" }
Nics(devs) == { d \in DOMAIN devs : Role(devs[d]) \in {"nic", "dpu"} }

\* Mutant of Extend: a bridge that was not listed gets no role.
ExtendRoleless(devs, g) ==
  [ d \in DOMAIN devs \cup ToSet(devs[g].chain) |->
      IF d \in DOMAIN devs THEN devs[d] ELSE [Bare EXCEPT !.class = "other"] ]

\* What hops does to Report.Devices for one GPU.
Extend(devs, g) ==
  [ d \in DOMAIN devs \cup ToSet(devs[g].chain) |->
      IF d \in DOMAIN devs THEN devs[d] ELSE Bare ]

-----------------------------------------------------------------------------
\* buildNICs: the port of every NIC, and whether an RDMA device sits on it.
NicOf(h, n) ==
  LET ports == [ i \in DOMAIN h.rdma |-> IF h.rdma[i].bdf = n THEN h.rdma[i].ports ELSE <<>> ]
      nets == [ i \in DOMAIN h.net |-> IF h.net[i].bdf = n THEN << h.net[i] >> ELSE <<>> ]
  IN [ port |-> PickPort(FlattenSeq(ports), FlattenSeq(nets)),
       rdma |-> \E i \in DOMAIN h.rdma : h.rdma[i].bdf = n ]

\* attach: one NIC as seen from a GPU.
Attachment(devs, links, nics, g, n) ==
  LET port == nics[n].port
  IN [ nic  |-> n,
       loc  |-> Classify(devs, g, n),
       rdma |-> nics[n].rdma,
       up   |-> port.up,
       gbps |-> port.gbps,
       mbps |-> Capacity(devs, links, g, n, port.gbps) ]

Attachments(devs, links, nics, g) ==
  { Attachment(devs, links, nics, g, n) : n \in DOMAIN nics }

\* The head of the sorted attachments.
BestOf(S) == CHOOSE x \in S : \A y \in S \ {x} : Before(x, y)

-----------------------------------------------------------------------------
\* The control bits that send peer-to-peer traffic through the root complex.
ACSRedirectMask == {"RequestRedirect", "CompletionRedirect", "EgressControl"}

OverPCIe(devs, g, o) == Classify(devs, g, o) \in {LocPIX, LocPXB}

\* peers: the bridges on the way to a PCIe peer, those nobody could read the
\* ACS capability of, and those that redirect.
Switches(devs, g, o) == { d \in PathLinks(devs, g, o) : Role(devs[d]) = "bridge" }
\* Mutant of ACSUnread: the first 64 bytes are taken for a readable ACS.
ACSNoConfig(devs, g, o) == { d \in Switches(devs, g, o) : ~devs[d].cfg.read }

ACSUnread(devs, g, o) ==
  { d \in Switches(devs, g, o) : ~(devs[d].cfg.read /\ devs[d].cfg.ext) }
\* Mutant of ACSOn: every control bit counts as a redirect.
ACSAny(devs, g, o) ==
  { d \in Switches(devs, g, o) \ ACSUnread(devs, g, o) : devs[d].cfg.acs /\ devs[d].cfg.ctl # {} }

ACSOn(devs, g, o) ==
  { d \in Switches(devs, g, o) \ ACSUnread(devs, g, o) :
      devs[d].cfg.acs /\ devs[d].cfg.ctl \cap ACSRedirectMask # {} }

-----------------------------------------------------------------------------
GpuLink(l) ==
  CASE ~l.known -> "UNKNOWN"
    [] l.known /\ l.degraded -> "FAIL"
    [] l.known /\ ~l.degraded /\ l.limited -> "WARN"
    [] OTHER -> "PASS"

\* The hops above the GPU that are not of kind root.
Uppers(devs, chain) ==
  { chain[i] : i \in { j \in 2..(Len(chain) - 1) : devs[chain[j]].cfg.type # 4 } }

\* Mutant of UpstreamLinks: a link that is not known does not count.
UpstreamOfKnown(devs, links, g) ==
  LET chain == devs[g].chain
  IN IF Len(chain) <= 2 THEN "N/A"
     ELSE IF \E d \in Uppers(devs, chain) : Linked(links, d).degraded THEN "FAIL" ELSE "PASS"

UpstreamLinks(devs, links, g) ==
  LET chain == devs[g].chain
      upper == { Linked(links, d) : d \in Uppers(devs, chain) }
  IN IF Len(chain) <= 2 THEN "N/A"
     ELSE IF \E l \in upper : l.degraded THEN "FAIL"
     ELSE IF \E l \in upper : ~l.known THEN "UNKNOWN" ELSE "PASS"

NicLocality(best) ==
  IF best.loc = LocUnknown THEN "UNKNOWN"
  ELSE IF best.loc <= Target THEN "PASS" ELSE "FAIL"

NicPort(port, entry) ==
  CASE ~port.known -> "UNKNOWN"
    [] port.known /\ ~port.up -> "FAIL"
    [] port.known /\ port.up /\ (port.gbps < entry.gbps \/ port.gbps = 0) -> "WARN"
    [] OTHER -> "PASS"

NumaAligned(devs, g, n) ==
  LET ng == NumaOf(devs, g)
      nn == NumaOf(devs, n)
  IN IF ng < 0 \/ nn < 0 THEN "UNKNOWN" ELSE IF ng = nn THEN "PASS" ELSE "WARN"

P2PACS(devs, g, gpus) ==
  LET pcie == { o \in gpus \ {g} : OverPCIe(devs, g, o) }
  IN IF pcie = {} THEN "N/A"
     ELSE IF \E o \in pcie : ACSOn(devs, g, o) # {} THEN "FAIL"
     ELSE IF \E o \in pcie : ACSUnread(devs, g, o) # {} THEN "UNKNOWN" ELSE "PASS"

\* buildGPUs joins the NVLink states of a GPU through its inventory row.
NoLanes == [up |-> 0, all |-> 0]
NVLinkOf(h, g) ==
  IF g \in DOMAIN h.smi /\ h.smi[g].uuid \in DOMAIN h.nvlink
    THEN h.nvlink[h.smi[g].uuid] ELSE NoLanes

NVLink(lanes, entry) ==
  IF lanes.all = 0 THEN IF entry.nvlink THEN "UNKNOWN" ELSE "N/A"
  ELSE IF lanes.up = lanes.all THEN "PASS" ELSE "FAIL"

PCIeErrors(f) ==
  IF f.aer = Unread THEN "N/A" ELSE IF f.aer > 0 THEN "WARN" ELSE "PASS"

HasPCIe(cfg) == cfg.read /\ cfg.type # Unread
PCIePayload(fg, fn) ==
  IF ~(HasPCIe(fg.cfg) /\ HasPCIe(fn.cfg)) THEN "N/A"
  ELSE IF fg.cfg.mps # fn.cfg.mps THEN "WARN" ELSE "PASS"

\* checks: one status per check of a GPU, from its attachments.
ChecksOf(h, devs, links, nics, gpus, g) ==
  LET S == Attachments(devs, links, nics, g)
      none == S = {}
      best == BestOf(S)
      n == best.nic
  IN [ gpu_link       |-> GpuLink(Linked(links, g)),
       upstream_links |-> UpstreamLinks(devs, links, g),
       nic_locality   |-> IF none THEN "UNKNOWN" ELSE NicLocality(best),
       nic_port       |-> IF none THEN "UNKNOWN" ELSE NicPort(nics[n].port, devs[n].entry),
       numa_aligned   |-> IF none THEN "UNKNOWN" ELSE NumaAligned(devs, g, n),
       p2p_acs        |-> P2PACS(devs, g, gpus),
       nvlink         |-> NVLink(NVLinkOf(h, g), devs[g].entry),
       pcie_errors    |-> PCIeErrors(devs[g]),
       pcie_payload   |-> IF none THEN "N/A" ELSE PCIePayload(devs[g], devs[n]) ]

CheckNames == { "gpu_link", "upstream_links", "nic_locality", "nic_port", "numa_aligned",
                "p2p_acs", "nvlink", "pcie_errors", "pcie_payload" }

\* Report.Overall over the checks of every GPU.
Overall(checks) ==
  LET all == { checks[g][c] : g \in DOMAIN checks, c \in CheckNames }
  IN IF "FAIL" \in all THEN "FAIL" ELSE IF "WARN" \in all THEN "WARN" ELSE "PASS"

-----------------------------------------------------------------------------
\* Build as the function of its inputs it is meant to be: the devices with
\* every GPU's chain, the links judged before, and the checks of every GPU.
AllDevices(h) ==
  LET chains == UNION { ToSet(h.dev[g].chain) : g \in Gpus(h.dev) }
  IN [ d \in DOMAIN h.dev \cup chains |-> IF d \in DOMAIN h.dev THEN h.dev[d] ELSE Bare ]
AllLinks(h) == [ d \in DOMAIN h.dev |-> LinkOf(h.dev, d) ]
AllNics(h) == [ n \in Nics(h.dev) |-> NicOf(h, n) ]

ChecksFor(h) ==
  [ g \in Gpus(h.dev) |->
      ChecksOf(h, AllDevices(h), AllLinks(h), AllNics(h), Gpus(h.dev), g) ]
=============================================================================
