-------------------------------- MODULE Build --------------------------------
(***************************************************************************)
(* Build of internal/datapath/build.go, step by step: the report grows     *)
(* device by device, and what one GPU adds to Report.Devices is seen by    *)
(* the judgement of another.  The same host is built twice, as two runs of *)
(* the command on one fixture, or two reads of watch, would.               *)
(***************************************************************************)
EXTENDS Checks

CONSTANT Hosts \* see Checks
ASSUME HostAssumption == \A x \in Hosts : x.dev = [d \in DOMAIN x.dev |-> x.dev[d]]

\* Rates and speeds are numbers, 0 when not read; "" is a state not read.
RDMAPort == [gbps : Nat, state : {"ACTIVE", "DOWN", "INIT", ""}]
NetPort == [bdf : Int, state : {"up", "down", ""}, mbps : Nat]
ASSUME PortAssumption ==
  \A x \in Hosts :
    /\ x.rdma \in Seq({ x.rdma[i] : i \in DOMAIN x.rdma })
    /\ \A i \in DOMAIN x.rdma : x.rdma[i].ports \in Seq(RDMAPort)
    /\ x.net \in Seq(NetPort)

VARIABLES
  h,        \* the host, the input of Build
  pc,       \* "list", "gpus", "judge" or "done"
  devices,  \* Report.Devices
  links,    \* the LinkState of the devices that were there when links were judged
  nics,     \* Report.NICs
  todo,     \* GPUs the current loop has not visited
  checks,   \* the checks of the GPUs judged so far
  limits,   \* Report.Limitations, those about a topo verdict
  first     \* the result of the first build in a singleton, {} before
vars == <<h, pc, devices, links, nics, todo, checks, limits, first>>

Init ==
  /\ h \in Hosts /\ pc = "list"
  /\ devices = <<>> /\ links = <<>> /\ nics = <<>>
  /\ todo = {} /\ checks = <<>> /\ limits = {}
  /\ first = {}

-----------------------------------------------------------------------------
\* Lines 26-34: every link is judged before any chain is walked.
List ==
  /\ pc = "list" /\ pc' = "gpus"
  /\ devices' = h.dev
  /\ links' = [ d \in DOMAIN h.dev |-> LinkOf(h.dev, d) ]
  /\ nics' = [ n \in Nics(h.dev) |-> NicOf(h, n) ]
  /\ todo' = Gpus(h.dev)
  /\ UNCHANGED <<h, checks, limits, first>>

\* One turn of buildGPUs: addresses ascending, each adds its unlisted bridges.
AddGPU(g) ==
  /\ pc = "gpus" /\ g \in todo /\ \A o \in todo : g <= o
  /\ devices' = Extend(devices, g)
  /\ todo' = todo \ {g}
  /\ UNCHANGED <<h, pc, links, nics, checks, limits, first>>

\* Mutant of Ready: the first GPU is judged before the others have their hops.
ReadyAtOnce == TRUE

\* Lines 37-41 start when every GPU has its hops.
Ready == todo = {}

GpusBuilt ==
  /\ pc = "gpus" /\ Ready
  /\ pc' = "judge" /\ todo' = Gpus(h.dev)
  /\ UNCHANGED <<h, devices, links, nics, checks, limits, first>>

\* topoNIC: the columns of the legend that name an RDMA device on n; ranging
\* over the map the code takes any of them.
Columns(n) ==
  { c \in DOMAIN h.topo.cols :
      \E i \in DOMAIN h.rdma : h.rdma[i].bdf = n /\ h.rdma[i].name = h.topo.cols[c] }

\* Topo.Rel: the cell of the matrix, in either order; LocUnknown stands for a
\* relation that is not there or is not a locality.
Rel(x, y) ==
  IF <<x, y>> \in DOMAIN h.topo.rel THEN h.topo.rel[<<x, y>>]
  ELSE IF <<y, x>> \in DOMAIN h.topo.rel THEN h.topo.rel[<<y, x>>] ELSE LocUnknown

\* g has an inventory row, and nvidia-smi contradicts sysfs about g and what has
\* the column or GPU index x: the message names the two functions, what sysfs
\* says and what nvidia-smi says.
Contradicts(g, x, loc) ==
  /\ g \in DOMAIN h.smi /\ loc # LocUnknown
  /\ Rel(h.smi[g].index, x) \notin {LocUnknown, loc}
Limit(g, o, x, loc) == [gpu |-> g, other |-> o, sysfs |-> loc, topo |-> Rel(h.smi[g].index, x)]

NicLimits(devs, g, col) ==
  { Limit(g, n, col[n], Classify(devs, g, n)) :
      n \in { m \in DOMAIN col : Contradicts(g, col[m], Classify(devs, g, m)) } }
PeerLimits(devs, g) ==
  LET Peers == { o \in DOMAIN h.smi \ {g} : o \in Gpus(h.dev) }
  IN { Limit(g, o, h.smi[o].index, Classify(devs, g, o)) :
         o \in { p \in Peers : Contradicts(g, h.smi[p].index, Classify(devs, g, p)) } }

\* attach, peers and checks of one GPU.
JudgeGPU(g) ==
  /\ pc = "judge" /\ g \in todo /\ \A o \in todo : g <= o
  /\ \E col \in [ { n \in DOMAIN nics : Columns(n) # {} } -> DOMAIN h.topo.cols ] :
       /\ \A n \in DOMAIN col : col[n] \in Columns(n)
       /\ limits' = limits \cup NicLimits(devices, g, col) \cup PeerLimits(devices, g)
  /\ checks' = [ x \in DOMAIN checks \cup {g} |->
                  IF x = g THEN ChecksOf(h, devices, links, nics, Gpus(h.dev), g) ELSE checks[x] ]
  /\ todo' = todo \ {g}
  /\ UNCHANGED <<h, pc, devices, links, nics, first>>

Return ==
  /\ pc = "judge" /\ todo = {} /\ pc' = "done"
  /\ UNCHANGED <<h, devices, links, nics, todo, checks, limits, first>>

Result == [checks |-> checks, limits |-> limits]

\* The same host once more.
Again ==
  /\ pc = "done" /\ first = {}
  /\ first' = {Result} /\ pc' = "list"
  /\ devices' = <<>> /\ links' = <<>> /\ nics' = <<>>
  /\ checks' = <<>> /\ limits' = {}
  /\ UNCHANGED <<h, todo>>

Next ==
  \/ List \/ GpusBuilt \/ Return \/ Again
  \/ \E g \in todo : AddGPU(g) \/ JudgeGPU(g)

Spec == Init /\ [][Next]_vars

-----------------------------------------------------------------------------
\* Type correctness of the report while it is built (model.go:223-232).
TypeOK ==
  /\ h \in Hosts /\ pc \in {"list", "gpus", "judge", "done"}
  /\ todo \subseteq Gpus(h.dev)
  /\ pc # "list" => DOMAIN links = DOMAIN h.dev /\ DOMAIN nics = Nics(h.dev)
  /\ DOMAIN checks \subseteq Gpus(h.dev)
  /\ \A g \in DOMAIN checks : DOMAIN checks[g] = CheckNames

\* Walking chains adds to Report.Devices what sysfs did not list and changes
\* nothing it did (build.go:245-249).
DevicesOnlyGrow ==
  [][ pc = "gpus" => \A d \in DOMAIN devices : d \in DOMAIN devices' /\ devices'[d] = devices[d] ]_vars

\* Build is a function of its inputs: the checks of a GPU do not depend on the
\* place of the GPU in the loops that share Report.Devices (build.go:26-42).
ChecksArePure == pc = "done" => checks = ChecksFor(h)

\* Every chain is complete before any path is judged: a bridge nobody listed is
\* in Report.Devices, where it reads as unknown, and is not passed over.
ChainsComplete ==
  pc \in {"judge", "done"} => \A g \in Gpus(h.dev) : ToSet(h.dev[g].chain) \subseteq DOMAIN devices

\* The ports of the RDMA devices and the interfaces of a NIC that work.
Active(n) ==
  UNION { { p \in ToSet(h.rdma[i].ports) : p.state = "ACTIVE" } : i \in { j \in DOMAIN h.rdma : h.rdma[j].bdf = n } }
Up(n) == { i \in DOMAIN h.net : h.net[i].bdf = n /\ h.net[i].state = "up" }

\* A NIC with an active RDMA port shows the fastest of them, whatever else is
\* on it and in whatever order it was listed (build.go:127-147).
FastestActive ==
  \A n \in DOMAIN nics : Active(n) # {} =>
    /\ nics[n].port.src = "rdma" /\ nics[n].port.up
    /\ nics[n].port.gbps = Max({ p.gbps : p \in Active(n) })

\* A NIC of which no state is shown has no working port the reader knows of:
\* nic-port UNKNOWN is never said of a NIC that works (build.go:145-159).
UnknownHidesNoWorkingPort ==
  \A n \in DOMAIN nics : ~nics[n].port.known => Active(n) = {} /\ Up(n) = {}

\* A NIC shown as down has no working port, its interfaces aside as long as an
\* RDMA port speaks for it: nic-port FAIL is never said for nothing.
DownIsDown ==
  \A n \in DOMAIN nics : nics[n].port.known /\ ~nics[n].port.up =>
    Active(n) = {} /\ (nics[n].port.src = "net" => Up(n) = {})

\* The same host gives the same report (docs/plan/data-path-v2.md:267).
SameHostSameReport == pc = "done" /\ first # {} => first = {Result}
=============================================================================
