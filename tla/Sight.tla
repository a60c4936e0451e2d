-------------------------------- MODULE Sight --------------------------------
(***************************************************************************)
(* What the report says of a host of which a part could not be read.       *)
(*                                                                         *)
(* `truth` is the host with every attribute readable.  One attribute after *)
(* the other stops being readable (no permission, no data, a malformed     *)
(* value, a device directory that was not listed), as internal/sysfs       *)
(* reports it: with a status next to a zero, never with a value.  The      *)
(* properties compare the checks of what is seen with those of the truth.  *)
(***************************************************************************)
EXTENDS Checks

CONSTANTS
  Truths,    \* hosts, see Checks
  Losable,   \* <<where, attribute>> that may become unreadable; where is
             \* <<address>> of a function or <<device, port>> of an RDMA port
  MaxLost    \* bound on the number of unreadable attributes

\* What sysfs says of a function all of which can be read.
FunctionType ==
  [ chain : Seq(Int), hb : STRING \ {""}, vf : BOOLEAN, class : STRING, numa : Int, aer : Int,
    entry : [role : STRING, nvlink : BOOLEAN, gbps : Nat],
    link  : [w : Nat, s : Nat, mw : Nat \ {0}, ms : Nat \ {0}],
    cfg   : [read : BOOLEAN, type : Int, mps : Nat, ext : BOOLEAN, acs : BOOLEAN, ctl : SUBSET STRING] ]

\* The chains of resolve end in the function itself, lead to it through bridges
\* and belong to one tree, in which a function has one place.
IsTree(dev) ==
  \A d \in DOMAIN dev :
    LET c == dev[d].chain
    IN /\ c # <<>> /\ c[Len(c)] = d
       /\ \A i \in 1..(Len(c) - 1) : c[i] \in DOMAIN dev /\ Role(dev[c[i]]) = "bridge"
       /\ \A e \in DOMAIN dev : \A i \in 1..Len(c), j \in 1..Len(dev[e].chain) :
            c[i] = dev[e].chain[j] =>
              /\ dev[d].hb = dev[e].hb /\ i = j
              /\ \A k \in 1..i : c[k] = dev[e].chain[k]

\* A bridge is no virtual function and the device table agrees with its class;
\* only a function without a parent says that it is a root port.
IsHost(t) ==
  /\ DOMAIN t = {"dev", "rdma", "net", "smi", "nvlink", "topo"} /\ t = [x \in DOMAIN t |-> t[x]]
  /\ t.dev \in [DOMAIN t.dev -> FunctionType] /\ IsTree(t.dev)
  /\ \A d \in DOMAIN t.dev :
       /\ t.dev[d].class = "bridge" <=> Role(t.dev[d]) = "bridge"
       /\ t.dev[d].cfg.type = 4 => Len(t.dev[d].chain) = 1

ASSUME TruthAssumption == \A t \in Truths : IsHost(t)

VARIABLES truth, lost
vars == <<truth, lost>>

Init == truth \in Truths /\ lost = {}

Lose(x) ==
  /\ x \notin lost /\ Cardinality(lost) < MaxLost
  /\ lost' = lost \cup {x}
  /\ UNCHANGED truth

Next == \E x \in Losable : Lose(x)

Spec == Init /\ [][Next]_vars

-----------------------------------------------------------------------------
\* readAttributes: a function with the attributes in W not readable.  Without
\* its class a function has no complete IDs and is not looked up in the table;
\* an unprivileged reader gets 64 bytes of configuration space, no capability.
Dim(f, W) ==
  LET Seen(attr, value) == IF attr \in W THEN Unread ELSE value
  IN [ f EXCEPT
         !.link  = [ w  |-> Seen("w", @.w),   s  |-> Seen("s", @.s),
                     mw |-> Seen("mw", @.mw), ms |-> Seen("ms", @.ms) ],
         !.numa  = Seen("numa", @),
         !.aer   = Seen("aer", @),
         !.class = IF "class" \in W THEN "other" ELSE @,
         !.entry = IF "class" \in W THEN NoEntry ELSE @,
         !.cfg   = IF "config" \in W THEN NoConfig
                   ELSE IF "rootOnly" \in W THEN [NoConfig EXCEPT !.read = TRUE] ELSE @ ]

At(where) == { x[2] : x \in { y \in lost : y[1] = where } }

\* readRDMA: a port without its rate or state stays in the list.
DimPort(p, W) ==
  [ gbps |-> IF "rate" \in W THEN 0 ELSE p.gbps, state |-> IF "state" \in W THEN "" ELSE p.state ]

\* The host Read returns.
Seen ==
  [ truth EXCEPT
      !.dev  = [ d \in { e \in DOMAIN truth.dev : "listed" \notin At(<<e>>) } |->
                   Dim(truth.dev[d], At(<<d>>)) ],
      !.rdma = [ i \in DOMAIN truth.rdma |->
                   [ truth.rdma[i] EXCEPT
                       !.ports = [ j \in DOMAIN @ |-> DimPort(@[j], At(<<i, j>>)) ] ] ] ]

SeenChecks == ChecksFor(Seen)
SeenGpus == Gpus(Seen.dev)

-----------------------------------------------------------------------------
(* The truth, told without the operators of Path and Checks. *)

Healthy(d) ==
  LET chain == truth.dev[d].chain
      own == truth.dev[d].link
      up == truth.dev[chain[Len(chain) - 1]].link
  IN /\ own.w >= own.mw \/ own.w >= up.mw
     /\ own.s >= own.ms \/ own.s >= up.ms

Redirects(d) ==
  /\ truth.dev[d].class = "bridge" /\ truth.dev[d].cfg.acs
  /\ \E bit \in {"RequestRedirect", "CompletionRedirect", "EgressControl"} :
        bit \in truth.dev[d].cfg.ctl

\* The functions on the way between two functions below one root port.
Between(a, b) ==
  LET ca == ToSet(truth.dev[a].chain)
      cb == ToSet(truth.dev[b].chain)
  IN IF ca \cap cb = {} THEN {} ELSE (ca \ cb) \cup (cb \ ca)

-----------------------------------------------------------------------------
\* gpu-link and upstream-links say PASS only of links that really run at what
\* both ends can do, whatever of them was not read except what they can do at
\* most: with an unread maximum the comparison is skipped and PASS may be
\* wrong, which LoseCurrent leaves out (checks.go:25-59, build.go:89-99,
\* README.md:89-90).
LinkPassSound ==
  \A g \in SeenGpus :
    /\ SeenChecks[g].gpu_link = "PASS" => Healthy(g)
    /\ SeenChecks[g].upstream_links = "PASS" =>
         \A i \in 2..(Len(truth.dev[g].chain) - 1) : Healthy(truth.dev[g].chain[i])

\* p2p-acs says PASS only when no bridge on the way to a PCIe peer of the
\* report redirects, whether the bridge was listed or not and whether its
\* configuration space was read whole, cut to 64 bytes or not read at all
\* (checks.go:102-128, locality.go:175-190). Two losses are left out, and with
\* either PASS may be wrong: an unread class, and an image cut after its first
\* extended header but before the control bits of ACS (pci.go:417-428).
AcsPassSound ==
  \A g \in SeenGpus :
    SeenChecks[g].p2p_acs = "PASS" =>
      \A o \in SeenGpus \ {g} : \A d \in Between(g, o) : ~Redirects(d)

\* p2p-acs fails only for a redirect on the way to some peer (locality.go:186).
AcsFailSound ==
  \A g \in SeenGpus :
    SeenChecks[g].p2p_acs = "FAIL" =>
      \E o \in SeenGpus \ {g} : \E d \in Between(g, o) : Redirects(d)

SeenCapacity(g, n) ==
  Capacity(AllDevices(Seen), AllLinks(Seen), g, n, NicOf(Seen, n).port.gbps)

\* The slowest of the links on the true way, roots aside, and of a port rate.
Slowest(g, n, gbps) ==
  LET cg == truth.dev[g].chain
      cn == truth.dev[n].chain
      way == ((ToSet(cg) \cup ToSet(cn)) \ (ToSet(cg) \cap ToSet(cn))) \ {cg[1], cn[1]}
  IN Min({ truth.dev[d].link.w * LaneMBps(truth.dev[d].link.s) : d \in way } \cup { gbps * 125 })

\* As long as the chain of the NIC is listed, the capacity is that of the
\* slowest hop or not known, also when bridges of the GPU's chain are missing
\* or a link was not read (locality.go:61-158, build.go:241-249).
CapacityExactOrZero ==
  \A g \in SeenGpus, n \in Nics(Seen.dev) :
    ToSet(truth.dev[n].chain) \subseteq DOMAIN Seen.dev =>
      SeenCapacity(g, n) \in {0, Slowest(g, n, NicOf(Seen, n).port.gbps)}

=============================================================================
