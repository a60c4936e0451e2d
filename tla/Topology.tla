------------------------------ MODULE Topology ------------------------------
(***************************************************************************)
(* Locality and path links over every PCIe hierarchy of a few functions.   *)
(*                                                                         *)
(* The hierarchy grows the way PCIe is built: root ports below host        *)
(* bridges, below a port either one upstream port of a switch or the       *)
(* functions of one endpoint, downstream ports below an upstream port.     *)
(* What the code reads of it are the chains of internal/sysfs resolve;     *)
(* what the properties say of it is in terms of switches and edges.        *)
(***************************************************************************)
EXTENDS Path

CONSTANTS
  HostBridges,  \* the pciDDDD:BB directories
  MaxFunctions, \* bound on the number of functions
  MaxShared     \* bound on the functions of one endpoint

ASSUME BoundAssumption ==
  MaxFunctions \in Nat /\ MaxShared \in Nat /\ "" \notin HostBridges

VARIABLES
  kind,    \* function -> "root", "up", "down" or "end"
  parent,  \* function -> the port above it, 0 for a root port
  hb       \* function -> its host bridge
topologyVars == <<kind, parent, hb>>

Functions == 1..Len(kind)
Children(d) == { c \in Functions : parent[c] = d }

TopologyInit == kind = <<>> /\ parent = <<>> /\ hb = <<>>

\* Functions appear level by level, so that each hierarchy is built once.
Add(k, p, b) ==
  /\ Len(kind) < MaxFunctions
  /\ \A d \in Functions : parent[d] <= p
  /\ kind' = Append(kind, k) /\ parent' = Append(parent, p) /\ hb' = Append(hb, b)

AddRoot(b) == Add("root", 0, b)

AddSwitch(p) ==
  kind[p] \in {"root", "down"} /\ Children(p) = {} /\ Add("up", p, hb[p])

AddDownstream(p) == kind[p] = "up" /\ Add("down", p, hb[p])

AddEndpoint(p) ==
  /\ kind[p] \in {"root", "down"}
  /\ \A c \in Children(p) : kind[c] = "end"
  /\ Cardinality(Children(p)) < MaxShared
  /\ Add("end", p, hb[p])

TopologyNext ==
  \/ \E b \in HostBridges : AddRoot(b)
  \/ \E p \in Functions : AddSwitch(p) \/ AddDownstream(p) \/ AddEndpoint(p)

TopologySpec == TopologyInit /\ [][TopologyNext]_topologyVars

-----------------------------------------------------------------------------
\* The chain resolve finds: every function from the root port down to d.
Chain(d) ==
  LET up[e \in 0..Len(kind)] == IF e = 0 THEN <<>> ELSE Append(up[parent[e]], e)
  IN up[d]

\* What readPCI lists.
Devs ==
  [ d \in Functions |->
      [Bare EXCEPT !.chain = Chain(d), !.hb = hb[d],
                   !.class = IF kind[d] = "end" THEN "display" ELSE "bridge"] ]

Ends == { d \in Functions : kind[d] = "end" }

-----------------------------------------------------------------------------
\* d or a function below it.
Holds(d, a) == \E i \in DOMAIN Devs[a].chain : Devs[a].chain[i] = d

\* The switches, named by their upstream port, a transfer from a to b crosses:
\* those with a port on the way.  The lowest port above both ends is one.
SwitchOf(p) == IF kind[p] = "down" THEN parent[p] ELSE p
OnTheWay(a, b) ==
  LET apart == { d \in Functions \ {a, b} : Holds(d, a) # Holds(d, b) }
      both == { d \in Functions : Holds(d, a) /\ Holds(d, b) }
  IN apart \cup { d \in both : \A e \in both : Len(Chain(e)) <= Len(Chain(d)) }
SwitchesCrossed(a, b) == { SwitchOf(p) : p \in { q \in OnTheWay(a, b) : kind[q] # "root" } }

\* PIX, PXB and PHB mean what the documentation says: at most one switch,
\* several switches below one root port, different root ports of one host
\* bridge (locality.go:12-37; docs/architecture.md:59-60).
LocalityCountsSwitches ==
  \A a, b \in Ends :
    a # b /\ hb[a] = hb[b] =>
      LET one == \E r \in Functions : kind[r] = "root" /\ Holds(r, a) /\ Holds(r, b)
      IN Classify(Devs, a, b) =
           IF ~one THEN LocPHB
           ELSE IF Cardinality(SwitchesCrossed(a, b)) <= 1 THEN LocPIX ELSE LocPXB

\* The links between two functions are the edges of the hierarchy that part
\* them: each is named once, none is missed, and crossing the root complex
\* adds none (locality.go:58-79).
LinksPartTheEnds ==
  \A a, b \in Ends :
    a # b => PathLinks(Devs, a, b) =
               { d \in Functions : kind[d] # "root" /\ Holds(d, a) # Holds(d, b) }
=============================================================================
