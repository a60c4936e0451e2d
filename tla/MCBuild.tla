------------------------------- MODULE MCBuild -------------------------------
EXTENDS Build, MCHosts

Drop(f, S) == [ d \in DOMAIN f \ S |-> f[d] ]

\* The rows and columns of the topo matrix: GPU 0 and 1, NIC 100 and 101.  nvidia-smi
\* agrees with sysfs or says PHB for the near NIC.
Topo(near) ==
  [ rel  |-> (<<0, 1>> :> LocPIX)
               @@ (<<0, 100>> :> near) @@ (<<0, 101>> :> LocSYS),
    cols |-> (100 :> "mlx5_0") @@ (101 :> "mlx5_1") ]

\* Any bridges may be missing in the listing, a port may redirect.
MCHostSet ==
  { [ Host([Drop(Base, S) EXCEPT ![7].cfg.ctl = ctl], "ACTIVE", Ether) EXCEPT !.topo = Topo(near) ] :
      S \in SUBSET {1, 2, 3, 5}, ctl \in {{}, {"RequestRedirect"}}, near \in {LocPIX, LocPHB} }
  \cup
  { [ Host(Drop([Base EXCEPT ![3].cfg.ctl = {"EgressControl"}], S), "DOWN", <<>>) EXCEPT !.topo = Topo(LocPIX) ] :
      S \in SUBSET {2, 5, 7} }

\* Hosts without a GPU: the near NIC has any two RDMA ports, each on a device of
\* its own, and any two interfaces, in any order; the far one has others.
Lists(S) == UNION { [1..k -> S] : k \in 0..2 }
PortLists == Lists([gbps : {0, 100, 400}, state : {"ACTIVE", "DOWN", "INIT", ""}])
NetLists == Lists([bdf : {8}, state : {"up", "down", ""}, mbps : {0, 2500, 400000}])
Far == [name |-> 9, bdf |-> 21, ports |-> <<[gbps |-> 200, state |-> "ACTIVE"], [gbps |-> 100, state |-> "ACTIVE"]>>]
MCPorts ==
  { [ Host(Drop(Base, {4, 6}), "ACTIVE", net \o <<[bdf |-> 21, state |-> "up", mbps |-> 1000]>>) EXCEPT
        !.rdma = <<Far>> \o [ i \in DOMAIN ports |-> [name |-> i, bdf |-> 8, ports |-> <<ports[i]>>] ] ] :
      ports \in PortLists, net \in NetLists }

MCHostsAll == MCHostSet \cup MCPorts

\* Both RDMA devices are on the near NIC; of its two columns one contradicts sysfs.
TwoColumns ==
  { [ Host([Base EXCEPT ![7].cfg.ctl = ctl], "ACTIVE", Ether) EXCEPT !.rdma[2].bdf = 8, !.topo = Topo(near) ] :
      ctl \in {{}, {"RequestRedirect"}}, near \in {LocPIX, LocPHB} }
=============================================================================
