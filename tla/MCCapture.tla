------------------------------ MODULE MCCapture ------------------------------
(***************************************************************************)
(* A root port 1 with a GPU 4 below it, a NUMA node, an RDMA device with a *)
(* port and an interface, both on a function 8 that is not listed.         *)
(***************************************************************************)
EXTENDS Capture

Attr(v) == File(Text(v))
PCI(d, name) == <<"pci", d, 0, name>>

Attributes(d, class, w, s) ==
  ( PCI(d, "vendor") :> Attr(1) ) @@ ( PCI(d, "class") :> Attr(class) )
  @@ ( PCI(d, "current_link_width") :> Attr(w) ) @@ ( PCI(d, "max_link_width") :> Attr(16) )
  @@ ( PCI(d, "current_link_speed") :> Attr(s) ) @@ ( PCI(d, "max_link_speed") :> Attr(320) )
  @@ ( PCI(d, "numa_node") :> Attr(0) ) @@ ( PCI(d, "config") :> Attr(d) )
Others ==
  ( <<"node", 0, 0, "cpulist">> :> Attr(7) )
  @@ ( <<"rdma", 1, 1, "rate">> :> Attr(400) ) @@ ( <<"rdma", 1, 1, "state">> :> Attr(4) )
  @@ ( <<"net", 1, 0, "speed">> :> Attr(400000) ) @@ ( <<"net", 1, 0, "operstate">> :> Attr(1) )

Links ==
  ( PCI(4, "driver") :> 31 ) @@ ( DevicePath("rdma", 1) :> 8 ) @@ ( DevicePath("net", 1) :> 8 )

Host(files) ==
  [ lists |-> {"pci", "node", "rdma", "net"},
    bus   |-> (1 :> [hb |-> "p0", chain |-> <<1>>]) @@ (4 :> [hb |-> "p0", chain |-> <<1, 4>>]),
    dirs  |-> {1, 4}, node |-> {0}, rdma |-> {1}, net |-> {1}, ports |-> (1 :> {1}),
    link  |-> Links, file |-> files @@ Others ]

Without(f, S) == [ x \in DOMAIN f \ S |-> f[x] ]
Gpu == { p \in DOMAIN Attributes(4, 302, 16, 320) : TRUE }

Healthy1 == Host(Attributes(1, 604, 16, 320) @@ Attributes(4, 302, 16, 320))
\* The link of the GPU has trained down; another driver has the GPU.
Retrained ==
  [ Host(Attributes(1, 604, 16, 320) @@ Attributes(4, 302, 8, 160)) EXCEPT
      !.link = PCI(4, "driver") :> 32 @@ @,
      !.file = (<<"rdma", 1, 1, "state">> :> Attr(1)) @@ @ ]
\* The GPU is removed, the RDMA device has no port any more.
Removed ==
  [ Healthy1 EXCEPT !.bus = Without(@, {4}), !.dirs = {1}, !.ports = (1 :> {}),
      !.file = Without(@, Gpu), !.link = Without(@, {PCI(4, "driver")}) ]
\* The GPU is off the bus: still listed, its registers read as ones.
OffTheBus ==
  [ Healthy1 EXCEPT !.file =
      ( PCI(4, "current_link_width") :> Attr(63) ) @@ ( PCI(4, "current_link_speed") :> Attr(Word) )
      @@ ( PCI(4, "config") :> Attr(255) ) @@ ( <<"net", 1, 0, "speed">> :> [kind |-> "einval", text |-> Text(0)] ) @@ @ ]
\* A fixture in pieces: a directory is gone though its link is not, a FIFO, a
\* file nobody may open, one with a NUL and one that is empty, a link that
\* leaves the tree, no ports.
Broken ==
  [ Healthy1 EXCEPT
      !.bus = (9 :> [hb |-> "", chain |-> <<>>]) @@ (8 :> [hb |-> "p0", chain |-> <<1, 8>>]) @@ @,
      !.ports = <<>>, !.link = ( PCI(4, "physfn") :> 0 ) @@ ( DevicePath("net", 1) :> 0 ) @@ @,
      !.file = ( PCI(4, "vendor") :> [kind |-> "denied", text |-> Text(1)] ) @@ ( PCI(4, "current_link_width") :> [kind |-> "fifo", text |-> Text(2)] )
               @@ ( PCI(4, "numa_node") :> Attr(Nul) ) @@ ( PCI(4, "subsystem_vendor") :> Attr(Garbage) )
               @@ ( PCI(4, "aer_dev_correctable") :> Attr(3) ) @@ ( <<"node", 0, 0, "cpulist">> :> Attr(Blank) ) @@ @ ]

\* The GPU is being removed: still listed, its directory is gone.  The files of
\* the others are as long as a file may be, and longer.
AtLimit(says, long, room) == File(TextOf(says, long, room))
Leaving ==
  [ Healthy1 EXCEPT !.dirs = {1}, !.link = Without(@, {PCI(4, "driver")}),
      !.file = ( PCI(1, "vendor") :> AtLimit(1, FALSE, FALSE) ) @@ ( PCI(1, "numa_node") :> AtLimit(0, TRUE, TRUE) )
               @@ ( PCI(1, "aer_dev_correctable") :> AtLimit(3, TRUE, FALSE) )
               @@ ( PCI(1, "config") :> AtLimit(1, TRUE, FALSE) )
               @@ ( <<"node", 0, 0, "cpulist">> :> AtLimit(Longest, FALSE, FALSE) )
               @@ ( <<"rdma", 1, 1, "state">> :> AtLimit(4, TRUE, TRUE) )
               @@ ( <<"net", 1, 0, "operstate">> :> AtLimit(1, FALSE, FALSE) ) @@ Without(@, Gpu) ]

MCTrees == <<Healthy1, Retrained, Removed, OffTheBus, Broken, Leaving>>
MCOlds == {NoTree, [Retrained EXCEPT !.bus = (7 :> [hb |-> "p0", chain |-> <<7>>]) @@ @]}

\* The links keep their maxima, as the theorem about DegradedWasReal asks.
ASSUME MaximaAssumption == SteadyMaxima

Config(type) == [NoConfig EXCEPT !.read = TRUE, !.type = type, !.ext = TRUE, !.acs = type = 4]
MCImage ==
  (1 :> Config(4)) @@ (4 :> Config(0)) @@ (255 :> Config(Unread)) @@ (Blank :> [NoConfig EXCEPT !.read = TRUE])

\* The vendor of the GPU and of the bridge is 1; the function of a vendor 3 is an
\* adapter with an entry in the device table.
MCTable == 3 :> [NoEntry EXCEPT !.role = "nic"]
ASSUME TableAssumption == Unread \notin DOMAIN Table \cup Nvidia

Legibles == <<Healthy1>>
OnlyEmpty == {NoTree}
=============================================================================
