------------------------------- MODULE SysFiles -------------------------------
(***************************************************************************)
(* What internal/sysfs makes of a sysfs tree, live or captured: the        *)
(* outcome of one file, the meaning of one attribute, the host a tree that *)
(* holds still stands for, and the input the path model gets from a host.  *)
(*                                                                         *)
(* A tree t has                                                            *)
(*   t.lists  the class directories that can be listed                     *)
(*   t.bus    name in bus/pci/devices -> [hb, chain] its symlink spells;   *)
(*            no chain: a link or a name that resolve refuses              *)
(*   t.dirs   the functions whose directory exists                         *)
(*   t.node, t.rdma, t.net   the names in those class directories          *)
(*   t.ports  RDMA device -> its port directories                          *)
(*   t.link   path -> base name of a symlink, 0 for one that is refused    *)
(*   t.file   path -> [kind, text] of a file                               *)
(* A path is <<class, device, port, name>>.  Of a text there is            *)
(*   text.says  what its first MaxAttrBytes spell without the white space  *)
(*              around: a number, or one of the five below                 *)
(*   text.long  it has more than MaxAttrBytes                              *)
(*   text.room  they end in a line end, or there is room for one           *)
(***************************************************************************)
EXTENDS Checks

CONSTANTS
  Image,   \* content of a config file -> what ParseConfig finds in it
  Table,   \* the device table: vendor -> entry; a vendor is one with its device
  Nvidia   \* the vendors that are VendorNVIDIA

Blank == -10     \* nothing but white space
Nul == -11       \* there is a NUL
Garbage == -12   \* does not parse
Word == -13      \* "Unknown", the kernel's word for a link it cannot tell
Longest == -14   \* a CPU list of MaxAttrBytes characters

\* A text, and the one of an attribute as the kernel writes it, far below the limit.
TextOf(says, long, room) == [says |-> says, long |-> long, room |-> room]
Text(v) == TextOf(v, FALSE, TRUE)

-----------------------------------------------------------------------------
(* One file. *)

Fault(st) == [st |-> st]
Read(v) == [st |-> "ok", val |-> v]

\* Files by what becomes of them: "denied" cannot be opened, "einval" and
\* "eio" fail when read, a "fifo" is nothing to read at all.
Regular(f) == f.kind # "fifo"

\* readFile after the open: the status of the read, or the text.
Content(f) ==
  IF ~Regular(f) \/ f.kind = "eio" THEN Fault("unreadable")
  ELSE IF f.kind = "einval" THEN Fault("nodata") ELSE Read(f.text)

\* readFile in a tree that holds still.
FileOf(t, p) ==
  IF p \notin DOMAIN t.file THEN Fault("missing")
  ELSE IF t.file[p].kind = "denied" THEN Fault("permission") ELSE Content(t.file[p])

ValidWidths == {1, 2, 4, 8, 12, 16, 32}
ValidSpeeds == 1..10009

\* hex, readWidth, ParseSpeed, readAER and the range of numa_node.
Parses(name, v) ==
  CASE name \in {"current_link_width", "max_link_width"} -> v \in ValidWidths
    [] name \in {"current_link_speed", "max_link_speed"} -> v \in ValidSpeeds
    [] name = "numa_node" -> v \in -1..4095
    [] OTHER -> v >= 0

\* A link that is down has width 0 or "Unknown".
NoLinkNow(name, v) ==
  \/ name \in {"current_link_width", "max_link_width"} /\ v \in {0, Word}
  \/ name \in {"current_link_speed", "max_link_speed"} /\ v \in {0, Word}

\* Attributes whose text is kept as it is; a rate, speed or state nobody knows
\* is a value like another until the ports are compared.
Verbatim == {"config", "cpulist", "rate", "state", "speed", "operstate"}

\* Mutant of Meaning: what does not parse is zero.
MeaningOrZero(name, text) == Read(IF Parses(name, text.says) THEN text.says ELSE 0)

\* readAttr and the parser of the attribute.  The configuration space is cut
\* to its limit, and an empty one is an image like another.
Meaning(name, text) ==
  LET v == text.says
  IN IF name = "config" THEN Read(v)
     ELSE IF text.long \/ v = Nul THEN Fault("malformed")
     ELSE IF v = Blank \/ NoLinkNow(name, v) THEN Fault("nodata")
     ELSE IF name \in Verbatim \/ Parses(name, v) THEN Read(v) ELSE Fault("malformed")

Understood(p, r) == IF r.st = "ok" THEN Meaning(p[4], r.val) ELSE r

-----------------------------------------------------------------------------
(* The files of a host, in the order they are read.  The attribute device   *)
(* is read as vendor is, subsystem_device and revision as subsystem_vendor; *)
(* phys_state, link_layer and carrier are read for display only.            *)

IDFiles == <<"vendor", "class", "subsystem_vendor">>
LinkFiles == << "current_link_width", "max_link_width", "current_link_speed", "max_link_speed",
                "numa_node", "aer_dev_correctable", "config" >>
Symlinks == <<"driver", "physfn">>
PortFiles == <<"rate", "state">>
NetFiles == <<"speed", "operstate">>

\* The elements of a set of numbers from the least to the greatest.
InOrder(S) == [ i \in 1..Cardinality(S) |-> CHOOSE x \in S : Cardinality({ y \in S : y < x }) = i - 1 ]

\* The attributes that go to Host.Problems when they are not read: the required
\* ones whatever happened, an optional ID unless it is just not there.
Reported(p, st) ==
  /\ st # "ok"
  /\ \/ p[4] \in {"vendor", "class", "cpulist", "rate", "state"}
     \/ p[4] = "subsystem_vendor" /\ st # "missing"

\* resolve: the symlink is one the reader follows and every directory on the
\* way is there.
Resolves(t, d) == t.bus[d].chain # <<>> /\ ToSet(t.bus[d].chain) \subseteq t.dirs

\* The base name of a symlink, 0 when there is none that may be followed.
BaseOf(t, p) == IF p \in DOMAIN t.link THEN t.link[p] ELSE 0

\* A driver is the base name of its link; a physfn of any kind is enough.
Shown(t, p) == IF p[4] = "physfn" THEN p \in DOMAIN t.link ELSE BaseOf(t, p) # 0

DevicePath(class, x) == <<class, x, 0, "device">>
Bound(t, class) ==
  IF class \in t.lists
    THEN { x \in (IF class = "rdma" THEN t.rdma ELSE t.net) : BaseOf(t, DevicePath(class, x)) # 0 }
    ELSE {}

\* Read of a tree that holds still: the functions with their chains, the
\* outcome of every file, the symlinks, the ports, and the other problems.
ReadTree(t) ==
  LET devs == IF "pci" \in t.lists THEN { d \in DOMAIN t.bus : Resolves(t, d) } ELSE {}
      rdma == Bound(t, "rdma")
      ports == [ r \in rdma |-> IF r \in DOMAIN t.ports THEN t.ports[r] ELSE {} ]
      files == { <<"pci", d, 0, a>> : d \in devs, a \in ToSet(IDFiles \o LinkFiles) }
        \cup (IF "node" \in t.lists THEN { <<"node", n, 0, "cpulist">> : n \in t.node } ELSE {})
        \cup (UNION { { <<"rdma", r, i, a>> : i \in ports[r], a \in ToSet(PortFiles) } : r \in rdma })
        \cup { <<"net", n, 0, a>> : n \in Bound(t, "net"), a \in ToSet(NetFiles) }
      links == { <<"pci", d, 0, a>> : d \in devs, a \in ToSet(Symlinks) }
        \cup { DevicePath("rdma", r) : r \in rdma } \cup { DevicePath("net", n) : n \in Bound(t, "net") }
  IN [ dev  |-> [ d \in devs |-> t.bus[d] ],
       val  |-> [ p \in files |-> Understood(p, FileOf(t, p)) ],
       link |-> [ p \in { l \in links : Shown(t, l) } |-> t.link[p] ],
       rdma |-> ports,
       net  |-> Bound(t, "net"),
       bad  |-> (IF "pci" \in t.lists THEN { <<"bus", d>> : d \in DOMAIN t.bus \ devs } ELSE {<<"bus", 0>>})
                \cup (IF "rdma" \in t.lists THEN { <<"rdma", r>> : r \in t.rdma \ rdma } ELSE {})
                \cup { <<"ports", r>> : r \in rdma \ DOMAIN t.ports } ]

\* Host.Problems: what was not read is in it unless its absence is normal.
Problems(h) == h.bad \cup { p \in DOMAIN h.val : Reported(p, h.val[p].st) }

-----------------------------------------------------------------------------
(* From the host of the reader to the one of the path model. *)

ValueOf(h, p) == IF p \in DOMAIN h.val /\ h.val[p].st = "ok" THEN h.val[p].val ELSE Unread

ClassOf(code) ==
  CASE code = 604 -> "bridge" [] code = 302 -> "display" [] code = 200 -> "network" [] OTHER -> "other"

\* A vendor and a class that were read may be in the device table; a display
\* function is a GPU of NVIDIA's only.
FunctionOf(h, d) ==
  LET V(name) == ValueOf(h, <<"pci", d, 0, name>>)
      known == V("class") # Unread /\ V("vendor") \in DOMAIN Table
      class == ClassOf(V("class"))
  IN [ chain |-> h.dev[d].chain, hb |-> h.dev[d].hb,
       vf    |-> <<"pci", d, 0, "physfn">> \in DOMAIN h.link,
       entry |-> IF known THEN Table[V("vendor")] ELSE NoEntry,
       class |-> IF class = "display" /\ V("vendor") \notin Nvidia THEN "other" ELSE class,
       link  |-> [ w  |-> V("current_link_width"), mw |-> V("max_link_width"),
                   s  |-> V("current_link_speed"), ms |-> V("max_link_speed") ],
       numa  |-> V("numa_node"), aer |-> V("aer_dev_correctable"),
       cfg   |-> IF V("config") = Unread THEN NoConfig ELSE Image[V("config")] ]

\* parseRate and the speed of readNet: not a positive number, no rate.
Positive(v) == IF v > 0 THEN v ELSE 0
\* afterColon("4: ACTIVE"), and the operstate.
PortState(v) == CASE v = 4 -> "ACTIVE" [] v = Unread -> "" [] OTHER -> "DOWN"
NetState(v) == CASE v = 1 -> "up" [] v = Unread -> "" [] OTHER -> "down"

NoTopo == [rel |-> <<>>, cols |-> <<>>]

\* The input of Build without nvidia-smi.
PathHost(h) ==
  LET rdma == InOrder(DOMAIN h.rdma)
      net == InOrder(h.net)
      PortsOf(r) ==
        LET n == InOrder(h.rdma[r])
        IN [ i \in DOMAIN n |->
               [ gbps  |-> Positive(ValueOf(h, <<"rdma", r, n[i], "rate">>)),
                 state |-> PortState(ValueOf(h, <<"rdma", r, n[i], "state">>)) ] ]
  IN [ dev    |-> [ d \in DOMAIN h.dev |-> FunctionOf(h, d) ],
       rdma   |-> [ i \in DOMAIN rdma |->
                      [ name |-> rdma[i], bdf |-> h.link[DevicePath("rdma", rdma[i])],
                        ports |-> PortsOf(rdma[i]) ] ],
       net    |-> [ i \in DOMAIN net |->
                      [ bdf   |-> h.link[DevicePath("net", net[i])],
                        state |-> NetState(ValueOf(h, <<"net", net[i], 0, "operstate">>)),
                        mbps  |-> Positive(ValueOf(h, <<"net", net[i], 0, "speed">>)) ] ],
       smi    |-> <<>>, nvlink |-> <<>>, topo |-> NoTopo ]
=============================================================================
