------------------------------ MODULE MCCommands ------------------------------
(***************************************************************************)
(* Two GPUs, 4 and 6, below root ports of their own, and a function 9 that *)
(* is not a GPU to the reader.                                             *)
(***************************************************************************)
EXTENDS Commands

Fn(chain, class) ==
  [ chain |-> chain, hb |-> "p0", vf |-> FALSE, entry |-> NoEntry, class |-> class,
    link |-> [w |-> 16, s |-> 320, mw |-> 16, ms |-> 320], numa |-> 0, aer |-> 0, cfg |-> NoConfig ]
MCHost ==
  [ dev  |-> (1 :> Fn(<<1>>, "bridge")) @@ (3 :> Fn(<<3>>, "bridge"))
               @@ (4 :> Fn(<<1, 4>>, "display")) @@ (6 :> Fn(<<3, 6>>, "display")) @@ (9 :> Fn(<<9>>, "other")),
    rdma |-> <<>>, net |-> <<>>, smi |-> <<>>, nvlink |-> <<>>, topo |-> [rel |-> <<>>, cols |-> <<>>] ]

Smi(addr) == [form |-> "smi", addr |-> addr]
Row(index, uuid, addr) == [cols |-> 8, index |-> index, uuid |-> uuid, bus |-> Smi(addr)]
Rows ==
  { Row(1, "u4", 4), Row(0, "u6", 6), Row(2, "u4", 4), Row(3, "u7", 7), Row(4, "u9", 9) }
\* A row of seven columns, one with another kind of bus id, and a blank line.
OtherRows ==
  { [Row(1, "u4", 4) EXCEPT !.cols = 7], [Row(0, "u6", 6) EXCEPT !.bus.form = "other"],
    [Row(0, "", 0) EXCEPT !.cols = 0] }
Queries == SeqOf(Rows \cup OtherRows, 2)

Gpu(u) == [kind |-> "gpu", uuid |-> u]
Link(v) == [kind |-> "link", gbps |-> v]
LinkLines == { Gpu("u4"), Gpu("u6"), [kind |-> "odd"], Link(26), Link(0) }
\* nvidia-smi lists a GPU once.
NVLinks ==
  { s \in SeqOf(LinkLines, 3) :
      \A i, j \in DOMAIN s : i < j /\ s[i].kind = "gpu" => s[i] # s[j] }

\* GPU 0 and 1, NIC 100.
MCColumns == <<0, 1, 100>>
Head0 == [kind |-> "head", names |-> MCColumns]
Line(name, cells) == [kind |-> "row", name |-> name, cells |-> cells]
Row0 == Line(0, <<0, 2, 1>>)
Row1 == Line(1, <<2, 0, 5>>)
Legend == << [kind |-> "legend"], [kind |-> "name", col |-> 100, name |-> "mlx5_0"] >>
\* The last ones: without a header that is recognised, with a row that is cut,
\* without a matrix.
Topos ==
  { <<>>, <<Head0, Row0, Row1>>, <<Head0, Row1>> \o Legend,
    <<[kind |-> "odd"], Row0, Row1>>, << Head0, Row0, Line(1, <<2>>) >>, Legend }

MCTexts == [ query |-> Queries, nvlink |-> NVLinks, topo |-> Topos ]

MCKeys ==
  { NoKey, [kind |-> "bus", val |-> Smi(4)], [kind |-> "bus", val |-> [form |-> "other", addr |-> 6]],
    [kind |-> "uuid", val |-> "u6"], [kind |-> "index", val |-> 0], [kind |-> "index", val |-> 2], [kind |-> "index", val |-> -1] }
=============================================================================
