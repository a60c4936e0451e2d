------------------------------- MODULE MCHosts -------------------------------
(***************************************************************************)
(* One switch below a root port with two GPUs and a NIC, and a NIC below   *)
(* the root port of another socket.                                        *)
(*                                                                         *)
(*   p0: 1 root - 2 upstream -+- 3 downstream - 4 GPU                      *)
(*                            +- 5 downstream - 6 GPU                      *)
(*                            +- 7 downstream - 8 NIC                      *)
(*   p1: 20 root - 21 NIC                                                  *)
(***************************************************************************)
EXTENDS Checks

Full == [w |-> 16, s |-> 320, mw |-> 16, ms |-> 320]
Narrow == [w |-> 8, s |-> 320, mw |-> 8, ms |-> 320]
Config(type, ctl) ==
  [read |-> TRUE, type |-> type, mps |-> 256, ext |-> TRUE, acs |-> TRUE, ctl |-> ctl]
Fn(chain, hb, class, numa, type) ==
  [ chain |-> chain, hb |-> hb, vf |-> FALSE, entry |-> NoEntry, class |-> class,
    link |-> Full, numa |-> numa, aer |-> 0, cfg |-> Config(type, {"SourceValidation"}) ]

Base ==
  (1 :> Fn(<<1>>, "p0", "bridge", 0, 4)) @@ (2 :> Fn(<<1, 2>>, "p0", "bridge", 0, 5))
  @@ (3 :> Fn(<<1, 2, 3>>, "p0", "bridge", 0, 6)) @@ (4 :> Fn(<<1, 2, 3, 4>>, "p0", "display", 0, 0))
  @@ (5 :> Fn(<<1, 2, 5>>, "p0", "bridge", 0, 6)) @@ (6 :> Fn(<<1, 2, 5, 6>>, "p0", "display", 0, 0))
  @@ (7 :> Fn(<<1, 2, 7>>, "p0", "bridge", 0, 6)) @@ (8 :> Fn(<<1, 2, 7, 8>>, "p0", "network", 0, 0))
  @@ (20 :> Fn(<<20>>, "p1", "bridge", 1, 4)) @@ (21 :> Fn(<<20, 21>>, "p1", "network", 1, 0))

Ether == <<[bdf |-> 8, state |-> "up", mbps |-> 100000]>>

Host(dev, near, net) ==
  [ dev    |-> dev,
    rdma   |-> << [name |-> "mlx5_0", bdf |-> 8, ports |-> <<[gbps |-> 400, state |-> near]>>],
                  [name |-> "mlx5_1", bdf |-> 21, ports |-> <<[gbps |-> 400, state |-> "ACTIVE"]>>] >>,
    net    |-> net,
    smi    |-> (4 :> [index |-> 0, uuid |-> "u0"]) @@ (6 :> [index |-> 1, uuid |-> "u1"]),
    nvlink |-> "u0" :> [up |-> 1, all |-> 2],
    topo   |-> [rel |-> <<>>, cols |-> <<>>] ]
=============================================================================
