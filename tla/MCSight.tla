------------------------------- MODULE MCSight -------------------------------
EXTENDS Sight, MCHosts

With(d, f) == [Base EXCEPT ![d] = f]

\* Healthy; a GPU or a switch link trained down in width or in speed; a slot
\* narrower than the GPU; a slow way to the near NIC; a redirecting port.
MCTruths ==
  { Host(dev, "ACTIVE", Ether) : dev \in {
      Base,
      With(4, [Base[4] EXCEPT !.link.w = 8]),
      With(4, [Base[4] EXCEPT !.link.s = 160]),
      With(2, [Base[2] EXCEPT !.link.w = 8]),
      [Base EXCEPT ![3] = [@ EXCEPT !.link.mw = 8], ![4] = [@ EXCEPT !.link.w = 8]],
      With(7, [Base[7] EXCEPT !.link = Narrow]),
      With(5, [Base[5] EXCEPT !.cfg.ctl = {"RequestRedirect"}]),
      With(3, [Base[3] EXCEPT !.cfg.ctl = {"EgressControl"}]) } }
  \cup { Host(Base, near, net) : near \in {"ACTIVE", "DOWN"}, net \in {<<>>, Ether} }

Functions(attrs) == { << <<d>>, a >> : d \in DOMAIN Base, a \in attrs }
Bridges(attrs) == { << <<d>>, a >> : d \in {1, 2, 3, 5, 7}, a \in attrs }
Ports(attrs) == { << <<i, 1>>, a >> : i \in {1, 2}, a \in attrs }

\* Everything an unprivileged, racing or partial read may miss, the maxima of
\* the links and the class of a function aside.
LoseCurrent ==
  Bridges({"listed", "rootOnly", "w"}) \cup Ports({"state", "rate"})
  \cup { << <<d>>, a >> : d \in {4, 8}, a \in {"s", "config", "numa"} }
LoseMaxima == Functions({"mw", "ms"})
=============================================================================
