----------------------------- MODULE MCConfigSpace -----------------------------
EXTENDS ConfigSpace, TLC

\* Three places for capabilities and three for extended ones.  A pointer may
\* lead to each of them, to nothing, or below the list.
StdPlaces == {32, 36, 126}
ExtPlaces == {128, 132, 140}

StdEntries ==
  [id : {"pcie"}, next : StdPlaces \cup {0, 16}, type : {5}, mps : {256}]
  \cup [id : {"other"}, next : StdPlaces \cup {0, 16}, type : {0}, mps : {0}]
ExtEntries ==
  [id : {"acs"}, next : ExtPlaces \cup {0}, able : {{"RequestRedirect"}}, ctl : {{"SourceValidation"}}]
  \cup [id : {"other"}, next : ExtPlaces \cup {0, 16}, able : {{}}, ctl : {{}}]
  \cup {NoHeader}

OneStd == 32 :> [id |-> "pcie", next |-> 0, type |-> 5, mps |-> 256]
OneExt == 128 :> [id |-> "acs", next |-> 0, able |-> {}, ctl |-> {"SourceValidation"}]

MCImages ==
  [caps : BOOLEAN, head : StdPlaces \cup {0, 16}, std : [StdPlaces -> StdEntries], ext : {OneExt}]
  \cup [caps : {TRUE}, head : {32}, std : {OneStd}, ext : [ExtPlaces -> ExtEntries]]

\* Nothing, what an unprivileged reader gets, ends around the entries, all.
MCLengths == {16, 32, 33, 36, 37, 128, 130, 135, 142, 143, 2048}

ASSUME TurnsAssumption == EnoughTurns
=============================================================================
