----------------------------- MODULE ConfigSpace -----------------------------
(***************************************************************************)
(* ParseConfig of internal/sysfs/pci.go: the walk of the two capability    *)
(* lists of a PCI configuration space, for images of any length and any    *)
(* pointers, cycles and pointers to nowhere included.                      *)
(*                                                                         *)
(* Positions and lengths count 16-bit words; the code masks every pointer  *)
(* to four bytes, so an entry starts at an even word.  Registers the data  *)
(* path does not use are left out.                                         *)
(***************************************************************************)
EXTENDS Integers, FiniteSets, FiniteSetsExt

CONSTANTS
  StdFirst,  \* 0x40, where the capabilities may start
  ExtFirst,  \* 0x100, where the extended capabilities start
  StdHops,   \* 48 turns of the first loop
  ExtHops,   \* 64 turns of the second one
  Images,    \* [caps, head, std, ext], see below
  Lengths    \* what may have been read of an image

ASSUME LayoutAssumption ==
  /\ StdFirst \in Nat \ {0} /\ ExtFirst \in Nat /\ StdFirst < ExtFirst
  /\ StdHops \in Nat /\ ExtHops \in Nat /\ Lengths \subseteq Nat

\* img.caps is status bit 4, img.head the pointer at 0x34, img.std and img.ext
\* map positions to entries; anywhere else the image is zero.
ASSUME ImageAssumption ==
  \A i \in Images :
    /\ i.caps \in BOOLEAN /\ i.head \in Nat
    /\ IsFiniteSet(DOMAIN i.std) /\ DOMAIN i.std \subseteq Nat
    /\ \A p \in DOMAIN i.std :
         i.std[p] \in [id : {"pcie", "other"}, next : Nat, type : Nat, mps : Nat]
    /\ IsFiniteSet(DOMAIN i.ext) /\ DOMAIN i.ext \subseteq Nat
    /\ \A p \in DOMAIN i.ext :
         i.ext[p] \in [id : {"acs", "other", "none"}, next : Nat, able : SUBSET STRING, ctl : SUBSET STRING]
\* Every place the first list can lead to is read in one of its turns: 48 are
\* as many as there are places between 0x40 and 0x100 (pci.go:399).
EnoughTurns == \A i \in Images : Cardinality(DOMAIN i.std) <= StdHops

Empty == [id |-> "other", next |-> 0, type |-> 0, mps |-> 0]
NoHeader == [id |-> "none", next |-> 0, able |-> {}, ctl |-> {}]
StdAt(img, p) == IF p \in DOMAIN img.std THEN img.std[p] ELSE Empty
ExtAt(img, p) == IF p \in DOMAIN img.ext THEN img.ext[p] ELSE NoHeader

Unread == -1
Nothing == [type |-> Unread, mps |-> 0, ext |-> FALSE, acs |-> FALSE, ctl |-> {}]

VARIABLES
  img,   \* the image
  len,   \* len(data)
  pc,    \* "start", "std", "ext" or "done"
  ptr,   \* the entry the loop looks at
  hops,  \* the turns of the loop so far
  cfg    \* the Config so far
vars == <<img, len, pc, ptr, hops, cfg>>

Init ==
  /\ img \in Images /\ len \in Lengths
  /\ pc = "start" /\ ptr = 0 /\ hops = 0 /\ cfg = Nothing

-----------------------------------------------------------------------------
\* Lines 417-419: the second loop runs when its first header was read.
Extend(c) ==
  IF len >= ExtFirst + 2
    THEN pc' = "ext" /\ ptr' = ExtFirst /\ hops' = 0 /\ cfg' = [c EXCEPT !.ext = TRUE]
    ELSE pc' = "done" /\ cfg' = c /\ UNCHANGED <<ptr, hops>>

Start ==
  /\ pc = "start"
  /\ IF len < StdFirst THEN pc' = "done" /\ UNCHANGED <<ptr, hops, cfg>>
     ELSE IF img.caps THEN pc' = "std" /\ ptr' = img.head /\ UNCHANGED <<hops, cfg>>
     ELSE Extend(cfg)
  /\ UNCHANGED <<img, len>>

\* Mutant of StdMore: one turn less.
StdMoreLess(n, p) == n + 1 < StdHops /\ p >= StdFirst /\ p + 1 <= len

StdMore(n, p) == n < StdHops /\ p >= StdFirst /\ p + 1 <= len

\* A register past the end of what was read leaves its field alone.
TakePCIe(c, e, p) ==
  IF e.id # "pcie" THEN c
  ELSE [ c EXCEPT !.type = IF p + 2 <= len THEN e.type ELSE @,
                  !.mps  = IF p + 5 <= len THEN e.mps ELSE @ ]

StdStep ==
  /\ pc = "std" /\ StdMore(hops, ptr)
  /\ LET e == StdAt(img, ptr)
         c == TakePCIe(cfg, e, ptr)
     IN IF e.next \in {0, ptr} THEN Extend(c)
        ELSE ptr' = e.next /\ hops' = hops + 1 /\ cfg' = c /\ UNCHANGED pc
  /\ UNCHANGED <<img, len>>

StdEnds == pc = "std" /\ ~StdMore(hops, ptr) /\ Extend(cfg) /\ UNCHANGED <<img, len>>

ExtMore(n, p) == n < ExtHops /\ p >= ExtFirst /\ p + 2 <= len

\* Mutant of TakeACS: the capability is found, its control register is not read.
TakeACSFound(c, e, p) == IF e.id # "acs" \/ p + 3 > len THEN c ELSE [c EXCEPT !.acs = TRUE]

\* The control register is zero when the image ends before it.
TakeACS(c, e, p) ==
  IF e.id # "acs" \/ p + 3 > len THEN c
  ELSE [c EXCEPT !.acs = TRUE, !.ctl = IF p + 4 <= len THEN e.ctl ELSE {}]

\* Mutant of Turn: the turns are not counted.
TurnUncounted(n) == n

Turn(n) == n + 1

ExtStep ==
  /\ pc = "ext" /\ ExtMore(hops, ptr)
  /\ LET e == ExtAt(img, ptr)
     IN /\ cfg' = TakeACS(cfg, e, ptr)
        /\ IF e.id = "none" \/ e.next \in {0, ptr}
             THEN pc' = "done" /\ UNCHANGED <<ptr, hops>>
             ELSE ptr' = e.next /\ hops' = Turn(hops) /\ UNCHANGED pc
  /\ UNCHANGED <<img, len>>

ExtEnds ==
  /\ pc = "ext" /\ ~ExtMore(hops, ptr)
  /\ pc' = "done" /\ UNCHANGED <<img, len, ptr, hops, cfg>>

Next == Start \/ StdStep \/ StdEnds \/ ExtStep \/ ExtEnds

\* The parser is a sequential program: it takes its next step.
Spec == Init /\ [][Next]_vars /\ WF_vars(Next)

-----------------------------------------------------------------------------
\* The entries that were read and the pointers among them.
Listing(entries, first, size) ==
  LET read == { p \in DOMAIN entries : p >= first /\ p + size <= len }
  IN [ node |-> read,
       edge |-> { x \in read \X read : x[2] = entries[x[1]].next /\ entries[x[1]].id # "none" } ]

\* Some path of at most n pointers leads from the entry `from` to p.
Listed(from, p, n, L) ==
  \E k \in 1..Min({n, Cardinality(L.node)}) : \E path \in [1..k -> L.node] :
    /\ path[1] = from /\ path[k] = p
    /\ \A i \in 1..(k - 1) : <<path[i], path[i + 1]>> \in L.edge

\* The parser finds the PCI Express capability exactly when the list leads to
\* it, in whatever order the entries lie and though the list may run in a
\* circle: as many turns as there are places are enough (pci.go:399-415).
PCIeFoundIfListed ==
  pc = "done" /\ len >= StdFirst =>
    LET L == Listing(img.std, StdFirst, 1)
    IN cfg.type # Unread <=>
         /\ img.caps
         /\ \E p \in L.node : /\ img.std[p].id = "pcie" /\ p + 2 <= len
                              /\ Listed(img.head, p, Cardinality(L.node), L)

\* The control bits an entry shows: none when the image ends before its control
\* register.
Control(p) == IF p + 4 <= len THEN img.ext[p].ctl ELSE {}

\* The ACS capability is found exactly when it is one of the first ExtHops
\* entries, and the bits reported are exactly the control bits of such an entry:
\* not the bits it is capable of, and no bits only of a register that has none
\* or that the image ends before, where pci.go:428 does not look whether it was
\* read (pci.go:417-437).
ACSFoundIfListed ==
  pc = "done" =>
    LET L == Listing(img.ext, ExtFirst, 2)
        acs == { p \in L.node : /\ img.ext[p].id = "acs" /\ p + 3 <= len
                                /\ Listed(ExtFirst, p, ExtHops, L) }
    IN /\ cfg.acs <=> cfg.ext /\ acs # {}
       /\ cfg.ctl \in (IF cfg.acs THEN { Control(p) : p \in acs } ELSE {{}})

\* The parser comes to an end on every image (pci.go:399, 420).
WalkEnds == <>(pc = "done")
=============================================================================
