---------------------------- MODULE CaptureProofs ----------------------------
(***************************************************************************)
(* No value of a read was never there, for any trees, any number of        *)
(* changes between any two system calls, and with a capture after it.  Of  *)
(* a tree that holds still the read finds all that it says, and a capture  *)
(* copies it.                                                              *)
(***************************************************************************)
EXTENDS Capture, ListProofs

Fields == {"dev", "val", "link", "rdma", "net", "bad"}

\* What was opened is a file of one of the trees since readFile began.
OpenedWasThere ==
  \A f \in handle : \E i \in span :
    At \in DOMAIN Trees[i].file /\ Trees[i].file[At] = f /\ f.kind # "denied"

\* The function being resolved was listed with this chain, and the directories
\* up to the next one were there.
SeatWasThere ==
  \A s \in seat :
    /\ s = [bdf |-> s.bdf, at |-> s.at, k |-> s.k] /\ s.k \in Nat \ {0}
    /\ ListedAs(s.bdf, s.at) /\ \A j \in 1..(s.k - 1) : WasDir(s.at.chain[j])

IInv ==
  /\ DOMAIN host = Fields /\ host = [x \in DOMAIN host |-> host[x]]
  /\ now \in during /\ span \subseteq during
  /\ pc \in {"open", "read", "back"} => now \in span
  /\ pc # "back" => data = {}
  /\ pc # "read" => handle = {}
  /\ OpenedWasThere
  /\ SeatWasThere
  /\ EachValueWasTrue

-----------------------------------------------------------------------------
\* An open file that is not refused says what the file of its tree says
\* (read.go:81-92).
LEMMA ContentIsFile ==
  ASSUME NEW t, NEW p, p \in DOMAIN t.file, t.file[p].kind # "denied"
  PROVE  FileOf(t, p) = Content(t.file[p])
  BY DEF FileOf

\* A status that is not OK is never made into a value.
LEMMA UnderstoodOk ==
  ASSUME NEW p, NEW r, Understood(p, r).st = "ok"
  PROVE  r.st = "ok"
  BY DEF Understood

HostIsRecord(h) == DOMAIN h = Fields /\ h = [x \in DOMAIN h |-> h[x]]

\* What is not touched stays true while Read goes on, and of more trees.
LEMMA Untouched ==
  ASSUME during \subseteq during'
  PROVE  /\ host'.val = host.val /\ ValuesWereSo => ValuesWereSo'
         /\ host'.dev = host.dev /\ DevicesWereThere => DevicesWereThere'
         /\ host'.link = host.link /\ LinksWereSo => LinksWereSo'
         /\ seat' = seat /\ SeatWasThere => SeatWasThere'
         /\ seat' = {} => SeatWasThere'
<1>1. \A d, at : ListedAs(d, at) => ListedAs(d, at)'
  BY DEF ListedAs
<1>2. \A d : WasDir(d) => WasDir(d)'
  BY DEF WasDir
<1>3. host'.val = host.val /\ ValuesWereSo => ValuesWereSo'
  BY DEF ValuesWereSo
<1>4. host'.dev = host.dev /\ DevicesWereThere => DevicesWereThere'
  BY <1>1, <1>2 DEF DevicesWereThere
<1>5. host'.link = host.link /\ LinksWereSo => LinksWereSo'
  BY DEF LinksWereSo
<1>6. seat' = seat /\ SeatWasThere => SeatWasThere'
  BY <1>1, <1>2 DEF SeatWasThere
<1>7. seat' = {} => SeatWasThere'
  BY DEF SeatWasThere
<1> QED BY <1>3, <1>4, <1>5, <1>6, <1>7

\* A step that reads no file keeps the invariant, when what it adds was so.
LEMMA NoFileStep ==
  ASSUME IInv, pc = "next", pc' \in {"next", "done"}, UNCHANGED <<now, handle, data, span, during>>,
         HostIsRecord(host'), host'.val = host.val,
         SeatWasThere', DevicesWereThere', LinksWereSo'
  PROVE  IInv'
<1>1. data' = {} /\ handle' = {}
  BY DEF IInv
<1>2. OpenedWasThere'
  BY <1>1 DEF OpenedWasThere
<1>3. DataWasRead'
  BY <1>1 DEF DataWasRead
<1>4. ValuesWereSo'
  BY Untouched DEF IInv, EachValueWasTrue
<1> QED BY <1>1, <1>2, <1>3, <1>4 DEF IInv, EachValueWasTrue, HostIsRecord

\* A step that adds at most a problem to the host.
LEMMA IdleStep ==
  ASSUME IInv, pc = "next", pc' \in {"next", "done"}, UNCHANGED <<now, handle, data, span, during>>,
         host' = host \/ \E x : Bad(x),
         SeatWasThere' \/ seat' = seat \/ seat' = {}
  PROVE  IInv'
<1>1. /\ HostIsRecord(host')
      /\ host'.val = host.val /\ host'.dev = host.dev /\ host'.link = host.link
  BY DEF Bad, IInv, Fields, HostIsRecord
<1>2. DevicesWereThere' /\ LinksWereSo' /\ SeatWasThere'
  BY <1>1, Untouched DEF IInv, EachValueWasTrue
<1> QED BY <1>1, <1>2, NoFileStep

\* A step of readFile or of its caller: what Read found so far stays.
LEMMA FileStep ==
  ASSUME IInv, UNCHANGED <<now, seat, during>>, HostIsRecord(host'),
         host'.dev = host.dev, host'.link = host.link, ValuesWereSo',
         span' \subseteq during, pc' \in {"open", "read", "back"} => now \in span',
         pc' # "back" => data' = {}, pc' # "read" => handle' = {},
         OpenedWasThere', DataWasRead'
  PROVE  IInv'
<1>1. DevicesWereThere' /\ LinksWereSo' /\ SeatWasThere'
  BY Untouched DEF IInv, EachValueWasTrue
<1> QED BY <1>1 DEF IInv, EachValueWasTrue, HostIsRecord

\* The invariant holds before the first listing.
LEMMA InitIInv == Init => IInv
<1> SUFFICES ASSUME Init PROVE IInv
  OBVIOUS
<1>1. host = NoHost /\ data = {} /\ handle = {} /\ span = {} /\ during = {now} /\ pc = "next"
      /\ seat = {}
  BY DEF Init, ReadInit
<1>2. DOMAIN <<>> = {}
  OBVIOUS
<1>3. DOMAIN host.val = {} /\ DOMAIN host.dev = {} /\ DOMAIN host.link = {}
  BY <1>1, <1>2 DEF NoHost
<1>4. DOMAIN host = Fields /\ host = [x \in DOMAIN host |-> host[x]]
  BY <1>1 DEF NoHost, Fields
<1>5. EachValueWasTrue
  BY <1>1, <1>3 DEF EachValueWasTrue, DataWasRead, ValuesWereSo, DevicesWereThere, LinksWereSo
<1> QED BY <1>1, <1>4, <1>5 DEF IInv, OpenedWasThere, SeatWasThere

\* The tree changes: what was true stays true of an earlier moment.
LEMMA ChangeIInv ==
  ASSUME IInv, NEW i, Change(i)
  PROVE  IInv'
<1>1. now' = i /\ span' = span \cup {i} /\ during' = during \cup {i}
      /\ UNCHANGED <<pc, todo, seat, handle, data, host>>
  BY DEF Change
<1>2. At' = At
  BY <1>1 DEF At, Head1
<1>3. OpenedWasThere'
  BY <1>1, <1>2 DEF IInv, OpenedWasThere
<1>4. DataWasRead'
  BY <1>1, <1>2 DEF IInv, EachValueWasTrue, DataWasRead
<1>5. ValuesWereSo' /\ DevicesWereThere' /\ LinksWereSo' /\ SeatWasThere'
  BY <1>1, Untouched DEF IInv, EachValueWasTrue
<1> QED BY <1>1, <1>3, <1>4, <1>5 DEF IInv, EachValueWasTrue

-----------------------------------------------------------------------------
(* readFile. *)

\* A readFile that comes back with r, which is a fault or was in the file.
LEMMA ComesIInv ==
  ASSUME IInv, NEW r, Comes(r), UNCHANGED <<now, todo, seat, host, during>>,
         span' \subseteq during, now \in span',
         r.st = "ok" => \E i \in span' : FileOf(Trees[i], At) = r
  PROVE  IInv'
<1>1. pc' = "back" /\ data' = {r} /\ handle' = {}
  BY DEF Comes
<1>2. At' = At
  BY DEF At, Head1
<1>3. OpenedWasThere'
  BY <1>1 DEF OpenedWasThere
<1>4. DataWasRead'
  BY <1>1, <1>2 DEF DataWasRead
<1>5. ValuesWereSo' /\ HostIsRecord(host')
  BY Untouched DEF IInv, EachValueWasTrue, HostIsRecord
<1> QED BY <1>1, <1>3, <1>4, <1>5, FileStep

\* What an open file may say was in the file at a moment of this readFile, also
\* when another file or none has taken its place.
LEMMA SaysWasThere ==
  ASSUME IInv, pc = "read", NEW f \in handle, NEW r \in ReadOpened(f), r.st = "ok"
  PROVE  \E i \in span : FileOf(Trees[i], At) = r
<1>1. PICK i \in span : At \in DOMAIN Trees[i].file /\ Trees[i].file[At] = f /\ f.kind # "denied"
  BY DEF IInv, OpenedWasThere
<1>2. FileOf(Trees[i], At) = Content(f)
  BY <1>1, ContentIsFile
<1>3. now \in span
  BY DEF IInv
<1>4. Regular(f) /\ r \in Says(f)
  BY DEF ReadOpened, Fault
<1>5. CASE r = Content(f)
  BY <1>2, <1>5
<1>6. CASE r # Content(f)
  <2>1. At \in DOMAIN Tree.file /\ Opens(Tree.file[At]) /\ r = Content(Tree.file[At])
    BY <1>4, <1>6 DEF Says, Fault
  <2>2. FileOf(Tree, At) = r
    BY <2>1, ContentIsFile DEF Opens
  <2> QED BY <1>3, <2>2 DEF Tree
<1> QED BY <1>5, <1>6

\* Stat, the open and the read keep the invariant (read.go:66-92).
LEMMA ReadFileIInv ==
  ASSUME IInv, ReadFile
  PROVE  IInv'
<1>1. CASE Stat
  <2>1. pc = "next" /\ span' = {now} /\ UNCHANGED <<now, todo, seat, host, during>>
    BY <1>1 DEF Stat, InFile
  <2>2. CASE pc' = "open" /\ UNCHANGED <<handle, data>>
    <3>1. data' = {} /\ handle' = {}
      BY <2>1, <2>2 DEF IInv
    <3>2. DataWasRead' /\ OpenedWasThere'
      BY <3>1 DEF DataWasRead, OpenedWasThere
    <3>3. ValuesWereSo' /\ HostIsRecord(host')
      BY <2>1, Untouched DEF IInv, EachValueWasTrue, HostIsRecord
    <3>4. span' \subseteq during /\ now \in span'
      BY <2>1 DEF IInv
    <3> QED BY <2>1, <2>2, <3>1, <3>2, <3>3, <3>4, FileStep
  <2>3. ASSUME NEW st \in {"unreadable", "missing"}, Comes(Fault(st)) PROVE IInv'
    <3>1. Fault(st).st # "ok"
      BY DEF Fault
    <3> QED BY <2>1, <2>3, <3>1, ComesIInv DEF IInv
  <2> QED BY <1>1, <2>2, <2>3 DEF Stat
<1>2. CASE OpenFails
  <2>1. pc = "open" /\ UNCHANGED <<now, todo, seat, host, span, during>>
    BY <1>2 DEF OpenFails, InFile
  <2>2. PICK st \in {"permission", "missing"} : Comes(Fault(st))
    BY <1>2 DEF OpenFails
  <2>3. Fault(st).st # "ok"
    BY DEF Fault
  <2> QED BY <2>1, <2>2, <2>3, ComesIInv DEF IInv
<1>3. CASE Open
  <2>1. /\ pc = "open" /\ pc' = "read" /\ handle' = {Tree.file[At]}
        /\ At \in DOMAIN Tree.file /\ Opens(Tree.file[At])
        /\ UNCHANGED <<now, todo, seat, host, data, span, during>>
    BY <1>3 DEF Open, InFile
  <2>2. At' = At /\ data' = {} /\ now \in span
    BY <2>1 DEF At, Head1, IInv
  <2>3. OpenedWasThere'
    BY <2>1, <2>2 DEF OpenedWasThere, Opens, Tree
  <2>4. DataWasRead'
    BY <2>2 DEF DataWasRead
  <2>5. ValuesWereSo' /\ HostIsRecord(host') /\ span' \subseteq during
    BY <2>1, Untouched DEF IInv, EachValueWasTrue, HostIsRecord
  <2> QED BY <2>1, <2>2, <2>3, <2>4, <2>5, FileStep
<1>4. ASSUME NEW f \in handle, ReadHandle(f) PROVE IInv'
  <2>1. pc = "read" /\ UNCHANGED <<now, todo, seat, host, span, during>>
    BY <1>4 DEF ReadHandle, InFile
  <2>2. PICK r \in ReadOpened(f) : Comes(r)
    BY <1>4 DEF ReadHandle
  <2>3. r.st = "ok" => \E i \in span : FileOf(Trees[i], At) = r
    BY <2>1, SaysWasThere
  <2> QED BY <2>1, <2>2, <2>3, ComesIInv DEF IInv
<1> QED BY <1>1, <1>2, <1>3, <1>4 DEF ReadFile

\* readAttr keeps what was read and understood (read.go:96-109).
LEMMA KeepIInv ==
  ASSUME IInv, NEW r \in data, Keep(r)
  PROVE  IInv'
<1>1. /\ pc = "back" /\ pc' = "next" /\ data' = {} /\ UNCHANGED <<now, seat, handle, span, during>>
      /\ host' = [host EXCEPT !.val = Put(@, At, Understood(At, r))]
  BY DEF Keep
<1>2. handle' = {}
  BY <1>1 DEF IInv
<1>3. HostIsRecord(host') /\ host'.dev = host.dev /\ host'.link = host.link
  BY <1>1 DEF IInv, HostIsRecord, Fields
<1>4. host'.val = [ p \in DOMAIN host.val \cup {At} |-> IF p = At THEN Understood(At, r) ELSE host.val[p] ]
  BY <1>1 DEF IInv, Fields, Put
<1>5. ASSUME NEW p \in DOMAIN host'.val, host'.val[p].st = "ok"
      PROVE  \E i \in during : Understood(p, FileOf(Trees[i], p)) = host'.val[p]
  <2>1. CASE p = At
    <3>1. host'.val[p] = Understood(At, r) /\ r.st = "ok"
      BY <1>4, <1>5, <2>1, UnderstoodOk
    <3>2. PICK i \in span : FileOf(Trees[i], At) = r
      BY <3>1 DEF IInv, EachValueWasTrue, DataWasRead
    <3> QED BY <2>1, <3>1, <3>2 DEF IInv
  <2>2. CASE p # At
    BY <1>4, <1>5, <2>2 DEF IInv, EachValueWasTrue, ValuesWereSo
  <2> QED BY <2>1, <2>2
<1>6. ValuesWereSo' /\ DataWasRead'
  BY <1>1, <1>5 DEF ValuesWereSo, DataWasRead
<1>7. OpenedWasThere' /\ span' \subseteq during
  BY <1>1, <1>2 DEF OpenedWasThere, IInv
<1> QED BY <1>1, <1>2, <1>3, <1>6, <1>7, FileStep

-----------------------------------------------------------------------------
\* The directory of a chain is looked at after the link was read (pci.go:224-230).
LEMMA LstatIInv ==
  ASSUME IInv, NEW s \in seat, Lstat(s)
  PROVE  IInv'
<1>1. /\ pc = "next" /\ pc' = "next" /\ seat = {s}
      /\ UNCHANGED <<now, handle, data, span, during>>
  BY DEF Lstat
<1>2. /\ s = [bdf |-> s.bdf, at |-> s.at, k |-> s.k] /\ s.k \in Nat \ {0} /\ ListedAs(s.bdf, s.at)
      /\ \A j \in 1..(s.k - 1) : WasDir(s.at.chain[j])
  BY DEF IInv, SeatWasThere
<1>3. s.at.chain[s.k] \in Tree.dirs => \A j \in 1..s.k : WasDir(s.at.chain[j])
  <2>1. s.at.chain[s.k] \in Tree.dirs => WasDir(s.at.chain[s.k])
    BY DEF WasDir, Tree, IInv
  <2> QED BY <1>2, <2>1
<1>4. CASE seat' = {} /\ Bad(<<"bus", s.bdf>>)
  BY <1>1, <1>4, IdleStep
<1>5. CASE /\ s.at.chain[s.k] \in Tree.dirs
           /\ seat' = {[s EXCEPT !.k = @ + 1]} /\ UNCHANGED host
  <2> DEFINE next == [s EXCEPT !.k = @ + 1]
  <2>1. SeatWasThere'
    <3>1. \A d, at : ListedAs(d, at) => ListedAs(d, at)'
      BY <1>1 DEF ListedAs
    <3>2. \A d : WasDir(d) => WasDir(d)'
      BY <1>1 DEF WasDir
    <3>3. next.bdf = s.bdf /\ next.at = s.at /\ next.k = s.k + 1
      BY <1>2
    <3> QED BY <1>2, <1>3, <1>5, <3>1, <3>2, <3>3 DEF SeatWasThere
  <2> QED BY <1>1, <1>5, <2>1, IdleStep
<1>6. CASE /\ s.at.chain[s.k] \in Tree.dirs /\ s.k = Len(s.at.chain) /\ seat' = {}
           /\ host' = [host EXCEPT !.dev = Put(@, s.bdf, s.at)]
  <2>1. /\ HostIsRecord(host') /\ host'.val = host.val /\ host'.link = host.link
        /\ host'.dev = Put(host.dev, s.bdf, s.at)
    BY <1>6 DEF IInv, Fields, HostIsRecord
  <2>2. ASSUME NEW d \in DOMAIN host'.dev
        PROVE  ListedAs(d, host'.dev[d]) /\ \A k \in 1..Len(host'.dev[d].chain) : WasDir(host'.dev[d].chain[k])
    BY <1>2, <1>3, <1>6, <2>1 DEF Put, IInv, EachValueWasTrue, DevicesWereThere
  <2>3. DevicesWereThere'
    BY <1>1, <2>2 DEF DevicesWereThere, ListedAs, WasDir
  <2>4. LinksWereSo' /\ SeatWasThere'
    BY <1>1, <1>6, <2>1, Untouched DEF IInv, EachValueWasTrue
  <2> QED BY <1>1, <2>1, <2>3, <2>4, NoFileStep
<1> QED BY <1>4, <1>5, <1>6 DEF Lstat

\* A link is kept as it is when it is read (pci.go:253-254, rdma.go, net.go).
LEMMA LinkKept ==
  ASSUME IInv, pc = "next", pc' = "next", UNCHANGED <<now, seat, handle, data, span, during>>,
         HostIsRecord(host'), host'.val = host.val, host'.dev = host.dev,
         At \in DOMAIN Tree.link, host'.link = Put(host.link, At, Tree.link[At])
  PROVE  IInv'
<1>1. ASSUME NEW p \in DOMAIN host'.link
      PROVE  \E i \in during : p \in DOMAIN Trees[i].link /\ Trees[i].link[p] = host'.link[p]
  BY DEF Put, IInv, EachValueWasTrue, LinksWereSo, Tree
<1>2. LinksWereSo'
  BY <1>1 DEF LinksWereSo
<1>3. DevicesWereThere' /\ SeatWasThere'
  BY Untouched DEF IInv, EachValueWasTrue
<1> QED BY <1>2, <1>3, NoFileStep

\* Every step of Read keeps the invariant.
LEMMA ReadStepIInv ==
  ASSUME IInv, ReadStep
  PROVE  IInv'
<1>1. CASE ListDir
  BY <1>1, IdleStep DEF ListDir, Turn, Then
<1>2. CASE ResolveLink
  <2>1. pc = "next" /\ pc' = "next" /\ UNCHANGED <<now, handle, data, span, during>>
    BY <1>2 DEF ResolveLink, Turn, Then
  <2>2. CASE seat' = seat /\ \E x : Bad(x)
    BY <2>1, <2>2, IdleStep
  <2>3. ASSUME NEW d \in DOMAIN Tree.bus, UNCHANGED host, NEW at, at = Tree.bus[d],
               seat' = {[bdf |-> d, at |-> at, k |-> 1]}
        PROVE  IInv'
    <3>1. ListedAs(d, at)'
      BY <2>1, <2>3 DEF ListedAs, Tree, IInv
    <3>2. SeatWasThere'
      BY <2>3, <3>1 DEF SeatWasThere
    <3> QED BY <2>1, <2>3, <3>2, IdleStep
  <2> QED BY <1>2, <2>2, <2>3 DEF ResolveLink
<1>3. CASE ReadLink
  <2>1. pc = "next" /\ pc' = "next" /\ UNCHANGED <<now, seat, handle, data, span, during>>
    BY <1>3 DEF ReadLink, Turn, Then
  <2>2. CASE Shown(Tree, At)
    <3>1. At \in DOMAIN Tree.link
      BY <2>2 DEF Shown, BaseOf
    <3>2. host' = [host EXCEPT !.link = Put(@, At, Tree.link[At])]
      BY <1>3, <2>2 DEF ReadLink
    <3> QED BY <2>1, <3>1, <3>2, LinkKept DEF IInv, Fields, HostIsRecord
  <2>3. CASE ~Shown(Tree, At)
    BY <1>3, <2>1, <2>3, IdleStep DEF ReadLink
  <2> QED BY <2>2, <2>3
<1>4. CASE Bind
  <2>1. pc = "next" /\ pc' = "next" /\ UNCHANGED <<now, seat, handle, data, span, during>>
    BY <1>4 DEF Bind, Turn, Then
  <2>2. CASE BaseOf(Tree, At) = 0
    BY <1>4, <2>1, <2>2, IdleStep DEF Bind
  <2>3. CASE BaseOf(Tree, At) # 0
    <3>1. At \in DOMAIN Tree.link /\ BaseOf(Tree, At) = Tree.link[At]
      BY <2>3 DEF BaseOf
    <3>2. /\ HostIsRecord(host') /\ host'.val = host.val /\ host'.dev = host.dev
          /\ host'.link = Put(host.link, At, Tree.link[At])
      BY <1>4, <2>3, <3>1 DEF Bind, IInv, Fields, HostIsRecord
    <3> QED BY <2>1, <3>1, <3>2, LinkKept
  <2> QED BY <2>2, <2>3
<1>5. CASE ListPorts
  <2>1. /\ pc = "next" /\ pc' = "next" /\ UNCHANGED <<now, seat, handle, data, span, during>>
        /\ HostIsRecord(host') /\ host'.val = host.val /\ host'.dev = host.dev /\ host'.link = host.link
    BY <1>5 DEF ListPorts, Turn, Then, IInv, Fields, HostIsRecord
  <2>2. DevicesWereThere' /\ LinksWereSo' /\ SeatWasThere'
    BY <2>1, Untouched DEF IInv, EachValueWasTrue
  <2> QED BY <2>1, <2>2, NoFileStep
<1> QED
  BY <1>1, <1>2, <1>3, <1>4, <1>5, LstatIInv, ReadFileIInv, KeepIInv DEF ReadStep

\* Every step of the second pass keeps it too.
LEMMA CopyIInv ==
  ASSUME IInv, Copies1
  PROVE  IInv'
<1>1. CASE ReadEnds
  BY <1>1, IdleStep DEF ReadEnds, ReadReturns
<1>2. CASE MkDir \/ Relink \/ WriteNode \/ Symlink1 \/ SymlinkFails
  BY <1>2, IdleStep DEF MkDir, Relink, WriteNode, Symlink1, SymlinkFails, CopyTurn, Turn, Next1
<1>3. CASE CopyFails
  BY <1>3, IdleStep DEF CopyFails
<1>4. CASE CopyEnds
  BY <1>4, IdleStep DEF CopyEnds, ReadReturns
<1>5. ASSUME NEW r \in data, CopyFile(r) \/ CopyFileFails(r) PROVE IInv'
  <2>1. pc = "back" /\ pc' = "next" /\ data' = {} /\ UNCHANGED <<now, seat, handle, host, span, during>>
    BY <1>5 DEF CopyFile, CopyFileFails
  <2>2. handle' = {} /\ DataWasRead' /\ OpenedWasThere'
    BY <2>1 DEF IInv, DataWasRead, OpenedWasThere
  <2>3. ValuesWereSo' /\ HostIsRecord(host') /\ span' \subseteq during
    BY <2>1, Untouched DEF IInv, EachValueWasTrue, HostIsRecord
  <2> QED BY <2>1, <2>2, <2>3, FileStep
<1> QED BY <1>1, <1>2, <1>3, <1>4, <1>5 DEF Copies1

\* Every step keeps the invariant.
LEMMA NextIInv ==
  ASSUME IInv, [Next]_vars
  PROVE  IInv'
<1>1. CASE Reads
  BY <1>1, ReadStepIInv DEF Reads
<1>2. CASE Copies1
  BY <1>2, CopyIInv
<1>3. CASE Changes
  BY <1>3, ChangeIInv DEF Changes
<1>4. CASE UNCHANGED vars
  <2>1. UNCHANGED readVars
    BY <1>4 DEF vars
  <2>2. At' = At /\ UNCHANGED <<now, pc, seat, handle, data, host, span, during>>
    BY <2>1 DEF readVars, At, Head1
  <2>3. DataWasRead' /\ OpenedWasThere'
    BY <2>2 DEF IInv, EachValueWasTrue, DataWasRead, OpenedWasThere
  <2>4. ValuesWereSo' /\ DevicesWereThere' /\ LinksWereSo' /\ SeatWasThere'
    BY <2>2, Untouched DEF IInv, EachValueWasTrue
  <2> QED BY <2>2, <2>3, <2>4 DEF IInv, EachValueWasTrue
<1> QED BY <1>1, <1>2, <1>3, <1>4 DEF Next

\* The invariant holds all along.
LEMMA Invariance == Spec => []IInv
<1>1. IInv /\ [Next]_vars => IInv'
  BY NextIInv
<1> QED BY <1>1, InitIInv, PTL DEF Spec

-----------------------------------------------------------------------------
(* The verdict on the link of a GPU. *)

\* The check gpu-link of a GPU is that of its own link.
LEMMA GpuLinkOf ==
  ASSUME NEW H, NEW g \in DOMAIN ChecksFor(H)
  PROVE  g \in DOMAIN H.dev /\ ChecksFor(H)[g].gpu_link = GpuLink(LinkOf(H.dev, g))
<1>1. DOMAIN ChecksFor(H) = Gpus(H.dev)
  BY DEF ChecksFor
<1>2. g \in DOMAIN H.dev
  BY <1>1 DEF Gpus
<1>3. Linked(AllLinks(H), g) = LinkOf(H.dev, g)
  BY <1>2 DEF Linked, AllLinks
<1>4. ASSUME NEW devs, NEW links, NEW nics, NEW gpus PROVE ChecksOf(H, devs, links, nics, gpus, g).gpu_link = GpuLink(Linked(links, g))
  BY DEF ChecksOf
<1>5. ChecksFor(H)[g].gpu_link = ChecksOf(H, AllDevices(H), AllLinks(H), AllNics(H), Gpus(H.dev), g).gpu_link
  BY <1>1 DEF ChecksFor
<1> QED BY <1>2, <1>3, <1>4, <1>5

\* Build gets of every function of the host what was read of it.
LEMMA PathHostDev ==
  ASSUME NEW h
  PROVE  PathHost(h).dev = [ d \in DOMAIN h.dev |-> FunctionOf(h, d) ]
BY DEF PathHost

\* The attributes of a link and what they can be.
LinkNames == {"current_link_width", "max_link_width", "current_link_speed", "max_link_speed"}
Valid(name) == IF name \in {"current_link_width", "max_link_width"} THEN ValidWidths ELSE ValidSpeeds

\* What parses as a width or a speed is one of those there are.
LEMMA ParsesLink ==
  ASSUME NEW name \in LinkNames, NEW text, Parses(name, text)
  PROVE  text \in Valid(name)
<1>1. ASSUME name \in {"current_link_width", "max_link_width"} PROVE text \in Valid(name)
  BY <1>1 DEF Parses, Valid
<1>2. ASSUME name \in {"current_link_speed", "max_link_speed"} PROVE text \in Valid(name)
  <2>1. name \notin {"current_link_width", "max_link_width"}
    BY <1>2
  <2> QED BY <1>2, <2>1 DEF Parses, Valid
<1> QED BY <1>1, <1>2 DEF LinkNames

\* The text of the file at p spells v within the limit.
Spells(i, p, v) == LET f == FileOf(Trees[i], p) IN f.st = "ok" /\ ~f.val.long /\ f.val.says = v

\* A width or speed of the host is one that there is and that its file said.
LEMMA ReadAs ==
  ASSUME ValuesWereSo, NEW p, p[4] \in LinkNames, ValueOf(host, p) # Unread
  PROVE  ValueOf(host, p) \in Valid(p[4]) /\ \E i \in during : Spells(i, p, ValueOf(host, p))
<1>1. p \in DOMAIN host.val /\ host.val[p].st = "ok" /\ ValueOf(host, p) = host.val[p].val
  BY DEF ValueOf
<1>2. PICK i \in during : Understood(p, FileOf(Trees[i], p)) = host.val[p]
  BY <1>1 DEF ValuesWereSo
<1> DEFINE r == FileOf(Trees[i], p)
<1>3. r.st = "ok" /\ Meaning(p[4], r.val) = host.val[p]
  BY <1>1, <1>2 DEF Understood
<1>4. p[4] \notin Verbatim /\ p[4] # "config"
  BY DEF Verbatim, LinkNames
<1>5. Parses(p[4], r.val.says) /\ ~r.val.long /\ host.val[p] = Read(r.val.says)
  <2> DEFINE text == r.val
  <2>1. Meaning(p[4], text) = host.val[p]
    BY <1>3
  <2> HIDE DEF text
  <2>2. Parses(p[4], text.says) /\ ~text.long /\ host.val[p] = Read(text.says)
    BY <1>1, <1>4, <2>1 DEF Meaning, Fault
  <2> QED BY <2>2 DEF text
<1>6. r.val.says \in Valid(p[4])
  BY <1>5, ParsesLink
<1>7. ValueOf(host, p) = r.val.says
  BY <1>1, <1>5 DEF Read
<1>8. Spells(i, p, ValueOf(host, p))
  BY <1>3, <1>5, <1>7 DEF Spells
<1> QED BY <1>6, <1>7, <1>8

\* A link below its maximum in the host was below it at the moment the lower
\* value was read, since the maximum is the same at every moment.
LEMMA BelowItsMaximum ==
  ASSUME ValuesWereSo, during \subseteq DOMAIN Trees, NEW g,
         NEW cur \in LinkNames, NEW max \in LinkNames,
         NEW valid, Valid(cur) = valid, Valid(max) = valid, Steady(cur, max, valid),
         NEW c, c = ValueOf(host, <<"pci", g, 0, cur>>), c # Unread,
         NEW m, m = ValueOf(host, <<"pci", g, 0, max>>), m # Unread,
         c < m
  PROVE  WasBelow(g, cur, max, valid)
<1> DEFINE p == <<"pci", g, 0, cur>>
           q == <<"pci", g, 0, max>>
<1>1. p[4] = cur /\ q[4] = max /\ p[2] = g
  OBVIOUS
<1> HIDE DEF p, q
<1>2. ValueOf(host, p) = c /\ ValueOf(host, q) = m
  BY DEF p, q
<1>3. c \in valid /\ m \in valid
  BY <1>1, <1>2, ReadAs
<1>4. PICK i \in during : Spells(i, p, c)
  BY <1>1, <1>2, ReadAs
<1>5. PICK j \in during : Spells(j, q, m)
  BY <1>1, <1>2, ReadAs
<1>6. Was(i, g, cur, valid) = {c} /\ Was(j, g, max, valid) = {m}
  BY <1>3, <1>4, <1>5 DEF Was, Spells, p, q
<1>7. p \in DOMAIN Trees[i].file
  <2>1. FileOf(Trees[i], p).st = "ok"
    BY <1>4 DEF Spells
  <2> QED BY <2>1 DEF FileOf, Fault
<1>8. Was(i, g, max, valid) = Was(j, g, max, valid)
  <2>1. i \in DOMAIN Trees /\ j \in DOMAIN Trees
    OBVIOUS
  <2>2. Was(i, p[2], cur, valid) # {} /\ Was(j, p[2], max, valid) # {}
    BY <1>1, <1>6
  <2> QED BY <2>1, <2>2, <1>1, <1>7 DEF Steady
<1> QED BY <1>6, <1>8 DEF WasBelow

\* The link of a function in the host.
LinkIn(h, d) ==
  LET V(name) == ValueOf(h, <<"pci", d, 0, name>>)
  IN [ w  |-> V("current_link_width"), mw |-> V("max_link_width"),
       s  |-> V("current_link_speed"), ms |-> V("max_link_speed") ]

\* The link of a function as Build sees it.
LEMMA LinkInPathHost ==
  ASSUME NEW h, NEW d \in DOMAIN h.dev
  PROVE  PathHost(h).dev[d].link = LinkIn(h, d)
<1>1. PathHost(h).dev[d] = FunctionOf(h, d)
  BY PathHostDev
<1>2. FunctionOf(h, d).link = LinkIn(h, d)
  BY DEF FunctionOf, LinkIn
<1> QED BY <1>1, <1>2

\* A link is degraded only when its width or speed is below its own maximum.
LEMMA BelowOwn ==
  ASSUME NEW own, NEW up, own.w \in Int, own.s \in Int, own.mw \in Int, own.ms \in Int,
         up.mw \in Int, up.ms \in Int, Degraded(own, up)
  PROVE  (own.mw # Unread /\ own.w < own.mw) \/ (own.ms # Unread /\ own.s < own.ms)
BY DEF Degraded, ExpWidth, ExpSpeed, Lesser, BothEnds, Unread

\* FAIL of gpu-link stands for a link that was below its maximum, the link of
\* the function above it can only lower what is expected.
LEMMA FailWasReal ==
  ASSUME ValuesWereSo, during \subseteq DOMAIN Trees, SteadyMaxima,
         NEW g \in DOMAIN ChecksFor(PathHost(host)), ChecksFor(PathHost(host))[g].gpu_link = "FAIL"
  PROVE  \/ WasBelow(g, "current_link_width", "max_link_width", ValidWidths)
         \/ WasBelow(g, "current_link_speed", "max_link_speed", ValidSpeeds)
<1> DEFINE devs == PathHost(host).dev
           L(d) == LinkIn(host, d)
<1>1. DOMAIN devs = DOMAIN host.dev /\ \A d \in DOMAIN devs : devs[d].link = L(d)
  BY PathHostDev, LinkInPathHost
<1>2. g \in DOMAIN devs /\ GpuLink(LinkOf(devs, g)) = "FAIL"
  BY GpuLinkOf
<1> HIDE DEF devs
<1>3. LinkOf(devs, g).known /\ LinkOf(devs, g).degraded
  BY <1>2 DEF GpuLink
<1>4. PICK up \in {NoLink} \cup { L(d) : d \in DOMAIN devs } :
        L(g).w # Unread /\ L(g).s # Unread /\ Degraded(L(g), up)
  <2> DEFINE chain == devs[g].chain
             par == chain[Len(chain) - 1]
             u == IF par \in DOMAIN devs THEN devs[par].link ELSE NoLink
  <2>1. LinkOf(devs, g) = Judge(L(g), u)
    BY <1>1, <1>2, <1>3 DEF LinkOf, UnknownLink
  <2>2. u \in {NoLink} \cup { L(d) : d \in DOMAIN devs }
    BY <1>1
  <2> HIDE DEF L, u
  <2>3. L(g).w # Unread /\ L(g).s # Unread
    BY <1>3, <2>1 DEF Judge, UnknownLink
  <2>4. Degraded(L(g), u)
    <3>1. Judge(L(g), u).degraded = Degraded(L(g), u)
      BY <2>3, Zenon DEF Judge
    <3> QED BY <1>3, <2>1, <3>1
  <2> QED BY <2>2, <2>3, <2>4
<1>5. ASSUME NEW d, NEW name \in LinkNames PROVE ValueOf(host, <<"pci", d, 0, name>>) \in Valid(name) \cup {Unread}
  <2> DEFINE p == <<"pci", d, 0, name>>
  <2>1. p[4] = name
    OBVIOUS
  <2> HIDE DEF p
  <2>2. ValueOf(host, p) \in Valid(name) \cup {Unread}
    BY <2>1, ReadAs
  <2> QED BY <2>2 DEF p
<1>6. \A d : L(d).w \in Int /\ L(d).s \in Int /\ L(d).mw \in Int /\ L(d).ms \in Int
  <2>1. \A name \in LinkNames : Valid(name) \cup {Unread} \subseteq Int
    BY DEF Valid, ValidWidths, ValidSpeeds, Unread
  <2> QED BY <1>5, <2>1 DEF LinkIn, LinkNames
<1>7. up.mw \in Int /\ up.ms \in Int
  BY <1>6 DEF NoLink, Unread
<1> HIDE DEF L
<1>8. (L(g).mw # Unread /\ L(g).w < L(g).mw) \/ (L(g).ms # Unread /\ L(g).s < L(g).ms)
  BY <1>4, <1>6, <1>7, BelowOwn
<1>9. CASE L(g).mw # Unread /\ L(g).w < L(g).mw
  <2>1. L(g).w = ValueOf(host, <<"pci", g, 0, "current_link_width">>) /\ L(g).mw = ValueOf(host, <<"pci", g, 0, "max_link_width">>)
    BY DEF L, LinkIn
  <2>3. "current_link_width" \in LinkNames /\ "max_link_width" \in LinkNames
    BY DEF LinkNames
  <2>4. Steady("current_link_width", "max_link_width", ValidWidths)
    BY DEF SteadyMaxima
  <2>5. WasBelow(g, "current_link_width", "max_link_width", ValidWidths)
    <3>1. Valid("current_link_width") = ValidWidths /\ Valid("max_link_width") = ValidWidths
      BY DEF Valid
    <3> QED BY <1>4, <1>9, <2>1, <2>3, <2>4, <3>1, BelowItsMaximum
  <2> QED BY <2>5
<1>10. CASE L(g).ms # Unread /\ L(g).s < L(g).ms
  <2>1. L(g).s = ValueOf(host, <<"pci", g, 0, "current_link_speed">>) /\ L(g).ms = ValueOf(host, <<"pci", g, 0, "max_link_speed">>)
    BY DEF L, LinkIn
  <2>3. "current_link_speed" \in LinkNames /\ "max_link_speed" \in LinkNames
    BY DEF LinkNames
  <2>4. Steady("current_link_speed", "max_link_speed", ValidSpeeds)
    BY DEF SteadyMaxima
  <2>5. WasBelow(g, "current_link_speed", "max_link_speed", ValidSpeeds)
    <3>1. Valid("current_link_speed") = ValidSpeeds /\ Valid("max_link_speed") = ValidSpeeds
      BY DEF Valid
    <3> QED BY <1>4, <1>10, <2>1, <2>3, <2>4, <3>1, BelowItsMaximum
  <2> QED BY <2>5
<1> QED BY <1>8, <1>9, <1>10

\* The property, in a state of which the values were so.
LEMMA DegradedHolds ==
  ASSUME ValuesWereSo, during \subseteq DOMAIN Trees, SteadyMaxima
  PROVE  DegradedWasReal
<1> SUFFICES ASSUME NEW g \in DOMAIN ChecksFor(PathHost(host)), ChecksFor(PathHost(host))[g].gpu_link = "FAIL"
             PROVE  \/ WasBelow(g, "current_link_width", "max_link_width", ValidWidths)
                    \/ WasBelow(g, "current_link_speed", "max_link_speed", ValidSpeeds)
  BY DEF DegradedWasReal
<1> QED BY FailWasReal

-----------------------------------------------------------------------------
(* The work of the two passes. *)

\* What there is to do, and for which paths.
ReadOps == {"list", "resolve", "file", "link", "bind", "ports"}
CopyOps == {"mkdir", "copy", "symlink", "relink", "node"}
Classes == {"pci", "node", "rdma", "net"}
Names ==
  { "", "device", "cpulist", "vendor", "class", "subsystem_vendor", "current_link_width", "max_link_width",
    "current_link_speed", "max_link_speed", "numa_node", "aer_dev_correctable", "config", "driver",
    "physfn", "rate", "state", "speed", "operstate" }
Paths == Classes \X Int \X Int \X Names
\* The only file of a NUMA node that is read.
CPUList(p) == p[1] = "node" => p = <<"node", p[2], 0, "cpulist">>

\* The work of Read, and that of the second pass, which is about the host.
ReadTasks == { t \in [op : ReadOps, at : Paths] : t.op = "file" => CPUList(t.at) }
CopyTasks(h) ==
  { t \in [op : CopyOps, at : Paths] :
      /\ t.op = "node" => t.at \in DOMAIN h.val /\ h.val[t.at].st = "ok" /\ t.at[1] = "node"
      /\ t.op = "relink" /\ t.at[1] = "pci" => t.at[2] \in DOMAIN h.dev }

\* What a directory can list.
Listable(S) == S \in SUBSET Int /\ IsFiniteSet(S)

HostIsFinite(h) ==
  /\ Listable(DOMAIN h.dev) /\ Listable(h.net)
  /\ Listable(DOMAIN h.rdma) /\ \A r \in DOMAIN h.rdma : Listable(h.rdma[r])
  /\ IsFiniteSet(DOMAIN h.val) /\ \A p \in DOMAIN h.val : p \in Paths /\ CPUList(p)

Work == IF copying THEN CopyTasks(host) ELSE ReadTasks

\* Everything that is left to do is work of the pass that is at it.
WorkInv ==
  /\ now \in DOMAIN Trees /\ during \subseteq DOMAIN Trees
  /\ todo \in Seq(Work)
  /\ copying => seat = {}
  /\ \A s \in seat : s.bdf \in Int
  /\ HostIsFinite(host)

\* The order of a set has all its elements and no others.
LEMMA InOrderIs ==
  ASSUME NEW S, Listable(S)
  PROVE  /\ InOrder(S) \in Seq(S)
         /\ \A x \in S : \E i \in DOMAIN InOrder(S) : InOrder(S)[i] = x
<1> DEFINE n == Cardinality(S)
<1>1. /\ n \in Nat
      /\ \A k \in 0..(n - 1) : \E x \in S : Cardinality(Under(S, x)) = k
      /\ \A x \in S : Cardinality(Under(S, x)) \in 0..(n - 1)
      /\ \A x, y \in S : Cardinality(Under(S, x)) = Cardinality(Under(S, y)) => x = y
  BY RankExists DEF Listable
<1> HIDE DEF n
<1>2. InOrder(S) = [ i \in 1..n |-> CHOOSE x \in S : Cardinality(Under(S, x)) = i - 1 ]
  BY DEF InOrder, Under, n
<1>3. ASSUME NEW i \in 1..n PROVE InOrder(S)[i] \in S /\ Cardinality(Under(S, InOrder(S)[i])) = i - 1
  <2>1. \E x \in S : Cardinality(Under(S, x)) = i - 1
    BY <1>1
  <2>2. InOrder(S)[i] = CHOOSE x \in S : Cardinality(Under(S, x)) = i - 1
    BY <1>2
  <2> QED BY <2>1, <2>2
<1>4. InOrder(S) \in Seq(S)
  <2>1. InOrder(S) = [ i \in 1..n |-> InOrder(S)[i] ]
    BY <1>2
  <2> QED BY <1>1, <1>3, <2>1
<1>5. ASSUME NEW x \in S PROVE \E i \in DOMAIN InOrder(S) : InOrder(S)[i] = x
  <2> DEFINE i == Cardinality(Under(S, x)) + 1
  <2>1. i \in 1..n /\ i - 1 = Cardinality(Under(S, x))
    BY <1>1
  <2>2. InOrder(S)[i] = x
    BY <1>1, <1>3, <2>1
  <2>3. DOMAIN InOrder(S) = 1..n
    BY <1>2
  <2> QED BY <2>1, <2>2, <2>3
<1> QED BY <1>4, <1>5

\* The order of a set of numbers is a list of them.
LEMMA InOrderOf ==
  ASSUME NEW S, Listable(S)
  PROVE  InOrder(S) \in Seq(Int) /\ \A i \in DOMAIN InOrder(S) : InOrder(S)[i] \in S
<1>1. InOrder(S) \in Seq(S)
  BY InOrderIs
<1>2. \A x \in S : x \in Int
  BY DEF Listable
<1> DEFINE s == InOrder(S)
<1>3. s \in Seq(S)
  BY <1>1
<1> HIDE DEF s
<1>4. Len(s) \in Nat /\ DOMAIN s = 1..Len(s) /\ \A i \in DOMAIN s : s[i] \in S
  BY <1>3
<1>5. s = [ i \in 1..Len(s) |-> s[i] ]
  BY <1>3
<1>6. s \in Seq(Int)
  BY <1>2, <1>4, <1>5
<1> QED BY <1>4, <1>6 DEF s

\* What the tree lists has an order.
LEMMA TreeListable ==
  ASSUME NEW i \in DOMAIN Trees
  PROVE  /\ Listable(DOMAIN Trees[i].bus) /\ Listable(Trees[i].node) /\ Listable(Trees[i].rdma) /\ Listable(Trees[i].net)
         /\ \A r \in DOMAIN Trees[i].ports : Listable(Trees[i].ports[r])
  BY TreeAssumption DEF Listable

\* What a class directory lists becomes work, one piece for every name.
LEMMA ListedIs ==
  ASSUME now \in DOMAIN Trees, NEW class \in Classes
  PROVE  /\ Listed(class) \in Seq(ReadTasks)
         /\ \A d \in DOMAIN Tree.bus : Task("resolve", <<"pci", d, 0, "">>) \in ToSet(Listed("pci"))
<1>1. ASSUME NEW S, Listable(S), NEW op \in ReadOps, NEW name \in Names, op = "file" => class = "node" /\ name = "cpulist"
      PROVE [ i \in DOMAIN InOrder(S) |-> Task(op, <<class, InOrder(S)[i], 0, name>>) ] \in Seq(ReadTasks)
  <2> DEFINE s == InOrder(S)
  <2>1. s \in Seq(Int)
    BY <1>1, InOrderOf
  <2> HIDE DEF s
  <2>2. ASSUME NEW i \in DOMAIN s PROVE Task(op, <<class, s[i], 0, name>>) \in ReadTasks
    <3>1. s[i] \in Int
      BY <2>1
    <3>2. <<class, s[i], 0, name>> \in Paths
      BY <3>1 DEF Paths
    <3> QED BY <1>1, <3>2 DEF Task, ReadTasks, CPUList
  <2>3. DOMAIN s = 1..Len(s) /\ Len(s) \in Nat
    BY <2>1
  <2>4. [ i \in DOMAIN s |-> Task(op, <<class, s[i], 0, name>>) ] \in Seq(ReadTasks)
    BY <2>2, <2>3
  <2> QED BY <2>4 DEF s
<1>2. /\ Listable(DOMAIN Tree.bus) /\ Listable(Tree.node) /\ Listable(Tree.rdma) /\ Listable(Tree.net)
  BY TreeListable DEF Tree
<1>3. Listed(class) \in Seq(ReadTasks)
  <2>1. CASE class = "pci"
    BY <1>1, <1>2, <2>1 DEF Listed, ReadOps, Names
  <2>2. CASE class = "node"
    BY <1>1, <1>2, <2>2 DEF Listed, ReadOps, Names
  <2>3. CASE class = "rdma"
    BY <1>1, <1>2, <2>3 DEF Listed, ReadOps, Names
  <2>4. CASE class = "net"
    BY <1>1, <1>2, <2>4 DEF Listed, ReadOps, Names
  <2> QED BY <2>1, <2>2, <2>3, <2>4 DEF Classes
<1>4. ASSUME NEW d \in DOMAIN Tree.bus PROVE Task("resolve", <<"pci", d, 0, "">>) \in ToSet(Listed("pci"))
  <2>1. PICK i \in DOMAIN InOrder(DOMAIN Tree.bus) : InOrder(DOMAIN Tree.bus)[i] = d
    BY <1>2, InOrderIs
  <2>2. Listed("pci") = [ j \in DOMAIN InOrder(DOMAIN Tree.bus) |-> Task("resolve", <<"pci", InOrder(DOMAIN Tree.bus)[j], 0, "">>) ]
    BY DEF Listed
  <2> QED BY <2>1, <2>2 DEF ToSet
<1> QED BY <1>3, <1>4

\* A task for each of these files.
LEMMA FileTasks ==
  ASSUME NEW class \in Classes, NEW x \in Int, NEW y \in Int, NEW names \in Seq(Names), NEW op,
         NEW T, \A name \in Names : Task(op, <<class, x, y, name>>) \in T
  PROVE  [ i \in DOMAIN names |-> Task(op, <<class, x, y, names[i]>>) ] \in Seq(T)
<1>1. DOMAIN names = 1..Len(names) /\ Len(names) \in Nat
  OBVIOUS
<1>2. \A i \in DOMAIN names : Task(op, <<class, x, y, names[i]>>) \in T
  OBVIOUS
<1> QED BY <1>1, <1>2

\* The files that are read have the names a path can have.
LEMMA NamesAre ==
  IDFiles \in Seq(Names) /\ LinkFiles \in Seq(Names) /\ Symlinks \in Seq(Names) /\ PortFiles \in Seq(Names) /\ NetFiles \in Seq(Names)
  BY DEF IDFiles, LinkFiles, Symlinks, PortFiles, NetFiles, Names

\* A piece of work of Read.
LEMMA ReadTaskIs ==
  ASSUME NEW class \in Classes, NEW x \in Int, NEW y \in Int, NEW name \in Names, NEW op \in ReadOps,
         op = "file" /\ class = "node" => y = 0 /\ name = "cpulist"
  PROVE  Task(op, <<class, x, y, name>>) \in ReadTasks
<1>1. <<class, x, y, name>> \in Paths
  BY DEF Paths
<1> QED BY <1>1 DEF Task, ReadTasks, CPUList

\* The work for a function is work of Read.
LEMMA FunctionWorkIs ==
  ASSUME NEW d \in Int
  PROVE  FunctionWork(d) \in Seq(ReadTasks)
<1>1. "pci" \in Classes /\ "pci" # "node" /\ "file" \in ReadOps /\ "link" \in ReadOps /\ 0 \in Int
  BY DEF Classes, ReadOps
<1>2. \A name \in Names : Task("file", <<"pci", d, 0, name>>) \in ReadTasks /\ Task("link", <<"pci", d, 0, name>>) \in ReadTasks
  BY <1>1, ReadTaskIs
<1>3. \A names \in Seq(Names) : [ i \in DOMAIN names |-> Task("file", <<"pci", d, 0, names[i]>>) ] \in Seq(ReadTasks)
  BY <1>1, <1>2, FileTasks
<1>4. \A names \in Seq(Names) : [ i \in DOMAIN names |-> Task("link", <<"pci", d, 0, names[i]>>) ] \in Seq(ReadTasks)
  BY <1>1, <1>2, FileTasks
<1> QED BY <1>3, <1>4, NamesAre DEF FunctionWork

\* So is that for an interface.
LEMMA NetWorkIs ==
  ASSUME NEW n \in Int
  PROVE  [ i \in DOMAIN NetFiles |-> Task("file", <<"net", n, 0, NetFiles[i]>>) ] \in Seq(ReadTasks)
<1>1. "net" \in Classes /\ "net" # "node" /\ "file" \in ReadOps /\ 0 \in Int
  BY DEF Classes, ReadOps
<1>2. \A name \in Names : Task("file", <<"net", n, 0, name>>) \in ReadTasks
  BY <1>1, ReadTaskIs
<1> QED BY <1>1, <1>2, NamesAre, FileTasks

\* And that for the ports of an RDMA device.
LEMMA PortWorkIs ==
  ASSUME NEW r \in Int, NEW S, Listable(S)
  PROVE  FlattenSeq([ i \in DOMAIN InOrder(S) |->
                   [ j \in DOMAIN PortFiles |-> Task("file", <<"rdma", r, InOrder(S)[i], PortFiles[j]>>) ] ]) \in Seq(ReadTasks)
<1>1. "rdma" \in Classes /\ "rdma" # "node" /\ "file" \in ReadOps
  BY DEF Classes, ReadOps
<1>2. \A y \in Int : \A name \in Names : Task("file", <<"rdma", r, y, name>>) \in ReadTasks
  BY <1>1, ReadTaskIs
<1>3. \A y \in Int : [ j \in DOMAIN PortFiles |-> Task("file", <<"rdma", r, y, PortFiles[j]>>) ] \in Seq(ReadTasks)
  BY <1>1, <1>2, NamesAre, FileTasks
<1> DEFINE s == InOrder(S)
           ss == [ i \in DOMAIN s |-> [ j \in DOMAIN PortFiles |-> Task("file", <<"rdma", r, s[i], PortFiles[j]>>) ] ]
<1>4. s \in Seq(Int)
  BY InOrderOf
<1> HIDE DEF s
<1>5. ss \in [1..Len(s) -> Seq(ReadTasks)] /\ Len(s) \in Nat
  BY <1>3, <1>4
<1> HIDE DEF ss
<1>6. FlattenSeq(ss) \in Seq(ReadTasks)
  BY <1>5, FlattenIs
<1> QED BY <1>6 DEF ss, s

\* A function that is listed at every moment, and one that is accounted for: it
\* is in the host, a problem, being resolved or still to be looked at.
Everywhere(d) == \A i \in during : "pci" \in Trees[i].lists /\ d \in DOMAIN Trees[i].bus

Pending(d) ==
  \/ d \in DOMAIN host.dev \/ <<"bus", d>> \in host.bad
  \/ \E s \in seat : s.bdf = d
  \/ ~copying /\ (Task("resolve", <<"pci", d, 0, "">>) \in ToSet(todo) \/ Listing("pci") \in ToSet(todo))

NoneForgotten == \A d \in DOMAIN Tree.bus : Everywhere(d) => Pending(d)

\* Every function that is listed all the time is still accounted for, if no
\* step forgets one.
LEMMA StillPending ==
  ASSUME NoneForgotten, UNCHANGED <<now, during>>,
         \A d \in DOMAIN Tree.bus : Everywhere(d) /\ Pending(d) => Pending(d)'
  PROVE  NoneForgotten'
  BY DEF NoneForgotten, Everywhere, Tree

\* What kind of work it is to list the bus and to resolve a name.
LEMMA OpsOf ==
  \A d : Task("resolve", <<"pci", d, 0, "">>).op = "resolve" /\ Listing("pci").op = "list"
  BY DEF Task, Listing

\* Of the host and the seat nothing is lost, and of the work only the head, which is no entry of the bus.
LEMMA OtherWork ==
  ASSUME NoneForgotten, UNCHANGED <<now, during, copying>>, DOMAIN host.dev \subseteq DOMAIN host'.dev, host.bad \subseteq host'.bad,
         seat' = seat,
         \A t \in ToSet(todo) : t \in ToSet(todo') \/ t.op \notin {"resolve", "list"}
  PROVE  NoneForgotten'
<1>2. ASSUME NEW d, Pending(d) PROVE Pending(d)'
  BY <1>2, OpsOf DEF Pending
<1> QED BY <1>2, StillPending

\* The head of the work is done and leads to more.
LEMMA NextTodo ==
  ASSUME WorkInv, ~copying, todo # <<>>, NEW more \in Seq(ReadTasks), Then(more)
  PROVE  /\ todo' \in Seq(ReadTasks) /\ Head1 \in ReadTasks
         /\ \A t \in ToSet(todo) : t = Head1 \/ t \in ToSet(todo')
         /\ ToSet(more) \subseteq ToSet(todo')
         /\ UNCHANGED <<now, during>>
<1>1. todo \in Seq(ReadTasks)
  BY DEF WorkInv, Work
<1>2. todo' = more \o Tail(todo) /\ UNCHANGED <<now, during>>
  BY DEF Then
<1>3. Head1 \in ReadTasks
  BY <1>1 DEF Head1
<1> QED BY <1>1, <1>2, <1>3, InFront DEF Head1

\* There may be no more.
LEMMA NothingMore == <<>> \in Seq(ReadTasks)
  OBVIOUS

\* A problem is noted and nothing else of the host changes.
LEMMA BadIs ==
  ASSUME IInv, NEW x, Bad(x)
  PROVE  /\ HostIsFinite(host) => HostIsFinite(host')
         /\ host'.dev = host.dev /\ host'.bad = host.bad \cup {x}
<1>1. host'.dev = host.dev /\ host'.val = host.val /\ host'.rdma = host.rdma /\ host'.net = host.net
      /\ host'.bad = host.bad \cup {x}
  BY DEF IInv, Fields, Bad
<1> QED BY <1>1 DEF HostIsFinite

\* Nothing of Read is at work while the files are copied.
LEMMA NoReadTask ==
  ASSUME WorkInv, copying, NEW op \in ReadOps
  PROVE  ~Turn(op) /\ seat = {} /\ ~(todo # <<>> /\ Head1.op = op)
<1>1. todo # <<>> => Head1 \in CopyTasks(host)
  <2>1. todo \in Seq(CopyTasks(host))
    BY DEF WorkInv, Work
  <2> QED BY <2>1 DEF Head1
<1>2. \A t \in CopyTasks(host) : t.op \notin ReadOps
  BY DEF CopyTasks, CopyOps, ReadOps
<1> QED BY <1>1, <1>2 DEF Turn, WorkInv

\* A listing of the bus leads to work for every function that is listed.
LEMMA ListDirWork ==
  ASSUME IInv, WorkInv, NoneForgotten, ListDir, UNCHANGED copying
  PROVE  WorkInv' /\ NoneForgotten'
<1>1. ~copying /\ todo # <<>> /\ Head1.op = "list" /\ seat' = seat
  <2>1. "list" \in ReadOps
    BY DEF ReadOps
  <2> QED BY <2>1, NoReadTask DEF ListDir, Turn
<1>2. PICK more \in Seq(ReadTasks) :
        /\ Then(more)
        /\ host' = host \/ Bad(<<"bus", 0>>)
        /\ At[1] = "pci" /\ "pci" \in Tree.lists => more = Listed("pci")
  <2>1. CASE At[1] \in Tree.lists
    <3>1. Head1 \in ReadTasks
      BY <1>1 DEF WorkInv, Work, Head1
    <3>2. At[1] \in Classes
      BY <3>1 DEF ReadTasks, Paths, At
    <3> QED BY <2>1, <3>2, ListedIs DEF ListDir, WorkInv
  <2>2. CASE At[1] \notin Tree.lists
    BY <2>2, NothingMore DEF ListDir
  <2> QED BY <2>1, <2>2
<1>3. /\ todo' \in Seq(ReadTasks)
      /\ \A t \in ToSet(todo) : t = Head1 \/ t \in ToSet(todo')
      /\ ToSet(more) \subseteq ToSet(todo')
      /\ UNCHANGED <<now, during>>
  BY <1>1, <1>2, NextTodo
<1>4. HostIsFinite(host') /\ DOMAIN host.dev \subseteq DOMAIN host'.dev /\ host.bad \subseteq host'.bad
  BY <1>2, BadIs DEF WorkInv
<1>5. WorkInv'
  BY <1>1, <1>3, <1>4 DEF WorkInv, Work
<1>6. ASSUME NEW d \in DOMAIN Tree.bus, Everywhere(d), Pending(d) PROVE Pending(d)'
  <2>1. CASE Listing("pci") = Head1
    <3>1. At[1] = "pci"
      BY <2>1 DEF At, Listing, Task
    <3>2. "pci" \in Tree.lists
      BY <1>6 DEF Everywhere, Tree, IInv
    <3>3. Task("resolve", <<"pci", d, 0, "">>) \in ToSet(Listed("pci"))
      <4>1. "pci" \in Classes /\ now \in DOMAIN Trees
        BY DEF Classes, WorkInv
      <4> QED BY <4>1, ListedIs
    <3> QED BY <1>1, <1>2, <1>3, <3>1, <3>2, <3>3 DEF Pending
  <2>2. CASE Listing("pci") # Head1
    <3>1. Task("resolve", <<"pci", d, 0, "">>) # Head1
      BY <1>1, OpsOf
    <3> QED BY <1>1, <1>3, <1>4, <1>6, <2>2, <3>1 DEF Pending
  <2> QED BY <2>1, <2>2
<1> QED BY <1>3, <1>5, <1>6, StillPending

\* A name that is resolved is a problem or is taken up.
LEMMA ResolveWork ==
  ASSUME IInv, WorkInv, NoneForgotten, ResolveLink, UNCHANGED copying
  PROVE  WorkInv' /\ NoneForgotten'
<1>1. ~copying /\ todo # <<>> /\ Head1.op = "resolve" /\ seat = {}
  <2>1. "resolve" \in ReadOps
    BY DEF ReadOps
  <2> QED BY <2>1, NoReadTask DEF ResolveLink, Turn
<1>2. /\ Then(<<>>)
      /\ \/ Bad(<<"bus", At[2]>>) /\ seat' = seat
         \/ host' = host /\ \E at : seat' = {[bdf |-> At[2], at |-> at, k |-> 1]}
  BY DEF ResolveLink
<1>3. /\ todo' \in Seq(ReadTasks) /\ Head1 \in ReadTasks
      /\ \A t \in ToSet(todo) : t = Head1 \/ t \in ToSet(todo')
      /\ UNCHANGED <<now, during>>
  BY <1>1, <1>2, NextTodo, NothingMore
<1>4. HostIsFinite(host') /\ DOMAIN host.dev \subseteq DOMAIN host'.dev /\ host.bad \subseteq host'.bad
  BY <1>2, BadIs DEF WorkInv
<1>5. \A s \in seat' : s.bdf \in Int
  <2>1. At[2] \in Int
    BY <1>3 DEF ReadTasks, Paths, At
  <2> QED BY <1>1, <1>2, <2>1
<1>6. WorkInv'
  BY <1>1, <1>3, <1>4, <1>5 DEF WorkInv, Work
<1>7. ASSUME NEW d \in DOMAIN Tree.bus, Everywhere(d), Pending(d) PROVE Pending(d)'
  <2>1. CASE Task("resolve", <<"pci", d, 0, "">>) = Head1
    <3>1. At[2] = d
      BY <2>1 DEF At, Task
    <3>2. <<"bus", d>> \in host'.bad \/ \E s \in seat' : s.bdf = d
      <4>1. CASE Bad(<<"bus", At[2]>>)
        BY <3>1, <4>1, BadIs
      <4>2. ASSUME NEW at, seat' = {[bdf |-> At[2], at |-> at, k |-> 1]} PROVE \E s \in seat' : s.bdf = d
        BY <3>1, <4>2
      <4> QED BY <1>2, <4>1, <4>2
    <3> QED BY <3>2 DEF Pending
  <2>2. CASE Task("resolve", <<"pci", d, 0, "">>) # Head1
    <3>1. Listing("pci") # Head1
      BY <1>1, OpsOf
    <3> QED BY <1>1, <1>3, <1>4, <1>7, <2>2, <3>1 DEF Pending
  <2> QED BY <2>1, <2>2
<1> QED BY <1>3, <1>6, <1>7, StillPending

\* A step that leaves the bus alone and does the head of the work.
LEMMA OtherHead ==
  ASSUME IInv, WorkInv, NoneForgotten, UNCHANGED <<copying, seat>>, NEW op \in ReadOps \ {"list", "resolve"}, Turn(op),
         NEW more \in Seq(ReadTasks), Then(more), HostIsFinite(host'),
         host'.dev = host.dev, host.bad \subseteq host'.bad
  PROVE  WorkInv' /\ NoneForgotten'
<1>1. ~copying /\ todo # <<>> /\ Head1.op = op
  BY NoReadTask DEF Turn
<1>2. /\ todo' \in Seq(ReadTasks) /\ Head1 \in ReadTasks
      /\ \A t \in ToSet(todo) : t = Head1 \/ t \in ToSet(todo')
      /\ UNCHANGED <<now, during>>
  BY <1>1, NextTodo
<1>3. WorkInv'
  BY <1>1, <1>2 DEF WorkInv, Work
<1>4. \A t \in ToSet(todo) : t \in ToSet(todo') \/ t.op \notin {"resolve", "list"}
  BY <1>1, <1>2
<1> QED BY <1>2, <1>3, <1>4, OtherWork

\* The head of the work of Read.
LEMMA HeadIs ==
  ASSUME WorkInv, NEW op \in ReadOps, Turn(op)
  PROVE  ~copying /\ At \in Paths /\ At[1] \in Classes /\ At[2] \in Int /\ At[4] \in Names /\ now \in DOMAIN Trees /\ HostIsFinite(host)
<1>1. ~copying /\ todo # <<>>
  BY NoReadTask DEF Turn
<1>2. Head1 \in ReadTasks
  BY <1>1 DEF WorkInv, Work, Head1
<1>3. At \in Paths
  BY <1>2 DEF ReadTasks, At
<1> QED BY <1>1, <1>3 DEF Paths, WorkInv

\* A driver or a physfn is read.
LEMMA ReadLinkWork ==
  ASSUME IInv, WorkInv, NoneForgotten, ReadLink, UNCHANGED copying
  PROVE  WorkInv' /\ NoneForgotten'
<1>1. Turn("link") /\ "link" \in ReadOps \ {"list", "resolve"} /\ Then(<<>>) /\ seat' = seat
  BY DEF ReadOps, ReadLink
<1>2. host'.dev = host.dev /\ host'.val = host.val /\ host'.rdma = host.rdma /\ host'.net = host.net /\ host'.bad = host.bad
  BY DEF ReadLink, IInv, Fields
<1>3. HostIsFinite(host')
  BY <1>2 DEF WorkInv, HostIsFinite
<1> QED BY <1>1, <1>2, <1>3, NothingMore, OtherHead

\* An RDMA device or an interface is bound to its function.
LEMMA BindWork ==
  ASSUME IInv, WorkInv, NoneForgotten, Bind, UNCHANGED copying
  PROVE  WorkInv' /\ NoneForgotten'
<1>1. Turn("bind") /\ "bind" \in ReadOps \ {"list", "resolve"} /\ seat' = seat
  BY DEF ReadOps, Bind
<1>2. At \in Paths /\ At[2] \in Int /\ HostIsFinite(host)
  BY <1>1, HeadIs
<1>3. PICK more \in Seq(ReadTasks) : Then(more)
  <2>1. Task("ports", At) \in ReadTasks
    BY <1>2 DEF Task, ReadTasks, ReadOps
  <2>2. << Task("ports", At) >> \in Seq(ReadTasks)
    BY <2>1
  <2>3. [ i \in DOMAIN NetFiles |-> Task("file", <<"net", At[2], 0, NetFiles[i]>>) ] \in Seq(ReadTasks)
    BY <1>2, NetWorkIs
  <2> QED BY <2>2, <2>3, NothingMore DEF Bind
<1>4. /\ host'.dev = host.dev /\ host'.val = host.val /\ host'.rdma = host.rdma
      /\ host'.net \in {host.net, host.net \cup {At[2]}} /\ host.bad \subseteq host'.bad
  BY DEF Bind, Bad, IInv, Fields
<1>5. Listable(host'.net)
  <2>1. Listable(host.net \cup {At[2]})
    BY <1>2, FS_AddElement DEF HostIsFinite, Listable
  <2> QED BY <1>2, <1>4, <2>1 DEF HostIsFinite
<1>6. HostIsFinite(host')
  BY <1>2, <1>4, <1>5 DEF HostIsFinite
<1> QED BY <1>1, <1>3, <1>4, <1>6, OtherHead

\* The ports of an RDMA device are listed.
LEMMA ListPortsWork ==
  ASSUME IInv, WorkInv, NoneForgotten, ListPorts, UNCHANGED copying
  PROVE  WorkInv' /\ NoneForgotten'
<1> DEFINE r == At[2]
           found == IF r \in DOMAIN Tree.ports THEN Tree.ports[r] ELSE {}
<1>1. Turn("ports") /\ "ports" \in ReadOps \ {"list", "resolve"} /\ seat' = seat
  BY DEF ReadOps, ListPorts
<1>2. r \in Int /\ HostIsFinite(host) /\ now \in DOMAIN Trees
  BY <1>1, HeadIs
<1>3. Listable(found)
  <2>1. Listable({})
    BY FS_EmptySet DEF Listable
  <2> QED BY <1>2, <2>1, TreeListable DEF Tree
<1>4. PICK more \in Seq(ReadTasks) : Then(more)
  <2> DEFINE work == FlattenSeq([ i \in DOMAIN InOrder(found) |->
                   [ j \in DOMAIN PortFiles |-> Task("file", <<"rdma", r, InOrder(found)[i], PortFiles[j]>>) ] ])
  <2>1. Then(work)
    BY DEF ListPorts
  <2> HIDE DEF found, r
  <2>2. work \in Seq(ReadTasks)
    BY <1>2, <1>3, PortWorkIs
  <2> QED BY <2>1, <2>2
<1>5. /\ host'.dev = host.dev /\ host'.val = host.val /\ host'.net = host.net
      /\ host'.rdma = Put(host.rdma, r, found) /\ host.bad \subseteq host'.bad
  BY DEF ListPorts, IInv, Fields
<1> HIDE DEF found, r
<1>6. Listable(DOMAIN host'.rdma) /\ \A x \in DOMAIN host'.rdma : Listable(host'.rdma[x])
  <2>1. DOMAIN host'.rdma = DOMAIN host.rdma \cup {r}
    BY <1>5 DEF Put
  <2>2. Listable(DOMAIN host.rdma \cup {r})
    BY <1>2, FS_AddElement DEF HostIsFinite, Listable
  <2>3. \A x \in DOMAIN host'.rdma : host'.rdma[x] = IF x = r THEN found ELSE host.rdma[x]
    BY <1>5 DEF Put
  <2> QED BY <1>2, <1>3, <2>1, <2>2, <2>3 DEF HostIsFinite
<1>7. HostIsFinite(host')
  BY <1>2, <1>5, <1>6 DEF HostIsFinite
<1> QED BY <1>1, <1>4, <1>5, <1>7, OtherHead

\* A function that was taken up ends in the host or among the problems.
LEMMA LstatWork ==
  ASSUME IInv, WorkInv, NoneForgotten, NEW s \in seat, Lstat(s), UNCHANGED copying
  PROVE  WorkInv' /\ NoneForgotten'
<1>1. ~copying /\ seat = {s} /\ s.bdf \in Int /\ UNCHANGED <<now, during>> /\ HostIsFinite(host) /\ todo \in Seq(ReadTasks)
  BY DEF WorkInv, Work, Lstat
<1>2. ASSUME NEW more \in Seq(ReadTasks), todo' = more \o todo PROVE todo' \in Seq(ReadTasks) /\ ToSet(todo) \subseteq ToSet(todo')
  <2>1. /\ todo' \in Seq(ReadTasks)
        /\ \A i \in 1..Len(todo) : Len(more) + i \in 1..Len(todo') /\ todo'[Len(more) + i] = todo[i]
    BY <1>1, <1>2
  <2>2. DOMAIN todo = 1..Len(todo) /\ DOMAIN todo' = 1..Len(todo')
    BY <1>1, <2>1
  <2> QED BY <2>1, <2>2 DEF ToSet
<1>3. CASE todo' = todo /\ seat' = {} /\ Bad(<<"bus", s.bdf>>)
  <2>1. HostIsFinite(host') /\ host'.dev = host.dev /\ host'.bad = host.bad \cup {<<"bus", s.bdf>>}
    BY <1>1, <1>3, BadIs
  <2>2. WorkInv'
    BY <1>1, <1>3, <2>1 DEF WorkInv, Work
  <2>3. \A d : Pending(d) => Pending(d)'
    BY <1>1, <1>3, <2>1 DEF Pending
  <2> QED BY <1>1, <2>2, <2>3, StillPending
<1>4. CASE todo' = todo /\ host' = host /\ seat' = {[s EXCEPT !.k = @ + 1]}
  <2> DEFINE next == [s EXCEPT !.k = @ + 1]
  <2>1. next.bdf = s.bdf
    BY DEF IInv, SeatWasThere
  <2> HIDE DEF next
  <2>2. WorkInv'
    BY <1>1, <1>4, <2>1 DEF WorkInv, Work, next
  <2>3. \A d : Pending(d) => Pending(d)'
    BY <1>1, <1>4, <2>1 DEF Pending, next
  <2> QED BY <1>1, <2>2, <2>3, StillPending
<1>5. CASE todo' = FunctionWork(s.bdf) \o todo /\ seat' = {} /\ host' = [host EXCEPT !.dev = Put(@, s.bdf, s.at)]
  <2>1. /\ DOMAIN host'.dev = DOMAIN host.dev \cup {s.bdf} /\ host'.val = host.val
        /\ host'.rdma = host.rdma /\ host'.net = host.net /\ host'.bad = host.bad
    BY <1>5 DEF IInv, Fields, Put
  <2>2. Listable(DOMAIN host'.dev)
    <3>1. Listable(DOMAIN host.dev \cup {s.bdf})
      BY <1>1, FS_AddElement DEF HostIsFinite, Listable
    <3> QED BY <2>1, <3>1
  <2>3. HostIsFinite(host')
    BY <1>1, <2>1, <2>2 DEF HostIsFinite
  <2>4. todo' \in Seq(ReadTasks) /\ ToSet(todo) \subseteq ToSet(todo')
    BY <1>1, <1>2, <1>5, FunctionWorkIs
  <2>5. WorkInv'
    BY <1>1, <1>5, <2>3, <2>4 DEF WorkInv, Work
  <2>6. \A d : Pending(d) => Pending(d)'
    BY <1>1, <1>5, <2>1, <2>4 DEF Pending
  <2> QED BY <1>1, <2>5, <2>6, StillPending
<1>6. \/ todo' = todo /\ seat' = {} /\ Bad(<<"bus", s.bdf>>)
      \/ todo' = todo /\ host' = host /\ seat' = {[s EXCEPT !.k = @ + 1]}
      \/ todo' = FunctionWork(s.bdf) \o todo /\ seat' = {} /\ host' = [host EXCEPT !.dev = Put(@, s.bdf, s.at)]
  BY DEF Lstat
<1> QED BY <1>3, <1>4, <1>5, <1>6

\* A value is kept.
LEMMA KeepWork ==
  ASSUME IInv, WorkInv, NoneForgotten, NEW r \in data, Keep(r), todo # <<>>, UNCHANGED copying
  PROVE  WorkInv' /\ NoneForgotten'
<1>1. ~copying /\ Head1.op = "file" /\ "file" \in ReadOps
  <2>1. "file" \in ReadOps
    BY DEF ReadOps
  <2> QED BY <2>1, NoReadTask DEF Keep
<1>2. UNCHANGED <<now, seat, during>> /\ todo' = Tail(todo) /\ host' = [host EXCEPT !.val = Put(@, At, Understood(At, r))]
  BY DEF Keep
<1>3. todo \in Seq(ReadTasks) /\ Head1 \in ReadTasks /\ HostIsFinite(host)
  BY <1>1 DEF WorkInv, Work, Head1
<1>4. /\ todo' \in Seq(ReadTasks)
      /\ \A t \in ToSet(todo) : t = Head1 \/ t \in ToSet(todo')
  <2>1. <<>> \o Tail(todo) = Tail(todo)
    BY <1>3
  <2> QED BY <1>2, <1>3, <2>1, NothingMore, InFront DEF Head1
<1>5. At \in Paths /\ CPUList(At)
  BY <1>1, <1>3 DEF ReadTasks, At
<1>6. /\ DOMAIN host'.val = DOMAIN host.val \cup {At} /\ host'.dev = host.dev
      /\ host'.rdma = host.rdma /\ host'.net = host.net /\ host'.bad = host.bad
  BY <1>2 DEF IInv, Fields, Put
<1>7. IsFiniteSet(DOMAIN host'.val)
  BY <1>3, <1>6, FS_AddElement DEF HostIsFinite
<1>8. HostIsFinite(host')
  BY <1>3, <1>5, <1>6, <1>7 DEF HostIsFinite
<1>9. WorkInv'
  BY <1>1, <1>2, <1>4, <1>8 DEF WorkInv, Work
<1>10. \A t \in ToSet(todo) : t \in ToSet(todo') \/ t.op \notin {"resolve", "list"}
  BY <1>1, <1>4
<1> QED BY <1>2, <1>6, <1>9, <1>10, OtherWork

\* Nothing that matters to the work changes.
LEMMA WorkStays ==
  ASSUME WorkInv, NoneForgotten, UNCHANGED <<now, during, todo, seat, host, copying>>
  PROVE  WorkInv' /\ NoneForgotten'
<1>1. WorkInv'
  BY DEF WorkInv, Work, HostIsFinite
<1>2. \A d : Pending(d) => Pending(d)'
  BY DEF Pending
<1> QED BY <1>1, <1>2, StillPending

\* Every step of Read keeps to its work and forgets no function.
LEMMA ReadStepWork ==
  ASSUME IInv, WorkInv, NoneForgotten, ReadStep, UNCHANGED copying, pc = "back" => todo # <<>>
  PROVE  WorkInv' /\ NoneForgotten'
<1>1. CASE ReadFile
  BY <1>1, WorkStays DEF ReadFile, Stat, OpenFails, Open, ReadHandle
<1>2. ASSUME NEW r \in data, Keep(r) PROVE WorkInv' /\ NoneForgotten'
  <2>1. pc = "back"
    BY <1>2 DEF Keep
  <2> QED BY <1>2, <2>1, KeepWork
<1> QED BY <1>1, <1>2, ListDirWork, ResolveWork, ReadLinkWork, BindWork, ListPortsWork, LstatWork DEF ReadStep

\* The tree changes: what is listed all the time is listed before the change.
LEMMA ChangeWork ==
  ASSUME IInv, WorkInv, NoneForgotten, NEW i \in DOMAIN Trees, Change(i), UNCHANGED copying
  PROVE  WorkInv' /\ NoneForgotten'
<1>1. now' = i /\ during' = during \cup {i} /\ UNCHANGED <<todo, seat, host>>
  BY DEF Change
<1>2. WorkInv'
  BY <1>1 DEF WorkInv, Work, HostIsFinite
<1>3. ASSUME NEW d, Everywhere(d)' PROVE d \in DOMAIN Tree.bus /\ Everywhere(d)
  BY <1>1, <1>3 DEF Everywhere, Tree, IInv
<1>4. \A d : Pending(d) => Pending(d)'
  BY <1>1 DEF Pending
<1> QED BY <1>2, <1>3, <1>4 DEF NoneForgotten

-----------------------------------------------------------------------------
(* The second pass. *)

\* A list of one.
LEMMA One ==
  ASSUME NEW T, NEW x \in T
  PROVE  <<x>> \in Seq(T)
  OBVIOUS

\* A list of work for each name of a directory, in order.
Ordered(S, w) == [ i \in DOMAIN InOrder(S) |-> w[InOrder(S)[i]] ]

LEMMA EachIs ==
  ASSUME NEW T, NEW S, NEW w \in [S -> Seq(T)], Listable(S)
  PROVE  FlattenSeq(Ordered(S, w)) \in Seq(T) /\ ToSet(FlattenSeq(Ordered(S, w))) = AllOf(S, w)
<1> DEFINE s == InOrder(S)
           ss == Ordered(S, w)
<1>1. s \in Seq(Int) /\ (\A i \in DOMAIN s : s[i] \in S) /\ \A x \in S : \E i \in DOMAIN s : s[i] = x
  BY InOrderOf, InOrderIs
<1>2. ss = [ i \in DOMAIN s |-> w[s[i]] ]
  BY DEF Ordered
<1> HIDE DEF s, ss
<1>3. Len(s) \in Nat /\ DOMAIN s = 1..Len(s)
  BY <1>1
<1>4. ss \in [1..Len(s) -> Seq(T)]
  BY <1>1, <1>2, <1>3
<1>5. FlattenSeq(ss) \in Seq(T) /\ \A t : t \in ToSet(FlattenSeq(ss)) <=> \E i \in 1..Len(s) : t \in ToSet(ss[i])
  <2>1. PICK n \in Nat : n = Len(s)
    BY <1>3
  <2>2. ss \in [1..n -> Seq(T)]
    BY <1>4, <2>1
  <2>3. FlattenSeq(ss) \in Seq(T) /\ ToSet(FlattenSeq(ss)) = AllOf(1..n, ss)
    BY <2>2, FlattenIs
  <2> QED BY <2>1, <2>3 DEF AllOf
<1>6. ASSUME NEW t PROVE t \in ToSet(FlattenSeq(ss)) <=> t \in AllOf(S, w)
  <2>1. t \in ToSet(FlattenSeq(ss)) <=> \E i \in DOMAIN s : t \in ToSet(ss[i])
    BY <1>3, <1>5
  <2>2. \A i \in DOMAIN s : ToSet(ss[i]) = ToSet(w[s[i]])
    BY <1>2
  <2>3. t \in AllOf(S, w) <=> \E x \in S : t \in ToSet(w[x])
    BY DEF AllOf
  <2> QED BY <1>1, <2>1, <2>2, <2>3
<1> QED BY <1>5, <1>6 DEF ss

\* A piece of work of the copy that asks for nothing of the host.
LEMMA CopyTaskIs ==
  ASSUME NEW class \in Classes, NEW x \in Int, NEW y \in Int, NEW name \in Names, NEW op \in {"mkdir", "copy", "symlink"}
  PROVE  Task(op, <<class, x, y, name>>) \in CopyTasks(host)
<1>1. <<class, x, y, name>> \in Paths
  BY DEF Paths
<1> QED BY <1>1 DEF Task, CopyTasks, CopyOps

\* Files to be copied and links to be made.
LEMMA CopiesAre ==
  ASSUME NEW class \in Classes, NEW x \in Int, NEW y \in Int, NEW names \in Seq(Names)
  PROVE  /\ [ i \in DOMAIN names |-> Task("copy", <<class, x, y, names[i]>>) ] \in Seq(CopyTasks(host))
         /\ [ i \in DOMAIN names |-> Task("symlink", <<class, x, y, names[i]>>) ] \in Seq(CopyTasks(host))
<1>1. \A name \in Names : Task("copy", <<class, x, y, name>>) \in CopyTasks(host) /\ Task("symlink", <<class, x, y, name>>) \in CopyTasks(host)
  BY CopyTaskIs
<1> QED BY <1>1, FileTasks

\* A task for each of these names.
NamedWork(op, class, x, y, names) == [ i \in DOMAIN names |-> Task(op, <<class, x, y, names[i]>>) ]
NamedTasks(op, class, x, y, names) == { Task(op, <<class, x, y, a>>) : a \in ToSet(names) }

LEMMA NamedTasksAre ==
  ASSUME NEW op, NEW class, NEW x, NEW y, NEW names
  PROVE  ToSet(NamedWork(op, class, x, y, names)) = NamedTasks(op, class, x, y, names)
<1> DEFINE s == NamedWork(op, class, x, y, names)
<1>1. DOMAIN s = DOMAIN names /\ \A i \in DOMAIN names : s[i] = Task(op, <<class, x, y, names[i]>>)
  BY DEF NamedWork
<1> HIDE DEF s
<1>2. ToSet(s) = { Task(op, <<class, x, y, a>>) : a \in ToSet(names) }
  BY <1>1 DEF ToSet
<1> QED BY <1>2 DEF s, NamedTasks

\* The work of the second pass for one name.
OpenTask(op, at) == {Task(op, at)}
FunctionTasks(d) ==
  ((OpenTask("mkdir", <<"pci", d, 0, "">>) \cup NamedTasks("copy", "pci", d, 0, IDFiles \o LinkFiles))
    \cup NamedTasks("symlink", "pci", d, 0, Symlinks)) \cup OpenTask("relink", <<"pci", d, 0, "">>)
NodeTasks(n) == OpenTask("node", <<"node", n, 0, "cpulist">>)
PortTasks(r, i) == OpenTask("mkdir", <<"rdma", r, i, "">>) \cup NamedTasks("copy", "rdma", r, i, PortFiles)
NetTasks(n) == OpenTask("relink", DevicePath("net", n)) \cup NamedTasks("copy", "net", n, 0, NetFiles)
NodesOf(h) == { p[2] : p \in { q \in DOMAIN h.val : q[1] = "node" /\ h.val[q].st = "ok" } }

\* All of it.
IsCopyTask(h, t) ==
  \/ \E d \in DOMAIN h.dev : t \in FunctionTasks(d)
  \/ \E n \in NodesOf(h) : t \in NodeTasks(n)
  \/ \E r \in DOMAIN h.rdma : t \in OpenTask("relink", DevicePath("rdma", r)) \/ \E i \in h.rdma[r] : t \in PortTasks(r, i)
  \/ \E n \in h.net : t \in NetTasks(n)

\* A list of one, and its element.
LEMMA OneTask ==
  ASSUME NEW T, NEW op, NEW at, Task(op, at) \in T
  PROVE  << Task(op, at) >> \in Seq(T) /\ ToSet(<< Task(op, at) >>) = OpenTask(op, at)
<1>1. PICK t : t = Task(op, at)
  OBVIOUS
<1>2. <<t>> \in Seq(T) /\ ToSet(<<t>>) = {t}
  BY <1>1 DEF ToSet
<1> QED BY <1>1, <1>2 DEF OpenTask

\* The second pass works on what is in the host.
LEMMA CopyWorkIs ==
  ASSUME HostIsFinite(host)
  PROVE  CopyWork \in Seq(CopyTasks(host)) /\ \A t : t \in ToSet(CopyWork) <=> IsCopyTask(host, t)
<1> DEFINE T == CopyTasks(host)
           Copies(class, x, y, names) == [ i \in DOMAIN names |-> Task("copy", <<class, x, y, names[i]>>) ]
           OfFunction(d) ==
             << Task("mkdir", <<"pci", d, 0, "">>) >> \o Copies("pci", d, 0, IDFiles \o LinkFiles)
               \o [ i \in DOMAIN Symlinks |-> Task("symlink", <<"pci", d, 0, Symlinks[i]>>) ]
               \o << Task("relink", <<"pci", d, 0, "">>) >>
           OfNode(n) == << Task("node", <<"node", n, 0, "cpulist">>) >>
           OfPort(r, i) == << Task("mkdir", <<"rdma", r, i, "">>) >> \o Copies("rdma", r, i, PortFiles)
           Ports(r) == [ i \in DOMAIN InOrder(host.rdma[r]) |-> OfPort(r, InOrder(host.rdma[r])[i]) ]
           OfRDMA(r) == << Task("relink", DevicePath("rdma", r)) >> \o FlattenSeq(Ports(r))
           OfNet(n) == << Task("relink", DevicePath("net", n)) >> \o Copies("net", n, 0, NetFiles)
           nodes == { p[2] : p \in { q \in DOMAIN host.val : q[1] = "node" /\ host.val[q].st = "ok" } }
           w1 == [ d \in DOMAIN host.dev |-> OfFunction(d) ]
           w2 == [ n \in nodes |-> OfNode(n) ]
           w3 == [ r \in DOMAIN host.rdma |-> OfRDMA(r) ]
           w4 == [ n \in host.net |-> OfNet(n) ]
           f1 == [ i \in DOMAIN InOrder(DOMAIN host.dev) |-> OfFunction(InOrder(DOMAIN host.dev)[i]) ]
           f2 == [ i \in DOMAIN InOrder(nodes) |-> OfNode(InOrder(nodes)[i]) ]
           f3 == [ i \in DOMAIN InOrder(DOMAIN host.rdma) |-> OfRDMA(InOrder(DOMAIN host.rdma)[i]) ]
           f4 == [ i \in DOMAIN InOrder(host.net) |-> OfNet(InOrder(host.net)[i]) ]
<1>1. CopyWork = FlattenSeq(f1) \o FlattenSeq(f2) \o FlattenSeq(f3) \o FlattenSeq(f4)
  BY DEF CopyWork
<1>2. "pci" \in Classes /\ "rdma" \in Classes /\ "net" \in Classes /\ "" \in Names /\ "device" \in Names /\ 0 \in Int
  BY DEF Classes, Names
<1> HIDE DEF OfFunction, OfRDMA, OfNet, nodes
<1>3. ASSUME NEW d \in DOMAIN host.dev PROVE OfFunction(d) \in Seq(CopyTasks(host)) /\ ToSet(OfFunction(d)) = FunctionTasks(d)
  <2>1. d \in Int
    BY DEF HostIsFinite, Listable
  <2>2. Task("mkdir", <<"pci", d, 0, "">>) \in CopyTasks(host)
    BY <1>2, <2>1, CopyTaskIs
  <2>3. IDFiles \o LinkFiles \in Seq(Names) /\ Symlinks \in Seq(Names)
    BY NamesAre
  <2>4. Copies("pci", d, 0, IDFiles \o LinkFiles) \in Seq(CopyTasks(host))
    BY <1>2, <2>1, <2>3, CopiesAre
  <2>5. [ i \in DOMAIN Symlinks |-> Task("symlink", <<"pci", d, 0, Symlinks[i]>>) ] \in Seq(CopyTasks(host))
    BY <1>2, <2>1, <2>3, CopiesAre
  <2>6. Task("relink", <<"pci", d, 0, "">>) \in CopyTasks(host)
    <3>1. <<"pci", d, 0, "">> \in Paths
      BY <1>2, <2>1 DEF Paths
    <3> QED BY <3>1 DEF Task, CopyTasks, CopyOps
  <2> DEFINE m == << Task("mkdir", <<"pci", d, 0, "">>) >>
             c == Copies("pci", d, 0, IDFiles \o LinkFiles)
             l == [ i \in DOMAIN Symlinks |-> Task("symlink", <<"pci", d, 0, Symlinks[i]>>) ]
             k == << Task("relink", <<"pci", d, 0, "">>) >>
  <2>7. /\ m \in Seq(CopyTasks(host)) /\ ToSet(m) = OpenTask("mkdir", <<"pci", d, 0, "">>)
        /\ k \in Seq(CopyTasks(host)) /\ ToSet(k) = OpenTask("relink", <<"pci", d, 0, "">>)
    BY <2>2, <2>6, OneTask, Zenon
  <2>8. /\ c \in Seq(CopyTasks(host)) /\ ToSet(c) = NamedTasks("copy", "pci", d, 0, IDFiles \o LinkFiles)
        /\ l \in Seq(CopyTasks(host)) /\ ToSet(l) = NamedTasks("symlink", "pci", d, 0, Symlinks)
    <3>1. c = NamedWork("copy", "pci", d, 0, IDFiles \o LinkFiles) /\ l = NamedWork("symlink", "pci", d, 0, Symlinks)
      BY DEF NamedWork
    <3>2. c \in Seq(CopyTasks(host)) /\ l \in Seq(CopyTasks(host))
      BY <2>4, <2>5
    <3> HIDE DEF c, l
    <3> QED BY <3>1, <3>2, NamedTasksAre
  <2>9. OfFunction(d) = ((m \o c) \o l) \o k
    BY DEF OfFunction
  <2> HIDE DEF m, c, l, k
  <2>10. PICK U : U = CopyTasks(host)
    OBVIOUS
  <2>11. m \in Seq(U) /\ c \in Seq(U) /\ l \in Seq(U) /\ k \in Seq(U)
    BY <2>7, <2>8, <2>10
  <2>12. /\ ((m \o c) \o l) \o k \in Seq(U)
         /\ ToSet(((m \o c) \o l) \o k) = ((ToSet(m) \cup ToSet(c)) \cup ToSet(l)) \cup ToSet(k)
    BY <2>11, ElementsOfFour
  <2> QED BY <2>7, <2>8, <2>9, <2>10, <2>12 DEF FunctionTasks
<1>4. ASSUME NEW n \in nodes PROVE OfNode(n) \in Seq(CopyTasks(host)) /\ n \in Int /\ ToSet(OfNode(n)) = NodeTasks(n)
  <2>1. PICK p \in DOMAIN host.val : p[1] = "node" /\ host.val[p].st = "ok" /\ p[2] = n
    BY DEF nodes
  <2>2. p \in Paths /\ p = <<"node", n, 0, "cpulist">>
    BY <2>1 DEF HostIsFinite, CPUList
  <2>3. n \in Int
    BY <2>1, <2>2 DEF Paths
  <2>4. Task("node", p) \in CopyTasks(host)
    BY <2>1, <2>2 DEF Task, CopyTasks, CopyOps
  <2>5. OfNode(n) = << Task("node", p) >>
    BY <2>2
  <2>6. << Task("node", p) >> \in Seq(CopyTasks(host)) /\ ToSet(<< Task("node", p) >>) = OpenTask("node", p)
    BY <2>4, OneTask
  <2> QED BY <2>2, <2>3, <2>5, <2>6 DEF NodeTasks
<1>5. Listable(nodes)
  <2> DEFINE ok == { q \in DOMAIN host.val : q[1] = "node" /\ host.val[q].st = "ok" }
             num == [ q \in ok |-> q[2] ]
  <2>1. IsFiniteSet(ok)
    BY FS_Subset DEF HostIsFinite
  <2>2. num \in Surjection(ok, nodes)
    BY DEF nodes, Surjection
  <2> HIDE DEF ok, num
  <2>3. IsFiniteSet(nodes)
    BY <2>1, <2>2, FS_Surjection
  <2> QED BY <1>4, <2>3 DEF Listable
<1>6. ASSUME NEW r \in DOMAIN host.rdma
      PROVE  /\ OfRDMA(r) \in Seq(CopyTasks(host))
             /\ \A t : t \in ToSet(OfRDMA(r))
                  <=> t \in OpenTask("relink", DevicePath("rdma", r)) \/ \E i \in host.rdma[r] : t \in PortTasks(r, i)
  <2>1. r \in Int /\ Listable(host.rdma[r])
    BY DEF HostIsFinite, Listable
  <2>2. Task("relink", DevicePath("rdma", r)) \in CopyTasks(host)
    <3>1. <<"rdma", r, 0, "device">> \in Paths
      BY <1>2, <2>1 DEF Paths
    <3> QED BY <3>1 DEF Task, CopyTasks, CopyOps, DevicePath
  <2> HIDE DEF OfPort
  <2>3. ASSUME NEW y \in host.rdma[r] PROVE OfPort(r, y) \in Seq(CopyTasks(host)) /\ ToSet(OfPort(r, y)) = PortTasks(r, y)
    <3>1. y \in Int
      BY <2>1 DEF Listable
    <3>2. Task("mkdir", <<"rdma", r, y, "">>) \in CopyTasks(host)
      BY <1>2, <2>1, <3>1, CopyTaskIs
    <3>3. Copies("rdma", r, y, PortFiles) \in Seq(CopyTasks(host))
      BY <1>2, <2>1, <3>1, NamesAre, CopiesAre
    <3> DEFINE m == << Task("mkdir", <<"rdma", r, y, "">>) >>
               c == Copies("rdma", r, y, PortFiles)
    <3>4. m \in Seq(CopyTasks(host)) /\ ToSet(m) = OpenTask("mkdir", <<"rdma", r, y, "">>)
      BY <3>2, OneTask, Zenon
    <3>5. c \in Seq(CopyTasks(host)) /\ c = NamedWork("copy", "rdma", r, y, PortFiles)
      BY <3>3 DEF NamedWork
    <3>6. OfPort(r, y) = m \o c
      BY DEF OfPort
    <3> HIDE DEF m, c
    <3>7. m \o c \in Seq(CopyTasks(host)) /\ ToSet(m \o c) = ToSet(m) \cup ToSet(c)
      <4>1. PICK C, m1, c1 : C = CopyTasks(host) /\ m1 = m /\ c1 = c
        OBVIOUS
      <4>2. m1 \in Seq(C) /\ c1 \in Seq(C)
        BY <3>4, <3>5, <4>1
      <4>3. m1 \o c1 \in Seq(C) /\ ToSet(m1 \o c1) = ToSet(m1) \cup ToSet(c1)
        BY <4>2, ElementsOf
      <4> QED BY <4>1, <4>3
    <3>8. ToSet(c) = NamedTasks("copy", "rdma", r, y, PortFiles)
      BY <3>5, NamedTasksAre
    <3> QED BY <3>4, <3>6, <3>7, <3>8 DEF PortTasks
  <2> DEFINE w == [ y \in host.rdma[r] |-> OfPort(r, y) ]
             ss == Ports(r)
             k == << Task("relink", DevicePath("rdma", r)) >>
  <2>4. w \in [host.rdma[r] -> Seq(CopyTasks(host))] /\ \A y \in host.rdma[r] : ToSet(w[y]) = PortTasks(r, y)
    BY <2>3
  <2>5. ss = Ordered(host.rdma[r], w)
    <3>1. \A i \in DOMAIN InOrder(host.rdma[r]) : InOrder(host.rdma[r])[i] \in host.rdma[r]
      BY <2>1, InOrderOf
    <3> QED BY <3>1 DEF Ordered
  <2>6. OfRDMA(r) = k \o FlattenSeq(ss)
    BY DEF OfRDMA
  <2>7. k \in Seq(CopyTasks(host)) /\ ToSet(k) = OpenTask("relink", DevicePath("rdma", r))
    BY <2>2, OneTask, Zenon
  <2> HIDE DEF w, ss, k
  <2>8. FlattenSeq(ss) \in Seq(CopyTasks(host)) /\ ToSet(FlattenSeq(ss)) = AllOf(host.rdma[r], w)
    BY <2>1, <2>4, <2>5, EachIs
  <2>9. k \o FlattenSeq(ss) \in Seq(CopyTasks(host)) /\ ToSet(k \o FlattenSeq(ss)) = ToSet(k) \cup ToSet(FlattenSeq(ss))
    BY <2>7, <2>8, ElementsOf
  <2>10. \A t : t \in AllOf(host.rdma[r], w) <=> \E y \in host.rdma[r] : t \in PortTasks(r, y)
    BY <2>4 DEF AllOf
  <2> QED BY <2>6, <2>7, <2>8, <2>9, <2>10
<1>7. ASSUME NEW n \in host.net PROVE OfNet(n) \in Seq(CopyTasks(host)) /\ ToSet(OfNet(n)) = NetTasks(n)
  <2>1. n \in Int
    BY DEF HostIsFinite, Listable
  <2>2. Task("relink", DevicePath("net", n)) \in CopyTasks(host)
    <3>1. <<"net", n, 0, "device">> \in Paths
      BY <1>2, <2>1 DEF Paths
    <3> QED BY <3>1 DEF Task, CopyTasks, CopyOps, DevicePath
  <2>3. Copies("net", n, 0, NetFiles) \in Seq(CopyTasks(host))
    BY <1>2, <2>1, NamesAre, CopiesAre
  <2> DEFINE k == << Task("relink", DevicePath("net", n)) >>
             c == Copies("net", n, 0, NetFiles)
  <2>4. k \in Seq(CopyTasks(host)) /\ ToSet(k) = OpenTask("relink", DevicePath("net", n))
    BY <2>2, OneTask, Zenon
  <2>5. c \in Seq(CopyTasks(host)) /\ c = NamedWork("copy", "net", n, 0, NetFiles)
    BY <2>3 DEF NamedWork
  <2>6. OfNet(n) = k \o c
    BY DEF OfNet
  <2> HIDE DEF k, c
  <2>7. k \o c \in Seq(CopyTasks(host)) /\ ToSet(k \o c) = ToSet(k) \cup ToSet(c)
    BY <2>4, <2>5, ElementsOf
  <2>8. ToSet(c) = NamedTasks("copy", "net", n, 0, NetFiles)
    BY <2>5, NamedTasksAre
  <2> QED BY <2>4, <2>6, <2>7, <2>8 DEF NetTasks
<1> HIDE DEF OfNode
<1>8. /\ w1 \in [DOMAIN host.dev -> Seq(CopyTasks(host))] /\ w2 \in [nodes -> Seq(CopyTasks(host))]
      /\ w3 \in [DOMAIN host.rdma -> Seq(CopyTasks(host))] /\ w4 \in [host.net -> Seq(CopyTasks(host))]
  BY <1>3, <1>4, <1>6, <1>7
<1>16. /\ \A d \in DOMAIN host.dev : ToSet(w1[d]) = FunctionTasks(d)
       /\ \A n \in nodes : ToSet(w2[n]) = NodeTasks(n)
       /\ \A r \in DOMAIN host.rdma : \A t : t \in ToSet(w3[r])
            <=> t \in OpenTask("relink", DevicePath("rdma", r)) \/ \E i \in host.rdma[r] : t \in PortTasks(r, i)
       /\ \A n \in host.net : ToSet(w4[n]) = NetTasks(n)
  BY <1>3, <1>4, <1>6, <1>7
<1>9. Listable(DOMAIN host.dev) /\ Listable(DOMAIN host.rdma) /\ Listable(host.net)
  BY DEF HostIsFinite
<1>10. f1 = Ordered(DOMAIN host.dev, w1)
  <2>1. \A i \in DOMAIN InOrder(DOMAIN host.dev) : InOrder(DOMAIN host.dev)[i] \in DOMAIN host.dev
    BY <1>9, InOrderOf
  <2> QED BY <2>1 DEF Ordered
<1>11. f2 = Ordered(nodes, w2)
  <2>1. \A i \in DOMAIN InOrder(nodes) : InOrder(nodes)[i] \in nodes
    BY <1>5, InOrderOf
  <2> QED BY <2>1 DEF Ordered
<1>12. f3 = Ordered(DOMAIN host.rdma, w3)
  <2>1. \A i \in DOMAIN InOrder(DOMAIN host.rdma) : InOrder(DOMAIN host.rdma)[i] \in DOMAIN host.rdma
    BY <1>9, InOrderOf
  <2> QED BY <2>1 DEF Ordered
<1>13. f4 = Ordered(host.net, w4)
  <2>1. \A i \in DOMAIN InOrder(host.net) : InOrder(host.net)[i] \in host.net
    BY <1>9, InOrderOf
  <2> QED BY <2>1 DEF Ordered
<1> HIDE DEF f1, f2, f3, f4, w1, w2, w3, w4
<1> HIDE DEF T
<1>21. /\ w1 \in [DOMAIN host.dev -> Seq(T)] /\ w2 \in [nodes -> Seq(T)]
       /\ w3 \in [DOMAIN host.rdma -> Seq(T)] /\ w4 \in [host.net -> Seq(T)]
  BY <1>8 DEF T
<1>14. /\ FlattenSeq(f1) \in Seq(T) /\ ToSet(FlattenSeq(f1)) = AllOf(DOMAIN host.dev, w1)
       /\ FlattenSeq(f2) \in Seq(T) /\ ToSet(FlattenSeq(f2)) = AllOf(nodes, w2)
  <2>1. FlattenSeq(f1) \in Seq(T) /\ ToSet(FlattenSeq(f1)) = AllOf(DOMAIN host.dev, w1)
    BY <1>9, <1>10, <1>21, EachIs
  <2>2. FlattenSeq(f2) \in Seq(T) /\ ToSet(FlattenSeq(f2)) = AllOf(nodes, w2)
    BY <1>5, <1>11, <1>21, EachIs
  <2> QED BY <2>1, <2>2
<1>15. /\ FlattenSeq(f3) \in Seq(T) /\ ToSet(FlattenSeq(f3)) = AllOf(DOMAIN host.rdma, w3)
       /\ FlattenSeq(f4) \in Seq(T) /\ ToSet(FlattenSeq(f4)) = AllOf(host.net, w4)
  <2>1. FlattenSeq(f3) \in Seq(T) /\ ToSet(FlattenSeq(f3)) = AllOf(DOMAIN host.rdma, w3)
    BY <1>9, <1>12, <1>21, EachIs
  <2>2. FlattenSeq(f4) \in Seq(T) /\ ToSet(FlattenSeq(f4)) = AllOf(host.net, w4)
    BY <1>9, <1>13, <1>21, EachIs
  <2> QED BY <2>1, <2>2
<1> DEFINE F1 == FlattenSeq(f1)
           F2 == FlattenSeq(f2)
           F3 == FlattenSeq(f3)
           F4 == FlattenSeq(f4)
<1>17. F1 \in Seq(T) /\ F2 \in Seq(T) /\ F3 \in Seq(T) /\ F4 \in Seq(T)
  BY <1>14, <1>15
<1>18. CopyWork = ((F1 \o F2) \o F3) \o F4
  BY <1>1
<1> HIDE DEF F1, F2, F3, F4
<1>19. CopyWork \in Seq(T) /\ ToSet(CopyWork) = ((ToSet(F1) \cup ToSet(F2)) \cup ToSet(F3)) \cup ToSet(F4)
  <2>1. /\ ((F1 \o F2) \o F3) \o F4 \in Seq(T)
        /\ ToSet(((F1 \o F2) \o F3) \o F4) = ((ToSet(F1) \cup ToSet(F2)) \cup ToSet(F3)) \cup ToSet(F4)
    BY <1>17, ElementsOfFour
  <2> QED BY <1>18, <2>1
<1>20. ASSUME NEW t PROVE t \in ToSet(CopyWork) <=> IsCopyTask(host, t)
  <2>1. t \in ToSet(F1) <=> \E d \in DOMAIN host.dev : t \in FunctionTasks(d)
    BY <1>14, <1>16 DEF F1, AllOf
  <2>2. t \in ToSet(F2) <=> \E n \in NodesOf(host) : t \in NodeTasks(n)
    <3>1. nodes = NodesOf(host)
      BY DEF nodes, NodesOf
    <3> QED BY <1>14, <1>16, <3>1 DEF F2, AllOf
  <2>3. t \in ToSet(F3) <=> \E r \in DOMAIN host.rdma :
          t \in OpenTask("relink", DevicePath("rdma", r)) \/ \E i \in host.rdma[r] : t \in PortTasks(r, i)
    BY <1>15, <1>16 DEF F3, AllOf
  <2>4. t \in ToSet(F4) <=> \E n \in host.net : t \in NetTasks(n)
    BY <1>15, <1>16 DEF F4, AllOf
  <2> QED BY <1>19, <2>1, <2>2, <2>3, <2>4 DEF IsCopyTask
<1> QED BY <1>19, <1>20 DEF T

\* readFile and its callers are at the head of the work.
Busy == pc \in {"open", "read", "back"} => todo # <<>>

\* Every step of the second pass keeps to its work.
LEMMA CopyStepWork ==
  ASSUME IInv, WorkInv, NoneForgotten, Busy, Copies1
  PROVE  WorkInv' /\ NoneForgotten'
<1>1. UNCHANGED <<now, during, host, seat>>
  BY DEF Copies1, ReadEnds, MkDir, Relink, WriteNode, CopyFails, Symlink1, SymlinkFails, CopyEnds, CopyFile, CopyFileFails, Next1
<1>2. CASE ReadEnds
  <2>1. copying' = TRUE /\ todo' = CopyWork /\ todo = <<>> /\ seat = {}
    BY <1>2 DEF ReadEnds, ReadReturns
  <2>2. todo' \in Seq(CopyTasks(host))
    BY <2>1, CopyWorkIs DEF WorkInv
  <2>3. WorkInv'
    BY <1>1, <2>1, <2>2 DEF WorkInv, Work, HostIsFinite, CopyTasks
  <2>4. \A d : Pending(d) => Pending(d)'
    BY <1>1, <2>1 DEF Pending, ToSet
  <2> QED BY <1>1, <2>3, <2>4, StillPending
<1>3. CASE copying /\ copying' = copying /\ (todo' = todo \/ (todo # <<>> /\ todo' = Tail(todo)))
  <2>1. todo' \in Seq(CopyTasks(host))
    BY <1>3 DEF WorkInv, Work
  <2>2. WorkInv'
    BY <1>1, <1>3, <2>1 DEF WorkInv, Work, HostIsFinite, CopyTasks
  <2>3. \A d : Pending(d) => Pending(d)'
    BY <1>1, <1>3 DEF Pending
  <2> QED BY <1>1, <2>2, <2>3, StillPending
<1>4. CASE MkDir \/ Relink \/ WriteNode \/ Symlink1 \/ SymlinkFails \/ CopyEnds \/ CopyFails
  <2>1. copying /\ copying' = copying
    BY <1>4 DEF MkDir, Relink, WriteNode, Symlink1, SymlinkFails, CopyEnds, CopyFails, CopyTurn
  <2>2. todo' = todo \/ (todo # <<>> /\ todo' = Tail(todo))
    <3>1. CASE MkDir \/ Relink \/ WriteNode \/ Symlink1 \/ SymlinkFails
      BY <3>1 DEF MkDir, Relink, WriteNode, Symlink1, SymlinkFails, CopyTurn, Turn, Next1
    <3>2. CASE CopyEnds \/ CopyFails
      BY <3>2 DEF CopyEnds, CopyFails
    <3> QED BY <1>4, <3>1, <3>2
  <2> QED BY <1>3, <2>1, <2>2
<1>5. ASSUME NEW r \in data, CopyFile(r) \/ CopyFileFails(r) PROVE WorkInv' /\ NoneForgotten'
  <2>1. pc = "back" /\ Head1.op = "copy" /\ copying' = copying /\ todo' = Tail(todo) /\ todo # <<>>
    BY <1>5 DEF CopyFile, CopyFileFails, Busy
  <2>2. copying
    <3>1. "copy" \notin ReadOps /\ \A t \in ReadTasks : t.op \in ReadOps
      BY DEF ReadOps, ReadTasks
    <3>2. ~copying => Head1 \in ReadTasks
      BY <2>1 DEF WorkInv, Work, Head1
    <3>3. copying \in BOOLEAN \/ copying \/ ~copying
      OBVIOUS
    <3> QED BY <2>1, <3>1, <3>2
  <2> QED BY <1>3, <2>1, <2>2
<1> QED BY <1>2, <1>4, <1>5 DEF Copies1

\* While a file is read there is work.
LEMMA BusyStays ==
  ASSUME Busy, [Next]_vars, IInv, WorkInv
  PROVE  Busy'
<1>1. CASE Reads
  <2>1. CASE ListDir \/ ResolveLink \/ ReadLink \/ Bind \/ ListPorts \/ \E s \in seat : Lstat(s)
    BY <2>1 DEF ListDir, ResolveLink, ReadLink, Bind, ListPorts, Lstat, Then, Turn, Busy
  <2>2. CASE ReadFile
    BY <2>2 DEF ReadFile, Stat, OpenFails, Open, ReadHandle, InFile, Busy
  <2>3. CASE \E r \in data : Keep(r)
    BY <2>3 DEF Keep, Busy
  <2> QED BY <1>1, <2>1, <2>2, <2>3 DEF Reads, ReadStep
<1>2. CASE Copies1
  BY <1>2 DEF Copies1, ReadEnds, MkDir, Relink, WriteNode, CopyFails, Symlink1, SymlinkFails, CopyEnds, CopyFile, CopyFileFails,
              Next1, CopyTurn, Turn, ReadReturns, Busy
<1>3. CASE Changes
  BY <1>3 DEF Changes, Change, Busy
<1>4. CASE UNCHANGED vars
  BY <1>4 DEF vars, readVars, Busy
<1> QED BY <1>1, <1>2, <1>3, <1>4 DEF Next

\* Before the first step there is the work Read begins with.
LEMMA InitWork ==
  ASSUME Init
  PROVE  WorkInv /\ NoneForgotten /\ Busy
<1>1. /\ now \in DOMAIN Trees /\ during = {now} /\ seat = {} /\ host = NoHost /\ pc = "next" /\ copying = FALSE
      /\ todo = << Listing("pci"), Listing("node"), Listing("rdma"), Listing("net") >>
  BY DEF Init, ReadInit
<1>2. \A class \in Classes : Listing(class) \in ReadTasks
  <2> TAKE class \in Classes
  <2>1. class \in Classes /\ "" \in Names /\ 0 \in Int
    BY DEF Names
  <2>2. <<class, 0, 0, "">> \in Paths
    BY <2>1 DEF Paths
  <2> QED BY <2>2 DEF Listing, Task, ReadTasks, ReadOps
<1>3. todo \in Seq(ReadTasks)
  BY <1>1, <1>2 DEF Classes
<1>4. DOMAIN <<>> = {} /\ Listable({})
  BY FS_EmptySet DEF Listable
<1>5. HostIsFinite(host)
  BY <1>1, <1>4, FS_EmptySet DEF HostIsFinite, NoHost
<1>6. WorkInv
  BY <1>1, <1>3, <1>5 DEF WorkInv, Work
<1>7. Listing("pci") \in ToSet(todo)
  BY <1>1 DEF ToSet
<1> QED BY <1>1, <1>6, <1>7 DEF NoneForgotten, Pending, Busy

\* The invariants hold all along.
LEMMA WorkInvariance == Spec => [](IInv /\ WorkInv /\ NoneForgotten /\ Busy)
<1> DEFINE Inv == IInv /\ WorkInv /\ NoneForgotten /\ Busy
<1>1. Init => Inv
  BY InitIInv, InitWork
<1>2. Inv /\ [Next]_vars => Inv'
  <2> SUFFICES ASSUME Inv, [Next]_vars PROVE Inv'
    OBVIOUS
  <2>1. IInv'
    BY NextIInv
  <2>2. Busy'
    BY BusyStays
  <2>3. WorkInv' /\ NoneForgotten'
    <3>1. CASE Reads
      <4>1. ReadStep /\ copying' = copying
        BY <3>1 DEF Reads, captureVars
      <4> QED BY <4>1, ReadStepWork DEF Busy
    <3>2. CASE Copies1
      BY <3>2, CopyStepWork
    <3>3. CASE Changes /\ UNCHANGED captureVars
      <4>1. PICK i \in DOMAIN Trees : Change(i)
        BY <3>3 DEF Changes
      <4>2. copying' = copying
        BY <3>3 DEF captureVars
      <4> QED BY <4>1, <4>2, ChangeWork
    <3>4. CASE UNCHANGED vars
      BY <3>4, WorkStays DEF vars, readVars, captureVars
    <3> QED BY <3>1, <3>2, <3>3, <3>4 DEF Next
  <2> QED BY <2>1, <2>2, <2>3
<1> HIDE DEF Inv
<1>3. Spec => []Inv
  BY <1>1, <1>2, PTL DEF Spec
<1> QED BY <1>3 DEF Inv

\* What is accounted for is in the host or among the problems once Read returned.
LEMMA ListedHolds ==
  ASSUME IInv, WorkInv, NoneForgotten
  PROVE  ListedOrReported
<1> SUFFICES ASSUME copying, NEW d, \A i \in during : "pci" \in Trees[i].lists /\ d \in DOMAIN Trees[i].bus
             PROVE  d \in DOMAIN host.dev \/ <<"bus", d>> \in host.bad
  BY DEF ListedOrReported
<1>1. d \in DOMAIN Tree.bus /\ Everywhere(d)
  BY DEF Tree, IInv, Everywhere
<1>2. Pending(d) /\ seat = {}
  BY <1>1 DEF NoneForgotten, WorkInv
<1> QED BY <1>2 DEF Pending

-----------------------------------------------------------------------------
(* What the copy holds. *)

TreeFields == {"lists", "bus", "dirs", "node", "rdma", "net", "ports", "link", "file"}
IsTree(t) == DOMAIN t = TreeFields /\ t = [x \in DOMAIN t |-> t[x]]

\* What a tree holds was so during the capture.
BusWasSo(t) == \A d \in DOMAIN t.bus : ListedAs(d, t.bus[d])
\* A text stands for what was read of the file at p when it spells the same, and
\* is not below the limit where that was too long: it was cut at a line end, or
\* the write of it was torn.
Stands(p, r, text, torn) ==
  /\ r.st = "ok" /\ text.says = r.val.says
  /\ ~text.long /\ r.val.long => p[4] = "config" \/ r.val.room \/ torn
TextWasSo(p, text, torn) ==
  text = Text(Blank) \/ \E i \in during : Stands(p, FileOf(Trees[i], p), text, torn)
FilesWereSo(t, torn) ==
  \A p \in DOMAIN t.file : t.file[p].kind = "file" /\ TextWasSo(p, t.file[p].text, torn)

\* The copy into an empty directory holds at every moment only what was so.
CopyInv ==
  /\ failed \in Nat
  /\ old = NoTree =>
       /\ DOMAIN dst = TreeFields /\ dst = [x \in DOMAIN dst |-> dst[x]]
       /\ BusWasSo(dst) /\ FilesWereSo(dst, failed > 0)

\* A file is written with a text that stands for one its file had, or with nothing.
LEMMA PutFile ==
  ASSUME NEW torn, NEW t, IsTree(t), FilesWereSo(t, torn), NEW p, NEW text, TextWasSo(p, text, torn),
         NEW u, u = [t EXCEPT !.file = Put(@, p, File(text))]
  PROVE  IsTree(u) /\ u.bus = t.bus /\ FilesWereSo(u, torn)
<1>1. IsTree(u) /\ u.bus = t.bus /\ u.file = Put(t.file, p, File(text))
  BY DEF IsTree, TreeFields
<1>2. ASSUME NEW q \in DOMAIN u.file
      PROVE u.file[q].kind = "file" /\ TextWasSo(q, u.file[q].text, torn)
  <2>1. CASE q = p
    <3>1. u.file[q] = File(text)
      BY <1>1, <2>1 DEF Put
    <3> QED BY <2>1, <3>1 DEF File
  <2>2. CASE q # p
    <3>1. q \in DOMAIN t.file /\ u.file[q] = t.file[q]
      BY <1>1, <1>2, <2>2 DEF Put
    <3> QED BY <3>1 DEF FilesWereSo
  <2> QED BY <2>1, <2>2
<1> QED BY <1>1, <1>2 DEF FilesWereSo

\* Whether the files were so is a matter of the files.
LEMMA SameFiles ==
  ASSUME NEW torn, NEW t, FilesWereSo(t, torn), NEW u, u.file = t.file
  PROVE  FilesWereSo(u, torn)
  BY DEF FilesWereSo

\* What was so before a write failed is so after it.
LEMMA OnceTorn ==
  ASSUME NEW torn, NEW after, torn => after, NEW t, FilesWereSo(t, torn)
  PROVE  FilesWereSo(t, after)
<1>1. ASSUME NEW p, NEW text, TextWasSo(p, text, torn) PROVE TextWasSo(p, text, after)
  BY <1>1 DEF TextWasSo, Stands
<1> QED BY <1>1 DEF FilesWereSo

\* The CPU list of the host is what its file said, which was not too long.
LEMMA NodeText ==
  ASSUME IInv, HostIsFinite(host), NEW p \in DOMAIN host.val, host.val[p].st = "ok", p[1] = "node"
  PROVE  \E i \in during : /\ FileOf(Trees[i], p).st = "ok" /\ ~FileOf(Trees[i], p).val.long
                          /\ FileOf(Trees[i], p).val.says = host.val[p].val
<1>1. PICK i \in during : Understood(p, FileOf(Trees[i], p)) = host.val[p]
  BY DEF IInv, EachValueWasTrue, ValuesWereSo
<1>2. p[4] = "cpulist"
  BY DEF HostIsFinite, CPUList
<1>3. FileOf(Trees[i], p).st = "ok" /\ Meaning("cpulist", FileOf(Trees[i], p).val) = host.val[p]
  BY <1>1, <1>2 DEF Understood
<1>4. PICK text : text = FileOf(Trees[i], p).val
  OBVIOUS
<1>5. ~text.long /\ host.val[p] = Read(text.says)
  BY <1>3, <1>4 DEF Meaning, Fault
<1> QED BY <1>3, <1>4, <1>5 DEF Read

\* What is written of a CPU list stands for it, and what a failed write leaves.
LEMMA NodeWasSo ==
  ASSUME IInv, HostIsFinite(host), NEW p \in DOMAIN host.val, host.val[p].st = "ok", p[1] = "node",
         NEW torn, NEW text, text \in {WithLineEnd(host.val[p].val)} \cup Beginnings(WithLineEnd(host.val[p].val))
  PROVE  TextWasSo(p, text, torn)
<1>1. PICK i \in during : /\ FileOf(Trees[i], p).st = "ok" /\ ~FileOf(Trees[i], p).val.long
                          /\ FileOf(Trees[i], p).val.says = host.val[p].val
  BY NodeText
<1>2. text = Text(Blank) \/ text.says = host.val[p].val
  BY DEF Beginnings, WithLineEnd, TextOf
<1> QED BY <1>1, <1>2 DEF TextWasSo, Stands

\* What is so of the directory after a step.
LEMMA CopyInvNext ==
  ASSUME CopyInv, NEW t, dst' = t, NEW torn, torn = (failed' > 0),
         old = NoTree => IsTree(t) /\ BusWasSo(t) /\ FilesWereSo(t, torn),
         failed' \in Nat, old' = old, during \subseteq during'
  PROVE  CopyInv'
<1>1. SUFFICES ASSUME old = NoTree
               PROVE  (DOMAIN dst = TreeFields /\ dst = [x \in DOMAIN dst |-> dst[x]] /\ BusWasSo(dst) /\ FilesWereSo(dst, failed > 0))'
  BY DEF CopyInv
<1>2. BusWasSo(dst)'
  BY <1>1 DEF BusWasSo, ListedAs
<1>3. ASSUME NEW p, NEW text, TextWasSo(p, text, torn) PROVE TextWasSo(p, text, torn)'
  BY <1>3 DEF TextWasSo, Stands
<1>4. FilesWereSo(dst, failed > 0)'
  <2>1. FilesWereSo(t, torn)
    BY <1>1
  <2>2. \A p \in DOMAIN t.file : t.file[p].kind = "file" /\ TextWasSo(p, t.file[p].text, torn)'
    BY <1>3, <2>1 DEF FilesWereSo
  <2> QED BY <2>2 DEF FilesWereSo
<1> QED BY <1>1, <1>2, <1>4 DEF IsTree

\* A step that leaves the directory alone.
LEMMA CopyUntouched ==
  ASSUME CopyInv, UNCHANGED <<dst, old, failed>>, during \subseteq during'
  PROVE  CopyInv'
<1>1. PICK t : t = dst
  OBVIOUS
<1>2. PICK torn : torn = (failed > 0)
  OBVIOUS
<1>3. old = NoTree => IsTree(t) /\ BusWasSo(t) /\ FilesWereSo(t, torn)
  BY <1>1, <1>2 DEF CopyInv, IsTree
<1>4. failed' \in Nat /\ torn = (failed' > 0)
  BY <1>2 DEF CopyInv
<1> QED BY <1>1, <1>3, <1>4, CopyInvNext

\* The head of the work while files are copied.
LEMMA CopyHead ==
  ASSUME WorkInv, copying, todo # <<>>
  PROVE  Head1 \in CopyTasks(host) /\ HostIsFinite(host)
<1>1. todo \in Seq(CopyTasks(host))
  BY DEF WorkInv, Work
<1> QED BY <1>1 DEF Head1, WorkInv

\* An operation that fails half way leaves nothing that was not there or was not so.
LEMMA HalfDoneSo ==
  ASSUME IInv, WorkInv, copying, todo # <<>>, NEW torn,
         IsTree(dst), BusWasSo(dst), FilesWereSo(dst, torn), NEW t \in HalfDone
  PROVE  IsTree(t) /\ BusWasSo(t) /\ FilesWereSo(t, torn)
<1> DEFINE x == At[2]
           Less(f, k) == [ y \in DOMAIN f \ {k} |-> f[y] ]
           Node(files) == [dst EXCEPT !.node = @ \cup {x}, !.lists = @ \cup {"node"}, !.file = files]
           texts == Beginnings(WithLineEnd(host.val[At].val))
           bus == [dst EXCEPT !.bus = Less(@, x), !.lists = @ \cup {"pci"}]
           rdma == [dst EXCEPT !.rdma = @ \cup {x}, !.link = Less(@, At), !.lists = @ \cup {"rdma"}]
           net == [dst EXCEPT !.net = @ \cup {x}, !.link = Less(@, At), !.lists = @ \cup {"net"}]
<1>1. \/ t \in {dst, Node(dst.file), bus, rdma, net}
      \/ Head1.op = "node" /\ \E text \in texts : t = Node(Put(dst.file, At, File(text)))
  BY DEF HalfDone
<1>2. CASE t = dst
  BY <1>2
<1>3. CASE t = Node(dst.file)
  <2>1. IsTree(t) /\ t.bus = dst.bus /\ t.file = dst.file
    BY <1>3 DEF IsTree, TreeFields
  <2> QED BY <2>1, SameFiles DEF BusWasSo
<1>4. ASSUME Head1.op = "node", NEW text \in texts, t = Node(Put(dst.file, At, File(text)))
      PROVE  IsTree(t) /\ BusWasSo(t) /\ FilesWereSo(t, torn)
  <2>1. At \in DOMAIN host.val /\ host.val[At].st = "ok" /\ At[1] = "node" /\ HostIsFinite(host)
    BY <1>4, CopyHead DEF CopyTasks, At
  <2>2. TextWasSo(At, text, torn)
    BY <1>4, <2>1, NodeWasSo
  <2>3. PICK u : u = [dst EXCEPT !.file = Put(@, At, File(text))]
    OBVIOUS
  <2>4. FilesWereSo(u, torn)
    BY <2>2, <2>3, PutFile
  <2>5. u.file = Put(dst.file, At, File(text))
    BY <2>3 DEF IsTree, TreeFields
  <2>6. IsTree(t) /\ t.bus = dst.bus /\ t.file = u.file
    BY <1>4, <2>5 DEF IsTree, TreeFields
  <2> QED BY <2>4, <2>6, SameFiles DEF BusWasSo
<1>5. CASE t = bus
  <2>1. IsTree(t) /\ t.bus = Less(dst.bus, x) /\ t.file = dst.file
    BY <1>5 DEF IsTree, TreeFields
  <2>2. BusWasSo(t)
    BY <2>1 DEF BusWasSo
  <2> QED BY <2>1, <2>2, SameFiles
<1>6. CASE t = rdma \/ t = net
  <2>1. IsTree(t) /\ t.bus = dst.bus /\ t.file = dst.file
    BY <1>6 DEF IsTree, TreeFields
  <2> QED BY <2>1, SameFiles DEF BusWasSo
<1> QED BY <1>1, <1>2, <1>3, <1>4, <1>5, <1>6

\* A step that touches neither the functions nor the files.
LEMMA PlainStep ==
  ASSUME NEW torn, IsTree(dst), BusWasSo(dst), FilesWereSo(dst, torn), NEW t, IsTree(t), t.bus = dst.bus, t.file = dst.file
  PROVE  BusWasSo(t) /\ FilesWereSo(t, torn)
  BY SameFiles DEF BusWasSo

\* A function is linked with the chain the host has.
LEMMA RelinkSo ==
  ASSUME IInv, WorkInv, CopyInv, Relink, old = NoTree, NEW t, dst' = t, NEW torn, torn = (failed > 0)
  PROVE  IsTree(t) /\ BusWasSo(t) /\ FilesWereSo(t, torn)
<1> DEFINE x == At[2]
<1>1. copying /\ todo # <<>> /\ Head1.op = "relink" /\ t = Relinked
  BY DEF Relink, CopyTurn, Turn, Wrote
<1>2. IsTree(dst) /\ BusWasSo(dst) /\ FilesWereSo(dst, torn)
  BY DEF CopyInv, IsTree
<1>3. CASE At[1] = "pci"
  <2>1. x \in DOMAIN host.dev
    BY <1>1, <1>3, CopyHead DEF CopyTasks, At
  <2>2. ListedAs(x, host.dev[x])
    BY <2>1 DEF IInv, EachValueWasTrue, DevicesWereThere
  <2>3. IsTree(t) /\ t.bus = Put(dst.bus, x, host.dev[x]) /\ t.file = dst.file
    BY <1>1, <1>2, <1>3 DEF Relinked, IsTree, TreeFields
  <2>4. BusWasSo(t)
    <3>1. ASSUME NEW d \in DOMAIN t.bus PROVE ListedAs(d, t.bus[d])
      BY <1>2, <2>2, <2>3 DEF Put, BusWasSo
    <3> QED BY <3>1 DEF BusWasSo
  <2> QED BY <1>2, <2>3, <2>4, SameFiles
<1>4. CASE At[1] # "pci"
  <2>1. IsTree(t) /\ t.bus = dst.bus /\ t.file = dst.file
    BY <1>1, <1>2, <1>4 DEF Relinked, IsTree, TreeFields
  <2> QED BY <1>2, <2>1, PlainStep
<1> QED BY <1>3, <1>4

\* A CPU list is written as the host has it.
LEMMA WriteNodeSo ==
  ASSUME IInv, WorkInv, CopyInv, WriteNode, old = NoTree, NEW t, dst' = t, NEW torn, torn = (failed > 0)
  PROVE  IsTree(t) /\ BusWasSo(t) /\ FilesWereSo(t, torn)
<1>1. copying /\ todo # <<>> /\ Head1.op = "node"
  BY DEF WriteNode, CopyTurn, Turn
<1>2. IsTree(dst) /\ BusWasSo(dst) /\ FilesWereSo(dst, torn)
  BY DEF CopyInv, IsTree
<1>3. At \in DOMAIN host.val /\ host.val[At].st = "ok" /\ At[1] = "node" /\ HostIsFinite(host)
  BY <1>1, CopyHead DEF CopyTasks, At
<1>4. TextWasSo(At, WithLineEnd(host.val[At].val), torn)
  BY <1>3, NodeWasSo
<1>5. PICK u : u = [dst EXCEPT !.file = Put(@, At, File(WithLineEnd(host.val[At].val)))]
  OBVIOUS
<1>6. FilesWereSo(u, torn)
  BY <1>2, <1>4, <1>5, PutFile
<1>7. IsTree(t) /\ t.bus = dst.bus /\ t.file = u.file
  BY <1>2, <1>5 DEF WriteNode, Wrote, IsTree, TreeFields
<1> QED BY <1>2, <1>6, <1>7, SameFiles DEF BusWasSo

\* A file that is copied stands for what was read the second time.
LEMMA CutStands ==
  ASSUME NEW p, NEW r, r.st = "ok", NEW torn
  PROVE  /\ Stands(p, r, Cut(p, r.val), torn)
         /\ torn => \A text \in Beginnings(Cut(p, r.val)) : text = Text(Blank) \/ Stands(p, r, text, torn)
<1>1. Cut(p, r.val).says = r.val.says /\ (~Cut(p, r.val).long => p[4] = "config" \/ r.val.room)
  BY DEF Cut, TextOf
<1>2. ASSUME NEW text \in Beginnings(Cut(p, r.val)) PROVE text = Text(Blank) \/ text.says = r.val.says
  BY <1>1 DEF Beginnings, TextOf
<1> QED BY <1>1, <1>2 DEF Stands

\* A file is written as it was read the second time, or its write fails.
LEMMA CopyFileSo ==
  ASSUME IInv, CopyInv, NEW r \in data, CopyFile(r) \/ CopyFileFails(r), old = NoTree, NEW t, dst' = t,
         NEW torn, torn = (failed' > 0)
  PROVE  IsTree(t) /\ BusWasSo(t) /\ FilesWereSo(t, torn)
<1>1. IsTree(dst) /\ BusWasSo(dst) /\ FilesWereSo(dst, torn)
  <2>1. failed > 0 => torn
    <3>1. failed \in Nat /\ (failed' = failed \/ failed' = failed + 1)
      BY DEF CopyInv, CopyFile, CopyFileFails
    <3>2. failed > 0 => failed' > 0
      BY <3>1
    <3> QED BY <3>1, <3>2
  <2> QED BY <2>1, OnceTorn DEF CopyInv, IsTree
<1>2. CASE t = dst
  BY <1>1, <1>2
<1>3. ASSUME r.st = "ok", NEW text, text = Text(Blank) \/ Stands(At, r, text, torn),
             t = [dst EXCEPT !.file = Put(@, At, File(text))]
      PROVE  IsTree(t) /\ BusWasSo(t) /\ FilesWereSo(t, torn)
  <2>1. PICK i \in during : FileOf(Trees[i], At) = r
    BY <1>3 DEF IInv, EachValueWasTrue, DataWasRead
  <2>2. TextWasSo(At, text, torn)
    BY <1>3, <2>1 DEF TextWasSo
  <2>3. IsTree(t) /\ t.bus = dst.bus /\ FilesWereSo(t, torn)
    BY <1>1, <1>3, <2>2, PutFile
  <2> QED BY <1>1, <2>3 DEF BusWasSo
<1>4. CASE CopyFile(r)
  <2>1. t = Written(r)
    BY <1>4 DEF CopyFile, Wrote
  <2>2. CASE r.st = "ok"
    <3>1. t = [dst EXCEPT !.file = Put(@, At, File(Cut(At, r.val)))]
      BY <2>1, <2>2 DEF Written
    <3> QED BY <1>3, <2>2, <3>1, CutStands
  <2>3. CASE r.st # "ok"
    BY <1>2, <2>1, <2>3 DEF Written
  <2> QED BY <2>2, <2>3
<1>5. CASE CopyFileFails(r)
  <2>1. r.st = "ok" /\ torn
    <3>1. r.st = "ok" /\ failed \in Nat /\ failed' = failed + 1
      BY <1>5 DEF CopyFileFails, CopyInv
    <3>2. failed' > 0
      BY <3>1
    <3> QED BY <3>1, <3>2
  <2>2. t = dst \/ \E text \in Beginnings(Cut(At, r.val)) : t = [dst EXCEPT !.file = Put(@, At, File(text))]
    BY <1>5 DEF CopyFileFails
  <2>3. ASSUME NEW text \in Beginnings(Cut(At, r.val)), t = [dst EXCEPT !.file = Put(@, At, File(text))]
        PROVE  IsTree(t) /\ BusWasSo(t) /\ FilesWereSo(t, torn)
    <3>1. text = Text(Blank) \/ Stands(At, r, text, torn)
      BY <2>1, <2>3, CutStands
    <3> QED BY <1>3, <2>1, <2>3, <3>1
  <2> QED BY <1>2, <2>2, <2>3
<1> QED BY <1>4, <1>5

\* Every step of the second pass leaves a directory that holds what was so.
LEMMA CopiesSo ==
  ASSUME IInv, WorkInv, CopyInv, Copies1, old = NoTree, NEW t, dst' = t, NEW torn, torn = (failed' > 0)
  PROVE  IsTree(t) /\ BusWasSo(t) /\ FilesWereSo(t, torn)
<1>1. CASE \E r \in data : CopyFile(r) \/ CopyFileFails(r)
  BY <1>1, CopyFileSo
<1>2. CASE SymlinkFails
  <2>1. failed > 0 => torn
    <3>1. failed \in Nat /\ failed' = failed + 1
      BY <1>2 DEF CopyInv, SymlinkFails
    <3>2. failed' > 0
      BY <3>1
    <3> QED BY <3>1, <3>2
  <2>2. t = dst
    BY <1>2 DEF SymlinkFails
  <2> QED BY <2>1, <2>2, OnceTorn DEF CopyInv, IsTree
<1>3. ASSUME ReadEnds \/ MkDir \/ Relink \/ WriteNode \/ CopyFails \/ Symlink1 \/ CopyEnds
      PROVE  IsTree(t) /\ BusWasSo(t) /\ FilesWereSo(t, torn)
  <2>1. torn = (failed > 0)
    BY <1>3 DEF ReadEnds, MkDir, Relink, WriteNode, CopyFails, Symlink1, CopyEnds
  <2>2. IsTree(dst) /\ BusWasSo(dst) /\ FilesWereSo(dst, torn)
    BY <2>1 DEF CopyInv, IsTree
  <2>3. CASE ReadEnds \/ CopyEnds
    BY <2>2, <2>3 DEF ReadEnds, CopyEnds
  <2>4. CASE MkDir
    <3>1. t = Made
      BY <2>4 DEF MkDir, Wrote
    <3>2. IsTree(t) /\ t.bus = dst.bus /\ t.file = dst.file
      BY <2>2, <3>1 DEF Made, IsTree, TreeFields
    <3> QED BY <2>2, <3>2, PlainStep
  <2>5. CASE Symlink1
    <3>1. IsTree(t) /\ t.bus = dst.bus /\ t.file = dst.file
      BY <2>2, <2>5 DEF Symlink1, Wrote, IsTree, TreeFields
    <3> QED BY <2>2, <3>1, PlainStep
  <2>6. CASE CopyFails
    <3>1. t \in HalfDone /\ copying /\ todo # <<>>
      BY <2>6 DEF CopyFails
    <3> QED BY <2>2, <3>1, HalfDoneSo
  <2> QED BY <1>3, <2>1, <2>3, <2>4, <2>5, <2>6, RelinkSo, WriteNodeSo
<1> QED BY <1>1, <1>2, <1>3 DEF Copies1

\* Every step keeps the invariant of the copy.
LEMMA NextCopyInv ==
  ASSUME IInv, WorkInv, CopyInv, [Next]_vars
  PROVE  CopyInv'
<1>1. CASE Reads
  BY <1>1, CopyUntouched DEF Reads, captureVars, ReadStep, ListDir, ResolveLink, ReadLink, Bind, ListPorts, Lstat, ReadFile,
     Stat, OpenFails, Open, ReadHandle, Keep, Then
<1>2. CASE Changes /\ UNCHANGED captureVars
  BY <1>2, CopyUntouched DEF captureVars, Changes, Change
<1>3. CASE UNCHANGED vars
  BY <1>3, CopyUntouched DEF vars, captureVars, readVars
<1>4. CASE Copies1
  <2>1. PICK t : dst' = t
    OBVIOUS
  <2>2. PICK torn : torn = (failed' > 0)
    OBVIOUS
  <2>3. old = NoTree => IsTree(t) /\ BusWasSo(t) /\ FilesWereSo(t, torn)
    BY <1>4, <2>1, <2>2, CopiesSo
  <2>4. old' = old /\ during' = during /\ failed' \in Nat
    BY <1>4 DEF CopyInv, Copies1, ReadEnds, MkDir, Relink, WriteNode, CopyFails, Symlink1, SymlinkFails, CopyEnds, CopyFile, CopyFileFails, Next1
  <2> QED BY <2>1, <2>2, <2>3, <2>4, CopyInvNext
<1> QED BY <1>1, <1>2, <1>3, <1>4 DEF Next

\* An empty directory has nothing in it.
LEMMA InitCopyInv == Init => CopyInv
<1> SUFFICES ASSUME Init, old = NoTree PROVE CopyInv
  <2>1. Init => failed \in Nat
    BY DEF Init
  <2> QED BY <2>1 DEF CopyInv
<1>1. dst = NoTree /\ failed = 0
  BY DEF Init
<1>2. DOMAIN <<>> = {}
  OBVIOUS
<1>3. DOMAIN dst.bus = {} /\ DOMAIN dst.file = {}
  BY <1>1, <1>2 DEF NoTree
<1>4. IsTree(dst)
  BY <1>1 DEF NoTree, IsTree, TreeFields
<1>5. BusWasSo(dst) /\ FilesWereSo(dst, failed > 0)
  BY <1>3 DEF BusWasSo, FilesWereSo
<1> QED BY <1>1, <1>4, <1>5 DEF CopyInv, IsTree

-----------------------------------------------------------------------------
(* What the copy is read as. *)

\* The functions of a tree that is read are functions it lists.
LEMMA ReadTreeDev ==
  ASSUME NEW t, NEW d \in DOMAIN ReadTree(t).dev
  PROVE  d \in DOMAIN t.bus /\ ReadTree(t).dev[d] = t.bus[d]
<1> DEFINE devs == IF "pci" \in t.lists THEN { e \in DOMAIN t.bus : Resolves(t, e) } ELSE {}
<1>1. ReadTree(t).dev = [ e \in devs |-> t.bus[e] ]
  BY DEF ReadTree
<1> QED BY <1>1

\* The values of a tree that is read are those of its files.
LEMMA ReadTreeVal ==
  ASSUME NEW t, NEW p \in DOMAIN ReadTree(t).val
  PROVE  ReadTree(t).val[p] = Understood(p, FileOf(t, p))
<1> DEFINE devs == IF "pci" \in t.lists THEN { d \in DOMAIN t.bus : Resolves(t, d) } ELSE {}
           rdma == Bound(t, "rdma")
           ports == [ r \in rdma |-> IF r \in DOMAIN t.ports THEN t.ports[r] ELSE {} ]
           files == { <<"pci", d, 0, a>> : d \in devs, a \in ToSet(IDFiles \o LinkFiles) }
             \cup (IF "node" \in t.lists THEN { <<"node", n, 0, "cpulist">> : n \in t.node } ELSE {})
             \cup (UNION { { <<"rdma", r, i, a>> : i \in ports[r], a \in ToSet(PortFiles) } : r \in rdma })
             \cup { <<"net", n, 0, a>> : n \in Bound(t, "net"), a \in ToSet(NetFiles) }
<1>1. ReadTree(t).val = [ q \in files |-> Understood(q, FileOf(t, q)) ]
  BY DEF ReadTree
<1> HIDE DEF files
<1> QED BY <1>1

\* Nothing but white space is no value of anything but a configuration space.
LEMMA BlankIsNothing ==
  ASSUME NEW p, Understood(p, Read(Text(Blank))).st = "ok"
  PROVE  p[4] = "config" /\ Understood(p, Read(Text(Blank))).val = Blank
  BY DEF Understood, Meaning, Read, Fault, Text, TextOf, Blank, Nul

\* A text that stands for another says the same as it, or how it begins.
LEMMA StandsSays ==
  ASSUME NEW t, NEW p, NEW text, NEW v, v = Understood(p, Read(text)), v.st = "ok",
         Stands(p, FileOf(t, p), text, failed > 0), NEW h, h.val[p] = v
  PROVE  Understood(p, FileOf(t, p)) = v \/ BeginsWith(t, p, h)
<1>1. PICK r : r = FileOf(t, p)
  OBVIOUS
<1>2. PICK was : was = r.val
  OBVIOUS
<1>3. r.st = "ok" /\ text.says = was.says /\ (~text.long /\ was.long => p[4] = "config" \/ was.room \/ failed > 0)
  BY <1>1, <1>2 DEF Stands
<1>4. v = Meaning(p[4], text) /\ Understood(p, r) = Meaning(p[4], was)
  BY <1>2, <1>3 DEF Understood, Read
<1>5. CASE p[4] = "config"
  BY <1>1, <1>3, <1>4, <1>5 DEF Meaning
<1>6. CASE p[4] # "config"
  <2>1. ~text.long
    BY <1>4, <1>6 DEF Meaning, Fault
  <2>2. CASE ~was.long
    BY <1>1, <1>3, <1>4, <1>6, <2>1, <2>2 DEF Meaning
  <2>3. CASE was.long
    <3>1. Meaning(p[4], Text(was.says)) = v
      BY <1>3, <1>4, <1>6, <2>1 DEF Meaning, Text, TextOf
    <3> QED BY <1>1, <1>2, <1>3, <1>6, <2>1, <2>3, <3>1 DEF BeginsWith
  <2> QED BY <2>2, <2>3
<1> QED BY <1>5, <1>6

\* What a directory like this is read as was so.
LEMMA InventsNothing ==
  ASSUME IInv, CopyInv
  PROVE  CopyInventsNothing
<1> SUFFICES ASSUME old = NoTree
    PROVE /\ \A d \in DOMAIN ReadTree(dst).dev :
               \E i \in during : d \in DOMAIN Trees[i].bus /\ Trees[i].bus[d] = ReadTree(dst).dev[d]
          /\ \A p \in DOMAIN ReadTree(dst).val : ReadTree(dst).val[p].st = "ok" =>
               \E i \in during : \/ Understood(p, FileOf(Trees[i], p)) = ReadTree(dst).val[p]
                                 \/ BeginsWith(Trees[i], p, ReadTree(dst))
                                 \/ p[4] = "config" /\ ReadTree(dst).val[p].val = Blank
  BY DEF CopyInventsNothing
<1>1. BusWasSo(dst) /\ FilesWereSo(dst, failed > 0)
  BY DEF CopyInv
<1>2. ASSUME NEW d \in DOMAIN ReadTree(dst).dev
      PROVE  \E i \in during : d \in DOMAIN Trees[i].bus /\ Trees[i].bus[d] = ReadTree(dst).dev[d]
  <2>1. d \in DOMAIN dst.bus /\ ReadTree(dst).dev[d] = dst.bus[d]
    BY ReadTreeDev
  <2> QED BY <1>1, <2>1 DEF BusWasSo, ListedAs
<1>3. ASSUME NEW p \in DOMAIN ReadTree(dst).val, ReadTree(dst).val[p].st = "ok"
      PROVE  \E i \in during : \/ Understood(p, FileOf(Trees[i], p)) = ReadTree(dst).val[p]
                               \/ BeginsWith(Trees[i], p, ReadTree(dst))
                               \/ p[4] = "config" /\ ReadTree(dst).val[p].val = Blank
  <2> DEFINE v == ReadTree(dst).val[p]
  <2>1. v = Understood(p, FileOf(dst, p))
    BY ReadTreeVal
  <2>2. FileOf(dst, p).st = "ok"
    BY <1>3, <2>1, UnderstoodOk
  <2>3. p \in DOMAIN dst.file
    BY <2>2 DEF FileOf, Fault
  <2> DEFINE text == dst.file[p].text
  <2>4. dst.file[p].kind = "file" /\ TextWasSo(p, text, failed > 0)
    BY <1>1, <2>3 DEF FilesWereSo
  <2>5. FileOf(dst, p) = Read(text)
    BY <2>3, <2>4 DEF FileOf, Content, Regular
  <2>6. CASE text = Text(Blank)
    <3>1. p[4] = "config" /\ v.val = Blank
      BY <1>3, <2>1, <2>5, <2>6, BlankIsNothing
    <3>2. \E i \in during : TRUE
      BY DEF IInv
    <3> QED BY <3>1, <3>2
  <2>7. ASSUME NEW i \in during, Stands(p, FileOf(Trees[i], p), text, failed > 0)
        PROVE  Understood(p, FileOf(Trees[i], p)) = v \/ BeginsWith(Trees[i], p, ReadTree(dst))
    <3>1. v = Understood(p, Read(text)) /\ v.st = "ok"
      BY <1>3, <2>1, <2>5
    <3> HIDE DEF text
    <3> QED BY <2>7, <3>1, StandsSays
  <2> QED BY <2>4, <2>6, <2>7 DEF TextWasSo
<1> QED BY <1>2, <1>3

-----------------------------------------------------------------------------
(* What there is to read in a tree that holds still. *)

\* A host as a set of facts, each with the field it is in.
Mapped == {"dev", "val", "link", "rdma"}
Graph(field, f) == { <<field, x, f[x]>> : x \in DOMAIN f }
Marks(field, S) == { <<field, x, 0>> : x \in S }
Facts(h) ==
  Graph("dev", h.dev) \cup Graph("val", h.val) \cup Graph("link", h.link) \cup Graph("rdma", h.rdma)
    \cup Marks("net", h.net) \cup Marks("bad", h.bad)

\* The facts that a piece of work, with all it leads to, finds in the tree t.
ValueFact(t, p) == <<"val", p, Understood(p, FileOf(t, p))>>
LinkFact(t, p) == <<"link", p, t.link[p]>>
LinkFacts(t, p) == IF Shown(t, p) THEN {LinkFact(t, p)} ELSE {}
FunctionFacts(t, d) ==
  { ValueFact(t, <<"pci", d, 0, a>>) : a \in ToSet(IDFiles \o LinkFiles) }
    \cup UNION { LinkFacts(t, <<"pci", d, 0, a>>) : a \in ToSet(Symlinks) }
ResolveFacts(t, d) ==
  IF d \in DOMAIN t.bus /\ Resolves(t, d) THEN {<<"dev", d, t.bus[d]>>} \cup FunctionFacts(t, d)
  ELSE {<<"bad", <<"bus", d>>, 0>>}
PortsOf(t, r) == IF r \in DOMAIN t.ports THEN t.ports[r] ELSE {}
PortFacts(t, r) ==
  {<<"rdma", r, PortsOf(t, r)>>} \cup (IF r \in DOMAIN t.ports THEN {} ELSE {<<"bad", <<"ports", r>>, 0>>})
    \cup UNION { { ValueFact(t, <<"rdma", r, i, a>>) : a \in ToSet(PortFiles) } : i \in PortsOf(t, r) }
NetFacts(t, n) == {<<"net", n, 0>>} \cup { ValueFact(t, <<"net", n, 0, a>>) : a \in ToSet(NetFiles) }
BindFacts(t, p) ==
  IF BaseOf(t, p) = 0 THEN IF p[1] = "rdma" THEN {<<"bad", <<"rdma", p[2]>>, 0>>} ELSE {}
  ELSE {LinkFact(t, p)} \cup (IF p[1] = "rdma" THEN PortFacts(t, p[2]) ELSE NetFacts(t, p[2]))
ListFacts(t, class) ==
  IF class \notin t.lists THEN IF class = "pci" THEN {<<"bad", <<"bus", 0>>, 0>>} ELSE {}
  ELSE CASE class = "pci" -> UNION { ResolveFacts(t, d) : d \in DOMAIN t.bus }
         [] class = "node" -> { ValueFact(t, <<"node", n, 0, "cpulist">>) : n \in t.node }
         [] class = "rdma" -> UNION { BindFacts(t, DevicePath("rdma", r)) : r \in t.rdma }
         [] class = "net" -> UNION { BindFacts(t, DevicePath("net", n)) : n \in t.net }
AllFacts(t) == UNION { ListFacts(t, class) : class \in Classes }

WorkFacts(t, w) ==
  CASE w.op = "list" -> ListFacts(t, w.at[1])
    [] w.op = "resolve" -> ResolveFacts(t, w.at[2])
    [] w.op = "file" -> {ValueFact(t, w.at)}
    [] w.op = "link" -> LinkFacts(t, w.at)
    [] w.op = "bind" -> BindFacts(t, w.at)
    [] w.op = "ports" -> PortFacts(t, w.at[2])

\* What work and a seat lead to.
Leads(t, works, seats) ==
  (UNION { WorkFacts(t, w) : w \in works }) \cup (UNION { ResolveFacts(t, s.bdf) : s \in seats })
Left == Leads(Tree, ToSet(todo), seat)

IsFcn(f) == f = [ x \in DOMAIN f |-> f[x] ]
HostIsMade(h) == \A k \in Mapped : IsFcn(h[k])

\* The directory to look at next is one of the chain.
SeatIsOnChain == \A s \in seat : s.at.chain \in Seq(Int) /\ s.k \in 1..Len(s.at.chain)

\* What is in the host and what is left to read is all there is, and nothing else.
SoFar == HostIsMade(host) /\ Facts(host) \cup Left = AllFacts(Tree)

\* Of a tree that holds still: what readFile returns is what the file is, and
\* what Read has found so far and has still to find is what there is.
StillInv == Still =>
  /\ SeatIsOnChain
  /\ pc \in {"open", "read", "back"} => todo # <<>> /\ seat = {}
  /\ \A r \in data : r = FileOf(Tree, At)
  /\ IF copying THEN host = ReadTree(Tree) ELSE SoFar

\* A fact of a function, and one of a set.
LEMMA GraphIs ==
  ASSUME NEW k, NEW x, NEW v, NEW j, NEW f
  PROVE  /\ <<k, x, v>> \in Graph(j, f) <=> k = j /\ x \in DOMAIN f /\ v = f[x]
         /\ <<k, x, v>> \in Marks(j, f) <=> k = j /\ x \in f /\ v = 0
<1>1. ASSUME <<k, x, v>> \in Graph(j, f) PROVE k = j /\ x \in DOMAIN f /\ v = f[x]
  <2>1. PICK y \in DOMAIN f : <<k, x, v>> = <<j, y, f[y]>>
    BY <1>1 DEF Graph
  <2> QED BY <2>1
<1>2. ASSUME <<k, x, v>> \in Marks(j, f) PROVE k = j /\ x \in f /\ v = 0
  <2>1. PICK y \in f : <<k, x, v>> = <<j, y, 0>>
    BY <1>2 DEF Marks
  <2> QED BY <2>1
<1>3. ASSUME k = j, x \in DOMAIN f, v = f[x] PROVE <<k, x, v>> \in Graph(j, f)
  <2>1. <<k, x, v>> = <<j, x, f[x]>>
    BY <1>3
  <2>2. <<j, x, f[x]>> \in Graph(j, f)
    BY <1>3 DEF Graph
  <2> QED BY <2>1, <2>2
<1>4. ASSUME k = j, x \in f, v = 0 PROVE <<k, x, v>> \in Marks(j, f)
  <2>1. <<k, x, v>> = <<j, x, 0>>
    BY <1>4
  <2>2. <<j, x, 0>> \in Marks(j, f)
    BY <1>4 DEF Marks
  <2> QED BY <2>1, <2>2
<1> QED BY <1>1, <1>2, <1>3, <1>4

\* A fact is one of a field.
LEMMA FactIs ==
  ASSUME NEW h
  PROVE  /\ \A f \in Facts(h) : f = <<f[1], f[2], f[3]>> /\ f[1] \in Mapped \cup {"net", "bad"}
         /\ \A k \in Mapped : \A x, v : <<k, x, v>> \in Facts(h) <=> x \in DOMAIN h[k] /\ v = h[k][x]
         /\ \A k \in {"net", "bad"} : \A x, v : <<k, x, v>> \in Facts(h) <=> x \in h[k] /\ v = 0
<1>1. \A f \in Facts(h) : f = <<f[1], f[2], f[3]>> /\ f[1] \in Mapped \cup {"net", "bad"}
  BY DEF Facts, Graph, Marks, Mapped
<1>2. ASSUME NEW k, NEW x, NEW v
      PROVE  <<k, x, v>> \in Facts(h) <=>
               \/ k = "dev" /\ x \in DOMAIN h.dev /\ v = h.dev[x]
               \/ k = "val" /\ x \in DOMAIN h.val /\ v = h.val[x]
               \/ k = "link" /\ x \in DOMAIN h.link /\ v = h.link[x]
               \/ k = "rdma" /\ x \in DOMAIN h.rdma /\ v = h.rdma[x]
               \/ k = "net" /\ x \in h.net /\ v = 0
               \/ k = "bad" /\ x \in h.bad /\ v = 0
  BY GraphIs DEF Facts
<1>3. ASSUME NEW k \in Mapped, NEW x, NEW v PROVE <<k, x, v>> \in Facts(h) <=> x \in DOMAIN h[k] /\ v = h[k][x]
  BY <1>2 DEF Mapped
<1>4. ASSUME NEW k \in {"net", "bad"}, NEW x, NEW v PROVE <<k, x, v>> \in Facts(h) <=> x \in h[k] /\ v = 0
  BY <1>2
<1> QED BY <1>1, <1>3, <1>4

\* One fact more, told by its parts.
OneMore(h, g, k, x, v) ==
  \A j \in Mapped \cup {"net", "bad"} : \A y, w :
    <<j, y, w>> \in Facts(g) <=> <<j, y, w>> \in Facts(h) \/ (j = k /\ y = x /\ w = v)

LEMMA OneFactMore ==
  ASSUME NEW h, NEW g, NEW k \in Mapped \cup {"net", "bad"}, NEW x, NEW v, OneMore(h, g, k, x, v)
  PROVE  Facts(g) = Facts(h) \cup {<<k, x, v>>}
<1> USE DEF OneMore
<1>1. ASSUME NEW f \in Facts(g) PROVE f \in Facts(h) \cup {<<k, x, v>>}
  <2>1. f = <<f[1], f[2], f[3]>> /\ f[1] \in Mapped \cup {"net", "bad"}
    BY FactIs
  <2> QED BY <2>1
<1>2. ASSUME NEW f \in Facts(h) PROVE f \in Facts(g)
  <2>1. f = <<f[1], f[2], f[3]>> /\ f[1] \in Mapped \cup {"net", "bad"}
    BY FactIs
  <2> QED BY <2>1
<1>3. <<k, x, v>> \in Facts(g)
  OBVIOUS
<1> QED BY <1>1, <1>2, <1>3

\* Two hosts with the same facts are the same.
LEMMA SameFacts ==
  ASSUME NEW h, HostIsRecord(h), HostIsMade(h), NEW g, HostIsRecord(g), HostIsMade(g), Facts(h) = Facts(g)
  PROVE  h = g
<1>1. ASSUME NEW k \in Mapped PROVE h[k] = g[k]
  <2>1. ASSUME NEW x, NEW v PROVE x \in DOMAIN h[k] /\ v = h[k][x] <=> x \in DOMAIN g[k] /\ v = g[k][x]
    <3>1. <<k, x, v>> \in Facts(h) <=> x \in DOMAIN h[k] /\ v = h[k][x]
      BY <1>1, FactIs
    <3>2. <<k, x, v>> \in Facts(g) <=> x \in DOMAIN g[k] /\ v = g[k][x]
      BY <1>1, FactIs
    <3> QED BY <3>1, <3>2
  <2>2. DOMAIN h[k] = DOMAIN g[k] /\ \A x \in DOMAIN h[k] : h[k][x] = g[k][x]
    BY <2>1
  <2>3. IsFcn(h[k]) /\ IsFcn(g[k])
    BY <1>1 DEF HostIsMade
  <2> QED BY <2>2, <2>3 DEF IsFcn
<1>2. ASSUME NEW k \in {"net", "bad"} PROVE h[k] = g[k]
  <2>1. \A x, v : x \in h[k] /\ v = 0 <=> x \in g[k] /\ v = 0
    BY <1>2, FactIs
  <2>2. \A x : x \in h[k] <=> x \in g[k]
    BY <2>1
  <2> QED BY <2>2
<1>3. \A k \in Fields : h[k] = g[k]
  BY <1>1, <1>2 DEF Fields, Mapped
<1> QED BY <1>3 DEF HostIsRecord

\* A fact is put into its field, where nothing else can be under its name.
Entered(h, g, k, x, v) == g[k] = Put(h[k], x, v) /\ \A j \in Fields \ {k} : g[j] = h[j]

LEMMA PutFact ==
  ASSUME NEW h, NEW H, Facts(h) \subseteq Facts(H), NEW k \in Mapped, NEW x, NEW v, <<k, x, v>> \in Facts(H),
         NEW g, Entered(h, g, k, x, v)
  PROVE  /\ Facts(g) = Facts(h) \cup {<<k, x, v>>}
         /\ HostIsMade(h) => HostIsMade(g)
<1> USE DEF Entered
<1>0. \A j \in Mapped : j \in Fields /\ j \notin {"net", "bad"}
  BY DEF Mapped, Fields
<1>1. x \in DOMAIN h[k] => h[k][x] = v
  <2> SUFFICES ASSUME x \in DOMAIN h[k] PROVE h[k][x] = v
    OBVIOUS
  <2>1. <<k, x, h[k][x]>> \in Facts(H)
    BY FactIs
  <2> QED BY <2>1, FactIs
<1>2. DOMAIN g[k] = DOMAIN h[k] \cup {x} /\ \A y \in DOMAIN g[k] : g[k][y] = IF y = x THEN v ELSE h[k][y]
  BY DEF Put
<1>3. ASSUME NEW j \in Mapped, NEW y, NEW w
      PROVE <<j, y, w>> \in Facts(g) <=> <<j, y, w>> \in Facts(h) \/ (j = k /\ y = x /\ w = v)
  <2>1. <<j, y, w>> \in Facts(g) <=> y \in DOMAIN g[j] /\ w = g[j][y]
    BY FactIs
  <2>2. <<j, y, w>> \in Facts(h) <=> y \in DOMAIN h[j] /\ w = h[j][y]
    BY FactIs
  <2>3. CASE j = k
    BY <1>1, <1>2, <2>1, <2>2, <2>3
  <2>4. CASE j # k
    BY <1>0, <2>1, <2>2, <2>4
  <2> QED BY <2>3, <2>4
<1>4. ASSUME NEW j \in {"net", "bad"}, NEW y, NEW w
      PROVE <<j, y, w>> \in Facts(g) <=> <<j, y, w>> \in Facts(h) \/ (j = k /\ y = x /\ w = v)
  <2>1. <<j, y, w>> \in Facts(g) <=> y \in g[j] /\ w = 0
    BY FactIs
  <2>2. <<j, y, w>> \in Facts(h) <=> y \in h[j] /\ w = 0
    BY FactIs
  <2>3. j # k /\ g[j] = h[j]
    BY <1>0 DEF Fields
  <2> QED BY <2>1, <2>2, <2>3
<1>5. OneMore(h, g, k, x, v)
  BY <1>3, <1>4 DEF OneMore
<1>6. Facts(g) = Facts(h) \cup {<<k, x, v>>}
  BY <1>5, OneFactMore
<1>7. HostIsMade(h) => HostIsMade(g)
  <2> SUFFICES ASSUME HostIsMade(h), NEW j \in Mapped PROVE IsFcn(g[j])
    BY DEF HostIsMade
  <2>1. CASE j = k
    BY <2>1 DEF IsFcn, Put
  <2>2. CASE j # k
    BY <1>0, <2>2 DEF HostIsMade
  <2> QED BY <2>1, <2>2
<1> QED BY <1>6, <1>7

\* A mark is put into its set.
Marked(h, g, k, x) == g[k] = h[k] \cup {x} /\ \A j \in Fields \ {k} : g[j] = h[j]

LEMMA MarkFact ==
  ASSUME NEW h, NEW k \in {"net", "bad"}, NEW x, NEW g, Marked(h, g, k, x)
  PROVE  /\ Facts(g) = Facts(h) \cup {<<k, x, 0>>}
         /\ HostIsMade(h) => HostIsMade(g)
<1> USE DEF Marked
<1>0. \A j \in Mapped : j \in Fields \ {k}
  BY DEF Mapped, Fields
<1>1. ASSUME NEW j \in Mapped, NEW y, NEW w
      PROVE <<j, y, w>> \in Facts(g) <=> <<j, y, w>> \in Facts(h) \/ (j = k /\ y = x /\ w = 0)
  <2>1. <<j, y, w>> \in Facts(g) <=> y \in DOMAIN g[j] /\ w = g[j][y]
    BY FactIs
  <2>2. <<j, y, w>> \in Facts(h) <=> y \in DOMAIN h[j] /\ w = h[j][y]
    BY FactIs
  <2> QED BY <1>0, <2>1, <2>2
<1>2. ASSUME NEW j \in {"net", "bad"}, NEW y, NEW w
      PROVE <<j, y, w>> \in Facts(g) <=> <<j, y, w>> \in Facts(h) \/ (j = k /\ y = x /\ w = 0)
  <2>1. <<j, y, w>> \in Facts(g) <=> y \in g[j] /\ w = 0
    BY FactIs
  <2>2. <<j, y, w>> \in Facts(h) <=> y \in h[j] /\ w = 0
    BY FactIs
  <2>3. j # k => g[j] = h[j]
    BY DEF Fields
  <2> QED BY <2>1, <2>2, <2>3
<1>3. Facts(g) = Facts(h) \cup {<<k, x, 0>>}
  <2>1. PICK v : v = 0
    OBVIOUS
  <2>2. k \in Mapped \cup {"net", "bad"} /\ OneMore(h, g, k, x, v)
    BY <1>1, <1>2, <2>1 DEF OneMore
  <2>3. Facts(g) = Facts(h) \cup {<<k, x, v>>}
    BY <2>2, OneFactMore
  <2> QED BY <2>1, <2>3
<1>4. HostIsMade(h) => HostIsMade(g)
  BY <1>0 DEF HostIsMade
<1> QED BY <1>3, <1>4

\* The facts of a tree, element by element.
LEMMA ReadTreeIs ==
  ASSUME NEW t
  PROVE  /\ HostIsRecord(ReadTree(t)) /\ HostIsMade(ReadTree(t))
         /\ AllFacts(t) = Facts(ReadTree(t))
<1> DEFINE devs == IF "pci" \in t.lists THEN { d \in DOMAIN t.bus : Resolves(t, d) } ELSE {}
           rdma == Bound(t, "rdma")
           net == Bound(t, "net")
           ports == [ r \in rdma |-> IF r \in DOMAIN t.ports THEN t.ports[r] ELSE {} ]
           files == { <<"pci", d, 0, a>> : d \in devs, a \in ToSet(IDFiles \o LinkFiles) }
             \cup (IF "node" \in t.lists THEN { <<"node", n, 0, "cpulist">> : n \in t.node } ELSE {})
             \cup (UNION { { <<"rdma", r, i, a>> : i \in ports[r], a \in ToSet(PortFiles) } : r \in rdma })
             \cup { <<"net", n, 0, a>> : n \in net, a \in ToSet(NetFiles) }
           links == { <<"pci", d, 0, a>> : d \in devs, a \in ToSet(Symlinks) }
                    \cup { DevicePath("rdma", r) : r \in rdma } \cup { DevicePath("net", n) : n \in net }
           shown == { l \in links : Shown(t, l) }
           bad == (IF "pci" \in t.lists THEN { <<"bus", d>> : d \in DOMAIN t.bus \ devs } ELSE {<<"bus", 0>>})
                \cup (IF "rdma" \in t.lists THEN { <<"rdma", r>> : r \in t.rdma \ rdma } ELSE {})
                \cup { <<"ports", r>> : r \in rdma \ DOMAIN t.ports }
           R == ReadTree(t)
<1>1. R.dev = [ d \in devs |-> t.bus[d] ]
  BY DEF ReadTree
<1>2. R.val = [ p \in files |-> Understood(p, FileOf(t, p)) ]
  BY DEF ReadTree
<1>3. R.link = [ p \in shown |-> t.link[p] ]
  BY DEF ReadTree
<1>4. R.rdma = ports
  BY DEF ReadTree
<1>5. R.net = net
  BY DEF ReadTree
<1>6. R.bad = bad
  BY DEF ReadTree
<1>7. HostIsRecord(R)
  <2>1. \A a, b, c, d, e, f : HostIsRecord([dev |-> a, val |-> b, link |-> c, rdma |-> d, net |-> e, bad |-> f])
    BY DEF HostIsRecord, Fields
  <2>2. R = [dev |-> R.dev, val |-> R.val, link |-> R.link, rdma |-> R.rdma, net |-> R.net, bad |-> R.bad]
    BY DEF ReadTree
  <2> QED BY <2>1, <2>2
<1> HIDE DEF R, files, shown, devs, bad, net
<1>8. HostIsMade(R)
  BY <1>1, <1>2, <1>3, <1>4 DEF HostIsMade, Mapped, IsFcn
<1>9. /\ \A d \in devs : <<"dev", d, t.bus[d]>> \in Facts(R)
      /\ \A p \in files : ValueFact(t, p) \in Facts(R)
      /\ \A p \in shown : LinkFact(t, p) \in Facts(R)
      /\ \A r \in rdma : <<"rdma", r, PortsOf(t, r)>> \in Facts(R)
      /\ \A n \in net : <<"net", n, 0>> \in Facts(R)
      /\ \A x \in bad : <<"bad", x, 0>> \in Facts(R)
  <2>1. \A k \in Mapped : \A x \in DOMAIN R[k] : <<k, x, R[k][x]>> \in Facts(R)
    BY FactIs
  <2>2. \A k \in {"net", "bad"} : \A x \in R[k] : <<k, x, 0>> \in Facts(R)
    BY FactIs
  <2>3. \A d \in devs : <<"dev", d, t.bus[d]>> \in Facts(R)
    BY <1>1, <2>1 DEF Mapped
  <2>4. \A p \in files : ValueFact(t, p) \in Facts(R)
    BY <1>2, <2>1 DEF Mapped, ValueFact
  <2>5. \A p \in shown : LinkFact(t, p) \in Facts(R)
    BY <1>3, <2>1 DEF Mapped, LinkFact
  <2>6. \A r \in rdma : <<"rdma", r, PortsOf(t, r)>> \in Facts(R)
    BY <1>4, <2>1 DEF Mapped, PortsOf
  <2>7. \A n \in net : <<"net", n, 0>> \in Facts(R)
    BY <1>5, <2>2
  <2>8. \A x \in bad : <<"bad", x, 0>> \in Facts(R)
    BY <1>6, <2>2
  <2> QED BY <2>3, <2>4, <2>5, <2>6, <2>7, <2>8
<1>10. ASSUME NEW f \in Facts(R)
       PROVE  \/ \E d \in devs : f = <<"dev", d, t.bus[d]>>
              \/ \E p \in files : f = ValueFact(t, p)
              \/ \E p \in shown : f = LinkFact(t, p)
              \/ \E r \in rdma : f = <<"rdma", r, PortsOf(t, r)>>
              \/ \E n \in net : f = <<"net", n, 0>>
              \/ \E x \in bad : f = <<"bad", x, 0>>
  <2>0. PICK k, x, v : f = <<k, x, v>> /\ k \in Mapped \cup {"net", "bad"}
    BY FactIs
  <2>1. CASE k \in Mapped
    <3>1. x \in DOMAIN R[k] /\ v = R[k][x]
      BY <2>0, <2>1, FactIs
    <3>2. CASE k = "dev"
      BY <1>1, <2>0, <3>1, <3>2
    <3>3. CASE k = "val"
      BY <1>2, <2>0, <3>1, <3>3 DEF ValueFact
    <3>4. CASE k = "link"
      BY <1>3, <2>0, <3>1, <3>4 DEF LinkFact
    <3>5. CASE k = "rdma"
      BY <1>4, <2>0, <3>1, <3>5 DEF PortsOf
    <3> QED BY <2>1, <3>2, <3>3, <3>4, <3>5 DEF Mapped
  <2>2. CASE k \in {"net", "bad"}
    <3>1. x \in R[k] /\ v = 0
      BY <2>0, <2>2, FactIs
    <3>2. CASE k = "net"
      BY <1>5, <2>0, <3>1, <3>2
    <3>3. CASE k = "bad"
      BY <1>6, <2>0, <3>1, <3>3
    <3> QED BY <2>2, <3>2, <3>3
  <2> QED BY <2>0, <2>1, <2>2
<1> HIDE DEF rdma, ports, links
<1>11. \A class \in Classes : ListFacts(t, class) \subseteq AllFacts(t)
  BY DEF AllFacts
<1>12. "pci" \in Classes /\ "node" \in Classes /\ "rdma" \in Classes /\ "net" \in Classes
  BY DEF Classes
<1>13. ASSUME NEW d \in devs
       PROVE  /\ "pci" \in t.lists /\ d \in DOMAIN t.bus /\ Resolves(t, d)
              /\ {<<"dev", d, t.bus[d]>>} \cup FunctionFacts(t, d) \subseteq AllFacts(t)
  <2>1. "pci" \in t.lists /\ d \in DOMAIN t.bus /\ Resolves(t, d)
    BY DEF devs
  <2>2. ResolveFacts(t, d) = {<<"dev", d, t.bus[d]>>} \cup FunctionFacts(t, d)
    BY <2>1 DEF ResolveFacts
  <2>3. ListFacts(t, "pci") = UNION { ResolveFacts(t, e) : e \in DOMAIN t.bus }
    BY <2>1 DEF ListFacts
  <2> QED BY <1>11, <1>12, <2>1, <2>2, <2>3
<1>14. ASSUME NEW r \in rdma
       PROVE  /\ "rdma" \in t.lists /\ r \in t.rdma /\ BaseOf(t, DevicePath("rdma", r)) # 0
              /\ {LinkFact(t, DevicePath("rdma", r))} \cup PortFacts(t, r) \subseteq AllFacts(t)
  <2>1. "rdma" \in t.lists /\ r \in t.rdma /\ BaseOf(t, DevicePath("rdma", r)) # 0
    BY DEF rdma, Bound
  <2> DEFINE p == DevicePath("rdma", r)
  <2>2. p[1] = "rdma" /\ p[2] = r
    BY DEF DevicePath
  <2> HIDE DEF p
  <2>3. BindFacts(t, p) = {LinkFact(t, p)} \cup PortFacts(t, r)
    BY <2>1, <2>2 DEF BindFacts, p
  <2>4. ListFacts(t, "rdma") = UNION { BindFacts(t, DevicePath("rdma", e)) : e \in t.rdma }
    BY <2>1 DEF ListFacts
  <2>5. BindFacts(t, p) \subseteq ListFacts(t, "rdma")
    BY <2>1, <2>4 DEF p
  <2> QED BY <1>11, <1>12, <2>1, <2>3, <2>5 DEF p
<1>15. ASSUME NEW n \in net
       PROVE  /\ "net" \in t.lists /\ n \in t.net /\ BaseOf(t, DevicePath("net", n)) # 0
              /\ {LinkFact(t, DevicePath("net", n))} \cup NetFacts(t, n) \subseteq AllFacts(t)
  <2>1. "net" \in t.lists /\ n \in t.net /\ BaseOf(t, DevicePath("net", n)) # 0
    BY DEF net, Bound
  <2> DEFINE p == DevicePath("net", n)
  <2>2. p[1] = "net" /\ p[2] = n
    BY DEF DevicePath
  <2> HIDE DEF p
  <2>3. BindFacts(t, p) = {LinkFact(t, p)} \cup NetFacts(t, n)
    BY <2>1, <2>2 DEF BindFacts, p
  <2>4. ListFacts(t, "net") = UNION { BindFacts(t, DevicePath("net", e)) : e \in t.net }
    BY <2>1 DEF ListFacts
  <2>5. BindFacts(t, p) \subseteq ListFacts(t, "net")
    BY <2>1, <2>4 DEF p
  <2> QED BY <1>11, <1>12, <2>1, <2>3, <2>5 DEF p
<1>16. Facts(R) \subseteq AllFacts(t)
  <2> SUFFICES ASSUME NEW f \in Facts(R) PROVE f \in AllFacts(t)
    OBVIOUS
  <2>1. ASSUME NEW d \in devs, f = <<"dev", d, t.bus[d]>> PROVE f \in AllFacts(t)
    BY <1>13, <2>1
  <2>2. ASSUME NEW p \in files, f = ValueFact(t, p) PROVE f \in AllFacts(t)
    <3>1. ASSUME NEW d \in devs, NEW a \in ToSet(IDFiles \o LinkFiles), p = <<"pci", d, 0, a>> PROVE f \in AllFacts(t)
      <4>1. f \in FunctionFacts(t, d)
        BY <2>2, <3>1 DEF FunctionFacts
      <4> QED BY <1>13, <4>1
    <3>2. ASSUME "node" \in t.lists, NEW n \in t.node, p = <<"node", n, 0, "cpulist">> PROVE f \in AllFacts(t)
      <4>1. f \in ListFacts(t, "node")
        BY <2>2, <3>2 DEF ListFacts
      <4> QED BY <1>11, <1>12, <4>1
    <3>3. ASSUME NEW r \in rdma, NEW i \in PortsOf(t, r), NEW a \in ToSet(PortFiles), p = <<"rdma", r, i, a>>
          PROVE  f \in AllFacts(t)
      <4>1. f \in PortFacts(t, r)
        BY <2>2, <3>3 DEF PortFacts
      <4> QED BY <1>14, <4>1
    <3>4. ASSUME NEW n \in net, NEW a \in ToSet(NetFiles), p = <<"net", n, 0, a>> PROVE f \in AllFacts(t)
      <4>1. f \in NetFacts(t, n)
        BY <2>2, <3>4 DEF NetFacts
      <4> QED BY <1>15, <4>1
    <3>5. \/ \E d \in devs, a \in ToSet(IDFiles \o LinkFiles) : p = <<"pci", d, 0, a>>
          \/ "node" \in t.lists /\ \E n \in t.node : p = <<"node", n, 0, "cpulist">>
          \/ \E r \in rdma : \E i \in PortsOf(t, r), a \in ToSet(PortFiles) : p = <<"rdma", r, i, a>>
          \/ \E n \in net, a \in ToSet(NetFiles) : p = <<"net", n, 0, a>>
      <4>1. \A r \in rdma : ports[r] = PortsOf(t, r)
        BY DEF ports, PortsOf
      <4>2. \/ p \in { <<"pci", d, 0, a>> : d \in devs, a \in ToSet(IDFiles \o LinkFiles) }
            \/ "node" \in t.lists /\ p \in { <<"node", n, 0, "cpulist">> : n \in t.node }
            \/ \E r \in rdma : p \in { <<"rdma", r, i, a>> : i \in ports[r], a \in ToSet(PortFiles) }
            \/ p \in { <<"net", n, 0, a>> : n \in net, a \in ToSet(NetFiles) }
        BY DEF files
      <4>3. ASSUME NEW r \in rdma, p \in { <<"rdma", r, i, a>> : i \in ports[r], a \in ToSet(PortFiles) }
            PROVE  \E i \in PortsOf(t, r), a \in ToSet(PortFiles) : p = <<"rdma", r, i, a>>
        BY <4>1, <4>3
      <4> QED BY <4>2, <4>3
    <3> QED BY <3>1, <3>2, <3>3, <3>4, <3>5
  <2>3. ASSUME NEW p \in shown, f = LinkFact(t, p) PROVE f \in AllFacts(t)
    <3>1. ASSUME NEW d \in devs, NEW a \in ToSet(Symlinks), p = <<"pci", d, 0, a>> PROVE f \in AllFacts(t)
      <4>1. f \in LinkFacts(t, p)
        BY <2>3 DEF LinkFacts, shown
      <4>2. f \in FunctionFacts(t, d)
        BY <3>1, <4>1 DEF FunctionFacts
      <4> QED BY <1>13, <4>2
    <3> QED BY <1>14, <1>15, <2>3, <3>1 DEF shown, links
  <2>4. ASSUME NEW r \in rdma, f = <<"rdma", r, PortsOf(t, r)>> PROVE f \in AllFacts(t)
    <3>1. f \in PortFacts(t, r)
      BY <2>4 DEF PortFacts
    <3> QED BY <1>14, <3>1
  <2>5. ASSUME NEW n \in net, f = <<"net", n, 0>> PROVE f \in AllFacts(t)
    <3>1. f \in NetFacts(t, n)
      BY <2>5 DEF NetFacts
    <3> QED BY <1>15, <3>1
  <2>6. ASSUME NEW x \in bad, f = <<"bad", x, 0>> PROVE f \in AllFacts(t)
    <3>1. CASE "pci" \in t.lists /\ \E d \in DOMAIN t.bus \ devs : x = <<"bus", d>>
      <4>1. PICK d \in DOMAIN t.bus \ devs : x = <<"bus", d>>
        BY <3>1
      <4>2. ~Resolves(t, d)
        BY <3>1 DEF devs
      <4>3. f \in ResolveFacts(t, d)
        BY <2>6, <4>1, <4>2 DEF ResolveFacts
      <4>4. ListFacts(t, "pci") = UNION { ResolveFacts(t, e) : e \in DOMAIN t.bus }
        BY <3>1 DEF ListFacts
      <4> QED BY <1>11, <1>12, <4>3, <4>4
    <3>2. CASE "pci" \notin t.lists /\ x = <<"bus", 0>>
      <4>1. f \in ListFacts(t, "pci")
        BY <2>6, <3>2 DEF ListFacts
      <4> QED BY <1>11, <1>12, <4>1
    <3>3. CASE "rdma" \in t.lists /\ \E r \in t.rdma \ rdma : x = <<"rdma", r>>
      <4>1. PICK r \in t.rdma \ rdma : x = <<"rdma", r>>
        BY <3>3
      <4> DEFINE p == DevicePath("rdma", r)
      <4>2. p[1] = "rdma" /\ p[2] = r
        BY DEF DevicePath
      <4>3. BaseOf(t, p) = 0
        BY <3>3 DEF rdma, Bound
      <4> HIDE DEF p
      <4>4. f \in BindFacts(t, p)
        BY <2>6, <4>1, <4>2, <4>3 DEF BindFacts
      <4>5. ListFacts(t, "rdma") = UNION { BindFacts(t, DevicePath("rdma", e)) : e \in t.rdma }
        BY <3>3 DEF ListFacts
      <4>6. f \in ListFacts(t, "rdma")
        BY <4>1, <4>4, <4>5 DEF p
      <4> QED BY <1>11, <1>12, <4>6
    <3>4. CASE \E r \in rdma \ DOMAIN t.ports : x = <<"ports", r>>
      <4>1. PICK r \in rdma \ DOMAIN t.ports : x = <<"ports", r>>
        BY <3>4
      <4>2. f \in PortFacts(t, r)
        BY <2>6, <4>1 DEF PortFacts
      <4> QED BY <1>14, <4>1, <4>2
    <3> QED BY <2>6, <3>1, <3>2, <3>3, <3>4 DEF bad
  <2> QED BY <1>10, <2>1, <2>2, <2>3, <2>4, <2>5, <2>6
<1>17. ASSUME NEW d \in devs PROVE {<<"dev", d, t.bus[d]>>} \cup FunctionFacts(t, d) \subseteq Facts(R)
  <2>1. \A a \in ToSet(IDFiles \o LinkFiles) : <<"pci", d, 0, a>> \in files
    BY <1>17 DEF files
  <2>2. \A a \in ToSet(Symlinks) : <<"pci", d, 0, a>> \in links
    BY <1>17 DEF links
  <2>3. \A a \in ToSet(Symlinks) : LinkFacts(t, <<"pci", d, 0, a>>) \subseteq Facts(R)
    BY <1>9, <2>2 DEF LinkFacts, shown
  <2> QED BY <1>9, <1>17, <2>1, <2>3 DEF FunctionFacts
<1>18. ASSUME NEW r \in rdma PROVE {LinkFact(t, DevicePath("rdma", r))} \cup PortFacts(t, r) \subseteq Facts(R)
  <2>1. DevicePath("rdma", r) \in links
    BY <1>18 DEF links
  <2>2. Shown(t, DevicePath("rdma", r))
    <3>1. DevicePath("rdma", r)[4] # "physfn"
      BY DEF DevicePath
    <3> QED BY <1>14, <3>1 DEF Shown
  <2>3. \A i \in PortsOf(t, r), a \in ToSet(PortFiles) : <<"rdma", r, i, a>> \in files
    <3>1. ports[r] = PortsOf(t, r)
      BY DEF ports, PortsOf
    <3>2. \A i \in ports[r], a \in ToSet(PortFiles) : <<"rdma", r, i, a>> \in files
      BY <1>18 DEF files
    <3> QED BY <3>1, <3>2
  <2>4. r \notin DOMAIN t.ports => <<"ports", r>> \in bad
    BY <1>18 DEF bad
  <2>5. PortFacts(t, r) \subseteq Facts(R)
    <3>1. {<<"rdma", r, PortsOf(t, r)>>} \subseteq Facts(R)
      BY <1>9, <1>18
    <3>2. r \notin DOMAIN t.ports => <<"bad", <<"ports", r>>, 0>> \in Facts(R)
      BY <1>9, <2>4
    <3>3. \A i \in PortsOf(t, r) : \A a \in ToSet(PortFiles) : ValueFact(t, <<"rdma", r, i, a>>) \in Facts(R)
      BY <1>9, <2>3
    <3>4. ASSUME NEW f \in UNION { { ValueFact(t, <<"rdma", r, i, a>>) : a \in ToSet(PortFiles) } : i \in PortsOf(t, r) }
          PROVE  f \in Facts(R)
      <4>1. PICK i \in PortsOf(t, r) : f \in { ValueFact(t, <<"rdma", r, i, a>>) : a \in ToSet(PortFiles) }
        BY <3>4
      <4> QED BY <3>3, <4>1
    <3> QED BY <3>1, <3>2, <3>4 DEF PortFacts
  <2>6. LinkFact(t, DevicePath("rdma", r)) \in Facts(R)
    BY <1>9, <2>1, <2>2 DEF shown
  <2> QED BY <2>5, <2>6
<1>19. ASSUME NEW n \in net PROVE {LinkFact(t, DevicePath("net", n))} \cup NetFacts(t, n) \subseteq Facts(R)
  <2>1. DevicePath("net", n) \in links
    BY <1>19 DEF links
  <2>2. Shown(t, DevicePath("net", n))
    <3>1. DevicePath("net", n)[4] # "physfn"
      BY DEF DevicePath
    <3> QED BY <1>15, <3>1 DEF Shown
  <2>3. \A a \in ToSet(NetFiles) : <<"net", n, 0, a>> \in files
    BY <1>19 DEF files
  <2> QED BY <1>9, <1>19, <2>1, <2>2, <2>3 DEF NetFacts, shown
<1>20. ASSUME NEW f \in ListFacts(t, "pci") PROVE f \in Facts(R)
  <2>1. CASE "pci" \notin t.lists
    <3>1. f = <<"bad", <<"bus", 0>>, 0>>
      BY <1>20, <2>1 DEF ListFacts
    <3>2. <<"bus", 0>> \in bad
      BY <2>1 DEF bad
    <3> QED BY <1>9, <3>1, <3>2
  <2>2. CASE "pci" \in t.lists
    <3>1. ListFacts(t, "pci") = UNION { ResolveFacts(t, d) : d \in DOMAIN t.bus }
      BY <2>2 DEF ListFacts
    <3>2. PICK d \in DOMAIN t.bus : f \in ResolveFacts(t, d)
      BY <1>20, <3>1
    <3>3. CASE Resolves(t, d)
      <4>1. d \in devs
        BY <2>2, <3>3 DEF devs
      <4> QED BY <1>17, <3>2, <3>3, <4>1 DEF ResolveFacts
    <3>4. CASE ~Resolves(t, d)
      <4>1. d \notin devs
        BY <3>4 DEF devs
      <4>2. <<"bus", d>> \in bad
        BY <2>2, <4>1 DEF bad
      <4> QED BY <1>9, <3>2, <3>4, <4>2 DEF ResolveFacts
    <3> QED BY <3>3, <3>4
  <2> QED BY <2>1, <2>2
<1>21. ASSUME NEW f \in ListFacts(t, "node") PROVE f \in Facts(R)
  <2>1. "node" \in t.lists /\ \E n \in t.node : f = ValueFact(t, <<"node", n, 0, "cpulist">>)
    BY <1>21 DEF ListFacts
  <2>2. \A n \in t.node : <<"node", n, 0, "cpulist">> \in files
    BY <2>1 DEF files
  <2> QED BY <1>9, <2>1, <2>2
<1>22. ASSUME NEW f \in ListFacts(t, "rdma") PROVE f \in Facts(R)
  <2>1. "rdma" \in t.lists
    BY <1>22 DEF ListFacts
  <2>2. ListFacts(t, "rdma") = UNION { BindFacts(t, DevicePath("rdma", r)) : r \in t.rdma }
    BY <2>1 DEF ListFacts
  <2>3. PICK r \in t.rdma : f \in BindFacts(t, DevicePath("rdma", r))
    BY <1>22, <2>2
  <2> DEFINE p == DevicePath("rdma", r)
  <2>4. p[1] = "rdma" /\ p[2] = r
    BY DEF DevicePath
  <2> HIDE DEF p
  <2>5. CASE BaseOf(t, p) = 0
    <3>1. f = <<"bad", <<"rdma", r>>, 0>>
      BY <2>3, <2>4, <2>5 DEF BindFacts, p
    <3>2. r \notin rdma
      BY <1>14, <2>5 DEF p
    <3>3. <<"rdma", r>> \in bad
      BY <2>1, <3>2 DEF bad
    <3> QED BY <1>9, <3>1, <3>3
  <2>6. CASE BaseOf(t, p) # 0
    <3>1. r \in rdma
      BY <2>1, <2>6 DEF rdma, Bound, p
    <3>2. f \in {LinkFact(t, p)} \cup PortFacts(t, r)
      BY <2>3, <2>4, <2>6 DEF BindFacts, p
    <3> QED BY <1>18, <3>1, <3>2 DEF p
  <2> QED BY <2>5, <2>6
<1>23. ASSUME NEW f \in ListFacts(t, "net") PROVE f \in Facts(R)
  <2>1. "net" \in t.lists
    BY <1>23 DEF ListFacts
  <2>2. ListFacts(t, "net") = UNION { BindFacts(t, DevicePath("net", r)) : r \in t.net }
    BY <2>1 DEF ListFacts
  <2>3. PICK n \in t.net : f \in BindFacts(t, DevicePath("net", n))
    BY <1>23, <2>2
  <2> DEFINE p == DevicePath("net", n)
  <2>4. p[1] = "net" /\ p[2] = n
    BY DEF DevicePath
  <2> HIDE DEF p
  <2>5. BaseOf(t, p) # 0
    BY <2>3, <2>4 DEF BindFacts, p
  <2>6. n \in net
    BY <2>1, <2>5 DEF net, Bound, p
  <2>7. f \in {LinkFact(t, p)} \cup NetFacts(t, n)
    BY <2>3, <2>4, <2>5 DEF BindFacts, p
  <2> QED BY <1>19, <2>6, <2>7 DEF p
<1>24. AllFacts(t) \subseteq Facts(R)
  BY <1>20, <1>21, <1>22, <1>23 DEF AllFacts, Classes
<1> QED BY <1>7, <1>8, <1>16, <1>24 DEF R

\* What a piece of work finds.
LEMMA WorkFactsOf ==
  ASSUME NEW t, NEW at
  PROVE  /\ WorkFacts(t, Task("list", at)) = ListFacts(t, at[1])
         /\ WorkFacts(t, Task("resolve", at)) = ResolveFacts(t, at[2])
         /\ WorkFacts(t, Task("file", at)) = {ValueFact(t, at)}
         /\ WorkFacts(t, Task("link", at)) = LinkFacts(t, at)
         /\ WorkFacts(t, Task("bind", at)) = BindFacts(t, at)
         /\ WorkFacts(t, Task("ports", at)) = PortFacts(t, at[2])
<1>1. \A op : Task(op, at).op = op /\ Task(op, at).at = at
  BY DEF Task
<1> QED BY <1>1 DEF WorkFacts

\* What work leads to, fact by fact.
LEMMA LeadsIs ==
  ASSUME NEW t, NEW works, NEW seats, NEW f
  PROVE  f \in Leads(t, works, seats) <=>
           (\E w \in works : f \in WorkFacts(t, w)) \/ (\E s \in seats : f \in ResolveFacts(t, s.bdf))
  BY DEF Leads

\* More work leads to more.
LEMMA LeadsMore ==
  ASSUME NEW t, NEW a, NEW b, NEW c
  PROVE  Leads(t, a \cup b, c) = Leads(t, a, c) \cup Leads(t, b, {})
<1>1. ASSUME NEW f PROVE f \in Leads(t, a \cup b, c) <=> f \in Leads(t, a, c) \/ f \in Leads(t, b, {})
  BY LeadsIs
<1> QED BY <1>1

\* One piece of work or one seat leads to its facts.
LEMMA LeadsOne ==
  ASSUME NEW t, NEW w
  PROVE  /\ Leads(t, {w}, {}) = WorkFacts(t, w)
         /\ Leads(t, {}, {w}) = ResolveFacts(t, w.bdf)
         /\ Leads(t, {}, {}) = {}
<1>1. \A f : f \in Leads(t, {w}, {}) <=> f \in WorkFacts(t, w)
  BY LeadsIs
<1>2. \A f : f \in Leads(t, {}, {w}) <=> f \in ResolveFacts(t, w.bdf)
  BY LeadsIs
<1>3. \A f : f \notin Leads(t, {}, {})
  BY LeadsIs
<1> QED BY <1>1, <1>2, <1>3

\* The head of the work is done: what it finds is in the host or led to.
LEMMA Progress ==
  ASSUME WorkInv, ~copying, todo # <<>>, seat = {}, NEW more \in Seq(ReadTasks), Then(more),
         Facts(host) \cup Left = AllFacts(Tree), NEW G, Facts(host') = Facts(host) \cup G,
         WorkFacts(Tree, Head1) = G \cup Leads(Tree, ToSet(more), seat')
  PROVE  Facts(host') \cup Left' = AllFacts(Tree')
<1>1. Tree' = Tree /\ todo' = more \o Tail(todo)
  BY DEF Then, Tree
<1>2. todo \in Seq(ReadTasks)
  BY DEF WorkInv, Work
<1>3. Tail(todo) \in Seq(ReadTasks) /\ ToSet(todo) = {Head1} \cup ToSet(Tail(todo))
  BY <1>2, HeadAndTail DEF Head1
<1>4. ToSet(todo') = ToSet(more) \cup ToSet(Tail(todo))
  <2> DEFINE rest == Tail(todo)
  <2>1. rest \in Seq(ReadTasks)
    BY <1>3
  <2> HIDE DEF rest
  <2>2. ToSet(more \o rest) = ToSet(more) \cup ToSet(rest)
    BY <2>1, ElementsOf
  <2> QED BY <1>1, <2>2 DEF rest
<1>5. Left = WorkFacts(Tree, Head1) \cup Leads(Tree, ToSet(Tail(todo)), {})
  <2>1. Left = Leads(Tree, {Head1} \cup ToSet(Tail(todo)), {})
    BY <1>3 DEF Left
  <2>2. Leads(Tree, {Head1}, {}) = WorkFacts(Tree, Head1)
    BY LeadsOne
  <2>3. Leads(Tree, {Head1} \cup ToSet(Tail(todo)), {}) = Leads(Tree, {Head1}, {}) \cup Leads(Tree, ToSet(Tail(todo)), {})
    BY LeadsMore
  <2> QED BY <2>1, <2>2, <2>3
<1>6. Left' = Leads(Tree, ToSet(more), seat') \cup Leads(Tree, ToSet(Tail(todo)), {})
  <2>1. Left' = Leads(Tree, ToSet(more) \cup ToSet(Tail(todo)), seat')
    BY <1>1, <1>4 DEF Left
  <2> QED BY <2>1, LeadsMore
<1> QED BY <1>1, <1>5, <1>6

-----------------------------------------------------------------------------
(* The lists of work that a step puts before the rest, and their facts. *)

\* A task for each element of a set.
EachWork(op, class, S, name) == [ i \in DOMAIN InOrder(S) |-> Task(op, <<class, InOrder(S)[i], 0, name>>) ]

EachTasks(op, class, S, name) == { Task(op, <<class, x, 0, name>>) : x \in S }

LEMMA EachTask ==
  ASSUME NEW op, NEW class, NEW S, NEW name, Listable(S)
  PROVE  ToSet(EachWork(op, class, S, name)) = EachTasks(op, class, S, name)
<1> DEFINE s == EachWork(op, class, S, name)
           n == InOrder(S)
<1>1. DOMAIN s = DOMAIN n /\ \A i \in DOMAIN n : s[i] = Task(op, <<class, n[i], 0, name>>)
  BY DEF EachWork
<1>2. (\A i \in DOMAIN n : n[i] \in S) /\ \A x \in S : \E i \in DOMAIN n : n[i] = x
  BY InOrderOf, InOrderIs
<1> HIDE DEF s, n
<1>3. ASSUME NEW w PROVE w \in ToSet(s) <=> w \in EachTasks(op, class, S, name)
  <2>1. w \in ToSet(s) <=> \E i \in DOMAIN n : w = s[i]
    BY <1>1 DEF ToSet
  <2>2. w \in EachTasks(op, class, S, name) <=> \E x \in S : w = Task(op, <<class, x, 0, name>>)
    BY DEF EachTasks
  <2>3. ASSUME NEW i \in DOMAIN n, w = s[i] PROVE \E x \in S : w = Task(op, <<class, x, 0, name>>)
    BY <1>1, <1>2, <2>3
  <2>4. ASSUME NEW x \in S, w = Task(op, <<class, x, 0, name>>) PROVE \E i \in DOMAIN n : w = s[i]
    BY <1>1, <1>2, <2>4
  <2> QED BY <2>1, <2>2, <2>3, <2>4
<1> QED BY <1>3 DEF s

\* The files of these names, and the links.
Values(t, class, x, y, names) == { ValueFact(t, <<class, x, y, a>>) : a \in ToSet(names) }
Links(t, class, x, y, names) == UNION { LinkFacts(t, <<class, x, y, a>>) : a \in ToSet(names) }

LEMMA FilesLead ==
  ASSUME NEW t, NEW class, NEW x, NEW y, NEW names
  PROVE  /\ Leads(t, ToSet(NamedWork("file", class, x, y, names)), {}) = Values(t, class, x, y, names)
         /\ Leads(t, ToSet(NamedWork("link", class, x, y, names)), {}) = Links(t, class, x, y, names)
<1>1. ASSUME NEW f
      PROVE  f \in Leads(t, ToSet(NamedWork("file", class, x, y, names)), {})
               <=> f \in Values(t, class, x, y, names)
  <2>1. f \in Leads(t, ToSet(NamedWork("file", class, x, y, names)), {})
          <=> \E w \in { Task("file", <<class, x, y, a>>) : a \in ToSet(names) } : f \in WorkFacts(t, w)
    <3>1. PICK S : S = NamedTasks("file", class, x, y, names)
      OBVIOUS
    <3>2. ToSet(NamedWork("file", class, x, y, names)) = S
      BY <3>1, NamedTasksAre
    <3>3. f \in Leads(t, S, {}) <=> \E w \in S : f \in WorkFacts(t, w)
      BY LeadsIs
    <3>4. S = { Task("file", <<class, x, y, a>>) : a \in ToSet(names) }
      BY <3>1 DEF NamedTasks
    <3> QED BY <3>2, <3>3, <3>4
  <2>2. \A a : WorkFacts(t, Task("file", <<class, x, y, a>>)) = {ValueFact(t, <<class, x, y, a>>)}
    BY WorkFactsOf
  <2> QED BY <2>1, <2>2 DEF Values
<1>2. ASSUME NEW f
      PROVE  f \in Leads(t, ToSet(NamedWork("link", class, x, y, names)), {})
               <=> f \in Links(t, class, x, y, names)
  <2>1. f \in Leads(t, ToSet(NamedWork("link", class, x, y, names)), {})
          <=> \E w \in { Task("link", <<class, x, y, a>>) : a \in ToSet(names) } : f \in WorkFacts(t, w)
    <3>1. PICK S : S = NamedTasks("link", class, x, y, names)
      OBVIOUS
    <3>2. ToSet(NamedWork("link", class, x, y, names)) = S
      BY <3>1, NamedTasksAre
    <3>3. f \in Leads(t, S, {}) <=> \E w \in S : f \in WorkFacts(t, w)
      BY LeadsIs
    <3>4. S = { Task("link", <<class, x, y, a>>) : a \in ToSet(names) }
      BY <3>1 DEF NamedTasks
    <3> QED BY <3>2, <3>3, <3>4
  <2>2. \A a : WorkFacts(t, Task("link", <<class, x, y, a>>)) = LinkFacts(t, <<class, x, y, a>>)
    BY WorkFactsOf
  <2> QED BY <2>1, <2>2 DEF Links
<1> QED BY <1>1, <1>2

\* The attributes of a function.
LEMMA FunctionLeads ==
  ASSUME NEW t, NEW d \in Int
  PROVE  Leads(t, ToSet(FunctionWork(d)), {}) = FunctionFacts(t, d)
<1> DEFINE a == NamedWork("file", "pci", d, 0, IDFiles)
           b == NamedWork("link", "pci", d, 0, Symlinks)
           c == NamedWork("file", "pci", d, 0, LinkFiles)
<1>1. a \in Seq(ReadTasks) /\ b \in Seq(ReadTasks) /\ c \in Seq(ReadTasks)
  <2>1. "pci" \in Classes /\ "pci" # "node" /\ "file" \in ReadOps /\ "link" \in ReadOps /\ 0 \in Int
    BY DEF Classes, ReadOps
  <2>2. \A name \in Names : Task("file", <<"pci", d, 0, name>>) \in ReadTasks /\ Task("link", <<"pci", d, 0, name>>) \in ReadTasks
    BY <2>1, ReadTaskIs
  <2>3. \A names \in Seq(Names) : NamedWork("file", "pci", d, 0, names) \in Seq(ReadTasks)
    BY <2>1, <2>2, FileTasks DEF NamedWork
  <2>4. \A names \in Seq(Names) : NamedWork("link", "pci", d, 0, names) \in Seq(ReadTasks)
    BY <2>1, <2>2, FileTasks DEF NamedWork
  <2> QED BY <2>3, <2>4, NamesAre
<1>2. FunctionWork(d) = (a \o b) \o c
  BY DEF FunctionWork, NamedWork
<1>3. /\ Leads(t, ToSet(a), {}) = Values(t, "pci", d, 0, IDFiles)
      /\ Leads(t, ToSet(b), {}) = Links(t, "pci", d, 0, Symlinks)
      /\ Leads(t, ToSet(c), {}) = Values(t, "pci", d, 0, LinkFiles)
  BY FilesLead
<1> HIDE DEF a, b, c
<1>4. ToSet((a \o b) \o c) = (ToSet(a) \cup ToSet(b)) \cup ToSet(c)
  <2>1. a \o b \in Seq(ReadTasks) /\ ToSet(a \o b) = ToSet(a) \cup ToSet(b)
    BY <1>1, ElementsOf
  <2> DEFINE ab == a \o b
  <2>2. ab \in Seq(ReadTasks)
    BY <2>1
  <2> HIDE DEF ab
  <2>3. ToSet(ab \o c) = ToSet(ab) \cup ToSet(c)
    BY <1>1, <2>2, ElementsOf
  <2> QED BY <2>1, <2>3 DEF ab
<1>5. ToSet(IDFiles \o LinkFiles) = ToSet(IDFiles) \cup ToSet(LinkFiles)
  BY NamesAre, ElementsOf
<1>6. Leads(t, (ToSet(a) \cup ToSet(b)) \cup ToSet(c), {})
        = (Leads(t, ToSet(a), {}) \cup Leads(t, ToSet(b), {})) \cup Leads(t, ToSet(c), {})
  <2>1. Leads(t, (ToSet(a) \cup ToSet(b)) \cup ToSet(c), {}) = Leads(t, ToSet(a) \cup ToSet(b), {}) \cup Leads(t, ToSet(c), {})
    BY LeadsMore
  <2>2. Leads(t, ToSet(a) \cup ToSet(b), {}) = Leads(t, ToSet(a), {}) \cup Leads(t, ToSet(b), {})
    BY LeadsMore
  <2> QED BY <2>1, <2>2
<1>7. { ValueFact(t, <<"pci", d, 0, x>>) : x \in ToSet(IDFiles \o LinkFiles) }
        = Values(t, "pci", d, 0, IDFiles) \cup Values(t, "pci", d, 0, LinkFiles)
  BY <1>5 DEF Values
<1>8. UNION { LinkFacts(t, <<"pci", d, 0, x>>) : x \in ToSet(Symlinks) } = Links(t, "pci", d, 0, Symlinks)
  BY DEF Links
<1>9. FunctionFacts(t, d)
        = (Values(t, "pci", d, 0, IDFiles) \cup Values(t, "pci", d, 0, LinkFiles)) \cup Links(t, "pci", d, 0, Symlinks)
  BY <1>7, <1>8 DEF FunctionFacts
<1> QED BY <1>2, <1>3, <1>4, <1>6, <1>9

\* The ports of an RDMA device.
PortWork(r, S) ==
  FlattenSeq([ i \in DOMAIN InOrder(S) |->
    [ j \in DOMAIN PortFiles |-> Task("file", <<"rdma", r, InOrder(S)[i], PortFiles[j]>>) ] ])

PortValues(t, r, S) == UNION { { ValueFact(t, <<"rdma", r, i, a>>) : a \in ToSet(PortFiles) } : i \in S }

LEMMA PortsLead ==
  ASSUME NEW t, NEW r \in Int, NEW S, Listable(S)
  PROVE  Leads(t, ToSet(PortWork(r, S)), {}) = PortValues(t, r, S)
<1> DEFINE s == InOrder(S)
           ss == [ i \in DOMAIN s |-> NamedWork("file", "rdma", r, s[i], PortFiles) ]
<1>1. PortWork(r, S) = FlattenSeq(ss)
  BY DEF PortWork, NamedWork
<1>2. s \in Seq(Int) /\ (\A i \in DOMAIN s : s[i] \in S) /\ \A x \in S : \E i \in DOMAIN s : s[i] = x
  BY InOrderOf, InOrderIs
<1>3. \A y \in Int : NamedWork("file", "rdma", r, y, PortFiles) \in Seq(ReadTasks)
  <2>1. "rdma" \in Classes /\ "rdma" # "node" /\ "file" \in ReadOps
    BY DEF Classes, ReadOps
  <2>2. \A y \in Int : \A name \in Names : Task("file", <<"rdma", r, y, name>>) \in ReadTasks
    BY <2>1, ReadTaskIs
  <2> QED BY <2>1, <2>2, NamesAre, FileTasks DEF NamedWork
<1> HIDE DEF s
<1>4. ss \in [1..Len(s) -> Seq(ReadTasks)] /\ Len(s) \in Nat /\ DOMAIN s = 1..Len(s)
  <2>1. DOMAIN s = 1..Len(s) /\ Len(s) \in Nat /\ \A i \in DOMAIN s : s[i] \in Int
    BY <1>2
  <2>2. \A i \in DOMAIN s : NamedWork("file", "rdma", r, s[i], PortFiles) \in Seq(ReadTasks)
    BY <1>3, <2>1
  <2> QED BY <2>1, <2>2
<1>5. \A i \in DOMAIN s : ss[i] = NamedWork("file", "rdma", r, s[i], PortFiles)
  OBVIOUS
<1> HIDE DEF ss
<1>6. \A i \in DOMAIN s : Leads(t, ToSet(ss[i]), {}) = Values(t, "rdma", r, s[i], PortFiles)
  BY <1>5, FilesLead
<1>7. ToSet(FlattenSeq(ss)) = UNION { ToSet(ss[i]) : i \in 1..Len(s) }
  BY <1>4, FlattenIs DEF AllOf
<1>8. ASSUME NEW f
      PROVE  f \in Leads(t, ToSet(FlattenSeq(ss)), {}) <=> f \in PortValues(t, r, S)
  <2>1. f \in Leads(t, ToSet(FlattenSeq(ss)), {}) <=> \E i \in DOMAIN s : \E w \in ToSet(ss[i]) : f \in WorkFacts(t, w)
    <3>1. f \in Leads(t, ToSet(FlattenSeq(ss)), {}) <=> \E w \in ToSet(FlattenSeq(ss)) : f \in WorkFacts(t, w)
      BY LeadsIs
    <3> QED BY <1>4, <1>7, <3>1
  <2>2. \A i \in DOMAIN s : f \in Leads(t, ToSet(ss[i]), {}) <=> \E w \in ToSet(ss[i]) : f \in WorkFacts(t, w)
    BY LeadsIs
  <2>3. f \in Leads(t, ToSet(FlattenSeq(ss)), {})
          <=> \E i \in DOMAIN s : f \in Values(t, "rdma", r, s[i], PortFiles)
    BY <1>6, <2>1, <2>2
  <2>4. f \in PortValues(t, r, S) <=> \E i \in S : f \in Values(t, "rdma", r, i, PortFiles)
    BY DEF PortValues, Values
  <2> QED BY <1>2, <2>3, <2>4
<1> QED BY <1>1, <1>8 DEF ss, s

\* What the names of a directory lead to.
LEMMA EachLeads ==
  ASSUME NEW t, NEW op, NEW class, NEW S, Listable(S), NEW name, NEW f
  PROVE  f \in Leads(t, ToSet(EachWork(op, class, S, name)), {})
           <=> \E x \in S : f \in WorkFacts(t, Task(op, <<class, x, 0, name>>))
<1>1. ToSet(EachWork(op, class, S, name)) = EachTasks(op, class, S, name)
  BY EachTask
<1>2. f \in Leads(t, ToSet(EachWork(op, class, S, name)), {})
        <=> \E w \in ToSet(EachWork(op, class, S, name)) : f \in WorkFacts(t, w)
  BY LeadsIs
<1> QED BY <1>1, <1>2 DEF EachTasks

\* What a class directory lists.
LEMMA ListedLeads ==
  ASSUME now \in DOMAIN Trees, NEW class \in Classes, class \in Tree.lists
  PROVE  Leads(Tree, ToSet(Listed(class)), {}) = ListFacts(Tree, class)
<1>1. PICK t : t = Tree
  OBVIOUS
<1>2. Listable(DOMAIN t.bus) /\ Listable(t.node) /\ Listable(t.rdma) /\ Listable(t.net)
  BY <1>1, TreeListable DEF Tree
<1>3. CASE class = "pci"
  <2>1. Listed(class) = EachWork("resolve", "pci", DOMAIN t.bus, "")
    BY <1>1, <1>3 DEF Listed, EachWork
  <2>2. ASSUME NEW f PROVE f \in Leads(t, ToSet(Listed(class)), {}) <=> f \in ListFacts(t, class)
    <3>1. f \in Leads(t, ToSet(EachWork("resolve", "pci", DOMAIN t.bus, "")), {})
            <=> \E x \in DOMAIN t.bus : f \in WorkFacts(t, Task("resolve", <<"pci", x, 0, "">>))
      BY <1>2, EachLeads
    <3>2. ASSUME NEW x PROVE WorkFacts(t, Task("resolve", <<"pci", x, 0, "">>)) = ResolveFacts(t, x)
      <4>1. PICK at : at = <<"pci", x, 0, "">>
        OBVIOUS
      <4>2. WorkFacts(t, Task("resolve", at)) = ResolveFacts(t, at[2])
        BY WorkFactsOf
      <4> QED BY <4>1, <4>2
    <3>3. ListFacts(t, class) = UNION { ResolveFacts(t, x) : x \in DOMAIN t.bus }
      BY <1>1, <1>3 DEF ListFacts
    <3> QED BY <2>1, <3>1, <3>2, <3>3
  <2> QED BY <1>1, <2>2
<1>4. CASE class = "node"
  <2>1. Listed(class) = EachWork("file", "node", t.node, "cpulist")
    BY <1>1, <1>4 DEF Listed, EachWork
  <2>2. ASSUME NEW f PROVE f \in Leads(t, ToSet(Listed(class)), {}) <=> f \in ListFacts(t, class)
    <3>1. f \in Leads(t, ToSet(EachWork("file", "node", t.node, "cpulist")), {})
            <=> \E x \in t.node : f \in WorkFacts(t, Task("file", <<"node", x, 0, "cpulist">>))
      BY <1>2, EachLeads
    <3>2. \A x : WorkFacts(t, Task("file", <<"node", x, 0, "cpulist">>)) = {ValueFact(t, <<"node", x, 0, "cpulist">>)}
      BY WorkFactsOf
    <3>3. ListFacts(t, class) = { ValueFact(t, <<"node", x, 0, "cpulist">>) : x \in t.node }
      BY <1>1, <1>4 DEF ListFacts
    <3> QED BY <2>1, <3>1, <3>2, <3>3
  <2> QED BY <1>1, <2>2
<1>5. CASE class = "rdma"
  <2>1. Listed(class) = EachWork("bind", "rdma", t.rdma, "device")
    BY <1>1, <1>5 DEF Listed, EachWork
  <2>2. ASSUME NEW f PROVE f \in Leads(t, ToSet(Listed(class)), {}) <=> f \in ListFacts(t, class)
    <3>1. f \in Leads(t, ToSet(EachWork("bind", "rdma", t.rdma, "device")), {})
            <=> \E x \in t.rdma : f \in WorkFacts(t, Task("bind", <<"rdma", x, 0, "device">>))
      BY <1>2, EachLeads
    <3>2. \A x : WorkFacts(t, Task("bind", <<"rdma", x, 0, "device">>)) = BindFacts(t, DevicePath("rdma", x))
      BY WorkFactsOf DEF DevicePath
    <3>3. ListFacts(t, class) = UNION { BindFacts(t, DevicePath("rdma", x)) : x \in t.rdma }
      BY <1>1, <1>5 DEF ListFacts
    <3> QED BY <2>1, <3>1, <3>2, <3>3
  <2> QED BY <1>1, <2>2
<1>6. CASE class = "net"
  <2>1. Listed(class) = EachWork("bind", "net", t.net, "device")
    BY <1>1, <1>6 DEF Listed, EachWork
  <2>2. ASSUME NEW f PROVE f \in Leads(t, ToSet(Listed(class)), {}) <=> f \in ListFacts(t, class)
    <3>1. f \in Leads(t, ToSet(EachWork("bind", "net", t.net, "device")), {})
            <=> \E x \in t.net : f \in WorkFacts(t, Task("bind", <<"net", x, 0, "device">>))
      BY <1>2, EachLeads
    <3>2. \A x : WorkFacts(t, Task("bind", <<"net", x, 0, "device">>)) = BindFacts(t, DevicePath("net", x))
      BY WorkFactsOf DEF DevicePath
    <3>3. ListFacts(t, class) = UNION { BindFacts(t, DevicePath("net", x)) : x \in t.net }
      BY <1>1, <1>6 DEF ListFacts
    <3> QED BY <2>1, <3>1, <3>2, <3>3
  <2> QED BY <1>1, <2>2
<1> QED BY <1>3, <1>4, <1>5, <1>6 DEF Classes

-----------------------------------------------------------------------------
(* The steps of Read, of a tree that holds still. *)

\* The state Read is in when the tree has held still so far.
Reading == IInv /\ WorkInv /\ Still /\ ~copying /\ SeatIsOnChain /\ SoFar

\* There is only one tree then.
LEMMA OneTree ==
  ASSUME IInv, Still
  PROVE  during = {now} /\ span \subseteq {now}
  BY DEF IInv, Still

\* What is in the host and what the work finds is what the tree says.
LEMMA OnlyFacts ==
  ASSUME Reading
  PROVE  /\ HostIsRecord(host) /\ HostIsMade(host) /\ now \in DOMAIN Trees
         /\ Facts(host) \subseteq Facts(ReadTree(Tree))
         /\ todo # <<>> => todo \in Seq(ReadTasks) /\ Head1 \in ReadTasks /\ WorkFacts(Tree, Head1) \subseteq Facts(ReadTree(Tree))
         /\ \A s \in seat : ResolveFacts(Tree, s.bdf) \subseteq Facts(ReadTree(Tree))
<1>1. HostIsRecord(host) /\ HostIsMade(host) /\ now \in DOMAIN Trees
  BY DEF Reading, SoFar, IInv, HostIsRecord, WorkInv
<1>2. Facts(host) \cup Left = Facts(ReadTree(Tree))
  BY ReadTreeIs DEF Reading, SoFar
<1>3. todo \in Seq(ReadTasks)
  BY DEF Reading, WorkInv, Work
<1>4. todo # <<>> => Head1 \in ReadTasks /\ Head1 \in ToSet(todo)
  BY <1>3 DEF Head1, ToSet
<1>5. \A w \in ToSet(todo) : WorkFacts(Tree, w) \subseteq Left
  <2>1. \A f : \A w \in ToSet(todo) : f \in WorkFacts(Tree, w) => f \in Leads(Tree, ToSet(todo), seat)
    BY LeadsIs
  <2> QED BY <2>1 DEF Left
<1>6. \A s \in seat : ResolveFacts(Tree, s.bdf) \subseteq Left
  <2>1. \A f : \A s \in seat : f \in ResolveFacts(Tree, s.bdf) => f \in Leads(Tree, ToSet(todo), seat)
    BY LeadsIs
  <2> QED BY <2>1 DEF Left
<1> QED BY <1>1, <1>2, <1>3, <1>4, <1>5, <1>6

\* A problem is a fact.
LEMMA BadFact ==
  ASSUME HostIsRecord(host), NEW x, Bad(x)
  PROVE  Facts(host') = Facts(host) \cup {<<"bad", x, 0>>} /\ (HostIsMade(host) => HostIsMade(host'))
<1>1. PICK h, g : h = host /\ g = host'
  OBVIOUS
<1>2. g.bad = h.bad \cup {x} /\ \A j \in Fields \ {"bad"} : g[j] = h[j]
  BY <1>1 DEF Bad, HostIsRecord, Fields
<1>3. Marked(h, g, "bad", x)
  BY <1>2 DEF Marked
<1>4. Facts(g) = Facts(h) \cup {<<"bad", x, 0>>} /\ (HostIsMade(h) => HostIsMade(g))
  BY <1>3, MarkFact
<1> QED BY <1>1, <1>4

\* What is put into a field is a fact that the tree has.
LEMMA PutIs ==
  ASSUME Reading, NEW k \in Mapped, NEW x, NEW v, <<k, x, v>> \in Facts(ReadTree(Tree)),
         NEW g, Entered(host, g, k, x, v)
  PROVE  Facts(g) = Facts(host) \cup {<<k, x, v>>} /\ HostIsMade(g)
<1>1. PICK h, H : h = host /\ H = ReadTree(Tree)
  OBVIOUS
<1>2. Facts(h) \subseteq Facts(H) /\ HostIsMade(h)
  BY <1>1, OnlyFacts
<1>3. Entered(h, g, k, x, v)
  BY <1>1
<1>4. <<k, x, v>> \in Facts(H)
  BY <1>1
<1>5. Facts(g) = Facts(h) \cup {<<k, x, v>>} /\ (HostIsMade(h) => HostIsMade(g))
  BY <1>2, <1>3, <1>4, PutFact
<1> QED BY <1>1, <1>2, <1>5

\* No work leads to nothing.
LEMMA NoWork ==
  ASSUME NEW t
  PROVE  Leads(t, ToSet(<<>>), {}) = {} /\ <<>> \in Seq(ReadTasks)
<1>1. ToSet(<<>>) = {}
  BY DEF ToSet
<1>2. <<>> \in Seq(ReadTasks)
  OBVIOUS
<1>3. Leads(t, {}, {}) = {}
  BY LeadsOne
<1> QED BY <1>1, <1>2, <1>3

\* The facts of the head of the work.
LEMMA HeadFacts ==
  ASSUME NEW t, NEW op, Head1.op = op
  PROVE  /\ op = "list" => WorkFacts(t, Head1) = ListFacts(t, At[1])
         /\ op = "resolve" => WorkFacts(t, Head1) = ResolveFacts(t, At[2])
         /\ op = "file" => WorkFacts(t, Head1) = {ValueFact(t, At)}
         /\ op = "link" => WorkFacts(t, Head1) = LinkFacts(t, At)
         /\ op = "bind" => WorkFacts(t, Head1) = BindFacts(t, At)
         /\ op = "ports" => WorkFacts(t, Head1) = PortFacts(t, At[2])
  BY DEF WorkFacts, At

\* A class directory is listed.
LEMMA ListDirStill ==
  ASSUME Reading, ListDir
  PROVE  SoFar' /\ SeatIsOnChain'
<1>1. WorkInv /\ ~copying /\ todo # <<>> /\ seat = {} /\ seat' = {} /\ Head1.op = "list" /\ now' = now
  BY DEF Reading, ListDir, Turn, Then
<1>2. HostIsRecord(host) /\ HostIsMade(host) /\ now \in DOMAIN Trees /\ At[1] \in Classes
  <2>1. Head1 \in ReadTasks
    BY <1>1, OnlyFacts
  <2> QED BY <2>1, OnlyFacts DEF ReadTasks, Paths, At
<1>3. WorkFacts(Tree, Head1) = ListFacts(Tree, At[1])
  BY <1>1, HeadFacts
<1>4. PICK more, G :
        /\ more \in Seq(ReadTasks) /\ Then(more) /\ Facts(host') = Facts(host) \cup G /\ HostIsMade(host')
        /\ ListFacts(Tree, At[1]) = G \cup Leads(Tree, ToSet(more), {})
  <2>1. CASE At[1] \in Tree.lists
    <3>1. Then(Listed(At[1])) /\ host' = host
      BY <2>1 DEF ListDir
    <3>2. Listed(At[1]) \in Seq(ReadTasks)
      BY <1>2, ListedIs
    <3>3. Leads(Tree, ToSet(Listed(At[1])), {}) = ListFacts(Tree, At[1])
      BY <1>2, <2>1, ListedLeads
    <3>4. Facts(host') = Facts(host) \cup {} /\ HostIsMade(host')
      BY <1>2, <3>1
    <3> QED BY <3>1, <3>2, <3>3, <3>4
  <2>2. CASE At[1] \notin Tree.lists /\ At[1] = "pci"
    <3>1. Then(<<>>) /\ Bad(<<"bus", 0>>)
      BY <2>2 DEF ListDir
    <3>2. Facts(host') = Facts(host) \cup {<<"bad", <<"bus", 0>>, 0>>} /\ HostIsMade(host')
      BY <1>2, <3>1, BadFact
    <3>3. ListFacts(Tree, At[1]) = {<<"bad", <<"bus", 0>>, 0>>}
      BY <2>2 DEF ListFacts
    <3>4. <<>> \in Seq(ReadTasks) /\ Leads(Tree, ToSet(<<>>), {}) = {}
      BY NoWork
    <3>5. ListFacts(Tree, At[1]) = {<<"bad", <<"bus", 0>>, 0>>} \cup Leads(Tree, ToSet(<<>>), {})
      BY <3>3, <3>4
    <3> QED BY <3>1, <3>2, <3>4, <3>5
  <2>3. CASE At[1] \notin Tree.lists /\ At[1] # "pci"
    <3>1. Then(<<>>) /\ host' = host
      BY <2>3 DEF ListDir
    <3>2. ListFacts(Tree, At[1]) = {}
      BY <2>3 DEF ListFacts
    <3>3. Facts(host') = Facts(host) \cup {} /\ HostIsMade(host')
      BY <1>2, <3>1
    <3>4. <<>> \in Seq(ReadTasks) /\ Leads(Tree, ToSet(<<>>), {}) = {}
      BY NoWork
    <3>5. ListFacts(Tree, At[1]) = {} \cup Leads(Tree, ToSet(<<>>), {})
      BY <3>2, <3>4
    <3> QED BY <3>1, <3>3, <3>4, <3>5
  <2> QED BY <2>1, <2>2, <2>3
<1>5. Facts(host') \cup Left' = AllFacts(Tree')
  BY <1>1, <1>3, <1>4, Progress DEF Reading, SoFar
<1> QED BY <1>1, <1>4, <1>5 DEF SoFar, SeatIsOnChain

\* A name is resolved as far as its link.
LEMMA ResolveLinkStill ==
  ASSUME Reading, ResolveLink
  PROVE  SoFar' /\ SeatIsOnChain'
<1>1. WorkInv /\ ~copying /\ todo # <<>> /\ seat = {} /\ Head1.op = "resolve" /\ now' = now /\ Then(<<>>)
  BY DEF Reading, ResolveLink, Turn, Then
<1>2. HostIsRecord(host) /\ HostIsMade(host) /\ now \in DOMAIN Trees
  BY OnlyFacts
<1>3. WorkFacts(Tree, Head1) = ResolveFacts(Tree, At[2])
  BY <1>1, HeadFacts
<1>4. CASE At[2] \notin DOMAIN Tree.bus \/ Tree.bus[At[2]].chain = <<>>
  <2>1. Bad(<<"bus", At[2]>>) /\ seat' = {}
    BY <1>1, <1>4 DEF ResolveLink
  <2>2. Facts(host') = Facts(host) \cup {<<"bad", <<"bus", At[2]>>, 0>>} /\ HostIsMade(host')
    BY <1>2, <2>1, BadFact
  <2>3. ResolveFacts(Tree, At[2]) = {<<"bad", <<"bus", At[2]>>, 0>>}
    BY <1>4 DEF ResolveFacts, Resolves
  <2>4. WorkFacts(Tree, Head1) = {<<"bad", <<"bus", At[2]>>, 0>>} \cup Leads(Tree, ToSet(<<>>), seat')
    BY <1>3, <2>1, <2>3, NoWork
  <2>5. <<>> \in Seq(ReadTasks) /\ Facts(host) \cup Left = AllFacts(Tree)
    BY NoWork DEF Reading, SoFar
  <2>6. Facts(host') \cup Left' = AllFacts(Tree')
    BY <1>1, <2>2, <2>4, <2>5, Progress
  <2> QED BY <2>1, <2>2, <2>6 DEF SoFar, SeatIsOnChain
<1>5. CASE ~(At[2] \notin DOMAIN Tree.bus \/ Tree.bus[At[2]].chain = <<>>)
  <2> DEFINE s == [bdf |-> At[2], at |-> Tree.bus[At[2]], k |-> 1]
  <2>1. host' = host /\ seat' = {s}
    BY <1>5 DEF ResolveLink
  <2>2. s.bdf = At[2] /\ s.at = Tree.bus[At[2]] /\ s.k = 1
    OBVIOUS
  <2>3. Tree.bus[At[2]].chain \in Seq(Int) /\ Tree.bus[At[2]].chain # <<>>
    BY <1>2, <1>5, TreeAssumption DEF Tree
  <2> HIDE DEF s
  <2>4. SeatIsOnChain'
    <3>1. PICK c : c = Tree.bus[At[2]].chain
      OBVIOUS
    <3>2. c \in Seq(Int) /\ c # <<>>
      BY <2>3, <3>1
    <3>3. 1 \in 1..Len(c)
      BY <3>2
    <3>4. s.at.chain \in Seq(Int) /\ s.k \in 1..Len(s.at.chain)
      BY <2>2, <3>1, <3>2, <3>3
    <3>5. PICK r : r = s
      OBVIOUS
    <3>6. seat' = {r} /\ r.at.chain \in Seq(Int) /\ r.k \in 1..Len(r.at.chain)
      BY <2>1, <3>4, <3>5
    <3> QED BY <3>6 DEF SeatIsOnChain
  <2>5. Leads(Tree, ToSet(<<>>), seat') = ResolveFacts(Tree, At[2])
    <3>1. Leads(Tree, {}, {s}) = ResolveFacts(Tree, s.bdf)
      BY LeadsOne
    <3>2. ToSet(<<>>) = {}
      BY DEF ToSet
    <3> QED BY <2>1, <2>2, <3>1, <3>2
  <2>6. Facts(host') = Facts(host) \cup {} /\ HostIsMade(host')
    BY <1>2, <2>1
  <2>7. Facts(host') \cup Left' = AllFacts(Tree')
    BY <1>1, <1>3, <2>5, <2>6, NoWork, Progress DEF Reading, SoFar
  <2> QED BY <2>4, <2>6, <2>7 DEF SoFar
<1> QED BY <1>4, <1>5

\* The next directory of the chain is looked at.
LEMMA LstatStill ==
  ASSUME Reading, NEW s \in seat, Lstat(s)
  PROVE  SoFar' /\ SeatIsOnChain'
<1>1. WorkInv /\ ~copying /\ seat = {s} /\ now' = now /\ Tree' = Tree /\ Facts(host) \cup Left = AllFacts(Tree)
  BY DEF Reading, SoFar, Lstat, Tree
<1>2. HostIsRecord(host) /\ HostIsMade(host) /\ ResolveFacts(Tree, s.bdf) \subseteq Facts(ReadTree(Tree))
  BY OnlyFacts
<1>3. s.bdf \in DOMAIN Tree.bus /\ Tree.bus[s.bdf] = s.at /\ \A j \in 1..(s.k - 1) : s.at.chain[j] \in Tree.dirs
  <2>1. ListedAs(s.bdf, s.at) /\ \A j \in 1..(s.k - 1) : WasDir(s.at.chain[j])
    BY DEF Reading, IInv, SeatWasThere
  <2>2. during = {now}
    BY OneTree DEF Reading
  <2> QED BY <2>1, <2>2 DEF ListedAs, WasDir, Tree
<1>4. PICK c : c = s.at.chain
  OBVIOUS
<1>5. c \in Seq(Int) /\ s.k \in 1..Len(c) /\ s = [bdf |-> s.bdf, at |-> s.at, k |-> s.k]
  BY <1>4 DEF Reading, SeatIsOnChain, IInv, SeatWasThere
<1>6. /\ Resolves(Tree, s.bdf) <=> \A j \in 1..Len(c) : c[j] \in Tree.dirs
      /\ Len(c) \in Nat
  <2>1. c # <<>> /\ DOMAIN c = 1..Len(c) /\ Len(c) \in Nat
    BY <1>5
  <2>2. Resolves(Tree, s.bdf) <=> ToSet(c) \subseteq Tree.dirs
    BY <1>3, <1>4, <2>1 DEF Resolves
  <2> QED BY <2>1, <2>2 DEF ToSet
<1>7. Left = Leads(Tree, ToSet(todo), {}) \cup ResolveFacts(Tree, s.bdf)
  <2>1. \A f : f \in Leads(Tree, ToSet(todo), {s}) <=> f \in Leads(Tree, ToSet(todo), {}) \/ f \in ResolveFacts(Tree, s.bdf)
    BY LeadsIs
  <2> QED BY <1>1, <2>1 DEF Left
<1>8. CASE c[s.k] \notin Tree.dirs /\ seat' = {} /\ Bad(<<"bus", s.bdf>>) /\ UNCHANGED todo
  <2>1. ~Resolves(Tree, s.bdf)
    BY <1>5, <1>6, <1>8
  <2>2. ResolveFacts(Tree, s.bdf) = {<<"bad", <<"bus", s.bdf>>, 0>>}
    BY <2>1 DEF ResolveFacts
  <2>3. Facts(host') = Facts(host) \cup {<<"bad", <<"bus", s.bdf>>, 0>>} /\ HostIsMade(host')
    BY <1>2, <1>8, BadFact
  <2>4. Left' = Leads(Tree, ToSet(todo), {})
    BY <1>1, <1>8 DEF Left
  <2> QED BY <1>1, <1>7, <1>8, <2>2, <2>3, <2>4 DEF SoFar, SeatIsOnChain
<1>9. CASE s.k < Len(c) /\ seat' = {[s EXCEPT !.k = @ + 1]} /\ UNCHANGED <<host, todo>>
  <2>1. PICK r : r = [s EXCEPT !.k = @ + 1]
    OBVIOUS
  <2>2. r.bdf = s.bdf /\ r.at = s.at /\ r.k = s.k + 1 /\ seat' = {r}
    BY <1>5, <1>9, <2>1
  <2>3. r.k \in 1..Len(c)
    BY <1>5, <1>6, <1>9, <2>2
  <2>4. SeatIsOnChain'
    <3>1. r.at.chain \in Seq(Int) /\ r.k \in 1..Len(r.at.chain)
      BY <1>4, <1>5, <2>2, <2>3
    <3> QED BY <2>2, <3>1 DEF SeatIsOnChain
  <2>5. Left' = Left
    <3>1. \A f : f \in Leads(Tree, ToSet(todo), {s}) <=> f \in Leads(Tree, ToSet(todo), {r})
      BY <2>2, LeadsIs
    <3>2. Leads(Tree, ToSet(todo), {s}) = Leads(Tree, ToSet(todo), {r})
      BY <3>1
    <3> QED BY <1>1, <1>9, <2>2, <3>2 DEF Left
  <2> QED BY <1>1, <1>2, <1>9, <2>4, <2>5 DEF SoFar
<1>10. CASE /\ c[s.k] \in Tree.dirs /\ s.k = Len(c) /\ seat' = {}
            /\ host' = [host EXCEPT !.dev = Put(@, s.bdf, s.at)]
            /\ todo' = FunctionWork(s.bdf) \o todo
  <2>1. Resolves(Tree, s.bdf)
    <3>1. \A j \in 1..(s.k - 1) : c[j] \in Tree.dirs
      BY <1>3, <1>4
    <3>2. \A j \in 1..Len(c) : j \in 1..(s.k - 1) \/ j = s.k
      BY <1>6, <1>10
    <3> QED BY <1>6, <1>10, <3>1, <3>2
  <2>2. ResolveFacts(Tree, s.bdf) = {<<"dev", s.bdf, s.at>>} \cup FunctionFacts(Tree, s.bdf)
    BY <1>3, <2>1 DEF ResolveFacts
  <2>3. Facts(host') = Facts(host) \cup {<<"dev", s.bdf, s.at>>} /\ HostIsMade(host')
    <3>1. PICK g : g = host'
      OBVIOUS
    <3>2. Entered(host, g, "dev", s.bdf, s.at) /\ "dev" \in Mapped
      BY <1>2, <1>10, <3>1 DEF HostIsRecord, Fields, Mapped, Entered
    <3>3. <<"dev", s.bdf, s.at>> \in Facts(ReadTree(Tree))
      BY <1>2, <2>2
    <3>4. Facts(g) = Facts(host) \cup {<<"dev", s.bdf, s.at>>} /\ HostIsMade(g)
      BY <3>2, <3>3, PutIs
    <3> QED BY <3>1, <3>4
  <2>4. Left' = FunctionFacts(Tree, s.bdf) \cup Leads(Tree, ToSet(todo), {})
    <3>1. s.bdf \in Int /\ todo \in Seq(ReadTasks)
      BY <1>1 DEF WorkInv, Work
    <3>2. FunctionWork(s.bdf) \in Seq(ReadTasks) /\ Leads(Tree, ToSet(FunctionWork(s.bdf)), {}) = FunctionFacts(Tree, s.bdf)
      BY <3>1, FunctionWorkIs, FunctionLeads
    <3>3. ToSet(FunctionWork(s.bdf) \o todo) = ToSet(FunctionWork(s.bdf)) \cup ToSet(todo)
      BY <3>1, <3>2, ElementsOf
    <3>4. Leads(Tree, ToSet(FunctionWork(s.bdf)) \cup ToSet(todo), {}) = Leads(Tree, ToSet(FunctionWork(s.bdf)), {}) \cup Leads(Tree, ToSet(todo), {})
      BY LeadsMore
    <3>5. Left' = Leads(Tree, ToSet(FunctionWork(s.bdf)) \cup ToSet(todo), {})
      BY <1>1, <1>10, <3>3 DEF Left
    <3> QED BY <3>2, <3>4, <3>5
  <2> QED BY <1>1, <1>7, <1>10, <2>2, <2>3, <2>4 DEF SoFar, SeatIsOnChain
<1> QED
  <2>1. \/ c[s.k] \notin Tree.dirs /\ seat' = {} /\ Bad(<<"bus", s.bdf>>) /\ UNCHANGED todo
        \/ s.k < Len(c) /\ seat' = {[s EXCEPT !.k = @ + 1]} /\ UNCHANGED <<host, todo>>
        \/ /\ c[s.k] \in Tree.dirs /\ s.k = Len(c) /\ seat' = {}
           /\ host' = [host EXCEPT !.dev = Put(@, s.bdf, s.at)]
           /\ todo' = FunctionWork(s.bdf) \o todo
    BY <1>4 DEF Lstat
  <2> QED BY <1>8, <1>9, <1>10, <2>1

\* The head of the work is done, and what it finds is put into the host.
LEMMA PutHead ==
  ASSUME Reading, todo # <<>>, seat = {}, seat' = {}, NEW more \in Seq(ReadTasks), Then(more),
         NEW G, Facts(host') = Facts(host) \cup G, HostIsMade(host'),
         WorkFacts(Tree, Head1) = G \cup Leads(Tree, ToSet(more), {})
  PROVE  SoFar' /\ SeatIsOnChain'
<1>1. WorkInv /\ ~copying /\ Facts(host) \cup Left = AllFacts(Tree)
  BY DEF Reading, SoFar
<1>2. Facts(host') \cup Left' = AllFacts(Tree')
  BY <1>1, Progress
<1> QED BY <1>2 DEF SoFar, SeatIsOnChain

\* A driver or a physfn is looked for.
LEMMA ReadLinkStill ==
  ASSUME Reading, ReadLink
  PROVE  SoFar' /\ SeatIsOnChain'
<1>1. todo # <<>> /\ seat = {} /\ seat' = {} /\ Head1.op = "link" /\ Then(<<>>)
  BY DEF ReadLink, Turn
<1>2. HostIsRecord(host) /\ HostIsMade(host) /\ WorkFacts(Tree, Head1) \subseteq Facts(ReadTree(Tree))
  BY <1>1, OnlyFacts
<1>3. WorkFacts(Tree, Head1) = LinkFacts(Tree, At)
  BY <1>1, HeadFacts
<1>4. <<>> \in Seq(ReadTasks) /\ Leads(Tree, ToSet(<<>>), {}) = {}
  BY NoWork
<1>5. Facts(host') = Facts(host) \cup LinkFacts(Tree, At) /\ HostIsMade(host')
  <2>1. CASE Shown(Tree, At)
    <3>1. LinkFacts(Tree, At) = {<<"link", At, Tree.link[At]>>}
      BY <2>1 DEF LinkFacts, LinkFact
    <3>2. PICK g : g = host'
      OBVIOUS
    <3>3. Entered(host, g, "link", At, Tree.link[At]) /\ "link" \in Mapped
      BY <1>2, <2>1, <3>2 DEF ReadLink, HostIsRecord, Fields, Mapped, Entered
    <3>4. <<"link", At, Tree.link[At]>> \in Facts(ReadTree(Tree))
      BY <1>2, <1>3, <3>1
    <3>5. Facts(g) = Facts(host) \cup {<<"link", At, Tree.link[At]>>} /\ HostIsMade(g)
      BY <3>3, <3>4, PutIs
    <3> QED BY <3>1, <3>2, <3>5
  <2>2. CASE ~Shown(Tree, At)
    BY <1>2, <2>2 DEF ReadLink, LinkFacts
  <2> QED BY <2>1, <2>2
<1>6. WorkFacts(Tree, Head1) = LinkFacts(Tree, At) \cup Leads(Tree, ToSet(<<>>), {})
  BY <1>3, <1>4
<1> QED BY <1>1, <1>4, <1>5, <1>6, PutHead

\* One more interface.
LEMMA NetMore ==
  ASSUME NEW h, HostIsRecord(h), NEW x, NEW g, g = [h EXCEPT !.net = @ \cup {x}]
  PROVE  Facts(g) = Facts(h) \cup {<<"net", x, 0>>} /\ (HostIsMade(h) => HostIsMade(g))
<1>1. g.net = h.net \cup {x} /\ \A j \in Fields \ {"net"} : g[j] = h[j]
  BY DEF HostIsRecord, Fields
<1>2. Marked(h, g, "net", x)
  BY <1>1 DEF Marked
<1> QED BY <1>2, MarkFact

\* A link that leads to a function.
LEMMA LinkPut ==
  ASSUME Reading, todo # <<>>, BaseOf(Tree, At) # 0, LinkFact(Tree, At) \in WorkFacts(Tree, Head1),
         NEW g, g = [host EXCEPT !.link = Put(@, At, BaseOf(Tree, At))]
  PROVE  Facts(g) = Facts(host) \cup {LinkFact(Tree, At)} /\ HostIsMade(g)
<1>1. HostIsRecord(host) /\ WorkFacts(Tree, Head1) \subseteq Facts(ReadTree(Tree))
  BY OnlyFacts
<1>2. BaseOf(Tree, At) = Tree.link[At]
  BY DEF BaseOf
<1>3. Entered(host, g, "link", At, Tree.link[At]) /\ "link" \in Mapped
  BY <1>1, <1>2 DEF HostIsRecord, Fields, Mapped, Entered
<1>4. <<"link", At, Tree.link[At]>> \in Facts(ReadTree(Tree))
  BY <1>1 DEF LinkFact
<1>5. Facts(g) = Facts(host) \cup {<<"link", At, Tree.link[At]>>} /\ HostIsMade(g)
  <2>1. PICK x, v : x = At /\ v = Tree.link[At]
    OBVIOUS
  <2>2. Entered(host, g, "link", x, v) /\ <<"link", x, v>> \in Facts(ReadTree(Tree))
    BY <1>3, <1>4, <2>1
  <2>3. Facts(g) = Facts(host) \cup {<<"link", x, v>>} /\ HostIsMade(g)
    BY <1>3, <2>2, PutIs
  <2> QED BY <2>1, <2>3
<1> QED BY <1>5 DEF LinkFact

\* An RDMA device or an interface is bound to its function.
LEMMA BindStill ==
  ASSUME Reading, Bind
  PROVE  SoFar' /\ SeatIsOnChain'
<1>1. todo # <<>> /\ seat = {} /\ seat' = {} /\ Head1.op = "bind"
  BY DEF Bind, Turn
<1>2. HostIsRecord(host) /\ HostIsMade(host) /\ Head1 \in ReadTasks
  BY <1>1, OnlyFacts
<1>3. WorkFacts(Tree, Head1) = BindFacts(Tree, At)
  BY <1>1, HeadFacts
<1>4. <<>> \in Seq(ReadTasks) /\ Leads(Tree, ToSet(<<>>), {}) = {}
  BY NoWork
<1>5. At \in Paths /\ At[2] \in Int
  BY <1>2 DEF ReadTasks, Paths, At
<1>6. CASE BaseOf(Tree, At) = 0 /\ At[1] = "rdma"
  <2>1. Then(<<>>) /\ Bad(<<"rdma", At[2]>>)
    BY <1>6 DEF Bind
  <2>2. Facts(host') = Facts(host) \cup {<<"bad", <<"rdma", At[2]>>, 0>>} /\ HostIsMade(host')
    BY <1>2, <2>1, BadFact
  <2>3. WorkFacts(Tree, Head1) = {<<"bad", <<"rdma", At[2]>>, 0>>} \cup Leads(Tree, ToSet(<<>>), {})
    BY <1>3, <1>4, <1>6 DEF BindFacts
  <2> QED BY <1>1, <1>4, <2>1, <2>2, <2>3, PutHead
<1>7. CASE BaseOf(Tree, At) = 0 /\ At[1] # "rdma"
  <2>1. Then(<<>>) /\ host' = host
    BY <1>7 DEF Bind
  <2>2. Facts(host') = Facts(host) \cup {} /\ HostIsMade(host')
    BY <1>2, <2>1
  <2>3. WorkFacts(Tree, Head1) = {} \cup Leads(Tree, ToSet(<<>>), {})
    BY <1>3, <1>4, <1>7 DEF BindFacts
  <2> QED BY <1>1, <1>4, <2>1, <2>2, <2>3, PutHead
<1>8. CASE BaseOf(Tree, At) # 0 /\ At[1] = "rdma"
  <2> DEFINE w == Task("ports", At)
             more == << w >>
  <2>1. Then(more) /\ host' = [host EXCEPT !.link = Put(@, At, BaseOf(Tree, At))]
    BY <1>8 DEF Bind
  <2>2. w \in ReadTasks
    BY <1>5 DEF Task, ReadTasks, ReadOps
  <2>3. WorkFacts(Tree, w) = PortFacts(Tree, At[2])
    BY WorkFactsOf
  <2> HIDE DEF w
  <2>4. more \in Seq(ReadTasks) /\ ToSet(more) = {w}
    BY <2>2 DEF ToSet
  <2> HIDE DEF more
  <2>5. Leads(Tree, ToSet(more), {}) = PortFacts(Tree, At[2])
    BY <2>3, <2>4, LeadsOne
  <2>6. WorkFacts(Tree, Head1) = {LinkFact(Tree, At)} \cup PortFacts(Tree, At[2])
    BY <1>3, <1>8 DEF BindFacts
  <2>7. Facts(host') = Facts(host) \cup {LinkFact(Tree, At)} /\ HostIsMade(host')
    <3>1. PICK g : g = host'
      OBVIOUS
    <3> QED BY <1>1, <1>8, <2>1, <2>6, <3>1, LinkPut
  <2> QED BY <1>1, <2>1, <2>4, <2>5, <2>6, <2>7, PutHead
<1>9. CASE BaseOf(Tree, At) # 0 /\ At[1] # "rdma"
  <2> DEFINE more == NamedWork("file", "net", At[2], 0, NetFiles)
             h == [host EXCEPT !.link = Put(@, At, BaseOf(Tree, At))]
             G == {LinkFact(Tree, At)} \cup {<<"net", At[2], 0>>}
  <2>1. Then(more) /\ host' = [h EXCEPT !.net = @ \cup {At[2]}]
    BY <1>9 DEF Bind, NamedWork
  <2>2. more \in Seq(ReadTasks)
    BY <1>5, NetWorkIs DEF NamedWork
  <2>3. Leads(Tree, ToSet(more), {}) = Values(Tree, "net", At[2], 0, NetFiles)
    BY FilesLead
  <2>4. BindFacts(Tree, At) = {LinkFact(Tree, At)} \cup NetFacts(Tree, At[2])
    BY <1>9 DEF BindFacts
  <2>5. NetFacts(Tree, At[2]) = {<<"net", At[2], 0>>} \cup Values(Tree, "net", At[2], 0, NetFiles)
    BY DEF NetFacts, Values
  <2>6. Facts(h) = Facts(host) \cup {LinkFact(Tree, At)} /\ HostIsMade(h)
    <3>1. LinkFact(Tree, At) \in WorkFacts(Tree, Head1)
      BY <1>3, <2>4
    <3> QED BY <1>1, <1>9, <3>1, LinkPut
  <2>7. HostIsRecord(h)
    BY <1>2 DEF HostIsRecord
  <2>8. Facts(host') = Facts(host) \cup G /\ HostIsMade(host')
    <3>1. PICK g, j, x : g = host' /\ j = h /\ x = At[2]
      OBVIOUS
    <3> HIDE DEF h, more, G
    <3>2. HostIsRecord(j) /\ g = [j EXCEPT !.net = @ \cup {x}]
      BY <2>1, <2>7, <3>1
    <3>3. Facts(g) = Facts(j) \cup {<<"net", x, 0>>} /\ (HostIsMade(j) => HostIsMade(g))
      BY <3>2, NetMore
    <3> QED BY <2>6, <3>1, <3>3 DEF G
  <2>9. WorkFacts(Tree, Head1) = G \cup Leads(Tree, ToSet(more), {})
    BY <1>3, <2>3, <2>4, <2>5
  <2> HIDE DEF G, more
  <2> QED BY <1>1, <2>1, <2>2, <2>8, <2>9, PutHead
<1> QED BY <1>6, <1>7, <1>8, <1>9

\* The ports of an RDMA device are listed.
LEMMA ListPortsStill ==
  ASSUME Reading, ListPorts
  PROVE  SoFar' /\ SeatIsOnChain'
<1>1. todo # <<>> /\ seat = {} /\ seat' = {} /\ Head1.op = "ports"
  BY DEF ListPorts, Turn
<1>2. HostIsRecord(host) /\ HostIsMade(host) /\ Head1 \in ReadTasks /\ now \in DOMAIN Trees
      /\ WorkFacts(Tree, Head1) \subseteq Facts(ReadTree(Tree))
  BY <1>1, OnlyFacts
<1>3. WorkFacts(Tree, Head1) = PortFacts(Tree, At[2])
  BY <1>1, HeadFacts
<1>4. PICK r : r = At[2] /\ r \in Int
  BY <1>2 DEF ReadTasks, Paths, At
<1>5. PICK found : found = PortsOf(Tree, r)
  OBVIOUS
<1>6. Listable(found)
  <2>1. CASE r \in DOMAIN Tree.ports
    BY <1>2, <1>5, <2>1, TreeListable DEF PortsOf, Tree
  <2>2. CASE r \notin DOMAIN Tree.ports
    BY <1>5, <2>2, FS_EmptySet DEF PortsOf, Listable
  <2> QED BY <2>1, <2>2
<1> DEFINE more == PortWork(r, found)
           h == [host EXCEPT !.rdma = Put(@, r, found)]
           missing == IF r \in DOMAIN Tree.ports THEN {} ELSE {<<"bad", <<"ports", r>>, 0>>}
           G == {<<"rdma", r, found>>} \cup missing
<1>7. /\ Then(more)
      /\ host' = [ h EXCEPT !.bad = IF r \in DOMAIN Tree.ports THEN @ ELSE @ \cup {<<"ports", r>>} ]
  <2>1. found = IF r \in DOMAIN Tree.ports THEN Tree.ports[r] ELSE {}
    BY <1>5 DEF PortsOf
  <2> QED BY <1>2, <1>4, <2>1 DEF ListPorts, PortWork, HostIsRecord, Fields
<1>8. more \in Seq(ReadTasks)
  BY <1>4, <1>6, PortWorkIs DEF PortWork
<1>9. WorkFacts(Tree, Head1) = G \cup Leads(Tree, ToSet(more), {})
  <2>1. Leads(Tree, ToSet(more), {}) = PortValues(Tree, r, found)
    BY <1>4, <1>6, PortsLead
  <2>2. PortFacts(Tree, r) = ({<<"rdma", r, found>>} \cup missing) \cup PortValues(Tree, r, found)
    BY <1>5 DEF PortFacts, PortValues
  <2> QED BY <1>3, <1>4, <2>1, <2>2
<1>10. Facts(h) = Facts(host) \cup {<<"rdma", r, found>>} /\ HostIsMade(h)
  <2>1. PICK g : g = h
    OBVIOUS
  <2>2. Entered(host, g, "rdma", r, found) /\ "rdma" \in Mapped
    BY <1>2, <2>1 DEF HostIsRecord, Fields, Mapped, Entered
  <2>3. <<"rdma", r, found>> \in Facts(ReadTree(Tree))
    BY <1>2, <1>9
  <2>4. Facts(g) = Facts(host) \cup {<<"rdma", r, found>>} /\ HostIsMade(g)
    BY <2>2, <2>3, PutIs
  <2> QED BY <2>1, <2>4
<1>11. HostIsRecord(h)
  BY <1>2 DEF HostIsRecord
<1>12. Facts(host') = Facts(host) \cup G /\ HostIsMade(host')
  <2>1. PICK g, j : g = host' /\ j = h
    OBVIOUS
  <2>2. HostIsRecord(j) /\ g = [ j EXCEPT !.bad = IF r \in DOMAIN Tree.ports THEN @ ELSE @ \cup {<<"ports", r>>} ]
    BY <1>7, <1>11, <2>1
  <2>3. CASE r \in DOMAIN Tree.ports
    <3>1. g = j
      BY <2>2, <2>3 DEF HostIsRecord, Fields
    <3> QED BY <1>10, <2>1, <2>3, <3>1
  <2>4. CASE r \notin DOMAIN Tree.ports
    <3>1. Marked(j, g, "bad", <<"ports", r>>)
      BY <2>2, <2>4 DEF HostIsRecord, Fields, Marked
    <3>2. Facts(g) = Facts(j) \cup {<<"bad", <<"ports", r>>, 0>>} /\ (HostIsMade(j) => HostIsMade(g))
      BY <3>1, MarkFact
    <3> QED BY <1>10, <2>1, <2>4, <3>2
  <2> QED BY <2>3, <2>4
<1> HIDE DEF G, more
<1> QED BY <1>1, <1>7, <1>8, <1>9, <1>12, PutHead

\* Of a tree that holds still readFile returns what the file is.
LEMMA ReadFileStill ==
  ASSUME IInv, Still, ReadFile
  PROVE  \A r \in data' : r = FileOf(Tree, At)
<1>1. during = {now} /\ span \subseteq {now} /\ (pc # "back" => data = {})
  BY OneTree DEF IInv
<1>2. CASE Stat
  <2>1. data = {}
    BY <1>1, <1>2 DEF IInv, Stat, InFile
  <2>2. ASSUME Comes(Fault(IF At \in DOMAIN Tree.file THEN "unreadable" ELSE "missing")),
               ~(At \in DOMAIN Tree.file /\ Regular(Tree.file[At]))
        PROVE  \A r \in data' : r = FileOf(Tree, At)
    <3>1. CASE At \in DOMAIN Tree.file
      <4>1. FileOf(Tree, At) = Fault("unreadable")
        BY <2>2, <3>1 DEF FileOf, Regular, Content
      <4> QED BY <2>2, <3>1, <4>1 DEF Comes
    <3>2. CASE At \notin DOMAIN Tree.file
      <4>1. FileOf(Tree, At) = Fault("missing")
        BY <3>2 DEF FileOf
      <4> QED BY <2>2, <3>2, <4>1 DEF Comes
    <3> QED BY <3>1, <3>2
  <2> QED BY <1>2, <2>1, <2>2 DEF Stat
<1>3. CASE OpenFails
  <2>1. Comes(Fault(IF At \in DOMAIN Tree.file THEN "permission" ELSE "missing"))
        /\ (At \in DOMAIN Tree.file => Tree.file[At].kind = "denied")
    BY <1>3 DEF OpenFails
  <2>2. FileOf(Tree, At) = Fault(IF At \in DOMAIN Tree.file THEN "permission" ELSE "missing")
    BY <2>1 DEF FileOf
  <2> QED BY <2>1, <2>2 DEF Comes
<1>4. CASE Open
  BY <1>4 DEF Open, IInv, InFile
<1>5. ASSUME NEW f \in handle, ReadHandle(f) PROVE \A r \in data' : r = FileOf(Tree, At)
  <2>1. PICK i \in span : At \in DOMAIN Trees[i].file /\ Trees[i].file[At] = f /\ f.kind # "denied"
    BY DEF IInv, OpenedWasThere
  <2>2. At \in DOMAIN Tree.file /\ Tree.file[At] = f
    <3>1. i = now
      BY <1>1
    <3> QED BY <2>1, <3>1 DEF Tree
  <2>3. FileOf(Tree, At) = Content(f)
    BY <2>1, <2>2, ContentIsFile
  <2>4. \A r \in ReadOpened(f) : r = Content(f)
    <3>1. CASE Regular(f)
      BY <2>2, <3>1 DEF ReadOpened, Says
    <3>2. CASE ~Regular(f)
      BY <3>2 DEF ReadOpened, Content
    <3> QED BY <3>1, <3>2
  <2>5. PICK r \in ReadOpened(f) : Comes(r)
    BY <1>5 DEF ReadHandle
  <2> QED BY <2>3, <2>4, <2>5 DEF Comes
<1> QED BY <1>2, <1>3, <1>4, <1>5 DEF ReadFile

\* What was read and understood is kept.
LEMMA KeepStill ==
  ASSUME Reading, pc = "back" => todo # <<>> /\ seat = {}, NEW r \in data, r = FileOf(Tree, At), Keep(r)
  PROVE  SoFar' /\ SeatIsOnChain'
<1>1. todo # <<>> /\ seat = {} /\ seat' = {} /\ Head1.op = "file" /\ todo' = Tail(todo) /\ Tree' = Tree
  BY DEF Keep, Tree
<1>2. HostIsRecord(host) /\ HostIsMade(host) /\ todo \in Seq(ReadTasks)
      /\ WorkFacts(Tree, Head1) \subseteq Facts(ReadTree(Tree))
  BY <1>1, OnlyFacts
<1>3. WorkFacts(Tree, Head1) = {<<"val", At, Understood(At, r)>>}
  BY <1>1, HeadFacts DEF ValueFact
<1>4. Facts(host') = Facts(host) \cup {<<"val", At, Understood(At, r)>>} /\ HostIsMade(host')
  <2>1. PICK g, p, v : g = host' /\ p = At /\ v = Understood(At, r)
    OBVIOUS
  <2>2. Entered(host, g, "val", p, v) /\ "val" \in Mapped
    BY <1>2, <2>1 DEF Keep, HostIsRecord, Fields, Mapped, Entered
  <2>3. <<"val", p, v>> \in Facts(ReadTree(Tree))
    BY <1>2, <1>3, <2>1
  <2>4. Facts(g) = Facts(host) \cup {<<"val", p, v>>} /\ HostIsMade(g)
    BY <2>2, <2>3, PutIs
  <2> QED BY <2>1, <2>4
<1>5. Left = WorkFacts(Tree, Head1) \cup Left'
  <2>1. ToSet(todo) = {Head1} \cup ToSet(Tail(todo))
    BY <1>1, <1>2, HeadAndTail DEF Head1
  <2>2. Left' = Leads(Tree, ToSet(Tail(todo)), {})
    BY <1>1 DEF Left
  <2>3. Left = Leads(Tree, {Head1} \cup ToSet(Tail(todo)), {})
    BY <1>1, <2>1 DEF Left
  <2>4. Leads(Tree, {Head1} \cup ToSet(Tail(todo)), {}) = Leads(Tree, {Head1}, {}) \cup Leads(Tree, ToSet(Tail(todo)), {})
    BY LeadsMore
  <2>5. Leads(Tree, {Head1}, {}) = WorkFacts(Tree, Head1)
    BY LeadsOne
  <2> QED BY <2>2, <2>3, <2>4, <2>5
<1>6. Facts(host) \cup Left = AllFacts(Tree)
  BY DEF Reading, SoFar
<1> QED BY <1>1, <1>3, <1>4, <1>5, <1>6 DEF SoFar, SeatIsOnChain

\* A step of Read tells no more and no less of a tree that holds still.
LEMMA ReadStepStill ==
  ASSUME IInv, WorkInv, StillInv, ReadStep, UNCHANGED captureVars
  PROVE  StillInv'
<1> SUFFICES ASSUME Still' PROVE StillInv'
  BY DEF StillInv
<1>1. copying' = copying
  BY DEF captureVars
<1>2. ASSUME Still, ~copying, SoFar' /\ SeatIsOnChain', pc' = "next", data' = {} PROVE StillInv'
  BY <1>1, <1>2 DEF StillInv
<1>3. pc = "next" => data = {}
  BY DEF IInv
<1>4. Still /\ ~copying => Reading
  BY DEF StillInv, Reading
<1>5. "list" \in ReadOps /\ "resolve" \in ReadOps /\ "link" \in ReadOps /\ "bind" \in ReadOps /\ "ports" \in ReadOps /\ "file" \in ReadOps
  BY DEF ReadOps
<1>6. CASE ListDir
  <2>1. ~copying /\ Still /\ pc' = "next" /\ data' = {}
    BY <1>3, <1>5, <1>6, NoReadTask DEF ListDir, Turn, Then, Still
  <2> QED BY <1>2, <1>4, <1>6, <2>1, ListDirStill
<1>7. CASE ResolveLink
  <2>1. ~copying /\ Still /\ pc' = "next" /\ data' = {}
    BY <1>3, <1>5, <1>7, NoReadTask DEF ResolveLink, Turn, Then, Still
  <2> QED BY <1>2, <1>4, <1>7, <2>1, ResolveLinkStill
<1>8. CASE ReadLink
  <2>1. ~copying /\ Still /\ pc' = "next" /\ data' = {}
    BY <1>3, <1>5, <1>8, NoReadTask DEF ReadLink, Turn, Then, Still
  <2> QED BY <1>2, <1>4, <1>8, <2>1, ReadLinkStill
<1>9. CASE Bind
  <2>1. ~copying /\ Still /\ pc' = "next" /\ data' = {}
    BY <1>3, <1>5, <1>9, NoReadTask DEF Bind, Turn, Then, Still
  <2> QED BY <1>2, <1>4, <1>9, <2>1, BindStill
<1>10. CASE ListPorts
  <2>1. ~copying /\ Still /\ pc' = "next" /\ data' = {}
    BY <1>3, <1>5, <1>10, NoReadTask DEF ListPorts, Turn, Then, Still
  <2> QED BY <1>2, <1>4, <1>10, <2>1, ListPortsStill
<1>11. ASSUME NEW s \in seat, Lstat(s) PROVE StillInv'
  <2>1. ~copying /\ Still /\ pc' = "next" /\ data' = {}
    BY <1>3, <1>11 DEF Lstat, Still, WorkInv
  <2> QED BY <1>2, <1>4, <1>11, <2>1, LstatStill
<1>12. CASE ReadFile
  <2>1. UNCHANGED <<now, todo, seat, host, during>> /\ todo # <<>> /\ seat = {}
    BY <1>12 DEF ReadFile, Stat, OpenFails, Open, ReadHandle, InFile
  <2>2. Still /\ Tree' = Tree /\ At' = At /\ Left' = Left /\ (SeatIsOnChain => SeatIsOnChain')
    BY <2>1 DEF Still, Tree, At, Head1, Left, SeatIsOnChain
  <2>3. \A r \in data' : r = FileOf(Tree, At)
    BY <1>12, <2>2, ReadFileStill
  <2>4. (\A r \in data : r = FileOf(Tree, At))'
    BY <2>2, <2>3
  <2>5. SoFar => SoFar'
    BY <2>1, <2>2 DEF SoFar
  <2>6. host = ReadTree(Tree) => host' = ReadTree(Tree')
    BY <2>1, <2>2
  <2> QED BY <1>1, <2>1, <2>2, <2>4, <2>5, <2>6 DEF StillInv
<1>13. ASSUME NEW r \in data, Keep(r) PROVE StillInv'
  <2>1. Still /\ pc = "back" /\ pc' = "next" /\ data' = {} /\ Head1.op = "file"
    BY <1>13 DEF Keep, Still
  <2>2. todo # <<>> /\ seat = {} /\ r = FileOf(Tree, At)
    BY <2>1 DEF StillInv
  <2>3. ~copying
    BY <1>5, <2>1, <2>2, NoReadTask
  <2>4. SoFar' /\ SeatIsOnChain'
    BY <1>4, <1>13, <2>1, <2>2, <2>3, KeepStill
  <2> QED BY <1>2, <2>1, <2>3, <2>4
<1> QED BY <1>6, <1>7, <1>8, <1>9, <1>10, <1>11, <1>12, <1>13 DEF ReadStep

\* When nothing is left the host is what the tree is read as.
LEMMA NothingLeft ==
  ASSUME Reading, todo = <<>>, seat = {}
  PROVE  host = ReadTree(Tree)
<1>1. Left = {}
  <2>1. ToSet(<<>>) = {}
    BY DEF ToSet
  <2> QED BY <2>1, LeadsOne DEF Left
<1>2. PICK h, H : h = host /\ H = ReadTree(Tree)
  OBVIOUS
<1>3. Facts(h) = Facts(H) /\ HostIsRecord(H) /\ HostIsMade(H)
  BY <1>1, <1>2, ReadTreeIs DEF Reading, SoFar
<1>4. HostIsRecord(h) /\ HostIsMade(h)
  BY <1>2, OnlyFacts
<1>5. h = H
  BY <1>3, <1>4, SameFacts
<1> QED BY <1>2, <1>5

\* The second pass leaves the host alone.
LEMMA CopiesStill ==
  ASSUME IInv, WorkInv, StillInv, Copies1
  PROVE  StillInv'
<1> SUFFICES ASSUME Still' PROVE StillInv'
  BY DEF StillInv
<1>1. ASSUME Still, host' = ReadTree(Tree'), copying', seat' = {}, pc' \in {"next", "done"}, data' = {} PROVE StillInv'
  BY <1>1 DEF StillInv, SeatIsOnChain
<1>2. CASE ReadEnds
  <2>1. /\ todo = <<>> /\ seat = {} /\ ~copying /\ copying' /\ pc = "next" /\ pc' = "next"
        /\ UNCHANGED <<now, seat, data, host, during>>
    BY <1>2 DEF ReadEnds, ReadReturns
  <2>2. Still /\ data = {} /\ Tree' = Tree
    BY <2>1 DEF Still, IInv, Tree
  <2>3. Reading
    BY <2>1, <2>2 DEF Reading, StillInv
  <2>4. host = ReadTree(Tree)
    BY <2>1, <2>3, NothingLeft
  <2> QED BY <1>1, <2>1, <2>2, <2>4
<1>3. ASSUME copying, UNCHANGED <<now, seat, host, during, copying>>, pc' \in {"next", "done"}, data' = {} PROVE StillInv'
  <2>1. Still /\ Tree' = Tree /\ seat = {}
    BY <1>3 DEF Still, Tree, WorkInv
  <2>2. host = ReadTree(Tree)
    BY <1>3, <2>1 DEF StillInv
  <2> QED BY <1>1, <1>3, <2>1, <2>2
<1>4. CASE MkDir \/ Relink \/ WriteNode \/ Symlink1 \/ SymlinkFails \/ CopyFails \/ CopyEnds
  <2>1. /\ copying /\ pc = "next" /\ UNCHANGED <<now, seat, data, host, during, copying>>
        /\ pc' \in {"next", "done"}
    BY <1>4 DEF MkDir, Relink, WriteNode, Symlink1, SymlinkFails, CopyFails, CopyEnds, CopyTurn, Turn, Next1, ReadReturns
  <2>2. data = {}
    BY <2>1 DEF IInv
  <2> QED BY <1>3, <2>1, <2>2
<1>5. ASSUME NEW r \in data, CopyFile(r) \/ CopyFileFails(r) PROVE StillInv'
  <2>1. /\ pc = "back" /\ Head1.op = "copy" /\ pc' = "next" /\ data' = {}
        /\ UNCHANGED <<now, seat, host, during, copying>>
    BY <1>5 DEF CopyFile, CopyFileFails
  <2>2. copying
    <3> SUFFICES ASSUME ~copying PROVE FALSE
      OBVIOUS
    <3>1. Still
      BY <2>1 DEF Still
    <3>2. todo # <<>> /\ todo \in Seq(ReadTasks)
      BY <2>1, <3>1 DEF StillInv, WorkInv, Work
    <3>3. Head1 \in ReadTasks
      BY <3>2 DEF Head1
    <3> QED BY <2>1, <3>3 DEF ReadTasks, ReadOps
  <2> QED BY <1>3, <2>1, <2>2
<1> QED BY <1>2, <1>4, <1>5 DEF Copies1

\* A tree that changes does not hold still.
LEMMA ChangeStill ==
  ASSUME IInv, NEW i, Change(i)
  PROVE  StillInv'
<1>1. ~Still'
  BY DEF Still, Change, IInv
<1> QED BY <1>1 DEF StillInv

\* Before the first step everything is left to be read.
LEMMA InitStill ==
  ASSUME Init
  PROVE  StillInv
<1>1. /\ todo = << Listing("pci"), Listing("node"), Listing("rdma"), Listing("net") >>
      /\ seat = {} /\ data = {} /\ host = NoHost /\ ~copying /\ pc = "next"
  BY DEF Init, ReadInit
<1>2. DOMAIN <<>> = {}
  OBVIOUS
<1>3. HostIsMade(host) /\ Facts(host) = {}
  <2>1. NoHost.dev = <<>> /\ NoHost.val = <<>> /\ NoHost.link = <<>> /\ NoHost.rdma = <<>> /\ NoHost.net = {} /\ NoHost.bad = {}
    BY DEF NoHost
  <2>2. IsFcn(<<>>)
    BY <1>2 DEF IsFcn
  <2>3. HostIsMade(NoHost)
    BY <2>1, <2>2 DEF HostIsMade, Mapped
  <2>4. \A k : Graph(k, <<>>) = {} /\ Marks(k, {}) = {}
    BY <1>2 DEF Graph, Marks
  <2>5. Facts(NoHost) = {}
    BY <2>1, <2>4 DEF Facts
  <2> QED BY <1>1, <2>3, <2>5
<1>4. ToSet(todo) = { Listing(class) : class \in Classes }
  <2>1. DOMAIN todo = 1..4 /\ todo[1] = Listing("pci") /\ todo[2] = Listing("node") /\ todo[3] = Listing("rdma") /\ todo[4] = Listing("net")
    BY <1>1
  <2>2. ToSet(todo) = {todo[1], todo[2], todo[3], todo[4]}
    BY <2>1 DEF ToSet
  <2> QED BY <2>1, <2>2 DEF Classes
<1>5. \A class : WorkFacts(Tree, Listing(class)) = ListFacts(Tree, class)
  <2> TAKE class
  <2>1. PICK at : at = <<class, 0, 0, "">>
    OBVIOUS
  <2>2. WorkFacts(Tree, Task("list", at)) = ListFacts(Tree, at[1])
    BY WorkFactsOf
  <2> QED BY <2>1, <2>2 DEF Listing
<1>6. Left = AllFacts(Tree)
  <2>1. \A f : f \in Leads(Tree, ToSet(todo), {}) <=> \E w \in ToSet(todo) : f \in WorkFacts(Tree, w)
    BY LeadsIs
  <2>2. \A f : f \in Leads(Tree, ToSet(todo), {}) <=> \E class \in Classes : f \in ListFacts(Tree, class)
    BY <1>4, <1>5, <2>1
  <2>3. \A f : f \in AllFacts(Tree) <=> \E class \in Classes : f \in ListFacts(Tree, class)
    BY DEF AllFacts
  <2>4. Leads(Tree, ToSet(todo), {}) = AllFacts(Tree)
    BY <2>2, <2>3
  <2> QED BY <1>1, <2>4 DEF Left
<1>7. SoFar /\ SeatIsOnChain
  BY <1>1, <1>3, <1>6 DEF SoFar, SeatIsOnChain
<1> QED BY <1>1, <1>7 DEF StillInv

\* The invariant holds all along.
LEMMA StillInvariance == Spec => [](IInv /\ WorkInv /\ StillInv)
<1>1. Init => StillInv
  BY InitStill
<1>2. ASSUME IInv, WorkInv, StillInv, [Next]_vars PROVE StillInv'
  <2>1. CASE Reads
    BY <1>2, <2>1, ReadStepStill DEF Reads
  <2>2. CASE Copies1
    BY <1>2, <2>2, CopiesStill
  <2>3. CASE Changes
    BY <1>2, <2>3, ChangeStill DEF Changes
  <2>4. CASE UNCHANGED vars
    BY <1>2, <2>4 DEF vars, readVars, captureVars, StillInv, Still, SeatIsOnChain, Tree, At, Head1, SoFar, Left
  <2> QED BY <1>2, <2>1, <2>2, <2>3, <2>4 DEF Next
<1> QED BY <1>1, <1>2, WorkInvariance, PTL DEF Spec

-----------------------------------------------------------------------------
(* What a capture makes of a directory while the tree holds still: T is the *)
(* tree, h the host that was read of it, o what the directory held before,  *)
(* d the directory.                                                         *)

\* The text of a file in the copy.
CopyOf(p, text) == IF p[1] = "node" THEN WithLineEnd(text.says) ELSE Cut(p, text)
\* A file is the copy of the one in the tree, a link is as it is there.
Copied(T, d, p) == p \in DOMAIN d.file /\ d.file[p] = File(CopyOf(p, FileOf(T, p).val))
Tied(T, d, p) == p \in DOMAIN d.link /\ d.link[p] = T.link[p]
Bused(h, d, x) == x \in DOMAIN d.bus /\ d.bus[x] = h.dev[x]

\* A piece of work of the copy is done.
Done(T, h, o, d, t) ==
  LET p == t.at
      x == p[2]
  IN /\ t.op = "mkdir" /\ p[1] = "pci" => ToSet(h.dev[x].chain) \subseteq d.dirs
     /\ t.op = "mkdir" /\ p[1] # "pci" => x \in DOMAIN d.ports /\ p[3] \in d.ports[x]
     /\ t.op = "relink" /\ p[1] = "pci" => "pci" \in d.lists /\ Bused(h, d, x)
     /\ t.op = "relink" /\ p[1] = "rdma" => "rdma" \in d.lists /\ x \in d.rdma /\ Tied(T, d, p)
     /\ t.op = "relink" /\ p[1] = "net" => "net" \in d.lists /\ x \in d.net /\ Tied(T, d, p)
     /\ t.op = "node" => "node" \in d.lists /\ x \in d.node /\ Copied(T, d, p)
     /\ t.op = "copy" /\ FileOf(T, p).st = "ok" => Copied(T, d, p)
     /\ t.op = "symlink" /\ o = NoTree /\ BaseOf(T, p) # 0 => Tied(T, d, p)

\* Nothing else is in a directory that was empty.
NoMore(T, h, d) ==
  /\ \A x \in DOMAIN d.bus : x \in DOMAIN h.dev
  /\ d.node \subseteq NodesOf(h) /\ d.rdma \subseteq DOMAIN h.rdma /\ d.net \subseteq h.net
  /\ \A r \in DOMAIN d.ports : r \in DOMAIN h.rdma /\ d.ports[r] # {} /\ d.ports[r] \subseteq h.rdma[r]
  /\ \A p \in DOMAIN d.link : BaseOf(T, p) # 0 /\ Tied(T, d, p)
  /\ \A p \in DOMAIN d.file : FileOf(T, p).st = "ok" /\ Copied(T, d, p)
  /\ "pci" \in d.lists => DOMAIN d.bus # {}
  /\ "node" \in d.lists => d.node # {}
  /\ "rdma" \in d.lists => d.rdma # {}
  /\ "net" \in d.lists => d.net # {}

\* With no write that fails, everything is done that is not to be done, and into
\* an empty directory nothing else.
AllDone ==
  failed = 0 /\ code # 1 =>
    /\ \A t : IsCopyTask(host, t) => t \in ToSet(todo) \/ Done(Tree, host, old, dst, t)
    /\ old = NoTree => NoMore(Tree, host, dst)

\* Nothing is written before the second pass, and an exit code is the end.
Course ==
  /\ IsTree(dst) /\ failed \in Nat
  /\ code = 0 => copying /\ todo = <<>>
  /\ code # -1 => pc = "done"
  /\ ~copying => dst = old

DoneInv == Course /\ (Still /\ copying => AllDone /\ \A t \in ToSet(todo) : IsCopyTask(host, t))

\* What a step leaves as it is or adds to.
Kept(T, h, d, u) ==
  /\ d.dirs \subseteq u.dirs /\ d.lists \subseteq u.lists
  /\ d.node \subseteq u.node /\ d.rdma \subseteq u.rdma /\ d.net \subseteq u.net
  /\ \A r \in DOMAIN d.ports : r \in DOMAIN u.ports /\ d.ports[r] \subseteq u.ports[r]
  /\ \A x : Bused(h, d, x) => Bused(h, u, x)
  /\ \A p : Copied(T, d, p) => Copied(T, u, p)
  /\ \A p : Tied(T, d, p) => Tied(T, u, p)

\* What is done stays done.
LEMMA DoneStays ==
  ASSUME NEW T, NEW h, NEW o, NEW d, NEW u, NEW t, Kept(T, h, d, u), Done(T, h, o, d, t)
  PROVE  Done(T, h, o, u, t)
<1> PICK p, x, y : p = t.at /\ x = p[2] /\ y = p[3]
  OBVIOUS
<1>1. t.op = "mkdir" /\ p[1] = "pci" => ToSet(h.dev[x].chain) \subseteq u.dirs
  BY DEF Done, Kept
<1>2. t.op = "mkdir" /\ p[1] # "pci" => x \in DOMAIN u.ports /\ y \in u.ports[x]
  BY DEF Done, Kept
<1>3. t.op = "relink" /\ p[1] = "pci" => "pci" \in u.lists /\ Bused(h, u, x)
  BY DEF Done, Kept
<1>4. t.op = "relink" /\ p[1] = "rdma" => "rdma" \in u.lists /\ x \in u.rdma /\ Tied(T, u, p)
  BY DEF Done, Kept
<1>5. t.op = "relink" /\ p[1] = "net" => "net" \in u.lists /\ x \in u.net /\ Tied(T, u, p)
  BY DEF Done, Kept
<1>6. t.op = "node" => "node" \in u.lists /\ x \in u.node /\ Copied(T, u, p)
  BY DEF Done, Kept
<1>7. t.op = "copy" /\ FileOf(T, p).st = "ok" => Copied(T, u, p)
  BY DEF Done, Kept
<1>8. t.op = "symlink" /\ o = NoTree /\ BaseOf(T, p) # 0 => Tied(T, u, p)
  BY DEF Done, Kept
<1> QED BY <1>1, <1>2, <1>3, <1>4, <1>5, <1>6, <1>7, <1>8 DEF Done

\* A file is copied, a link made.
CopiesOne(T, d, u, p) ==
  /\ Copied(T, u, p) /\ \A q : Copied(T, d, q) => Copied(T, u, q)
  /\ \A q \in DOMAIN u.file : q = p \/ q \in DOMAIN d.file

LEMMA CopiedMore ==
  ASSUME NEW T, NEW d, NEW u, NEW p, u.file = Put(d.file, p, File(CopyOf(p, FileOf(T, p).val)))
  PROVE  CopiesOne(T, d, u, p)
<1>1. PICK f, g, v : f = d.file /\ g = u.file /\ v = File(CopyOf(p, FileOf(T, p).val))
  OBVIOUS
<1>2. g = Put(f, p, v)
  BY <1>1
<1>3. DOMAIN g = DOMAIN f \cup {p} /\ g[p] = v /\ \A q \in DOMAIN f : q # p => g[q] = f[q]
  BY <1>2 DEF Put
<1> QED BY <1>1, <1>3 DEF Copied, CopiesOne

TiesOne(T, d, u, p) ==
  /\ Tied(T, u, p) /\ \A q : Tied(T, d, q) => Tied(T, u, q)
  /\ \A q \in DOMAIN u.link : q = p \/ q \in DOMAIN d.link

LEMMA TiedMore ==
  ASSUME NEW T, NEW d, NEW u, NEW p, u.link = Put(d.link, p, T.link[p])
  PROVE  TiesOne(T, d, u, p)
<1>1. PICK f, g, v : f = d.link /\ g = u.link /\ v = T.link[p]
  OBVIOUS
<1>2. g = Put(f, p, v)
  BY <1>1
<1>3. DOMAIN g = DOMAIN f \cup {p} /\ g[p] = v /\ \A q \in DOMAIN f : q # p => g[q] = f[q]
  BY <1>2 DEF Put
<1> QED BY <1>1, <1>3 DEF Tied, TiesOne

LEMMA BusedMore ==
  ASSUME NEW h, NEW d, NEW u, NEW x, u.bus = Put(d.bus, x, h.dev[x])
  PROVE  /\ Bused(h, u, x) /\ \A y : Bused(h, d, y) => Bused(h, u, y)
         /\ \A y \in DOMAIN u.bus : y = x \/ y \in DOMAIN d.bus
<1>1. PICK f, g, v : f = d.bus /\ g = u.bus /\ v = h.dev[x]
  OBVIOUS
<1>2. g = Put(f, x, v)
  BY <1>1
<1>3. DOMAIN g = DOMAIN f \cup {x} /\ g[x] = v /\ \A y \in DOMAIN f : y # x => g[y] = f[y]
  BY <1>2 DEF Put
<1> QED BY <1>1, <1>3 DEF Bused

\* What is said of a field is said of it wherever it is the same.
LEMMA SameField ==
  ASSUME NEW T, NEW h, NEW d, NEW u
  PROVE  /\ u.file = d.file => \A q : Copied(T, d, q) <=> Copied(T, u, q)
         /\ u.link = d.link => \A q : Tied(T, d, q) <=> Tied(T, u, q)
         /\ u.bus = d.bus => \A y : Bused(h, d, y) <=> Bused(h, u, y)
  BY DEF Copied, Tied, Bused

\* One piece of work more is done, nothing is undone, and nothing else is there.
Advances(T, h, o, d, u, t) ==
  /\ Kept(T, h, d, u) /\ Done(T, h, o, u, t)
  /\ o = NoTree /\ NoMore(T, h, d) => NoMore(T, h, u)

\* All fields but these are the same.
Alike(d, u, fields) == \A f \in TreeFields \ fields : u[f] = d[f]

\* The directory of a function.
LEMMA DirMade ==
  ASSUME NEW T, NEW h, NEW o, NEW d, NEW u, NEW t, t.op = "mkdir", t.at[1] = "pci",
         Alike(d, u, {"dirs"}), u.dirs = d.dirs \cup ToSet(h.dev[t.at[2]].chain)
  PROVE  Advances(T, h, o, d, u, t)
<1>1. /\ u.bus = d.bus /\ u.file = d.file /\ u.link = d.link /\ u.ports = d.ports /\ u.lists = d.lists
      /\ u.node = d.node /\ u.rdma = d.rdma /\ u.net = d.net
  BY DEF Alike, TreeFields
<1>2. Kept(T, h, d, u)
  BY <1>1, SameField DEF Kept
<1>3. NoMore(T, h, d) => NoMore(T, h, u)
  BY <1>1, SameField DEF NoMore
<1>4. Done(T, h, o, u, t)
  BY DEF Done
<1> QED BY <1>2, <1>3, <1>4 DEF Advances

\* That of a port.
LEMMA PortMade ==
  ASSUME NEW T, NEW h, NEW o, NEW d, NEW u, NEW t, t.op = "mkdir", t.at[1] # "pci", Alike(d, u, {"ports"}),
         t.at[2] \in DOMAIN h.rdma, t.at[3] \in h.rdma[t.at[2]],
         u.ports = Put(d.ports, t.at[2], (IF t.at[2] \in DOMAIN d.ports THEN d.ports[t.at[2]] ELSE {}) \cup {t.at[3]})
  PROVE  Advances(T, h, o, d, u, t)
<1>1. /\ u.bus = d.bus /\ u.file = d.file /\ u.link = d.link /\ u.dirs = d.dirs /\ u.lists = d.lists
      /\ u.node = d.node /\ u.rdma = d.rdma /\ u.net = d.net
  BY DEF Alike, TreeFields
<1>2. PICK f, g, x, i, S : /\ f = d.ports /\ g = u.ports /\ x = t.at[2] /\ i = t.at[3]
                           /\ S = (IF x \in DOMAIN f THEN f[x] ELSE {}) \cup {i}
  OBVIOUS
<1>3. DOMAIN g = DOMAIN f \cup {x} /\ g[x] = S /\ \A y \in DOMAIN f : y # x => g[y] = f[y]
  <2>1. g = Put(f, x, S)
    BY <1>2
  <2> QED BY <2>1 DEF Put
<1>4. i \in S /\ (x \in DOMAIN f => f[x] \subseteq S)
  BY <1>2
<1>5. \A r \in DOMAIN f : r \in DOMAIN g /\ f[r] \subseteq g[r]
  BY <1>3, <1>4
<1>6. Kept(T, h, d, u)
  BY <1>1, <1>2, <1>5, SameField DEF Kept
<1>7. ASSUME NoMore(T, h, d) PROVE NoMore(T, h, u)
  <2>1. \A r \in DOMAIN f : r \in DOMAIN h.rdma /\ f[r] # {} /\ f[r] \subseteq h.rdma[r]
    BY <1>2, <1>7 DEF NoMore
  <2>2. x \in DOMAIN h.rdma /\ S # {} /\ S \subseteq h.rdma[x]
    BY <1>2, <2>1
  <2>3. \A r \in DOMAIN g : r \in DOMAIN h.rdma /\ g[r] # {} /\ g[r] \subseteq h.rdma[r]
    BY <1>3, <2>1, <2>2
  <2>4. \A p \in DOMAIN u.link : BaseOf(T, p) # 0 /\ Tied(T, u, p)
    BY <1>1, <1>7, SameField DEF NoMore
  <2>5. \A p \in DOMAIN u.file : FileOf(T, p).st = "ok" /\ Copied(T, u, p)
    BY <1>1, <1>7, SameField DEF NoMore
  <2> QED BY <1>1, <1>2, <1>7, <2>3, <2>4, <2>5 DEF NoMore
<1>8. Done(T, h, o, u, t)
  <2>1. x \in DOMAIN g /\ i \in g[x]
    BY <1>3, <1>4
  <2> QED BY <1>2, <2>1 DEF Done
<1> QED BY <1>6, <1>7, <1>8 DEF Advances

\* The link of a function.
LEMMA BusLinked ==
  ASSUME NEW T, NEW h, NEW o, NEW d, NEW u, NEW t, t.op = "relink", t.at[1] = "pci", Alike(d, u, {"bus", "lists"}),
         t.at[2] \in DOMAIN h.dev, u.lists = d.lists \cup {"pci"},
         u.bus = Put(d.bus, t.at[2], h.dev[t.at[2]])
  PROVE  Advances(T, h, o, d, u, t)
<1>1. /\ u.ports = d.ports /\ u.file = d.file /\ u.link = d.link /\ u.dirs = d.dirs
      /\ u.node = d.node /\ u.rdma = d.rdma /\ u.net = d.net
  BY DEF Alike, TreeFields
<1>2. PICK x : x = t.at[2]
  OBVIOUS
<1>3. /\ Bused(h, u, x) /\ \A y : Bused(h, d, y) => Bused(h, u, y)
      /\ \A y \in DOMAIN u.bus : y = x \/ y \in DOMAIN d.bus
  <2>1. u.bus = Put(d.bus, x, h.dev[x])
    BY <1>2
  <2> QED BY <2>1, BusedMore
<1>4. Kept(T, h, d, u)
  BY <1>1, <1>3, SameField DEF Kept
<1>5. ASSUME NoMore(T, h, d) PROVE NoMore(T, h, u)
  <2>1. \A y \in DOMAIN u.bus : y \in DOMAIN h.dev
    BY <1>2, <1>3, <1>5 DEF NoMore
  <2>2. DOMAIN u.bus # {}
    BY <1>3 DEF Bused
  <2>3. \A p \in DOMAIN u.link : BaseOf(T, p) # 0 /\ Tied(T, u, p)
    BY <1>1, <1>5, SameField DEF NoMore
  <2>4. \A p \in DOMAIN u.file : FileOf(T, p).st = "ok" /\ Copied(T, u, p)
    BY <1>1, <1>5, SameField DEF NoMore
  <2> QED BY <1>1, <1>5, <2>1, <2>2, <2>3, <2>4 DEF NoMore
<1>6. Done(T, h, o, u, t)
  BY <1>2, <1>3 DEF Done
<1> QED BY <1>4, <1>5, <1>6 DEF Advances

\* The link of an RDMA device or an interface.
LEMMA DeviceLinked ==
  ASSUME NEW T, NEW h, NEW o, NEW d, NEW u, NEW t, u.link = Put(d.link, t.at, T.link[t.at]), t.op = "relink",
         Alike(d, u, {"rdma", "net", "link", "lists"}), u.lists = d.lists \cup {t.at[1]}, BaseOf(T, t.at) # 0,
         \/ t.at[1] = "rdma" /\ u.net = d.net /\ u.rdma = d.rdma \cup {t.at[2]} /\ t.at[2] \in DOMAIN h.rdma
         \/ t.at[1] = "net" /\ u.rdma = d.rdma /\ u.net = d.net \cup {t.at[2]} /\ t.at[2] \in h.net
  PROVE  Advances(T, h, o, d, u, t)
<1>1. /\ u.ports = d.ports /\ u.file = d.file /\ u.bus = d.bus /\ u.dirs = d.dirs /\ u.node = d.node
      /\ t.at[1] = "rdma" => u.net = d.net /\ u.rdma = d.rdma \cup {t.at[2]}
      /\ t.at[1] = "net" => u.rdma = d.rdma /\ u.net = d.net \cup {t.at[2]}
  BY DEF Alike, TreeFields
<1>2. /\ Tied(T, u, t.at) /\ \A q : Tied(T, d, q) => Tied(T, u, q)
      /\ \A q \in DOMAIN u.link : q = t.at \/ q \in DOMAIN d.link
  <2>1. TiesOne(T, d, u, t.at)
    BY TiedMore
  <2> QED BY <2>1 DEF TiesOne
<1>3. d.rdma \subseteq u.rdma /\ d.net \subseteq u.net
  BY <1>1
<1>4. Kept(T, h, d, u)
  BY <1>1, <1>2, <1>3, SameField DEF Kept
<1>5. ASSUME NoMore(T, h, d) PROVE NoMore(T, h, u)
  <2>1. \A p \in DOMAIN u.link : BaseOf(T, p) # 0 /\ Tied(T, u, p)
    BY <1>2, <1>5 DEF NoMore
  <2>2. u.rdma \subseteq DOMAIN h.rdma /\ u.net \subseteq h.net
    BY <1>1, <1>5 DEF NoMore
  <2>3. ("rdma" \in u.lists => u.rdma # {}) /\ ("net" \in u.lists => u.net # {})
    BY <1>1, <1>5 DEF NoMore
  <2>4. \A p \in DOMAIN u.file : FileOf(T, p).st = "ok" /\ Copied(T, u, p)
    BY <1>1, <1>5, SameField DEF NoMore
  <2>5. ("pci" \in u.lists => DOMAIN u.bus # {}) /\ ("node" \in u.lists => u.node # {})
    BY <1>1, <1>5 DEF NoMore
  <2> QED BY <1>1, <1>5, <2>1, <2>2, <2>3, <2>4, <2>5 DEF NoMore
<1>6. Done(T, h, o, u, t)
  BY <1>1, <1>2 DEF Done
<1> QED BY <1>4, <1>5, <1>6 DEF Advances

\* The CPU list of a node.
LEMMA NodeWritten ==
  ASSUME NEW T, NEW h, NEW o, NEW d, NEW u, NEW t, t.op = "node", Alike(d, u, {"node", "file", "lists"}),
         t.at[2] \in NodesOf(h), FileOf(T, t.at).st = "ok",
         u.lists = d.lists \cup {"node"}, u.node = d.node \cup {t.at[2]},
         u.file = Put(d.file, t.at, File(CopyOf(t.at, FileOf(T, t.at).val)))
  PROVE  Advances(T, h, o, d, u, t)
<1>1. /\ u.ports = d.ports /\ u.bus = d.bus /\ u.link = d.link /\ u.dirs = d.dirs /\ u.rdma = d.rdma /\ u.net = d.net
  BY DEF Alike, TreeFields
<1>2. /\ Copied(T, u, t.at) /\ \A q : Copied(T, d, q) => Copied(T, u, q)
      /\ \A q \in DOMAIN u.file : q = t.at \/ q \in DOMAIN d.file
  <2>1. CopiesOne(T, d, u, t.at)
    BY CopiedMore
  <2> QED BY <2>1 DEF CopiesOne
<1>4. Kept(T, h, d, u)
  BY <1>1, <1>2, SameField DEF Kept
<1>5. ASSUME NoMore(T, h, d) PROVE NoMore(T, h, u)
  <2>1. \A p \in DOMAIN u.link : BaseOf(T, p) # 0 /\ Tied(T, u, p)
    BY <1>1, <1>5, SameField DEF NoMore
  <2>2. u.node \subseteq NodesOf(h)
    BY <1>5 DEF NoMore
  <2>3. u.node # {}
    OBVIOUS
  <2>4. \A p \in DOMAIN u.file : FileOf(T, p).st = "ok" /\ Copied(T, u, p)
    BY <1>2, <1>5 DEF NoMore
  <2>5. /\ "pci" \in u.lists => DOMAIN u.bus # {}
        /\ "rdma" \in u.lists => u.rdma # {}
        /\ "net" \in u.lists => u.net # {}
    BY <1>1, <1>5 DEF NoMore
  <2> QED BY <1>1, <1>5, <2>1, <2>2, <2>3, <2>4, <2>5 DEF NoMore
<1>6. Done(T, h, o, u, t)
  BY <1>2 DEF Done
<1> QED BY <1>4, <1>5, <1>6 DEF Advances

\* A file that can be read.
LEMMA FileWritten ==
  ASSUME NEW T, NEW h, NEW o, NEW d, NEW u, NEW t, t.op = "copy", Alike(d, u, {"file"}), FileOf(T, t.at).st = "ok",
         u.file = Put(d.file, t.at, File(CopyOf(t.at, FileOf(T, t.at).val)))
  PROVE  Advances(T, h, o, d, u, t)
<1>1. /\ u.ports = d.ports /\ u.bus = d.bus /\ u.link = d.link /\ u.dirs = d.dirs /\ u.lists = d.lists
      /\ u.node = d.node /\ u.rdma = d.rdma /\ u.net = d.net
  BY DEF Alike, TreeFields
<1>2. /\ Copied(T, u, t.at) /\ \A q : Copied(T, d, q) => Copied(T, u, q)
      /\ \A q \in DOMAIN u.file : q = t.at \/ q \in DOMAIN d.file
  <2>1. CopiesOne(T, d, u, t.at)
    BY CopiedMore
  <2> QED BY <2>1 DEF CopiesOne
<1>4. Kept(T, h, d, u)
  BY <1>1, <1>2, SameField DEF Kept
<1>5. ASSUME NoMore(T, h, d) PROVE NoMore(T, h, u)
  <2>1. \A p \in DOMAIN u.link : BaseOf(T, p) # 0 /\ Tied(T, u, p)
    BY <1>1, <1>5, SameField DEF NoMore
  <2>4. \A p \in DOMAIN u.file : FileOf(T, p).st = "ok" /\ Copied(T, u, p)
    BY <1>2, <1>5 DEF NoMore
  <2> QED BY <1>1, <1>5, <2>1, <2>4 DEF NoMore
<1>6. Done(T, h, o, u, t)
  BY <1>2 DEF Done
<1> QED BY <1>4, <1>5, <1>6 DEF Advances

\* A link that is there and may be followed, where there was none.
LEMMA LinkMade ==
  ASSUME NEW T, NEW h, NEW o, NEW d, NEW u, NEW t, t.op = "symlink", Alike(d, u, {"link"}), BaseOf(T, t.at) # 0,
         t.at \notin DOMAIN d.link, u.link = Put(d.link, t.at, BaseOf(T, t.at))
  PROVE  Advances(T, h, o, d, u, t)
<1>1. /\ u.ports = d.ports /\ u.bus = d.bus /\ u.file = d.file /\ u.dirs = d.dirs /\ u.lists = d.lists
      /\ u.node = d.node /\ u.rdma = d.rdma /\ u.net = d.net
  BY DEF Alike, TreeFields
<1>2. u.link = Put(d.link, t.at, T.link[t.at])
  BY DEF BaseOf
<1>3. /\ Tied(T, u, t.at) /\ \A q : Tied(T, d, q) => Tied(T, u, q)
      /\ \A q \in DOMAIN u.link : q = t.at \/ q \in DOMAIN d.link
  <2>1. TiesOne(T, d, u, t.at)
    BY <1>2, TiedMore
  <2> QED BY <2>1 DEF TiesOne
<1>4. Kept(T, h, d, u)
  BY <1>1, <1>3, SameField DEF Kept
<1>5. ASSUME NoMore(T, h, d) PROVE NoMore(T, h, u)
  <2>1. \A p \in DOMAIN u.link : BaseOf(T, p) # 0 /\ Tied(T, u, p)
    BY <1>3, <1>5 DEF NoMore
  <2>4. \A p \in DOMAIN u.file : FileOf(T, p).st = "ok" /\ Copied(T, u, p)
    BY <1>1, <1>5, SameField DEF NoMore
  <2> QED BY <1>1, <1>5, <2>1, <2>4 DEF NoMore
<1>6. Done(T, h, o, u, t)
  BY <1>3 DEF Done
<1> QED BY <1>4, <1>5, <1>6 DEF Advances

\* A link or a file that is not made: there is none that can be read, or there is
\* one already.
LEMMA NothingMade ==
  ASSUME NEW T, NEW h, NEW o, NEW d, NEW t,
         \/ t.op = "copy" /\ FileOf(T, t.at).st # "ok"
         \/ t.op = "symlink" /\ (BaseOf(T, t.at) = 0 \/ (t.at \in DOMAIN d.link /\ (o = NoTree => NoMore(T, h, d))))
  PROVE  Advances(T, h, o, d, d, t)
<1>1. Kept(T, h, d, d)
  BY DEF Kept
<1>2. CASE t.op = "copy" /\ FileOf(T, t.at).st # "ok"
  BY <1>1, <1>2 DEF Done, Advances
<1>3. CASE t.op = "symlink" /\ (BaseOf(T, t.at) = 0 \/ (t.at \in DOMAIN d.link /\ (o = NoTree => NoMore(T, h, d))))
  <2>1. o = NoTree /\ BaseOf(T, t.at) # 0 => Tied(T, d, t.at)
    BY <1>3 DEF NoMore
  <2> QED BY <1>1, <1>3, <2>1 DEF Done, Advances
<1> QED BY <1>2, <1>3

-----------------------------------------------------------------------------
(* What the host of a tree has. *)

DevsOf(t) == IF "pci" \in t.lists THEN { d \in DOMAIN t.bus : Resolves(t, d) } ELSE {}
IsFileOf(t, p) ==
  \/ \E d \in DevsOf(t) : \E a \in ToSet(IDFiles \o LinkFiles) : p = <<"pci", d, 0, a>>
  \/ "node" \in t.lists /\ \E n \in t.node : p = <<"node", n, 0, "cpulist">>
  \/ \E r \in Bound(t, "rdma") : \E i \in PortsOf(t, r) : \E a \in ToSet(PortFiles) : p = <<"rdma", r, i, a>>
  \/ \E n \in Bound(t, "net") : \E a \in ToSet(NetFiles) : p = <<"net", n, 0, a>>

LEMMA HostDevs ==
  ASSUME NEW t
  PROVE  DOMAIN ReadTree(t).dev = DevsOf(t) /\ \A d \in DevsOf(t) : ReadTree(t).dev[d] = t.bus[d]
<1> DEFINE devs == IF "pci" \in t.lists THEN { d \in DOMAIN t.bus : Resolves(t, d) } ELSE {}
<1>1. ReadTree(t).dev = [ d \in devs |-> t.bus[d] ]
  BY DEF ReadTree
<1>2. devs = DevsOf(t)
  BY DEF DevsOf
<1> HIDE DEF devs
<1> QED BY <1>1, <1>2

LEMMA HostPorts ==
  ASSUME NEW t
  PROVE  /\ DOMAIN ReadTree(t).rdma = Bound(t, "rdma") /\ ReadTree(t).net = Bound(t, "net")
         /\ \A r \in Bound(t, "rdma") : ReadTree(t).rdma[r] = PortsOf(t, r)
<1>1. ReadTree(t).rdma = [ r \in Bound(t, "rdma") |-> IF r \in DOMAIN t.ports THEN t.ports[r] ELSE {} ]
  BY DEF ReadTree
<1>2. ReadTree(t).net = Bound(t, "net")
  BY DEF ReadTree
<1> QED BY <1>1, <1>2 DEF PortsOf

LEMMA HostFiles ==
  ASSUME NEW t, NEW p
  PROVE  p \in DOMAIN ReadTree(t).val <=> IsFileOf(t, p)
<1> DEFINE devs == IF "pci" \in t.lists THEN { d \in DOMAIN t.bus : Resolves(t, d) } ELSE {}
           rdma == Bound(t, "rdma")
           ports == [ r \in rdma |-> IF r \in DOMAIN t.ports THEN t.ports[r] ELSE {} ]
           f1 == { <<"pci", d, 0, a>> : d \in devs, a \in ToSet(IDFiles \o LinkFiles) }
           f2 == IF "node" \in t.lists THEN { <<"node", n, 0, "cpulist">> : n \in t.node } ELSE {}
           f3 == UNION { { <<"rdma", r, i, a>> : i \in ports[r], a \in ToSet(PortFiles) } : r \in rdma }
           f4 == { <<"net", n, 0, a>> : n \in Bound(t, "net"), a \in ToSet(NetFiles) }
<1>1. ReadTree(t).val = [ q \in ((f1 \cup f2) \cup f3) \cup f4 |-> Understood(q, FileOf(t, q)) ]
  BY DEF ReadTree
<1>2. p \in f1 <=> \E d \in DevsOf(t) : \E a \in ToSet(IDFiles \o LinkFiles) : p = <<"pci", d, 0, a>>
  BY DEF DevsOf
<1>3. p \in f2 <=> "node" \in t.lists /\ \E n \in t.node : p = <<"node", n, 0, "cpulist">>
  OBVIOUS
<1>4. p \in f3 <=> \E r \in Bound(t, "rdma") : \E i \in PortsOf(t, r) : \E a \in ToSet(PortFiles) : p = <<"rdma", r, i, a>>
  <2>1. \A r \in rdma : ports[r] = PortsOf(t, r)
    BY DEF PortsOf
  <2> HIDE DEF ports, rdma
  <2>2. p \in f3 <=> \E r \in rdma : \E i \in ports[r] : \E a \in ToSet(PortFiles) : p = <<"rdma", r, i, a>>
    OBVIOUS
  <2> HIDE DEF f3
  <2>3. p \in f3 <=> \E r \in rdma : \E i \in PortsOf(t, r) : \E a \in ToSet(PortFiles) : p = <<"rdma", r, i, a>>
    BY <2>1, <2>2
  <2> QED BY <2>3 DEF rdma
<1>5. p \in f4 <=> \E n \in Bound(t, "net") : \E a \in ToSet(NetFiles) : p = <<"net", n, 0, a>>
  OBVIOUS
<1> HIDE DEF f1, f2, f3, f4
<1>6. p \in DOMAIN ReadTree(t).val <=> p \in f1 \/ p \in f2 \/ p \in f3 \/ p \in f4
  BY <1>1
<1> QED BY <1>2, <1>3, <1>4, <1>5, <1>6 DEF IsFileOf

\* An RDMA device or an interface of the host has a link to its function.
LEMMA HostLinks ==
  ASSUME NEW t, NEW class, NEW x,
         \/ class = "rdma" /\ x \in DOMAIN ReadTree(t).rdma
         \/ class = "net" /\ x \in ReadTree(t).net
  PROVE  /\ BaseOf(t, DevicePath(class, x)) # 0
         /\ ReadTree(t).link[DevicePath(class, x)] = t.link[DevicePath(class, x)]
<1> DEFINE devs == IF "pci" \in t.lists THEN { d \in DOMAIN t.bus : Resolves(t, d) } ELSE {}
           l1 == { <<"pci", d, 0, a>> : d \in devs, a \in ToSet(Symlinks) }
           l2 == { DevicePath("rdma", r) : r \in Bound(t, "rdma") }
           l3 == { DevicePath("net", n) : n \in Bound(t, "net") }
           links == (l1 \cup l2) \cup l3
           shown == { l \in links : Shown(t, l) }
<1>1. ReadTree(t).link = [ p \in shown |-> t.link[p] ]
  BY DEF ReadTree
<1>2. x \in Bound(t, class) /\ class \in {"rdma", "net"}
  BY HostPorts
<1>3. PICK p : p = DevicePath(class, x)
  OBVIOUS
<1>4. BaseOf(t, p) # 0
  BY <1>2, <1>3 DEF Bound
<1>5. p \in l2 \/ p \in l3
  BY <1>2, <1>3
<1>6. Shown(t, p)
  <2>1. p[4] = "device"
    BY <1>3 DEF DevicePath
  <2> QED BY <1>4, <2>1 DEF Shown
<1> HIDE DEF l1, l2, l3
<1>7. p \in shown
  BY <1>5, <1>6
<1> HIDE DEF shown
<1>8. ReadTree(t).link[p] = t.link[p]
  BY <1>1, <1>7
<1> QED BY <1>3, <1>4, <1>8

\* The nodes of the host, and what their CPU lists are.
LEMMA HostNodes ==
  ASSUME NEW t, NEW n, NEW p, p = <<"node", n, 0, "cpulist">>
  PROVE  /\ n \in NodesOf(ReadTree(t)) <=> "node" \in t.lists /\ n \in t.node /\ Understood(p, FileOf(t, p)).st = "ok"
         /\ n \in NodesOf(ReadTree(t)) =>
              FileOf(t, p).st = "ok" /\ ReadTree(t).val[p] = Read(FileOf(t, p).val.says)
<1> PICK H : H = ReadTree(t)
  OBVIOUS
<1>1. p \in DOMAIN H.val <=> "node" \in t.lists /\ n \in t.node
  <2>1. p \in DOMAIN H.val <=> IsFileOf(t, p)
    BY HostFiles
  <2>2. p[1] = "node" /\ p[2] = n
    OBVIOUS
  <2> QED BY <2>1, <2>2 DEF IsFileOf
<1>2. p \in DOMAIN H.val => H.val[p] = Understood(p, FileOf(t, p))
  BY ReadTreeVal
<1>3. n \in NodesOf(H) <=> p \in DOMAIN H.val /\ H.val[p].st = "ok"
  <2>1. ASSUME p \in DOMAIN H.val, H.val[p].st = "ok" PROVE n \in NodesOf(H)
    <3>1. p[1] = "node" /\ p[2] = n
      OBVIOUS
    <3>2. p \in { q \in DOMAIN H.val : q[1] = "node" /\ H.val[q].st = "ok" }
      BY <2>1, <3>1
    <3> QED BY <3>1, <3>2 DEF NodesOf
  <2>2. ASSUME n \in NodesOf(H) PROVE p \in DOMAIN H.val /\ H.val[p].st = "ok"
    <3>1. PICK q \in DOMAIN H.val : q[1] = "node" /\ H.val[q].st = "ok" /\ q[2] = n
      BY <2>2 DEF NodesOf
    <3>2. IsFileOf(t, q)
      BY HostFiles
    <3>3. q = <<"node", n, 0, "cpulist">>
      BY <3>1, <3>2 DEF IsFileOf
    <3> QED BY <3>1, <3>3
  <2> QED BY <2>1, <2>2
<1>4. ASSUME Understood(p, FileOf(t, p)).st = "ok"
      PROVE  FileOf(t, p).st = "ok" /\ Understood(p, FileOf(t, p)) = Read(FileOf(t, p).val.says)
  <2>1. p[4] = "cpulist"
    OBVIOUS
  <2>2. FileOf(t, p).st = "ok" /\ Meaning("cpulist", FileOf(t, p).val).st = "ok"
    BY <1>4, <2>1 DEF Understood
  <2>3. PICK text : text = FileOf(t, p).val
    OBVIOUS
  <2>4. Meaning("cpulist", text) = Read(text.says)
    BY <2>2, <2>3 DEF Meaning, Fault
  <2> QED BY <2>1, <2>2, <2>3, <2>4 DEF Understood
<1> QED BY <1>1, <1>2, <1>3, <1>4

-----------------------------------------------------------------------------
(* What the second pass does. *)

\* What a piece of work of the copy can be.
LEMMA TaskIs ==
  ASSUME NEW h, NEW t, IsCopyTask(h, t)
  PROVE  \/ t.op = "mkdir" /\ t.at[1] = "pci" /\ t.at[2] \in DOMAIN h.dev
         \/ t.op = "relink" /\ t.at[1] = "pci" /\ t.at[2] \in DOMAIN h.dev
         \/ t.op = "node" /\ t.at[2] \in NodesOf(h) /\ t.at = <<"node", t.at[2], 0, "cpulist">>
         \/ t.op = "relink" /\ t.at = DevicePath("rdma", t.at[2]) /\ t.at[2] \in DOMAIN h.rdma
         \/ t.op = "mkdir" /\ t.at[1] = "rdma" /\ t.at[2] \in DOMAIN h.rdma /\ t.at[3] \in h.rdma[t.at[2]]
         \/ t.op = "relink" /\ t.at = DevicePath("net", t.at[2]) /\ t.at[2] \in h.net
         \/ t.op \in {"copy", "symlink"}
<1>1. ASSUME NEW op, NEW at, t \in OpenTask(op, at) PROVE t.op = op /\ t.at = at
  BY <1>1 DEF OpenTask, Task
<1>2. ASSUME NEW op, NEW class, NEW x, NEW y, NEW names, t \in NamedTasks(op, class, x, y, names) PROVE t.op = op
  BY <1>2 DEF NamedTasks, Task
<1>3. CASE \E d \in DOMAIN h.dev : t \in FunctionTasks(d)
  <2>1. PICK d \in DOMAIN h.dev : t \in FunctionTasks(d)
    BY <1>3
  <2>2. \/ t.op = "mkdir" /\ t.at = <<"pci", d, 0, "">>
        \/ t.op = "relink" /\ t.at = <<"pci", d, 0, "">>
        \/ t.op \in {"copy", "symlink"}
    BY <1>1, <1>2, <2>1 DEF FunctionTasks
  <2>3. <<"pci", d, 0, "">>[1] = "pci" /\ <<"pci", d, 0, "">>[2] = d
    OBVIOUS
  <2> QED BY <2>2, <2>3
<1>4. CASE \E n \in NodesOf(h) : t \in NodeTasks(n)
  <2>1. PICK n \in NodesOf(h) : t \in NodeTasks(n)
    BY <1>4
  <2>2. t.op = "node" /\ t.at = <<"node", n, 0, "cpulist">>
    BY <1>1, <2>1 DEF NodeTasks
  <2>3. \A p : p = <<"node", n, 0, "cpulist">> => p[2] = n
    OBVIOUS
  <2> QED BY <2>2, <2>3
<1>5. CASE \E r \in DOMAIN h.rdma : t \in OpenTask("relink", DevicePath("rdma", r)) \/ \E i \in h.rdma[r] : t \in PortTasks(r, i)
  <2>1. PICK r \in DOMAIN h.rdma : t \in OpenTask("relink", DevicePath("rdma", r)) \/ \E i \in h.rdma[r] : t \in PortTasks(r, i)
    BY <1>5
  <2>2. CASE t \in OpenTask("relink", DevicePath("rdma", r))
    <3>1. t.op = "relink" /\ t.at = DevicePath("rdma", r)
      BY <1>1, <2>2
    <3>2. DevicePath("rdma", r)[2] = r
      BY DEF DevicePath
    <3> QED BY <3>1, <3>2
  <2>3. ASSUME NEW i \in h.rdma[r], t \in PortTasks(r, i)
        PROVE  t.op = "copy" \/ (t.op = "mkdir" /\ t.at[1] = "rdma" /\ t.at[2] \in DOMAIN h.rdma /\ t.at[3] \in h.rdma[t.at[2]])
    <3>1. t.op = "copy" \/ (t.op = "mkdir" /\ t.at = <<"rdma", r, i, "">>)
      BY <1>1, <1>2, <2>3 DEF PortTasks
    <3>2. <<"rdma", r, i, "">>[1] = "rdma" /\ <<"rdma", r, i, "">>[2] = r /\ <<"rdma", r, i, "">>[3] = i
      OBVIOUS
    <3> QED BY <2>3, <3>1, <3>2
  <2> QED BY <2>1, <2>2, <2>3
<1>6. CASE \E n \in h.net : t \in NetTasks(n)
  <2>1. PICK n \in h.net : t \in NetTasks(n)
    BY <1>6
  <2>2. t.op = "copy" \/ (t.op = "relink" /\ t.at = DevicePath("net", n))
    BY <1>1, <1>2, <2>1 DEF NetTasks
  <2>3. DevicePath("net", n)[2] = n
    BY DEF DevicePath
  <2> QED BY <2>2, <2>3
<1> QED BY <1>3, <1>4, <1>5, <1>6 DEF IsCopyTask

\* What is copied with its text is no CPU list.
LEMMA CopiedClass ==
  ASSUME NEW h, NEW t, IsCopyTask(h, t), t.op = "copy"
  PROVE  t.at[1] # "node"
<1>1. ASSUME NEW op, NEW at, t \in OpenTask(op, at) PROVE t.op = op
  BY <1>1 DEF OpenTask, Task
<1>2. ASSUME NEW op, NEW class, NEW x, NEW y, NEW names, t \in NamedTasks(op, class, x, y, names), class # "node"
      PROVE  t.at[1] # "node"
  <2>1. PICK a : t = Task(op, <<class, x, y, a>>)
    BY <1>2 DEF NamedTasks
  <2>2. \A p : p = <<class, x, y, a>> => p[1] = class
    OBVIOUS
  <2> QED BY <1>2, <2>1, <2>2 DEF Task
<1>3. "copy" \notin {"mkdir", "relink", "node"}
  OBVIOUS
<1>4. CASE \E d \in DOMAIN h.dev : t \in FunctionTasks(d)
  BY <1>1, <1>2, <1>3, <1>4 DEF FunctionTasks
<1>5. CASE \E n \in NodesOf(h) : t \in NodeTasks(n)
  BY <1>1, <1>3, <1>5 DEF NodeTasks
<1>6. CASE \E r \in DOMAIN h.rdma : t \in OpenTask("relink", DevicePath("rdma", r)) \/ \E i \in h.rdma[r] : t \in PortTasks(r, i)
  BY <1>1, <1>2, <1>3, <1>6 DEF PortTasks
<1>7. CASE \E n \in h.net : t \in NetTasks(n)
  BY <1>1, <1>2, <1>3, <1>7 DEF NetTasks
<1> QED BY <1>4, <1>5, <1>6, <1>7 DEF IsCopyTask

\* Making a directory.
LEMMA MkDirDoes ==
  ASSUME IsTree(dst), IsCopyTask(host, Head1), MkDir, NEW T, NEW h, h = host, NEW o, NEW d, d = dst, NEW u, u = dst', NEW t, t = Head1
  PROVE  Advances(T, h, o, d, u, t)
<1>1. t.op = "mkdir" /\ u = Made /\ At = t.at
  BY DEF MkDir, CopyTurn, Turn, Wrote, At
<1>2. CASE t.at[1] = "pci"
  <2>1. u = [d EXCEPT !.dirs = @ \cup ToSet(h.dev[t.at[2]].chain)]
    BY <1>1, <1>2 DEF Made
  <2>2. Alike(d, u, {"dirs"}) /\ u.dirs = d.dirs \cup ToSet(h.dev[t.at[2]].chain)
    BY <2>1 DEF IsTree, TreeFields, Alike
  <2> QED BY <1>1, <1>2, <2>2, DirMade
<1>3. CASE t.at[1] # "pci"
  <2>1. u = [d EXCEPT !.ports = Put(@, t.at[2], (IF t.at[2] \in DOMAIN @ THEN @[t.at[2]] ELSE {}) \cup {t.at[3]})]
    BY <1>1, <1>3 DEF Made
  <2>2. /\ Alike(d, u, {"ports"})
        /\ u.ports = Put(d.ports, t.at[2], (IF t.at[2] \in DOMAIN d.ports THEN d.ports[t.at[2]] ELSE {}) \cup {t.at[3]})
    BY <2>1 DEF IsTree, TreeFields, Alike
  <2>3. t.at[2] \in DOMAIN h.rdma /\ t.at[3] \in h.rdma[t.at[2]]
    BY <1>1, <1>3, TaskIs
  <2> QED BY <1>1, <1>3, <2>2, <2>3, PortMade
<1> QED BY <1>2, <1>3

\* Making a link anew.
LEMMA RelinkDoes ==
  ASSUME IsTree(dst), IsCopyTask(host, Head1), Relink, NEW T, NEW h, h = host, h = ReadTree(T), NEW o, NEW d, d = dst,
         NEW u, u = dst', NEW t, t = Head1
  PROVE  Advances(T, h, o, d, u, t)
<1>1. t.op = "relink" /\ u = Relinked /\ At = t.at
  BY DEF Relink, CopyTurn, Turn, Wrote, At
<1>2. CASE t.at[1] = "pci"
  <2>1. u = [d EXCEPT !.bus = Put(@, t.at[2], h.dev[t.at[2]]), !.lists = @ \cup {"pci"}]
    BY <1>1, <1>2 DEF Relinked
  <2>2. /\ Alike(d, u, {"bus", "lists"}) /\ u.lists = d.lists \cup {"pci"}
        /\ u.bus = Put(d.bus, t.at[2], h.dev[t.at[2]])
    BY <2>1 DEF IsTree, TreeFields, Alike
  <2>3. t.at[2] \in DOMAIN h.dev
    <3>1. \A x : DevicePath("rdma", x)[1] # "pci" /\ DevicePath("net", x)[1] # "pci"
      BY DEF DevicePath
    <3> QED BY <1>1, <1>2, <3>1, TaskIs
  <2> QED BY <1>1, <1>2, <2>2, <2>3, BusLinked
<1>3. CASE t.at[1] # "pci"
  <2>1. \/ t.at = DevicePath("rdma", t.at[2]) /\ t.at[2] \in DOMAIN h.rdma /\ t.at[1] = "rdma"
        \/ t.at = DevicePath("net", t.at[2]) /\ t.at[2] \in h.net /\ t.at[1] = "net"
    <3>1. \A x : DevicePath("rdma", x)[1] = "rdma" /\ DevicePath("net", x)[1] = "net"
      BY DEF DevicePath
    <3> QED BY <1>1, <1>3, <3>1, TaskIs
  <2>2. BaseOf(T, t.at) # 0 /\ h.link[t.at] = T.link[t.at]
    BY <2>1, HostLinks
  <2>3. CASE t.at[1] = "rdma"
    <3>1. u = [d EXCEPT !.rdma = @ \cup {t.at[2]}, !.link = Put(@, t.at, T.link[t.at]), !.lists = @ \cup {"rdma"}]
      BY <1>1, <2>2, <2>3 DEF Relinked
    <3>2. /\ Alike(d, u, {"rdma", "net", "link", "lists"}) /\ u.lists = d.lists \cup {t.at[1]}
          /\ u.net = d.net /\ u.rdma = d.rdma \cup {t.at[2]} /\ u.link = Put(d.link, t.at, T.link[t.at])
      BY <2>3, <3>1 DEF IsTree, TreeFields, Alike
    <3>3. t.at[2] \in DOMAIN h.rdma
      BY <2>1, <2>3
    <3> QED BY <1>1, <2>2, <2>3, <3>2, <3>3, DeviceLinked
  <2>4. CASE t.at[1] # "rdma"
    <3>1. u = [d EXCEPT !.net = @ \cup {t.at[2]}, !.link = Put(@, t.at, T.link[t.at]), !.lists = @ \cup {"net"}]
      BY <1>1, <1>3, <2>2, <2>4 DEF Relinked
    <3>2. t.at[1] = "net" /\ t.at[2] \in h.net
      BY <2>1, <2>4
    <3>3. /\ Alike(d, u, {"rdma", "net", "link", "lists"}) /\ u.lists = d.lists \cup {t.at[1]}
          /\ u.rdma = d.rdma /\ u.net = d.net \cup {t.at[2]} /\ u.link = Put(d.link, t.at, T.link[t.at])
      BY <3>1, <3>2 DEF IsTree, TreeFields, Alike
    <3> QED BY <1>1, <2>2, <3>2, <3>3, DeviceLinked
  <2> QED BY <2>3, <2>4
<1> QED BY <1>2, <1>3

\* Writing a CPU list.
LEMMA WriteNodeDoes ==
  ASSUME IsTree(dst), IsCopyTask(host, Head1), WriteNode, NEW T, NEW h, h = host, h = ReadTree(T), NEW o, NEW d, d = dst,
         NEW u, u = dst', NEW t, t = Head1
  PROVE  Advances(T, h, o, d, u, t)
<1>1. /\ t.op = "node" /\ At = t.at
      /\ u = [ d EXCEPT !.node = @ \cup {t.at[2]}, !.lists = @ \cup {"node"},
                     !.file = Put(@, t.at, File(WithLineEnd(h.val[t.at].val))) ]
  BY DEF WriteNode, CopyTurn, Turn, Wrote, At
<1>2. t.at[2] \in NodesOf(h) /\ t.at = <<"node", t.at[2], 0, "cpulist">>
  BY <1>1, TaskIs
<1>3. FileOf(T, t.at).st = "ok" /\ WithLineEnd(h.val[t.at].val) = CopyOf(t.at, FileOf(T, t.at).val)
  <2>1. FileOf(T, t.at).st = "ok" /\ h.val[t.at] = Read(FileOf(T, t.at).val.says)
    BY <1>2, HostNodes
  <2>2. t.at[1] = "node"
    BY <1>2
  <2>3. h.val[t.at].val = FileOf(T, t.at).val.says
    BY <2>1 DEF Read
  <2> QED BY <2>1, <2>2, <2>3 DEF CopyOf
<1>4. /\ Alike(d, u, {"node", "file", "lists"}) /\ u.lists = d.lists \cup {"node"} /\ u.node = d.node \cup {t.at[2]}
      /\ u.file = Put(d.file, t.at, File(CopyOf(t.at, FileOf(T, t.at).val)))
  BY <1>1, <1>3 DEF IsTree, TreeFields, Alike
<1> QED BY <1>1, <1>2, <1>3, <1>4, NodeWritten

\* Making a link that is not there.
LEMMA SymlinkDoes ==
  ASSUME IsTree(dst), Symlink1, NEW T, T = Tree, NEW h, NEW o, NEW d, d = dst, o = NoTree => NoMore(T, h, d),
         NEW u, u = dst', NEW t, t = Head1
  PROVE  Advances(T, h, o, d, u, t)
<1>1. /\ t.op = "symlink" /\ At = t.at
      /\ u = IF BaseOf(T, t.at) # 0 /\ t.at \notin DOMAIN d.link THEN [d EXCEPT !.link = Put(@, t.at, BaseOf(T, t.at))] ELSE d
  BY DEF Symlink1, ToLink, CopyTurn, Turn, Wrote, At
<1>2. CASE BaseOf(T, t.at) # 0 /\ t.at \notin DOMAIN d.link
  <2>1. Alike(d, u, {"link"}) /\ u.link = Put(d.link, t.at, BaseOf(T, t.at))
    BY <1>1, <1>2 DEF IsTree, TreeFields, Alike
  <2> QED BY <1>1, <1>2, <2>1, LinkMade
<1>3. CASE ~(BaseOf(T, t.at) # 0 /\ t.at \notin DOMAIN d.link)
  <2>1. u = d
    BY <1>1, <1>3
  <2>2. Advances(T, h, o, d, d, t)
    BY <1>1, <1>3, NothingMade
  <2> QED BY <2>1, <2>2
<1> QED BY <1>2, <1>3

\* Copying a file.
LEMMA CopyFileDoes ==
  ASSUME IsTree(dst), IsCopyTask(host, Head1), NEW r, CopyFile(r), NEW T, r = FileOf(T, At), NEW h, NEW o, NEW d, d = dst, NEW u, u = dst', NEW t, t = Head1
  PROVE  Advances(T, h, o, d, u, t)
<1>1. t.op = "copy" /\ At = t.at /\ u = Written(r)
  BY DEF CopyFile, Wrote, At
<1>2. CASE FileOf(T, t.at).st = "ok"
  <2>1. u = [d EXCEPT !.file = Put(@, t.at, File(CopyOf(t.at, FileOf(T, t.at).val)))]
    BY <1>1, <1>2, CopiedClass DEF Written, CopyOf
  <2>2. Alike(d, u, {"file"}) /\ u.file = Put(d.file, t.at, File(CopyOf(t.at, FileOf(T, t.at).val)))
    BY <2>1 DEF IsTree, TreeFields, Alike
  <2> QED BY <1>1, <1>2, <2>2, FileWritten
<1>3. CASE FileOf(T, t.at).st # "ok"
  <2>1. u = d
    BY <1>1, <1>3 DEF Written
  <2>2. Advances(T, h, o, d, d, t)
    BY <1>1, <1>3, NothingMade
  <2> QED BY <2>1, <2>2
<1> QED BY <1>2, <1>3

\* What is to be done is done, and the head of the list is done with.
LEMMA Advance ==
  ASSUME WorkInv, DoneInv, copying, Still, UNCHANGED <<now, host, during, old, copying, failed>>,
         todo # <<>>, todo' = Tail(todo), failed = 0 => Advances(Tree, host, old, dst, dst', Head1), code # 1, code' = code
  PROVE  AllDone' /\ \A t \in ToSet(todo') : IsCopyTask(host', t)
<1>1. todo \in Seq(CopyTasks(host))
  BY DEF WorkInv, Work
<1>2. ToSet(todo) = {Head1} \cup ToSet(todo')
  BY <1>1, HeadAndTail DEF Head1
<1>3. \A t \in ToSet(todo') : IsCopyTask(host', t)
  BY <1>2 DEF DoneInv
<1>4. ASSUME failed = 0 PROVE AllDone'
  <2>1. PICK T, h, o, d, u, w : T = Tree /\ h = host /\ o = old /\ d = dst /\ u = dst' /\ w = Head1
    OBVIOUS
  <2>2. Kept(T, h, d, u) /\ Done(T, h, o, u, w) /\ (o = NoTree /\ NoMore(T, h, d) => NoMore(T, h, u))
    BY <1>4, <2>1 DEF Advances
  <2>3. /\ \A t : IsCopyTask(h, t) => t \in ToSet(todo) \/ Done(T, h, o, d, t)
        /\ o = NoTree => NoMore(T, h, d)
    BY <1>4, <2>1 DEF DoneInv, AllDone
  <2>4. ASSUME NEW t, IsCopyTask(h, t) PROVE t \in ToSet(todo') \/ Done(T, h, o, u, t)
    <3>1. Done(T, h, o, d, t) => Done(T, h, o, u, t)
      BY <2>2, DoneStays
    <3> QED BY <1>2, <2>1, <2>2, <2>3, <2>4, <3>1
  <2>5. Tree' = T /\ host' = h /\ old' = o /\ dst' = u
    BY <2>1 DEF Tree
  <2>6. \A t : IsCopyTask(host', t) => t \in ToSet(todo') \/ Done(Tree', host', old', dst', t)
    BY <2>4, <2>5
  <2>7. old' = NoTree => NoMore(Tree', host', dst')
    BY <2>2, <2>3, <2>5
  <2> QED BY <2>6, <2>7 DEF AllDone
<1>5. failed # 0 => AllDone'
  BY DEF AllDone
<1> QED BY <1>3, <1>4, <1>5

\* Nothing of it changes.
LEMMA DoneUntouched ==
  ASSUME DoneInv, UNCHANGED captureVars, code # -1 => pc' = pc, copying => UNCHANGED <<todo, host>>,
         Still' => Still /\ UNCHANGED now
  PROVE  DoneInv'
<1>1. UNCHANGED <<copying, dst, old, failed, code>>
  BY DEF captureVars
<1>2. Course'
  BY <1>1 DEF DoneInv, Course
<1>3. ASSUME Still', copying PROVE AllDone' /\ \A t \in ToSet(todo') : IsCopyTask(host', t)
  <2>1. UNCHANGED <<todo, host, now>> /\ Still
    BY <1>3
  <2>2. Tree' = Tree
    BY <2>1 DEF Tree
  <2>3. AllDone /\ \A t \in ToSet(todo) : IsCopyTask(host, t)
    BY <1>3, <2>1 DEF DoneInv
  <2>4. AllDone'
    BY <1>1, <2>1, <2>2, <2>3 DEF AllDone
  <2> QED BY <2>1, <2>3, <2>4
<1> QED BY <1>1, <1>2, <1>3 DEF DoneInv

\* The directory stays a tree.
LEMMA TreeStays ==
  ASSUME IsTree(dst), Copies1
  PROVE  IsTree(dst')
<1>1. CASE ReadEnds \/ CopyEnds
  BY <1>1 DEF ReadEnds, CopyEnds
<1>2. CASE MkDir
  BY <1>2 DEF MkDir, Wrote, Made, IsTree, TreeFields
<1>3. CASE Relink
  <2>1. dst' = Relinked
    BY <1>3 DEF Relink, Wrote
  <2>2. \/ \E f : dst' = [dst EXCEPT !.bus = f, !.lists = @ \cup {"pci"}]
        \/ \E S, f, c : dst' = [dst EXCEPT !.rdma = S, !.link = f, !.lists = c]
        \/ \E S, f, c : dst' = [dst EXCEPT !.net = S, !.link = f, !.lists = c]
    BY <2>1 DEF Relinked
  <2> QED BY <2>2 DEF IsTree, TreeFields
<1>4. CASE WriteNode
  BY <1>4 DEF WriteNode, Wrote, IsTree, TreeFields
<1>5. CASE Symlink1 \/ SymlinkFails
  BY <1>5 DEF Symlink1, SymlinkFails, Wrote, IsTree, TreeFields
<1>6. CASE CopyFails
  <2> DEFINE x == At[2]
             Less(f, k) == [ y \in DOMAIN f \ {k} |-> f[y] ]
             Node(files) == [dst EXCEPT !.node = @ \cup {x}, !.lists = @ \cup {"node"}, !.file = files]
             bus == [dst EXCEPT !.bus = Less(@, x), !.lists = @ \cup {"pci"}]
             rdma == [dst EXCEPT !.rdma = @ \cup {x}, !.link = Less(@, At), !.lists = @ \cup {"rdma"}]
             net == [dst EXCEPT !.net = @ \cup {x}, !.link = Less(@, At), !.lists = @ \cup {"net"}]
  <2>1. PICK t \in HalfDone : dst' = t
    BY <1>6 DEF CopyFails
  <2>2. t \in {dst, bus, rdma, net} \/ \E f : t = Node(f)
    BY DEF HalfDone
  <2>3. \A f : IsTree(Node(f))
    BY DEF IsTree, TreeFields
  <2>4. IsTree(bus) /\ IsTree(rdma) /\ IsTree(net)
    BY DEF IsTree, TreeFields
  <2> HIDE DEF Node, bus, rdma, net
  <2> QED BY <2>1, <2>2, <2>3, <2>4
<1>7. ASSUME NEW r \in data, CopyFile(r) \/ CopyFileFails(r) PROVE IsTree(dst')
  <2>1. dst' = dst \/ \E f : dst' = [dst EXCEPT !.file = f]
    BY <1>7 DEF CopyFile, CopyFileFails, Wrote, Written
  <2> QED BY <2>1 DEF IsTree, TreeFields
<1> QED BY <1>1, <1>2, <1>3, <1>4, <1>5, <1>6, <1>7 DEF Copies1

\* The second pass begins with everything to be done.
LEMMA ReadEndsDone ==
  ASSUME IInv, WorkInv, StillInv', DoneInv, ReadEnds
  PROVE  DoneInv'
<1>1. /\ copying' /\ todo' = CopyWork /\ ~copying /\ UNCHANGED <<now, pc, host, during, dst, old, failed, code>> /\ pc = "next"
  BY DEF ReadEnds, ReadReturns
<1>2. code = -1 /\ dst = old /\ Course'
  BY <1>1 DEF DoneInv, Course
<1>3. \A t : t \in ToSet(todo') <=> IsCopyTask(host', t)
  BY <1>1, CopyWorkIs DEF WorkInv
<1>4. ASSUME old = NoTree PROVE NoMore(Tree, host, dst)
  <2>1. PICK T, h, d : T = Tree /\ h = host /\ d = NoTree
    OBVIOUS
  <2>2. DOMAIN <<>> = {}
    OBVIOUS
  <2>3. /\ DOMAIN d.bus = {} /\ DOMAIN d.ports = {} /\ DOMAIN d.link = {} /\ DOMAIN d.file = {}
        /\ d.lists = {} /\ d.node = {} /\ d.rdma = {} /\ d.net = {}
    BY <2>1, <2>2 DEF NoTree
  <2>4. NoMore(T, h, d)
    BY <2>3 DEF NoMore
  <2> QED BY <1>2, <1>4, <2>1, <2>4
<1>5. AllDone'
  <2>1. Tree' = Tree
    BY <1>1 DEF Tree
  <2>2. old' = NoTree => NoMore(Tree', host', dst')
    BY <1>1, <1>4, <2>1
  <2> QED BY <1>3, <2>2 DEF AllDone
<1> QED BY <1>2, <1>3, <1>5 DEF DoneInv

\* A step of the second pass does what is at the head of its work.
LEMMA CopiesDone ==
  ASSUME IInv, WorkInv, Busy, StillInv, StillInv', DoneInv, Copies1
  PROVE  DoneInv'
<1>1. CASE ReadEnds
  BY <1>1, ReadEndsDone
<1>2. IsTree(dst')
  BY TreeStays DEF DoneInv, Course
<1>3. ASSUME copying, UNCHANGED <<now, host, during, old, copying, code>>, todo # <<>>, todo' = Tail(todo), pc # "done",
             failed' = failed \/ failed' = failed + 1,
             failed' = failed /\ failed = 0 /\ Still => Advances(Tree, host, old, dst, dst', Head1)
      PROVE  DoneInv'
  <2>1. code = -1 /\ failed \in Nat /\ failed' \in Nat
    BY <1>3 DEF DoneInv, Course
  <2>2. Course'
    BY <1>2, <1>3, <2>1 DEF DoneInv, Course
  <2>3. ASSUME Still PROVE AllDone' /\ \A t \in ToSet(todo') : IsCopyTask(host', t)
    <3>1. CASE failed' = failed
      BY <1>3, <2>1, <2>3, <3>1, Advance
    <3>2. CASE failed' = failed + 1
      <4>1. AllDone'
        BY <2>1, <3>2 DEF AllDone
      <4>2. todo \in Seq(CopyTasks(host))
        BY <1>3 DEF WorkInv, Work
      <4>3. ToSet(todo) = {Head1} \cup ToSet(todo')
        BY <1>3, <4>2, HeadAndTail DEF Head1
      <4> QED BY <1>3, <2>3, <4>1, <4>3 DEF DoneInv
    <3> QED BY <1>3, <3>1, <3>2
  <2>4. Still' => Still
    BY <1>3 DEF Still
  <2> QED BY <2>2, <2>3, <2>4 DEF DoneInv
<1>4. ASSUME Still, copying, todo # <<>>, code # 1, failed = 0
      PROVE  /\ IsTree(dst) /\ host = ReadTree(Tree) /\ IsCopyTask(host, Head1)
             /\ old = NoTree => NoMore(Tree, host, dst)
  <2>1. todo \in Seq(CopyTasks(host))
    BY <1>4 DEF WorkInv, Work
  <2>2. Head1 \in ToSet(todo)
    BY <1>4, <2>1, HeadAndTail DEF Head1
  <2> QED BY <1>4, <2>2 DEF DoneInv, AllDone, Course, StillInv
<1>5. pc # "done" => code # 1
  BY DEF DoneInv, Course
<1>6. CASE MkDir \/ Relink \/ WriteNode \/ Symlink1
  <2>1. /\ copying /\ todo # <<>> /\ todo' = Tail(todo) /\ pc = "next"
        /\ UNCHANGED <<now, host, during, old, copying, code, failed>>
    BY <1>6 DEF MkDir, Relink, WriteNode, Symlink1, CopyTurn, Turn, Next1
  <2>2. ASSUME failed = 0, Still PROVE Advances(Tree, host, old, dst, dst', Head1)
    <3>1. PICK T, h, o, d, u, t : T = Tree /\ h = host /\ o = old /\ d = dst /\ u = dst' /\ t = Head1
      OBVIOUS
    <3>2. IsTree(dst) /\ h = ReadTree(T) /\ IsCopyTask(host, Head1) /\ (o = NoTree => NoMore(T, h, d))
      BY <1>4, <1>5, <2>1, <2>2, <3>1
    <3>3. Advances(T, h, o, d, u, t)
      <4>1. CASE MkDir
        BY <3>1, <3>2, <4>1, MkDirDoes
      <4>2. CASE Relink
        BY <3>1, <3>2, <4>2, RelinkDoes
      <4>3. CASE WriteNode
        BY <3>1, <3>2, <4>3, WriteNodeDoes
      <4>4. CASE Symlink1
        BY <3>1, <3>2, <4>4, SymlinkDoes
      <4> QED BY <1>6, <4>1, <4>2, <4>3, <4>4
    <3> QED BY <3>1, <3>3
  <2> QED BY <1>3, <2>1, <2>2
<1>7. CASE CopyFails \/ CopyEnds
  <2>1. /\ copying /\ pc = "next" /\ pc' = "done" /\ UNCHANGED <<now, todo, host, during, old, copying, failed>>
        /\ code' = 1 \/ (code' = 0 /\ todo = <<>> /\ dst' = dst)
    BY <1>7 DEF CopyFails, CopyEnds, ReadReturns
  <2>2. Course'
    BY <1>2, <2>1 DEF DoneInv, Course
  <2>3. ASSUME Still' PROVE AllDone' /\ \A t \in ToSet(todo') : IsCopyTask(host', t)
    <3>1. Still /\ Tree' = Tree /\ code = -1
      BY <2>1, <2>3 DEF Still, Tree, DoneInv, Course
    <3>2. AllDone /\ \A t \in ToSet(todo) : IsCopyTask(host, t)
      BY <2>1, <3>1 DEF DoneInv
    <3>3. AllDone'
      BY <2>1, <3>1, <3>2 DEF AllDone
    <3> QED BY <2>1, <3>2, <3>3
  <2> QED BY <2>2, <2>3 DEF DoneInv
<1>8. ASSUME NEW r \in data, CopyFile(r) \/ CopyFileFails(r) PROVE DoneInv'
  <2>1. /\ todo' = Tail(todo) /\ pc = "back" /\ Head1.op = "copy" /\ UNCHANGED <<now, host, during, old, copying, code>>
        /\ failed' = failed \/ failed' = failed + 1
    BY <1>8 DEF CopyFile, CopyFileFails
  <2>2. todo # <<>>
    BY <2>1 DEF Busy
  <2>3. copying
    <3>1. "copy" \notin ReadOps /\ \A t \in ReadTasks : t.op \in ReadOps
      BY DEF ReadOps, ReadTasks
    <3>2. ~copying => Head1 \in ReadTasks
      BY <2>2 DEF WorkInv, Work, Head1
    <3> QED BY <2>1, <3>1, <3>2
  <2>4. ASSUME failed' = failed, failed = 0, Still PROVE Advances(Tree, host, old, dst, dst', Head1)
    <3>1. PICK T, h, o, d, u, t : T = Tree /\ h = host /\ o = old /\ d = dst /\ u = dst' /\ t = Head1
      OBVIOUS
    <3>2. IsTree(dst) /\ IsCopyTask(host, Head1)
      BY <1>4, <1>5, <2>1, <2>2, <2>3, <2>4
    <3>3. CopyFile(r)
      BY <1>8, <2>4 DEF CopyFileFails
    <3>4. r = FileOf(T, At)
      BY <2>4, <3>1 DEF StillInv
    <3>5. Advances(T, h, o, d, u, t)
      BY <3>1, <3>2, <3>3, <3>4, CopyFileDoes
    <3> QED BY <3>1, <3>5
  <2> QED BY <1>3, <2>1, <2>2, <2>3, <2>4
<1>9. CASE SymlinkFails
  <2>1. /\ copying /\ todo # <<>> /\ todo' = Tail(todo) /\ pc = "next" /\ failed' = failed + 1
        /\ UNCHANGED <<now, host, during, old, copying, code>>
    BY <1>9 DEF SymlinkFails, CopyTurn, Turn, Next1
  <2>2. failed' # failed
    BY <2>1 DEF DoneInv, Course
  <2> QED BY <1>3, <2>1, <2>2
<1> QED BY <1>1, <1>6, <1>7, <1>8, <1>9 DEF Copies1

\* A step of Read leaves the directory and what is to be done to it alone.
LEMMA ReadsDone ==
  ASSUME IInv, WorkInv, Busy, DoneInv, ReadStep, UNCHANGED captureVars
  PROVE  DoneInv'
<1>1. "list" \in ReadOps /\ "resolve" \in ReadOps /\ "link" \in ReadOps /\ "bind" \in ReadOps /\ "ports" \in ReadOps /\ "file" \in ReadOps
  BY DEF ReadOps
<1>2. UNCHANGED <<now, during>> /\ pc # "done"
  BY DEF ReadStep, ListDir, ResolveLink, ReadLink, Bind, ListPorts, Lstat, ReadFile, Stat, OpenFails, Open, ReadHandle, InFile,
     Keep, Then, Turn
<1>3. copying => UNCHANGED <<todo, host>>
  <2> SUFFICES ASSUME copying PROVE UNCHANGED <<todo, host>>
    OBVIOUS
  <2>1. CASE ListDir \/ ResolveLink \/ ReadLink \/ Bind \/ ListPorts
    BY <1>1, <2>1, NoReadTask DEF ListDir, ResolveLink, ReadLink, Bind, ListPorts
  <2>2. seat = {}
    BY DEF WorkInv
  <2>3. CASE ReadFile
    BY <2>3 DEF ReadFile, Stat, OpenFails, Open, ReadHandle
  <2>4. ASSUME NEW r \in data PROVE ~Keep(r)
    BY <1>1, NoReadTask DEF Keep, Busy
  <2> QED BY <2>1, <2>2, <2>3, <2>4 DEF ReadStep
<1>4. Still' => Still
  BY <1>2 DEF Still
<1>5. code = -1
  BY <1>2 DEF DoneInv, Course
<1> QED BY <1>2, <1>3, <1>4, <1>5, DoneUntouched

\* When the tree changes it does not hold still.
LEMMA ChangesDone ==
  ASSUME IInv, DoneInv, NEW i, Change(i), UNCHANGED captureVars
  PROVE  DoneInv'
<1>1. ~Still'
  BY DEF Still, Change, IInv
<1>2. UNCHANGED <<pc, todo, host>>
  BY DEF Change
<1> QED BY <1>1, <1>2, DoneUntouched

\* What the directory holds first is a tree.
LEMMA InitDone ==
  ASSUME Init
  PROVE  DoneInv
<1>1. PICK t \in Olds : dst = t
  BY DEF Init
<1>2. DOMAIN NoTree = TreeFields
  BY DEF NoTree, TreeFields
<1>3. t = [ f \in TreeFields |-> t[f] ]
  BY <1>2, ShapeAssumption
<1>4. IsTree(t)
  BY <1>3 DEF IsTree
<1> QED BY <1>1, <1>4 DEF Init, DoneInv, Course

LEMMA DoneInvariance == Spec => [](IInv /\ WorkInv /\ StillInv /\ DoneInv)
<1> DEFINE Inv == IInv /\ WorkInv /\ Busy /\ StillInv
<1>1. Init => DoneInv
  BY InitDone
<1>2. ASSUME Inv, Inv', DoneInv, [Next]_vars PROVE DoneInv'
  <2>1. CASE Reads
    BY <1>2, <2>1, ReadsDone DEF Reads
  <2>2. CASE Copies1
    BY <1>2, <2>2, CopiesDone
  <2>3. CASE Changes /\ UNCHANGED captureVars
    BY <1>2, <2>3, ChangesDone DEF Changes
  <2>4. CASE UNCHANGED vars
    BY <1>2, <2>4, DoneUntouched DEF vars, readVars, captureVars, Still
  <2> QED BY <1>2, <2>1, <2>2, <2>3, <2>4 DEF Next
<1>3. Spec => []Inv
  BY WorkInvariance, StillInvariance, PTL DEF Inv
<1> HIDE DEF Inv
<1>4. Spec => [](Inv /\ DoneInv)
  BY <1>1, <1>2, <1>3, PTL DEF Spec
<1>5. Inv => IInv /\ WorkInv /\ StillInv
  BY DEF Inv
<1> QED BY <1>4, <1>5, PTL

-----------------------------------------------------------------------------
(* What a capture that ended well has made. *)

\* All the work of the second pass is done.
Finished(T, h, o, d) == h = ReadTree(T) /\ \A t : IsCopyTask(h, t) => Done(T, h, o, d, t)

LEMMA AllIsDone ==
  ASSUME StillInv, DoneInv, code = 0, Still, failed = 0
  PROVE  Finished(Tree, host, old, dst) /\ (old = NoTree => NoMore(Tree, host, dst))
<1>1. copying /\ todo = <<>>
  BY DEF DoneInv, Course
<1>2. ToSet(todo) = {}
  BY <1>1 DEF ToSet
<1>3. AllDone /\ host = ReadTree(Tree)
  BY <1>1 DEF DoneInv, StillInv
<1> QED BY <1>2, <1>3 DEF AllDone, Finished

\* What it is for a piece of work to be done, told of its path.
LEMMA DoneAt ==
  ASSUME NEW T, NEW h, NEW o, NEW d, NEW op, NEW p, Done(T, h, o, d, Task(op, p))
  PROVE  /\ op = "mkdir" /\ p[1] = "pci" => ToSet(h.dev[p[2]].chain) \subseteq d.dirs
         /\ op = "mkdir" /\ p[1] # "pci" => p[2] \in DOMAIN d.ports /\ p[3] \in d.ports[p[2]]
         /\ op = "relink" /\ p[1] = "pci" => "pci" \in d.lists /\ Bused(h, d, p[2])
         /\ op = "relink" /\ p[1] = "rdma" => "rdma" \in d.lists /\ p[2] \in d.rdma /\ Tied(T, d, p)
         /\ op = "relink" /\ p[1] = "net" => "net" \in d.lists /\ p[2] \in d.net /\ Tied(T, d, p)
         /\ op = "node" => "node" \in d.lists /\ p[2] \in d.node /\ Copied(T, d, p)
         /\ op = "copy" /\ FileOf(T, p).st = "ok" => Copied(T, d, p)
         /\ op = "symlink" /\ o = NoTree /\ BaseOf(T, p) # 0 => Tied(T, d, p)
<1>1. PICK t : t = Task(op, p)
  OBVIOUS
<1>2. t.op = op /\ t.at = p
  BY <1>1 DEF Task
<1>3. Done(T, h, o, d, t)
  BY <1>1
<1> QED BY <1>2, <1>3 DEF Done

\* Work with a name, and work without one.
LEMMA TaskOf ==
  ASSUME NEW op, NEW class, NEW x, NEW y, NEW names
  PROVE  /\ \A a \in ToSet(names) : Task(op, <<class, x, y, a>>) \in NamedTasks(op, class, x, y, names)
         /\ \A p : Task(op, p) \in OpenTask(op, p)
  BY DEF NamedTasks, OpenTask

\* The functions of the tree are in the copy.
LEMMA FunctionsDone ==
  ASSUME NEW T, NEW h, NEW o, NEW d, Finished(T, h, o, d), NEW x \in DevsOf(T)
  PROVE  /\ x \in DevsOf(d) /\ x \in DOMAIN d.bus /\ d.bus[x] = T.bus[x] /\ "pci" \in d.lists
         /\ \A a \in ToSet(IDFiles \o LinkFiles) :
              FileOf(T, <<"pci", x, 0, a>>).st = "ok" => Copied(T, d, <<"pci", x, 0, a>>)
         /\ \A a \in ToSet(Symlinks) :
              o = NoTree /\ BaseOf(T, <<"pci", x, 0, a>>) # 0 => Tied(T, d, <<"pci", x, 0, a>>)
<1>1. h = ReadTree(T) /\ x \in DOMAIN h.dev /\ h.dev[x] = T.bus[x]
  BY HostDevs DEF Finished
<1>2. \A t \in FunctionTasks(x) : Done(T, h, o, d, t)
  BY <1>1 DEF Finished, IsCopyTask
<1>3. PICK p : p = <<"pci", x, 0, "">> /\ p[1] = "pci" /\ p[2] = x
  <2>1. <<"pci", x, 0, "">>[1] = "pci" /\ <<"pci", x, 0, "">>[2] = x
    OBVIOUS
  <2> QED BY <2>1
<1>4. Done(T, h, o, d, Task("mkdir", p)) /\ Done(T, h, o, d, Task("relink", p))
  BY <1>2, <1>3, TaskOf DEF FunctionTasks
<1>5. ToSet(h.dev[x].chain) \subseteq d.dirs /\ "pci" \in d.lists /\ Bused(h, d, x)
  BY <1>3, <1>4, DoneAt
<1>6. ASSUME NEW a \in ToSet(IDFiles \o LinkFiles), FileOf(T, <<"pci", x, 0, a>>).st = "ok"
      PROVE  Copied(T, d, <<"pci", x, 0, a>>)
  <2>1. PICK q : q = <<"pci", x, 0, a>>
    OBVIOUS
  <2>2. Task("copy", q) \in NamedTasks("copy", "pci", x, 0, IDFiles \o LinkFiles)
    BY <2>1, TaskOf
  <2>3. Done(T, h, o, d, Task("copy", q))
    BY <1>2, <2>2 DEF FunctionTasks
  <2> QED BY <1>6, <2>1, <2>3, DoneAt
<1>7. ASSUME NEW a \in ToSet(Symlinks), o = NoTree, BaseOf(T, <<"pci", x, 0, a>>) # 0
      PROVE  Tied(T, d, <<"pci", x, 0, a>>)
  <2>1. PICK q : q = <<"pci", x, 0, a>>
    OBVIOUS
  <2>2. Task("symlink", q) \in NamedTasks("symlink", "pci", x, 0, Symlinks)
    BY <2>1, TaskOf
  <2>3. Done(T, h, o, d, Task("symlink", q))
    BY <1>2, <2>2 DEF FunctionTasks
  <2> QED BY <1>7, <2>1, <2>3, DoneAt
<1>8. x \in DOMAIN d.bus /\ d.bus[x] = T.bus[x]
  BY <1>1, <1>5 DEF Bused
<1>9. x \in DevsOf(d)
  <2>1. T.bus[x].chain # <<>>
    BY DEF DevsOf, Resolves
  <2>2. Resolves(d, x)
    BY <1>1, <1>5, <1>8, <2>1 DEF Resolves
  <2> QED BY <1>5, <1>8, <2>2 DEF DevsOf
<1> QED BY <1>5, <1>6, <1>7, <1>8, <1>9

\* So are its nodes,
LEMMA NodesDone ==
  ASSUME NEW T, NEW h, NEW o, NEW d, Finished(T, h, o, d), NEW n \in NodesOf(h)
  PROVE  "node" \in d.lists /\ n \in d.node /\ Copied(T, d, <<"node", n, 0, "cpulist">>)
<1>1. PICK p : p = <<"node", n, 0, "cpulist">> /\ p[2] = n
  <2>1. <<"node", n, 0, "cpulist">>[2] = n
    OBVIOUS
  <2> QED BY <2>1
<1>2. Done(T, h, o, d, Task("node", p))
  BY <1>1, TaskOf DEF Finished, IsCopyTask, NodeTasks
<1> QED BY <1>1, <1>2, DoneAt

\* its RDMA devices with their ports,
LEMMA PortsDone ==
  ASSUME NEW T, NEW h, NEW o, NEW d, Finished(T, h, o, d), NEW r \in Bound(T, "rdma")
  PROVE  /\ "rdma" \in d.lists /\ r \in d.rdma /\ Tied(T, d, DevicePath("rdma", r)) /\ r \in Bound(d, "rdma")
         /\ \A i \in PortsOf(T, r) : r \in DOMAIN d.ports /\ i \in d.ports[r] /\ i \in PortsOf(d, r)
         /\ \A i \in PortsOf(T, r) : \A a \in ToSet(PortFiles) :
              FileOf(T, <<"rdma", r, i, a>>).st = "ok" => Copied(T, d, <<"rdma", r, i, a>>)
<1>1. r \in DOMAIN h.rdma /\ h.rdma[r] = PortsOf(T, r) /\ BaseOf(T, DevicePath("rdma", r)) # 0
  BY HostPorts DEF Finished, Bound
<1>2. PICK p : p = DevicePath("rdma", r)
  OBVIOUS
<1>3. p[1] = "rdma" /\ p[2] = r
  BY <1>2 DEF DevicePath
<1>4. Done(T, h, o, d, Task("relink", p))
  BY <1>1, <1>2, TaskOf DEF Finished, IsCopyTask
<1>5. "rdma" \in d.lists /\ r \in d.rdma /\ Tied(T, d, p)
  BY <1>3, <1>4, DoneAt
<1>6. r \in Bound(d, "rdma")
  BY <1>1, <1>2, <1>5 DEF Bound, Tied, BaseOf
<1>7. ASSUME NEW i \in PortsOf(T, r)
      PROVE  /\ r \in DOMAIN d.ports /\ i \in d.ports[r] /\ i \in PortsOf(d, r)
             /\ \A a \in ToSet(PortFiles) :
                  FileOf(T, <<"rdma", r, i, a>>).st = "ok" => Copied(T, d, <<"rdma", r, i, a>>)
  <2>1. \A t \in PortTasks(r, i) : Done(T, h, o, d, t)
    BY <1>1 DEF Finished, IsCopyTask
  <2>2. PICK q : q = <<"rdma", r, i, "">> /\ q[1] = "rdma" /\ q[2] = r /\ q[3] = i
    <3>1. <<"rdma", r, i, "">>[1] = "rdma" /\ <<"rdma", r, i, "">>[2] = r /\ <<"rdma", r, i, "">>[3] = i
      OBVIOUS
    <3> QED BY <3>1
  <2>3. Done(T, h, o, d, Task("mkdir", q))
    BY <2>1, <2>2, TaskOf DEF PortTasks
  <2>4. r \in DOMAIN d.ports /\ i \in d.ports[r]
    BY <2>2, <2>3, DoneAt
  <2>5. ASSUME NEW a \in ToSet(PortFiles), FileOf(T, <<"rdma", r, i, a>>).st = "ok" PROVE Copied(T, d, <<"rdma", r, i, a>>)
    <3>1. PICK f : f = <<"rdma", r, i, a>>
      OBVIOUS
    <3>2. Task("copy", f) \in NamedTasks("copy", "rdma", r, i, PortFiles)
      BY <3>1, TaskOf
    <3>3. Done(T, h, o, d, Task("copy", f))
      BY <2>1, <3>2 DEF PortTasks
    <3> QED BY <2>5, <3>1, <3>3, DoneAt
  <2> QED BY <2>4, <2>5 DEF PortsOf
<1> QED BY <1>2, <1>5, <1>6, <1>7

\* and its interfaces.
LEMMA NetsDone ==
  ASSUME NEW T, NEW h, NEW o, NEW d, Finished(T, h, o, d), NEW n \in Bound(T, "net")
  PROVE  /\ "net" \in d.lists /\ n \in d.net /\ Tied(T, d, DevicePath("net", n)) /\ n \in Bound(d, "net")
         /\ \A a \in ToSet(NetFiles) :
              FileOf(T, <<"net", n, 0, a>>).st = "ok" => Copied(T, d, <<"net", n, 0, a>>)
<1>1. n \in h.net /\ BaseOf(T, DevicePath("net", n)) # 0
  BY HostPorts DEF Finished, Bound
<1>2. PICK p : p = DevicePath("net", n)
  OBVIOUS
<1>3. p[1] = "net" /\ p[2] = n
  BY <1>2 DEF DevicePath
<1>4. \A t \in NetTasks(n) : Done(T, h, o, d, t)
  BY <1>1 DEF Finished, IsCopyTask
<1>5. Done(T, h, o, d, Task("relink", p))
  BY <1>2, <1>4, TaskOf DEF NetTasks
<1>6. "net" \in d.lists /\ n \in d.net /\ Tied(T, d, p)
  BY <1>3, <1>5, DoneAt
<1>7. n \in Bound(d, "net")
  BY <1>1, <1>2, <1>6 DEF Bound, Tied, BaseOf
<1>8. ASSUME NEW a \in ToSet(NetFiles), FileOf(T, <<"net", n, 0, a>>).st = "ok" PROVE Copied(T, d, <<"net", n, 0, a>>)
  <2>1. PICK f : f = <<"net", n, 0, a>>
    OBVIOUS
  <2>2. Task("copy", f) \in NamedTasks("copy", "net", n, 0, NetFiles)
    BY <2>1, TaskOf
  <2>3. Done(T, h, o, d, Task("copy", f))
    BY <1>4, <2>2 DEF NetTasks
  <2> QED BY <1>8, <2>1, <2>3, DoneAt
<1> QED BY <1>2, <1>6, <1>7, <1>8

\* A file that was copied says what it did, if it fits.
LEMMA CopiedReads ==
  ASSUME NEW T, NEW d, NEW p, FileOf(T, p).st = "ok", Copied(T, d, p), FileFits(T, p),
         p[1] = "node" => Understood(p, FileOf(T, p)).st = "ok"
  PROVE  Understood(p, FileOf(d, p)) = Understood(p, FileOf(T, p))
<1>1. PICK v, w : v = FileOf(T, p).val /\ w = CopyOf(p, v)
  OBVIOUS
<1>2. p \in DOMAIN d.file /\ d.file[p] = File(w)
  BY <1>1 DEF Copied
<1>3. FileOf(d, p) = Read(w)
  BY <1>2 DEF FileOf, Content, Regular, File
<1>4. Understood(p, FileOf(d, p)) = Meaning(p[4], w) /\ Understood(p, FileOf(T, p)) = Meaning(p[4], v)
  BY <1>1, <1>3 DEF Understood, Read
<1>5. w.says = v.says
  BY <1>1 DEF CopyOf, WithLineEnd, Cut, TextOf
<1>6. CASE p[4] = "config"
  BY <1>4, <1>5, <1>6 DEF Meaning
<1>7. CASE p[4] # "config"
  <2>1. Fits(p, v)
    BY <1>1 DEF FileFits
  <2>2. CASE p[1] = "node"
    <3>1. Meaning(p[4], v).st = "ok"
      BY <1>4, <2>2
    <3>2. ~v.long
      BY <1>7, <3>1 DEF Meaning, Fault
    <3>3. w.long = FALSE
      BY <1>1, <2>1, <2>2 DEF CopyOf, WithLineEnd, TextOf, Fits
    <3> QED BY <1>4, <1>5, <1>7, <3>2, <3>3 DEF Meaning
  <2>3. CASE p[1] # "node"
    <3>1. w.long <=> v.long
      BY <1>1, <1>7, <2>1, <2>3 DEF CopyOf, Cut, TextOf, Fits
    <3> QED BY <1>4, <1>5, <1>7, <3>1 DEF Meaning
  <2> QED BY <2>2, <2>3
<1> QED BY <1>6, <1>7

\* Every file of the tree that can be read is copied.
LEMMA FilesDone ==
  ASSUME NEW T, NEW h, NEW o, NEW d, Finished(T, h, o, d), NEW p, p \in DOMAIN h.val, FileOf(T, p).st = "ok",
         p[1] = "node" => h.val[p].st = "ok"
  PROVE  IsFileOf(d, p) /\ Copied(T, d, p)
<1>1. IsFileOf(T, p)
  BY HostFiles DEF Finished
<1>2. ASSUME NEW x \in DevsOf(T), NEW a \in ToSet(IDFiles \o LinkFiles), p = <<"pci", x, 0, a>>
      PROVE  IsFileOf(d, p) /\ Copied(T, d, p)
  BY <1>2, FunctionsDone DEF IsFileOf
<1>3. ASSUME NEW n, p = <<"node", n, 0, "cpulist">> PROVE IsFileOf(d, p) /\ Copied(T, d, p)
  <2>1. p[1] = "node" /\ p[2] = n
    BY <1>3
  <2>2. n \in NodesOf(h)
    BY <2>1 DEF NodesOf
  <2> QED BY <1>3, <2>2, NodesDone DEF IsFileOf
<1>4. ASSUME NEW r \in Bound(T, "rdma"), NEW i \in PortsOf(T, r), NEW a \in ToSet(PortFiles), p = <<"rdma", r, i, a>>
      PROVE  IsFileOf(d, p) /\ Copied(T, d, p)
  BY <1>4, PortsDone DEF IsFileOf
<1>5. ASSUME NEW n \in Bound(T, "net"), NEW a \in ToSet(NetFiles), p = <<"net", n, 0, a>>
      PROVE  IsFileOf(d, p) /\ Copied(T, d, p)
  BY <1>5, NetsDone DEF IsFileOf
<1> QED BY <1>1, <1>2, <1>3, <1>4, <1>5 DEF IsFileOf

-----------------------------------------------------------------------------
(* What the host of a tree has besides. *)

IsLinkOf(t, p) ==
  \/ \E d \in DevsOf(t) : \E a \in ToSet(Symlinks) : p = <<"pci", d, 0, a>>
  \/ \E r \in Bound(t, "rdma") : p = DevicePath("rdma", r)
  \/ \E n \in Bound(t, "net") : p = DevicePath("net", n)
IsBadOf(t, x) ==
  \/ "pci" \notin t.lists /\ x = <<"bus", 0>>
  \/ "pci" \in t.lists /\ \E d \in DOMAIN t.bus : d \notin DevsOf(t) /\ x = <<"bus", d>>
  \/ "rdma" \in t.lists /\ \E r \in t.rdma : r \notin Bound(t, "rdma") /\ x = <<"rdma", r>>
  \/ \E r \in Bound(t, "rdma") : r \notin DOMAIN t.ports /\ x = <<"ports", r>>

LEMMA HostShows ==
  ASSUME NEW t, NEW p
  PROVE  /\ p \in DOMAIN ReadTree(t).link <=> IsLinkOf(t, p) /\ Shown(t, p)
         /\ p \in DOMAIN ReadTree(t).link => ReadTree(t).link[p] = t.link[p]
<1> DEFINE devs == IF "pci" \in t.lists THEN { d \in DOMAIN t.bus : Resolves(t, d) } ELSE {}
           l1 == { <<"pci", d, 0, a>> : d \in devs, a \in ToSet(Symlinks) }
           l2 == { DevicePath("rdma", r) : r \in Bound(t, "rdma") }
           l3 == { DevicePath("net", n) : n \in Bound(t, "net") }
           links == (l1 \cup l2) \cup l3
           shown == { l \in links : Shown(t, l) }
<1>1. ReadTree(t).link = [ q \in shown |-> t.link[q] ]
  BY DEF ReadTree
<1>2. p \in l1 <=> \E d \in DevsOf(t) : \E a \in ToSet(Symlinks) : p = <<"pci", d, 0, a>>
  BY DEF DevsOf
<1>3. /\ p \in l2 <=> \E r \in Bound(t, "rdma") : p = DevicePath("rdma", r)
      /\ p \in l3 <=> \E n \in Bound(t, "net") : p = DevicePath("net", n)
  OBVIOUS
<1> HIDE DEF l1, l2, l3
<1>4. p \in shown <=> IsLinkOf(t, p) /\ Shown(t, p)
  BY <1>2, <1>3 DEF IsLinkOf
<1> HIDE DEF shown
<1> QED BY <1>1, <1>4

LEMMA HostBad ==
  ASSUME NEW t, NEW x
  PROVE  x \in ReadTree(t).bad <=> IsBadOf(t, x)
<1> DEFINE devs == IF "pci" \in t.lists THEN { d \in DOMAIN t.bus : Resolves(t, d) } ELSE {}
           rdma == Bound(t, "rdma")
           b1 == IF "pci" \in t.lists THEN { <<"bus", d>> : d \in DOMAIN t.bus \ devs } ELSE {<<"bus", 0>>}
           b2 == IF "rdma" \in t.lists THEN { <<"rdma", r>> : r \in t.rdma \ rdma } ELSE {}
           b3 == { <<"ports", r>> : r \in rdma \ DOMAIN t.ports }
<1>1. ReadTree(t).bad = (b1 \cup b2) \cup b3
  BY DEF ReadTree
<1>2. devs = DevsOf(t)
  BY DEF DevsOf
<1> HIDE DEF devs, rdma
<1>3. x \in b1 <=> \/ "pci" \notin t.lists /\ x = <<"bus", 0>>
                   \/ "pci" \in t.lists /\ \E d \in DOMAIN t.bus : d \notin devs /\ x = <<"bus", d>>
  OBVIOUS
<1>4. x \in b2 <=> "rdma" \in t.lists /\ \E r \in t.rdma : r \notin rdma /\ x = <<"rdma", r>>
  OBVIOUS
<1>5. x \in b3 <=> \E r \in rdma : r \notin DOMAIN t.ports /\ x = <<"ports", r>>
  OBVIOUS
<1> HIDE DEF b1, b2, b3
<1> QED BY <1>1, <1>2, <1>3, <1>4, <1>5 DEF IsBadOf, rdma

-----------------------------------------------------------------------------
(* What a copy of a tree holds: what can be read of the tree, and no more. *)

\* A file of the host that the copy has as well: a node without a CPU list is not
\* in it.
Survives(h, p) == p \in DOMAIN h.val /\ (p[1] = "node" => h.val[p].st = "ok")
Result(T, p) == IF FileOf(T, p).st = "ok" THEN FileOf(T, p) ELSE Fault("missing")

Tells(T, h, u) ==
  /\ DOMAIN u.bus = DOMAIN h.dev /\ \A x \in DOMAIN h.dev : u.bus[x] = h.dev[x] /\ ToSet(h.dev[x].chain) \subseteq u.dirs
  /\ "pci" \in u.lists <=> DOMAIN h.dev # {}
  /\ \A n : "node" \in u.lists /\ n \in u.node <=> n \in NodesOf(h)
  /\ u.rdma = DOMAIN h.rdma /\ (u.rdma # {} => "rdma" \in u.lists)
  /\ u.net = h.net /\ (u.net # {} => "net" \in u.lists)
  /\ \A r \in DOMAIN h.rdma : r \in DOMAIN u.ports <=> h.rdma[r] # {}
  /\ \A r \in DOMAIN h.rdma : r \in DOMAIN u.ports => u.ports[r] = h.rdma[r]
  /\ \A p : IsLinkOf(T, p) => (p \in DOMAIN u.link <=> BaseOf(T, p) # 0)
  /\ \A p : p \in DOMAIN u.link => u.link[p] = T.link[p]
  /\ \A p : Survives(h, p) => Understood(p, FileOf(u, p)) = Understood(p, Result(T, p))

\* The host of such a copy.
TellsHost(T, h, g) ==
  /\ DOMAIN g.dev = DOMAIN h.dev /\ \A x \in DOMAIN h.dev : g.dev[x] = h.dev[x]
  /\ \A p : p \in DOMAIN g.val <=> Survives(h, p)
  /\ \A p \in DOMAIN g.val : g.val[p] = Understood(p, Result(T, p))
  /\ \A p : p \in DOMAIN g.link <=> IsLinkOf(T, p) /\ BaseOf(T, p) # 0
  /\ \A p \in DOMAIN g.link : g.link[p] = T.link[p]
  /\ DOMAIN g.rdma = DOMAIN h.rdma /\ \A r \in DOMAIN h.rdma : g.rdma[r] = h.rdma[r]
  /\ g.net = h.net
  /\ \A x : x \in g.bad <=> \/ DOMAIN h.dev = {} /\ x = <<"bus", 0>>
                            \/ \E r \in DOMAIN h.rdma : h.rdma[r] = {} /\ x = <<"ports", r>>

\* There is only one.
LEMMA ReadsOne ==
  ASSUME NEW T, NEW h, NEW g, NEW k, HostIsRecord(g), HostIsMade(g), HostIsRecord(k), HostIsMade(k),
         TellsHost(T, h, g), TellsHost(T, h, k)
  PROVE  g = k
<1>1. /\ DOMAIN g.dev = DOMAIN k.dev /\ \A x \in DOMAIN g.dev : g.dev[x] = k.dev[x]
      /\ DOMAIN g.rdma = DOMAIN k.rdma /\ \A x \in DOMAIN g.rdma : g.rdma[x] = k.rdma[x]
      /\ g.net = k.net
  BY DEF TellsHost
<1>2. DOMAIN g.val = DOMAIN k.val /\ \A x \in DOMAIN g.val : g.val[x] = k.val[x]
  <2>1. \A p : p \in DOMAIN g.val <=> p \in DOMAIN k.val
    BY DEF TellsHost
  <2>2. DOMAIN g.val = DOMAIN k.val
    BY <2>1
  <2> QED BY <2>2 DEF TellsHost
<1>3. DOMAIN g.link = DOMAIN k.link /\ \A x \in DOMAIN g.link : g.link[x] = k.link[x]
  <2>1. \A p : p \in DOMAIN g.link <=> p \in DOMAIN k.link
    BY DEF TellsHost
  <2>2. DOMAIN g.link = DOMAIN k.link
    BY <2>1
  <2> QED BY <2>2 DEF TellsHost
<1>4. g.bad = k.bad
  <2>1. \A x : x \in g.bad <=> x \in k.bad
    BY DEF TellsHost
  <2> QED BY <2>1
<1>5. ASSUME NEW f \in Mapped PROVE g[f] = k[f]
  <2>1. IsFcn(g[f]) /\ IsFcn(k[f])
    BY DEF HostIsMade
  <2>2. DOMAIN g[f] = DOMAIN k[f] /\ \A x \in DOMAIN g[f] : g[f][x] = k[f][x]
    BY <1>1, <1>2, <1>3 DEF Mapped
  <2> QED BY <2>1, <2>2 DEF IsFcn
<1>6. \A f \in Fields : g[f] = k[f]
  BY <1>1, <1>4, <1>5 DEF Fields, Mapped
<1> QED BY <1>6 DEF HostIsRecord

\* Reading it.
LEMMA TellsReads ==
  ASSUME NEW T, NEW h, h = ReadTree(T), NEW u, Tells(T, h, u)
  PROVE  TellsHost(T, h, ReadTree(u))
<1> PICK g : g = ReadTree(u)
  OBVIOUS
<1>1. /\ DOMAIN h.dev = DevsOf(T) /\ DOMAIN h.rdma = Bound(T, "rdma") /\ h.net = Bound(T, "net")
      /\ \A r \in Bound(T, "rdma") : h.rdma[r] = PortsOf(T, r)
      /\ \A x \in DevsOf(T) : h.dev[x] = T.bus[x]
  BY HostDevs, HostPorts
<1>2. DevsOf(u) = DOMAIN h.dev
  <2>1. ASSUME NEW x \in DOMAIN h.dev PROVE x \in DevsOf(u)
    <3>1. T.bus[x].chain # <<>>
      BY <1>1 DEF DevsOf, Resolves
    <3>2. x \in DOMAIN u.bus /\ u.bus[x] = h.dev[x] /\ ToSet(h.dev[x].chain) \subseteq u.dirs /\ "pci" \in u.lists
      BY DEF Tells
    <3>3. Resolves(u, x)
      BY <1>1, <3>1, <3>2 DEF Resolves
    <3> QED BY <3>2, <3>3 DEF DevsOf
  <2>2. \A x \in DevsOf(u) : x \in DOMAIN h.dev
    BY DEF DevsOf, Tells
  <2> QED BY <2>1, <2>2
<1>3. ASSUME NEW class \in {"rdma", "net"}, NEW S, S = (IF class = "rdma" THEN u.rdma ELSE u.net), S = Bound(T, class),
             S # {} => class \in u.lists
      PROVE  Bound(u, class) = S
  <2>1. ASSUME NEW x \in S PROVE BaseOf(u, DevicePath(class, x)) # 0
    <3>1. PICK p : p = DevicePath(class, x)
      OBVIOUS
    <3>2. IsLinkOf(T, p) /\ BaseOf(T, p) # 0
      BY <1>3, <3>1 DEF IsLinkOf, Bound
    <3>3. p \in DOMAIN u.link /\ u.link[p] = T.link[p]
      BY <3>2 DEF Tells
    <3> QED BY <3>1, <3>2, <3>3 DEF BaseOf
  <2> QED BY <1>3, <2>1 DEF Bound
<1>4. Bound(u, "rdma") = DOMAIN h.rdma /\ Bound(u, "net") = h.net
  <2>1. /\ u.rdma = DOMAIN h.rdma /\ (u.rdma # {} => "rdma" \in u.lists)
        /\ u.net = h.net /\ (u.net # {} => "net" \in u.lists)
    BY DEF Tells
  <2> QED BY <1>1, <1>3, <2>1
<1>5. \A r \in DOMAIN h.rdma : PortsOf(u, r) = h.rdma[r]
  BY DEF Tells, PortsOf
<1>6. DOMAIN g.dev = DOMAIN h.dev /\ \A x \in DOMAIN h.dev : g.dev[x] = h.dev[x]
  <2>1. DOMAIN g.dev = DevsOf(u) /\ \A x \in DevsOf(u) : g.dev[x] = u.bus[x]
    BY HostDevs
  <2> QED BY <1>2, <2>1 DEF Tells
<1>7. DOMAIN g.rdma = DOMAIN h.rdma /\ (\A r \in DOMAIN h.rdma : g.rdma[r] = h.rdma[r]) /\ g.net = h.net
  <2>1. /\ DOMAIN g.rdma = Bound(u, "rdma") /\ g.net = Bound(u, "net")
        /\ \A r \in Bound(u, "rdma") : g.rdma[r] = PortsOf(u, r)
    BY HostPorts
  <2> QED BY <1>4, <1>5, <2>1
<1>8. ASSUME NEW p PROVE IsFileOf(u, p) <=> Survives(h, p)
  <2>1. p \in DOMAIN h.val <=> IsFileOf(T, p)
    BY HostFiles
  <2>2. IsFileOf(u, p) <=>
          \/ \E d \in DOMAIN h.dev : \E a \in ToSet(IDFiles \o LinkFiles) : p = <<"pci", d, 0, a>>
          \/ \E n \in NodesOf(h) : p = <<"node", n, 0, "cpulist">>
          \/ \E r \in DOMAIN h.rdma : \E i \in h.rdma[r] : \E a \in ToSet(PortFiles) : p = <<"rdma", r, i, a>>
          \/ \E n \in h.net : \E a \in ToSet(NetFiles) : p = <<"net", n, 0, a>>
    <3>1. ("node" \in u.lists /\ \E n \in u.node : p = <<"node", n, 0, "cpulist">>)
            <=> \E n \in NodesOf(h) : p = <<"node", n, 0, "cpulist">>
      BY DEF Tells
    <3> QED BY <1>2, <1>4, <1>5, <3>1 DEF IsFileOf
  <2>3. ASSUME NEW n, p = <<"node", n, 0, "cpulist">> PROVE n \in NodesOf(h) <=> Survives(h, p)
    <3>1. n \in NodesOf(h) <=> "node" \in T.lists /\ n \in T.node /\ Understood(p, FileOf(T, p)).st = "ok"
      BY <2>3, HostNodes
    <3>2. p \in DOMAIN h.val <=> "node" \in T.lists /\ n \in T.node
      <4>1. p[1] = "node" /\ p[2] = n
        BY <2>3
      <4> QED BY <2>1, <2>3, <4>1 DEF IsFileOf
    <3>3. p[1] = "node"
      BY <2>3
    <3>4. p \in DOMAIN h.val => h.val[p] = Understood(p, FileOf(T, p))
      BY ReadTreeVal
    <3> QED BY <3>1, <3>2, <3>3, <3>4 DEF Survives
  <2>4. ASSUME NEW class, NEW x, NEW y, NEW a, p = <<class, x, y, a>>, class \in {"pci", "rdma", "net"}
        PROVE  p[1] # "node"
    BY <2>4
  <2>5. CASE \E d \in DOMAIN h.dev : \E a \in ToSet(IDFiles \o LinkFiles) : p = <<"pci", d, 0, a>>
    BY <1>1, <2>1, <2>2, <2>4, <2>5 DEF IsFileOf, Survives
  <2>6. CASE \E r \in DOMAIN h.rdma : \E i \in h.rdma[r] : \E a \in ToSet(PortFiles) : p = <<"rdma", r, i, a>>
    BY <1>1, <2>1, <2>2, <2>4, <2>6 DEF IsFileOf, Survives
  <2>7. CASE \E n \in h.net : \E a \in ToSet(NetFiles) : p = <<"net", n, 0, a>>
    BY <1>1, <2>1, <2>2, <2>4, <2>7 DEF IsFileOf, Survives
  <2>8. CASE \E n : p = <<"node", n, 0, "cpulist">>
    <3>1. PICK n : p = <<"node", n, 0, "cpulist">>
      BY <2>8
    <3>2. p[1] = "node" /\ p[2] = n
      BY <3>1
    <3>3. IsFileOf(u, p) <=> n \in NodesOf(h)
      BY <2>2, <2>4, <3>1, <3>2
    <3> QED BY <2>3, <3>1, <3>3
  <2>9. Survives(h, p) => IsFileOf(T, p)
    BY <2>1 DEF Survives
  <2> QED BY <1>1, <2>2, <2>5, <2>6, <2>7, <2>8, <2>9 DEF IsFileOf
<1>9. /\ \A p : p \in DOMAIN g.val <=> Survives(h, p)
      /\ \A p \in DOMAIN g.val : g.val[p] = Understood(p, Result(T, p))
  <2>1. ASSUME NEW p PROVE p \in DOMAIN g.val <=> Survives(h, p)
    BY <1>8, HostFiles
  <2>2. ASSUME NEW p \in DOMAIN g.val PROVE g.val[p] = Understood(p, Result(T, p))
    <3>1. g.val[p] = Understood(p, FileOf(u, p))
      BY ReadTreeVal
    <3>2. Understood(p, FileOf(u, p)) = Understood(p, Result(T, p))
      BY <2>1 DEF Tells
    <3> QED BY <3>1, <3>2
  <2> QED BY <2>1, <2>2
<1>10. /\ \A p : p \in DOMAIN g.link <=> IsLinkOf(T, p) /\ BaseOf(T, p) # 0
       /\ \A p \in DOMAIN g.link : g.link[p] = T.link[p]
  <2>1. ASSUME NEW p PROVE IsLinkOf(u, p) <=> IsLinkOf(T, p)
    BY <1>1, <1>2, <1>4 DEF IsLinkOf
  <2>2. ASSUME NEW p, IsLinkOf(T, p) PROVE Shown(u, p) <=> BaseOf(T, p) # 0
    <3>1. /\ p \in DOMAIN u.link <=> BaseOf(T, p) # 0
          /\ p \in DOMAIN u.link => u.link[p] = T.link[p]
      BY <2>2 DEF Tells
    <3> QED BY <3>1 DEF Shown, BaseOf
  <2>3. ASSUME NEW p PROVE p \in DOMAIN g.link <=> IsLinkOf(T, p) /\ BaseOf(T, p) # 0
    BY <2>1, <2>2, HostShows
  <2>4. ASSUME NEW p \in DOMAIN g.link PROVE g.link[p] = T.link[p]
    <3>1. p \in DOMAIN u.link
      BY <2>3 DEF Tells
    <3> QED BY <3>1, HostShows DEF Tells
  <2> QED BY <2>3, <2>4
<1>11. ASSUME NEW x
       PROVE x \in g.bad <=> \/ DOMAIN h.dev = {} /\ x = <<"bus", 0>>
                             \/ \E r \in DOMAIN h.rdma : h.rdma[r] = {} /\ x = <<"ports", r>>
  <2>1. x \in g.bad <=> IsBadOf(u, x)
    BY HostBad
  <2>2. /\ DOMAIN u.bus = DevsOf(u) /\ ("pci" \in u.lists <=> DOMAIN h.dev # {})
        /\ u.rdma = Bound(u, "rdma") /\ \A r \in DOMAIN h.rdma : r \in DOMAIN u.ports <=> h.rdma[r] # {}
    BY <1>2, <1>4 DEF Tells
  <2> QED BY <1>2, <1>4, <2>1, <2>2 DEF IsBadOf
<1> QED BY <1>6, <1>7, <1>9, <1>10, <1>11 DEF TellsHost

-----------------------------------------------------------------------------
(* Both the directory and Legible of the tree are such copies. *)

\* A capture that ended well into an empty directory makes one, if every file fits.
LEMMA CopyTells ==
  ASSUME NEW T, NEW h, NEW u, Finished(T, h, NoTree, u), NoMore(T, h, u), \A p \in DOMAIN h.val : FileFits(T, p)
  PROVE  Tells(T, h, u)
<1>1. /\ h = ReadTree(T)
      /\ DOMAIN h.dev = DevsOf(T) /\ DOMAIN h.rdma = Bound(T, "rdma") /\ h.net = Bound(T, "net")
      /\ \A r \in Bound(T, "rdma") : h.rdma[r] = PortsOf(T, r)
      /\ \A x \in DevsOf(T) : h.dev[x] = T.bus[x]
  BY HostDevs, HostPorts DEF Finished
<1>2. ASSUME NEW x \in DOMAIN h.dev
      PROVE  x \in DOMAIN u.bus /\ u.bus[x] = h.dev[x] /\ ToSet(h.dev[x].chain) \subseteq u.dirs /\ "pci" \in u.lists
  <2>1. x \in DevsOf(T)
    BY <1>1
  <2>2. x \in DevsOf(u) /\ x \in DOMAIN u.bus /\ u.bus[x] = T.bus[x] /\ "pci" \in u.lists
    BY <2>1, FunctionsDone
  <2>3. ToSet(u.bus[x].chain) \subseteq u.dirs
    BY <2>2 DEF DevsOf, Resolves
  <2> QED BY <1>1, <2>1, <2>2, <2>3
<1>3. DOMAIN u.bus = DOMAIN h.dev /\ ("pci" \in u.lists <=> DOMAIN h.dev # {})
  BY <1>2 DEF NoMore
<1>4. \A n : "node" \in u.lists /\ n \in u.node <=> n \in NodesOf(h)
  BY NodesDone DEF NoMore
<1>5. u.rdma = DOMAIN h.rdma /\ (u.rdma # {} => "rdma" \in u.lists)
  <2>1. \A r \in DOMAIN h.rdma : r \in u.rdma /\ "rdma" \in u.lists
    BY <1>1, PortsDone
  <2>2. u.rdma \subseteq DOMAIN h.rdma
    BY DEF NoMore
  <2> QED BY <2>1, <2>2
<1>6. u.net = h.net /\ (u.net # {} => "net" \in u.lists)
  <2>1. \A n \in h.net : n \in u.net /\ "net" \in u.lists
    BY <1>1, NetsDone
  <2>2. u.net \subseteq h.net
    BY DEF NoMore
  <2> QED BY <2>1, <2>2
<1>7. ASSUME NEW r \in DOMAIN h.rdma
      PROVE  (r \in DOMAIN u.ports <=> h.rdma[r] # {}) /\ (r \in DOMAIN u.ports => u.ports[r] = h.rdma[r])
  <2>1. \A i \in h.rdma[r] : r \in DOMAIN u.ports /\ i \in u.ports[r]
    BY <1>1, PortsDone
  <2>2. r \in DOMAIN u.ports => u.ports[r] # {} /\ u.ports[r] \subseteq h.rdma[r]
    BY DEF NoMore
  <2> QED BY <2>1, <2>2
<1>8. ASSUME NEW p, IsLinkOf(T, p) PROVE p \in DOMAIN u.link <=> BaseOf(T, p) # 0
  <2>1. p \in DOMAIN u.link => BaseOf(T, p) # 0
    BY DEF NoMore
  <2>2. ASSUME BaseOf(T, p) # 0 PROVE p \in DOMAIN u.link
    <3>1. ASSUME NEW x \in DevsOf(T), NEW a \in ToSet(Symlinks), p = <<"pci", x, 0, a>> PROVE Tied(T, u, p)
      BY <2>2, <3>1, FunctionsDone
    <3>2. ASSUME NEW r \in Bound(T, "rdma"), p = DevicePath("rdma", r) PROVE Tied(T, u, p)
      BY <3>2, PortsDone
    <3>3. ASSUME NEW n \in Bound(T, "net"), p = DevicePath("net", n) PROVE Tied(T, u, p)
      BY <3>3, NetsDone
    <3> QED BY <1>8, <3>1, <3>2, <3>3 DEF IsLinkOf, Tied
  <2> QED BY <2>1, <2>2
<1>9. \A p : p \in DOMAIN u.link => u.link[p] = T.link[p]
  BY DEF NoMore, Tied
<1>10. ASSUME NEW p, Survives(h, p) PROVE Understood(p, FileOf(u, p)) = Understood(p, Result(T, p))
  <2>1. CASE FileOf(T, p).st = "ok"
    <3>1. Copied(T, u, p)
      BY <1>10, <2>1, FilesDone DEF Survives
    <3>2. FileFits(T, p) /\ (p[1] = "node" => Understood(p, FileOf(T, p)).st = "ok")
      BY <1>1, <1>10, ReadTreeVal DEF Survives
    <3> QED BY <2>1, <3>1, <3>2, CopiedReads DEF Result
  <2>2. CASE FileOf(T, p).st # "ok"
    <3>1. p \notin DOMAIN u.file
      BY <2>2 DEF NoMore
    <3> QED BY <2>2, <3>1 DEF Result, FileOf
  <2> QED BY <2>1, <2>2
<1>11. \A x \in DOMAIN h.dev : u.bus[x] = h.dev[x] /\ ToSet(h.dev[x].chain) \subseteq u.dirs
  BY <1>2
<1>12. /\ \A r \in DOMAIN h.rdma : r \in DOMAIN u.ports <=> h.rdma[r] # {}
       /\ \A r \in DOMAIN h.rdma : r \in DOMAIN u.ports => u.ports[r] = h.rdma[r]
  BY <1>7
<1> QED BY <1>3, <1>4, <1>5, <1>6, <1>8, <1>9, <1>10, <1>11, <1>12 DEF Tells

\* The fields of what a copy can hold.
LEMMA LegibleIs ==
  ASSUME NEW T, IsTree(T), NEW h, h = ReadTree(T), NEW L, L = Legible(T)
  PROVE  /\ L.bus = h.dev /\ L.dirs = T.dirs /\ L.rdma = Bound(T, "rdma") /\ L.net = Bound(T, "net")
         /\ \A n : n \in L.node <=> n \in T.node /\ Understood(<<"node", n, 0, "cpulist">>, FileOf(T, <<"node", n, 0, "cpulist">>)).st = "ok"
         /\ \A r : r \in DOMAIN L.ports <=> r \in DOMAIN T.ports /\ T.ports[r] # {}
         /\ \A r \in DOMAIN L.ports : L.ports[r] = T.ports[r]
         /\ \A p : p \in DOMAIN L.file <=> p \in DOMAIN T.file /\ FileOf(T, p).st = "ok"
         /\ \A p \in DOMAIN L.file : L.file[p] = T.file[p]
         /\ \A p : p \in DOMAIN L.link <=> p \in DOMAIN T.link /\ T.link[p] # 0
         /\ \A p \in DOMAIN L.link : L.link[p] = T.link[p]
         /\ "pci" \in L.lists <=> "pci" \in T.lists /\ h.dev # <<>>
         /\ "node" \in L.lists <=> "node" \in T.lists /\ L.node # {}
         /\ "rdma" \in L.lists <=> "rdma" \in T.lists /\ L.rdma # {}
         /\ "net" \in L.lists <=> "net" \in T.lists /\ h.net # {}
<1> DEFINE IsRead(p) == Understood(p, FileOf(T, p)).st = "ok"
           node == { n \in T.node : IsRead(<<"node", n, 0, "cpulist">>) }
           rdma == Bound(T, "rdma")
           net == Bound(T, "net")
           ports == [ r \in { q \in DOMAIN T.ports : T.ports[q] # {} } |-> T.ports[r] ]
           file == [ p \in { q \in DOMAIN T.file : FileOf(T, q).st = "ok" } |-> T.file[p] ]
           link == [ p \in { q \in DOMAIN T.link : T.link[q] # 0 } |-> T.link[p] ]
           lists == { c \in T.lists : CASE c = "pci" -> h.dev # <<>> [] c = "node" -> node # {}
                                        [] c = "rdma" -> rdma # {} [] OTHER -> h.net # {} }
<1>1. L = [ T EXCEPT !.bus = h.dev, !.node = node, !.rdma = rdma, !.net = net, !.ports = ports, !.file = file,
                     !.link = link, !.lists = lists ]
  BY DEF Legible
<1>2. (\A n : n \in node <=> n \in T.node /\ Understood(<<"node", n, 0, "cpulist">>, FileOf(T, <<"node", n, 0, "cpulist">>)).st = "ok")
  OBVIOUS
<1>3. /\ \A r : r \in DOMAIN ports <=> r \in DOMAIN T.ports /\ T.ports[r] # {}
      /\ \A r \in DOMAIN ports : ports[r] = T.ports[r]
  OBVIOUS
<1>4. /\ \A p : p \in DOMAIN file <=> p \in DOMAIN T.file /\ FileOf(T, p).st = "ok"
      /\ \A p \in DOMAIN file : file[p] = T.file[p]
  OBVIOUS
<1>5. /\ \A p : p \in DOMAIN link <=> p \in DOMAIN T.link /\ T.link[p] # 0
      /\ \A p \in DOMAIN link : link[p] = T.link[p]
  OBVIOUS
<1> HIDE DEF node, rdma, net, ports, file, link
<1>6. /\ "pci" \in lists <=> "pci" \in T.lists /\ h.dev # <<>>
      /\ "node" \in lists <=> "node" \in T.lists /\ node # {}
      /\ "rdma" \in lists <=> "rdma" \in T.lists /\ rdma # {}
      /\ "net" \in lists <=> "net" \in T.lists /\ h.net # {}
  OBVIOUS
<1> HIDE DEF lists
<1>7. /\ L.bus = h.dev /\ L.dirs = T.dirs /\ L.node = node /\ L.rdma = rdma /\ L.net = net /\ L.ports = ports
      /\ L.file = file /\ L.link = link /\ L.lists = lists
  BY <1>1 DEF IsTree, TreeFields
<1> QED BY <1>2, <1>3, <1>4, <1>5, <1>6, <1>7 DEF rdma, net

\* Legible is one.
LEMMA LegibleTells ==
  ASSUME NEW T, IsTree(T), NEW h, h = ReadTree(T), NEW L, L = Legible(T)
  PROVE  Tells(T, h, L)
<1>1. /\ DOMAIN h.dev = DevsOf(T) /\ DOMAIN h.rdma = Bound(T, "rdma") /\ h.net = Bound(T, "net")
      /\ \A r \in Bound(T, "rdma") : h.rdma[r] = PortsOf(T, r)
      /\ \A x \in DevsOf(T) : h.dev[x] = T.bus[x]
  BY HostDevs, HostPorts
<1>2. h.dev = <<>> <=> DOMAIN h.dev = {}
  <2>1. DOMAIN <<>> = {} /\ <<>> = [ x \in {} |-> x ]
    OBVIOUS
  <2>2. IsFcn(h.dev)
    BY ReadTreeIs DEF HostIsMade, Mapped
  <2> QED BY <2>1, <2>2 DEF IsFcn
<1>3. "pci" \in L.lists <=> DOMAIN h.dev # {}
  <2>1. "pci" \in L.lists <=> "pci" \in T.lists /\ h.dev # <<>>
    BY LegibleIs
  <2>2. DOMAIN h.dev # {} => "pci" \in T.lists
    BY <1>1 DEF DevsOf
  <2> QED BY <1>2, <2>1, <2>2
<1>4. DOMAIN L.bus = DOMAIN h.dev /\ \A x \in DOMAIN h.dev : L.bus[x] = h.dev[x] /\ ToSet(h.dev[x].chain) \subseteq L.dirs
  <2>1. L.bus = h.dev /\ L.dirs = T.dirs
    BY LegibleIs
  <2>2. \A x \in DevsOf(T) : ToSet(T.bus[x].chain) \subseteq T.dirs
    BY DEF DevsOf, Resolves
  <2> QED BY <1>1, <2>1, <2>2
<1>5. ASSUME NEW n PROVE "node" \in L.lists /\ n \in L.node <=> n \in NodesOf(h)
  <2>1. PICK p : p = <<"node", n, 0, "cpulist">>
    OBVIOUS
  <2>2. n \in L.node <=> n \in T.node /\ Understood(p, FileOf(T, p)).st = "ok"
    BY <2>1, LegibleIs
  <2>3. n \in L.node => ("node" \in L.lists <=> "node" \in T.lists)
    BY LegibleIs
  <2>4. n \in NodesOf(h) <=> "node" \in T.lists /\ n \in T.node /\ Understood(p, FileOf(T, p)).st = "ok"
    BY <2>1, HostNodes
  <2> QED BY <2>2, <2>3, <2>4
<1>6. /\ L.rdma = DOMAIN h.rdma /\ (L.rdma # {} => "rdma" \in L.lists)
      /\ L.net = h.net /\ (L.net # {} => "net" \in L.lists)
  <2>1. /\ L.rdma = Bound(T, "rdma") /\ ("rdma" \in L.lists <=> "rdma" \in T.lists /\ L.rdma # {})
        /\ L.net = Bound(T, "net") /\ ("net" \in L.lists <=> "net" \in T.lists /\ h.net # {})
    BY LegibleIs
  <2>2. \A class : Bound(T, class) # {} => class \in T.lists
    BY DEF Bound
  <2> QED BY <1>1, <2>1, <2>2
<1>7. /\ \A r \in DOMAIN h.rdma : r \in DOMAIN L.ports <=> h.rdma[r] # {}
      /\ \A r \in DOMAIN h.rdma : r \in DOMAIN L.ports => L.ports[r] = h.rdma[r]
  <2>1. /\ \A r : r \in DOMAIN L.ports <=> r \in DOMAIN T.ports /\ T.ports[r] # {}
        /\ \A r \in DOMAIN L.ports : L.ports[r] = T.ports[r]
    BY LegibleIs
  <2> QED BY <1>1, <2>1 DEF PortsOf
<1>8. /\ \A p : p \in DOMAIN L.link <=> BaseOf(T, p) # 0
      /\ \A p : p \in DOMAIN L.link => L.link[p] = T.link[p]
  <2>1. /\ \A p : p \in DOMAIN L.link <=> p \in DOMAIN T.link /\ T.link[p] # 0
        /\ \A p \in DOMAIN L.link : L.link[p] = T.link[p]
    BY LegibleIs
  <2> QED BY <2>1 DEF BaseOf
<1>9. ASSUME NEW p PROVE FileOf(L, p) = Result(T, p)
  <2>1. /\ p \in DOMAIN L.file <=> p \in DOMAIN T.file /\ FileOf(T, p).st = "ok"
        /\ p \in DOMAIN L.file => L.file[p] = T.file[p]
    BY LegibleIs
  <2>2. CASE FileOf(T, p).st = "ok"
    <3>1. p \in DOMAIN T.file
      BY <2>2 DEF FileOf, Fault
    <3> QED BY <2>1, <2>2, <3>1 DEF FileOf, Result
  <2>3. CASE FileOf(T, p).st # "ok"
    <3>1. p \notin DOMAIN L.file
      BY <2>1, <2>3
    <3> QED BY <2>3, <3>1 DEF FileOf, Result
  <2> QED BY <2>2, <2>3
<1> QED BY <1>3, <1>4, <1>5, <1>6, <1>7, <1>8, <1>9 DEF Tells

-----------------------------------------------------------------------------
(* The theorems. *)

\* Whatever the tree does between two system calls, a value in the report is
\* one its attribute had during the read (read.go:66-109).
THEOREM ValuesWereTrue == Spec => []EachValueWasTrue
  BY Invariance, PTL DEF IInv

\* A function that is listed all the time is in the host or among the problems
\* when Read has returned, for any trees and changes (pci.go:165-232).
THEOREM NoFunctionIsLost == Spec => []ListedOrReported
  BY WorkInvariance, ListedHolds, PTL

\* If the maxima of a link do not change, gpu-link says FAIL only of a link
\* that was below its own maximum at one moment of the read (build.go:77-97).
THEOREM FailWasTrue ==
  ASSUME SteadyMaxima
  PROVE  Spec => []DegradedWasReal
<1>1. IInv /\ WorkInv => DegradedWasReal
  BY DegradedHolds DEF IInv, EachValueWasTrue, WorkInv
<1> QED BY <1>1, WorkInvariance, PTL

\* A copy into an empty directory is read as nothing that was not so during the
\* capture, whether or not it came to its end, but for how a text above the limit
\* began (capture.go:92-106).
THEOREM CopyIsTrue == Spec => []CopyInventsNothing
<1>1. CopyInv /\ IInv /\ WorkInv /\ [Next]_vars => CopyInv'
  BY NextCopyInv
<1>2. Spec => []CopyInv
  BY <1>1, InitCopyInv, WorkInvariance, PTL DEF Spec
<1>3. CopyInv /\ IInv => CopyInventsNothing
  BY InventsNothing
<1> QED BY <1>2, <1>3, WorkInvariance, PTL

\* While the tree holds still, Read finds all that it says and nothing else, in
\* steps of one system call (pci.go:150-286, ports.go:47-155).
THEOREM StillIsRead == Spec => []StillTreeIsRead
<1>1. StillInv => StillTreeIsRead
  BY DEF StillInv, StillTreeIsRead
<1> QED BY <1>1, StillInvariance, PTL

\* Of a tree that held still, what can be read and fits is in the directory after a
\* capture that ended well, whatever an earlier one left there (capture.go:34-45,
\* 94-106).
THEOREM Refreshes == Spec => []RecaptureRefreshes
<1>1. ASSUME StillInv, DoneInv PROVE RecaptureRefreshes
  <2> SUFFICES ASSUME code = 0, Still, failed = 0
               PROVE  LET is == ReadTree(Tree)
                          copy == ReadTree(dst)
                      IN /\ \A d \in DOMAIN is.dev : d \in DOMAIN copy.dev /\ copy.dev[d] = is.dev[d]
                         /\ \A p \in DOMAIN is.val :
                              FileOf(Tree, p).st = "ok" /\ FileFits(Tree, p) /\ (p[1] = "node" => is.val[p].st = "ok")
                                => p \in DOMAIN copy.val /\ copy.val[p] = is.val[p]
    BY DEF RecaptureRefreshes
  <2>1. PICK T, h, o, u : T = Tree /\ h = ReadTree(T) /\ o = old /\ u = dst
    OBVIOUS
  <2>2. Finished(T, h, o, u)
    BY <1>1, <2>1, AllIsDone DEF Finished
  <2>3. ASSUME NEW x \in DOMAIN h.dev PROVE x \in DOMAIN ReadTree(u).dev /\ ReadTree(u).dev[x] = h.dev[x]
    <3>1. x \in DevsOf(T)
      BY <2>1, HostDevs
    <3> QED BY <2>1, <2>2, <3>1, FunctionsDone, HostDevs
  <2>4. ASSUME NEW p \in DOMAIN h.val, FileOf(T, p).st = "ok", FileFits(T, p), p[1] = "node" => h.val[p].st = "ok"
        PROVE  p \in DOMAIN ReadTree(u).val /\ ReadTree(u).val[p] = h.val[p]
    <3>1. IsFileOf(u, p) /\ Copied(T, u, p)
      BY <2>2, <2>4, FilesDone
    <3>2. p \in DOMAIN ReadTree(u).val
      BY <3>1, HostFiles
    <3>3. h.val[p] = Understood(p, FileOf(T, p)) /\ ReadTree(u).val[p] = Understood(p, FileOf(u, p))
      BY <2>1, <2>4, <3>2, ReadTreeVal
    <3>4. Understood(p, FileOf(u, p)) = Understood(p, FileOf(T, p))
      BY <2>4, <3>1, <3>3, CopiedReads
    <3> QED BY <3>2, <3>3, <3>4
  <2> QED BY <2>1, <2>3, <2>4
<1> QED BY <1>1, DoneInvariance, PTL

\* A capture into an empty directory, of a tree that held still and of which every
\* file fits, reads as the tree without what could not be read: nothing that can be
\* read is missing, and nothing else is there (capture.go:11-106).
THEOREM CopyTellsIt == Spec => []CopyTellsTheTree
<1>1. ASSUME WorkInv, StillInv, DoneInv PROVE CopyTellsTheTree
  <2> SUFFICES ASSUME code = 0, Still, old = NoTree, failed = 0, \A p \in DOMAIN ReadTree(Tree).val : FileFits(Tree, p)
               PROVE  ReadTree(dst) = ReadTree(Legible(Tree))
    BY DEF CopyTellsTheTree
  <2>1. PICK T, h, u, L : T = Tree /\ h = ReadTree(T) /\ u = dst /\ L = Legible(T)
    OBVIOUS
  <2>2. IsTree(T)
    <3>1. now \in DOMAIN Trees
      BY <1>1 DEF WorkInv
    <3>2. T = [ f \in DOMAIN NoTree |-> T[f] ]
      BY <2>1, <3>1, ShapeAssumption DEF Tree
    <3>3. DOMAIN NoTree = TreeFields
      BY DEF NoTree, TreeFields
    <3> QED BY <3>2, <3>3 DEF IsTree
  <2>3. Finished(T, h, NoTree, u) /\ NoMore(T, h, u)
    BY <1>1, <2>1, AllIsDone DEF Finished
  <2>4. Tells(T, h, u) /\ Tells(T, h, L)
    BY <2>1, <2>2, <2>3, CopyTells, LegibleTells
  <2>5. TellsHost(T, h, ReadTree(u)) /\ TellsHost(T, h, ReadTree(L))
    BY <2>1, <2>4, TellsReads
  <2>6. \A t : HostIsRecord(ReadTree(t)) /\ HostIsMade(ReadTree(t))
    BY ReadTreeIs
  <2>7. ReadTree(u) = ReadTree(L)
    BY <2>5, <2>6, ReadsOne
  <2> QED BY <2>1, <2>7
<1> QED BY <1>1, DoneInvariance, PTL
=============================================================================
