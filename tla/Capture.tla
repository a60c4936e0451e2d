------------------------------- MODULE Capture -------------------------------
(***************************************************************************)
(* pathctl capture: Read of the tree, then a second pass that copies file  *)
(* by file what Read found into a directory, which may hold an earlier     *)
(* capture.  The tree may change during both passes, and a write may fail. *)
(* The commands path and check end where the second pass begins.           *)
(***************************************************************************)
EXTENDS Reader

CONSTANTS
  Olds,      \* what the directory may hold before, trees
  MayFail,   \* the operations that end a capture may fail
  MaxFailed  \* bound on the errors that are ignored, less one for every change of the tree before

VARIABLES
  copying,  \* the second pass has begun
  dst,      \* the directory as a tree
  old,      \* history: what the directory held before
  failed,   \* history: how many errors of writes and symlinks were ignored
  code      \* the exit code, -1 before
captureVars == <<copying, dst, old, failed, code>>
vars == <<readVars, captureVars>>

NoTree ==
  [ lists |-> {}, bus |-> <<>>, dirs |-> {}, node |-> {}, rdma |-> {}, net |-> {},
    ports |-> <<>>, link |-> <<>>, file |-> <<>> ]

\* A tree has all of these fields, what the directory holds before as well.
ASSUME ShapeAssumption ==
  \A t \in Olds \cup { Trees[i] : i \in DOMAIN Trees } : t = [ f \in DOMAIN NoTree |-> t[f] ]

Init ==
  /\ ReadInit
  /\ copying = FALSE
  /\ old \in Olds /\ dst = old
  /\ failed = 0 /\ code = -1

Reads == ReadStep /\ UNCHANGED captureVars

-----------------------------------------------------------------------------
\* What Capture does after Read, in the order of its loops.
CopyWork ==
  LET Each(names, Work(_)) == FlattenSeq([ i \in DOMAIN InOrder(names) |-> Work(InOrder(names)[i]) ])
      Copies(class, x, y, names) == [ i \in DOMAIN names |-> Task("copy", <<class, x, y, names[i]>>) ]
      OfFunction(d) ==
        << Task("mkdir", <<"pci", d, 0, "">>) >> \o Copies("pci", d, 0, IDFiles \o LinkFiles)
          \o [ i \in DOMAIN Symlinks |-> Task("symlink", <<"pci", d, 0, Symlinks[i]>>) ]
          \o << Task("relink", <<"pci", d, 0, "">>) >>
      OfNode(n) == << Task("node", <<"node", n, 0, "cpulist">>) >>
      OfRDMA(r) ==
        LET OfPort(i) == << Task("mkdir", <<"rdma", r, i, "">>) >> \o Copies("rdma", r, i, PortFiles)
        IN << Task("relink", DevicePath("rdma", r)) >> \o Each(host.rdma[r], OfPort)
      OfNet(n) == << Task("relink", DevicePath("net", n)) >> \o Copies("net", n, 0, NetFiles)
      nodes == { p[2] : p \in { q \in DOMAIN host.val : q[1] = "node" /\ host.val[q].st = "ok" } }
  IN Each(DOMAIN host.dev, OfFunction) \o Each(nodes, OfNode)
       \o Each(DOMAIN host.rdma, OfRDMA) \o Each(host.net, OfNet)

\* Read has returned: path and check go on to Build, capture copies.
ReadEnds ==
  /\ ReadReturns /\ ~copying
  /\ copying' = TRUE /\ todo' = CopyWork
  /\ UNCHANGED <<now, changes, pc, seat, handle, data, host, span, during, dst, old, failed, code>>

Wrote(d) == dst' = d
CopyTurn(op) == copying /\ Turn(op)
Next1 == todo' = Tail(todo) /\ UNCHANGED <<now, changes, pc, seat, handle, data, host, span, during>>

\* MkdirAll of the directory of a function, with those above it, or of a port.
Made ==
  IF At[1] = "pci"
    THEN [dst EXCEPT !.dirs = @ \cup ToSet(host.dev[At[2]].chain)]
    ELSE [dst EXCEPT !.ports = Put(@, At[2], (IF At[2] \in DOMAIN @ THEN @[At[2]] ELSE {}) \cup {At[3]})]
MkDir == CopyTurn("mkdir") /\ Wrote(Made) /\ Next1 /\ UNCHANGED <<copying, old, failed, code>>

\* The link of a function in bus/pci/devices, or of an RDMA device or an
\* interface to its function, is removed and made anew.
Relinked ==
  LET x == At[2]
  IN CASE At[1] = "pci" -> [dst EXCEPT !.bus = Put(@, x, host.dev[x]), !.lists = @ \cup {"pci"}]
       [] At[1] = "rdma" -> [dst EXCEPT !.rdma = @ \cup {x}, !.link = Put(@, At, host.link[At]), !.lists = @ \cup {"rdma"}]
       [] OTHER -> [dst EXCEPT !.net = @ \cup {x}, !.link = Put(@, At, host.link[At]), !.lists = @ \cup {"net"}]
Relink == CopyTurn("relink") /\ Wrote(Relinked) /\ Next1 /\ UNCHANGED <<copying, old, failed, code>>

File(text) == [kind |-> "file", text |-> text]

\* The CPU list of a node is written as it was read, with a line end, for which
\* the longest that is read has no room.
WithLineEnd(v) == TextOf(v, v = Longest, v # Longest)
WriteNode ==
  /\ CopyTurn("node")
  /\ Wrote([ dst EXCEPT !.node = @ \cup {At[2]}, !.lists = @ \cup {"node"},
             !.file = Put(@, At, File(WithLineEnd(host.val[At].val))) ])
  /\ Next1 /\ UNCHANGED <<copying, old, failed, code>>

\* What a write that fails may leave of a text: an empty file, or of one that is
\* too long its first MaxAttrBytes, which are a block of the disk.
Beginnings(text) == { Text(Blank) } \cup (IF text.long THEN { TextOf(text.says, FALSE, text.room) } ELSE {})

\* What an operation that fails half way leaves: the old link is removed and
\* there is no new one, a node has the beginning of a CPU list or none.
HalfDone ==
  LET x == At[2]
      Less(f, k) == [ y \in DOMAIN f \ {k} |-> f[y] ]
      Node(files) == [dst EXCEPT !.node = @ \cup {x}, !.lists = @ \cup {"node"}, !.file = files]
  IN CASE Head1.op = "mkdir" -> {dst}
       [] Head1.op = "node" ->
            {dst, Node(dst.file)}
              \cup { Node(Put(dst.file, At, File(text))) : text \in Beginnings(WithLineEnd(host.val[At].val)) }
       [] At[1] = "pci" -> {dst, [dst EXCEPT !.bus = Less(@, x), !.lists = @ \cup {"pci"}]}
       [] At[1] = "rdma" -> {dst, [dst EXCEPT !.rdma = @ \cup {x}, !.link = Less(@, At), !.lists = @ \cup {"rdma"}]}
       [] OTHER -> {dst, [dst EXCEPT !.net = @ \cup {x}, !.link = Less(@, At), !.lists = @ \cup {"net"}]}

\* An error of MkdirAll, of a link to a function or of a CPU list ends it.
CopyFails ==
  /\ copying /\ pc = "next" /\ todo # <<>> /\ MayFail
  /\ Head1.op \in {"mkdir", "relink", "node"}
  /\ pc' = "done" /\ code' = 1 /\ dst' \in HalfDone
  /\ UNCHANGED <<now, changes, todo, seat, handle, data, host, span, during, copying, old, failed>>

\* driver and physfn: read a second time; the error of Symlink is ignored: one
\* that is there is kept, and of another error there is no link.
ToLink == BaseOf(Tree, At) # 0 /\ At \notin DOMAIN dst.link
Symlink1 ==
  /\ CopyTurn("symlink")
  /\ Wrote(IF ToLink THEN [dst EXCEPT !.link = Put(@, At, BaseOf(Tree, At))] ELSE dst)
  /\ Next1 /\ UNCHANGED <<copying, old, failed, code>>

SymlinkFails ==
  /\ CopyTurn("symlink") /\ ToLink /\ failed + changes < MaxFailed
  /\ failed' = failed + 1
  /\ Next1 /\ UNCHANGED <<copying, dst, old, code>>

\* What is longer than the limit is cut, and what does not end in a line end
\* gets one: it is too long again, or its beginning has become all of it.  A
\* configuration space is cut only.
Cut(p, text) == TextOf(text.says, p[4] # "config" /\ ~text.room, text.room)

\* Mutants of Written: a file is kept when there is one; a file that cannot be
\* read is copied as a zero.
WrittenOnce(r) ==
  IF r.st = "ok" /\ At \notin DOMAIN dst.file THEN [dst EXCEPT !.file = Put(@, At, File(Cut(At, r.val)))] ELSE dst
WrittenAlways(r) ==
  [dst EXCEPT !.file = Put(@, At, File(IF r.st = "ok" THEN Cut(At, r.val) ELSE Text(0)))]

\* copyFile: what could be read is written, whatever is there.
Written(r) == IF r.st = "ok" THEN [dst EXCEPT !.file = Put(@, At, File(Cut(At, r.val)))] ELSE dst

CopyFile(r) ==
  /\ pc = "back" /\ Head1.op = "copy" /\ data = {r}
  /\ Wrote(Written(r))
  /\ pc' = "next" /\ todo' = Tail(todo) /\ data' = {}
  /\ UNCHANGED <<now, changes, seat, handle, host, span, during, copying, old, failed, code>>

\* The error of WriteFile is ignored: no file, the old one, or a beginning.
CopyFileFails(r) ==
  /\ pc = "back" /\ Head1.op = "copy" /\ data = {r} /\ r.st = "ok" /\ failed + changes < MaxFailed
  /\ dst' \in {dst} \cup { [dst EXCEPT !.file = Put(@, At, File(text))] : text \in Beginnings(Cut(At, r.val)) }
  /\ failed' = failed + 1
  /\ pc' = "next" /\ todo' = Tail(todo) /\ data' = {}
  /\ UNCHANGED <<now, changes, seat, handle, host, span, during, copying, old, code>>

CopyEnds ==
  /\ copying /\ ReadReturns /\ pc' = "done" /\ code' = 0
  /\ UNCHANGED <<now, changes, todo, seat, handle, data, host, span, during, copying, dst, old, failed>>

Copies1 ==
  \/ ReadEnds \/ MkDir \/ Relink \/ WriteNode \/ CopyFails \/ Symlink1 \/ SymlinkFails \/ CopyEnds
  \/ \E r \in data : CopyFile(r) \/ CopyFileFails(r)

Next == Reads \/ Copies1 \/ (Changes /\ UNCHANGED captureVars)

\* The program takes its next step; nothing is assumed of the tree.
Spec == Init /\ [][Next]_vars /\ WF_vars(Reads \/ Copies1)

-----------------------------------------------------------------------------
\* What readFile returned, its file was at a moment of this readFile.
DataWasRead ==
  \A r \in data : r.st = "ok" => \E i \in span : FileOf(Trees[i], At) = r

\* A value of the host is one its attribute had during Read.
ValuesWereSo ==
  \A p \in DOMAIN host.val :
    host.val[p].st = "ok" => \E i \in during : Understood(p, FileOf(Trees[i], p)) = host.val[p]

ListedAs(d, at) == \E i \in during : d \in DOMAIN Trees[i].bus /\ Trees[i].bus[d] = at
WasDir(dir) == \E i \in during : dir \in Trees[i].dirs

\* A function of the host was listed with its chain and every directory of the
\* chain was there, if at different moments.
DevicesWereThere ==
  \A d \in DOMAIN host.dev :
    ListedAs(d, host.dev[d]) /\ \A k \in 1..Len(host.dev[d].chain) : WasDir(host.dev[d].chain[k])

LinksWereSo ==
  \A p \in DOMAIN host.link : \E i \in during : p \in DOMAIN Trees[i].link /\ Trees[i].link[p] = host.link[p]

\* Nothing in the host was never so, whatever the tree does between two system
\* calls: the kind that was looked at before the open is not taken for the kind
\* of what was opened, and a chain is not kept whose directories were never
\* there (read.go:66-92, pci.go:188-265).
EachValueWasTrue == DataWasRead /\ ValuesWereSo /\ DevicesWereThere /\ LinksWereSo

\* A function that is listed all the time is in the host or among the problems,
\* whatever happens to its directories meanwhile (pci.go:165-184, 188-232).
ListedOrReported ==
  copying => \A d \in UNION { DOMAIN Trees[i].bus : i \in during } :
    (\A i \in during : "pci" \in Trees[i].lists /\ d \in DOMAIN Trees[i].bus)
      => d \in DOMAIN host.dev \/ <<"bus", d>> \in host.bad

Still == \E i \in during : during = {i}

\* Of a tree that holds still the steps read exactly what it says (pci.go:150).
StillTreeIsRead == copying /\ Still => host = ReadTree(Tree)

\* The number an attribute of a function spelt in the tree i, if it is one of
\* those such an attribute can have, whatever the reader makes of it.
Was(i, d, name, valid) ==
  LET f == FileOf(Trees[i], <<"pci", d, 0, name>>)
  IN IF f.st = "ok" /\ ~f.val.long THEN {f.val.says} \cap valid ELSE {}

\* The link of the function was below its own maximum at some moment.
WasBelow(d, current, max, valid) ==
  \E i \in during : \E c \in Was(i, d, current, valid), m \in Was(i, d, max, valid) : c < m

\* gpu-link says FAIL only of a link that was degraded at some moment of the
\* read, although width and speed are read one after the other (pci.go:268-271,
\* build.go:77-97).
DegradedWasReal ==
  copying =>
    LET checks == ChecksFor(PathHost(host))
    IN \A g \in DOMAIN checks : checks[g].gpu_link = "FAIL" =>
         \/ WasBelow(g, "current_link_width", "max_link_width", ValidWidths)
         \/ WasBelow(g, "current_link_speed", "max_link_speed", ValidSpeeds)

\* What a link can do at most is the same in every tree that says what it does:
\* it is read from the link capabilities of the device, which do not change.
Steady(current, max, valid) ==
  \A i, j \in DOMAIN Trees : \A p \in DOMAIN Trees[i].file :
    Was(i, p[2], current, valid) # {} /\ Was(j, p[2], max, valid) # {}
      => Was(i, p[2], max, valid) = Was(j, p[2], max, valid)
SteadyMaxima ==
  /\ Steady("current_link_width", "max_link_width", ValidWidths)
  /\ Steady("current_link_speed", "max_link_speed", ValidSpeeds)

\* What the copy of a tree can hold: the files that can be read, and no
\* directory without an entry.
Legible(t) ==
  LET h == ReadTree(t)
      IsRead(p) == Understood(p, FileOf(t, p)).st = "ok"
      node == { n \in t.node : IsRead(<<"node", n, 0, "cpulist">>) }
      rdma == Bound(t, "rdma")
  IN [ t EXCEPT
         !.bus = h.dev, !.node = node, !.rdma = rdma, !.net = Bound(t, "net"),
         !.ports = [ r \in { q \in DOMAIN @ : @[q] # {} } |-> @[r] ],
         !.file = [ p \in { q \in DOMAIN @ : FileOf(t, q).st = "ok" } |-> @[p] ],
         !.link = [ p \in { q \in DOMAIN @ : @[q] # 0 } |-> @[p] ],
         !.lists = { c \in @ : CASE c = "pci" -> h.dev # <<>> [] c = "node" -> node # {}
                                 [] c = "rdma" -> rdma # {} [] OTHER -> h.net # {} } ]

\* The text of the file at p keeps its meaning with a line end behind it: a CPU
\* list is not the longest, another attribute is below the limit or ends there
\* in a line end, or is too long and stays so.  An image needs no line end.
Fits(p, text) ==
  IF p[1] = "node" THEN text.says # Longest ELSE p[4] = "config" \/ (text.long <=> ~text.room)
FileFits(t, p) == FileOf(t, p).st = "ok" => Fits(p, FileOf(t, p).val)

\* A capture into an empty directory of a tree that holds still reads as the
\* tree without what could not be read, if every file fits (capture.go:11-15,
\* 92-106): one of MaxAttrBytes without a line end is too long in the copy, and
\* one that is too long may be cut at a line end (capture.go:52, 99-104).
CopyTellsTheTree ==
  code = 0 /\ Still /\ old = NoTree /\ failed = 0
    /\ (\A p \in DOMAIN ReadTree(Tree).val : FileFits(Tree, p)) =>
    ReadTree(dst) = ReadTree(Legible(Tree))

\* The beginning of the text of the file at p says what the host h has there,
\* and the text is too long: cut at a line end, or a write of it has failed.
BeginsWith(t, p, h) ==
  LET text == FileOf(t, p).val
  IN /\ FileOf(t, p).st = "ok" /\ text.long /\ (text.room \/ failed > 0)
     /\ Meaning(p[4], Text(text.says)) = h.val[p]

\* The copy into an empty directory shows nothing that was not so at some
\* moment of the capture, although every file is read a second time, and though
\* it may have ended with an error or with writes that failed.  What it shows of
\* an attribute above the limit is how the attribute began (capture.go:99-101).
CopyInventsNothing ==
  pc = "done" /\ old = NoTree =>
    LET copy == ReadTree(dst)
    IN /\ \A d \in DOMAIN copy.dev : \E i \in during : d \in DOMAIN Trees[i].bus /\ Trees[i].bus[d] = copy.dev[d]
       /\ \A p \in DOMAIN copy.val : copy.val[p].st = "ok" =>
            \E i \in during : \/ Understood(p, FileOf(Trees[i], p)) = copy.val[p]
                              \/ BeginsWith(Trees[i], p, copy)
                              \/ p[4] = "config" /\ copy.val[p].val = Blank

\* Captured again into the same directory, what can be read and fits is not
\* hidden by what the earlier capture left (capture.go:34-45, 94-106).
RecaptureRefreshes ==
  code = 0 /\ Still /\ failed = 0 =>
    LET is == ReadTree(Tree)
        copy == ReadTree(dst)
    IN /\ \A d \in DOMAIN is.dev : d \in DOMAIN copy.dev /\ copy.dev[d] = is.dev[d]
       /\ \A p \in DOMAIN is.val :
            FileOf(Tree, p).st = "ok" /\ FileFits(Tree, p) /\ (p[1] = "node" => is.val[p].st = "ok")
              => p \in DOMAIN copy.val /\ copy.val[p] = is.val[p]

\* Reading and copying come to an end, FIFOs and all (read.go:64-65).
CaptureEnds == <>(pc = "done")

\* "so that Read(out) sees what Read(root) saw" (capture.go:11-12).
CopySeesWhatReadSaw ==
  code = 0 /\ Still /\ old = NoTree => ReadTree(dst) = host
=============================================================================
