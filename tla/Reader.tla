-------------------------------- MODULE Reader --------------------------------
(***************************************************************************)
(* Read of internal/sysfs, one system call after the other, against a tree *)
(* that may change between any two of them: a link retrains, a device is   *)
(* removed or falls off the bus, a file is replaced by a FIFO.             *)
(*                                                                         *)
(* `todo` holds the work that is left in the order of the code; the action *)
(* of a listing or of a link puts the work it leads to in front of it.     *)
(***************************************************************************)
EXTENDS SysFiles

CONSTANTS
  Trees,      \* what the tree may be: index -> tree
  MaxChanges  \* bound on the changes of the tree

\* What a directory lists is finite, and its names are numbers here; a chain is
\* a list of them.
ASSUME TreeAssumption ==
  \A i \in DOMAIN Trees :
    LET t == Trees[i]
    IN /\ \A d \in DOMAIN t.bus : t.bus[d].chain \in Seq(Int)
       /\ \A S \in {DOMAIN t.bus, t.node, t.rdma, t.net} : S \subseteq Int /\ IsFiniteSet(S)
       /\ \A r \in DOMAIN t.ports : t.ports[r] \subseteq Int /\ IsFiniteSet(t.ports[r])

VARIABLES
  now,      \* the index of the tree at this moment
  changes,  \* how often it changed
  pc,       \* "next", "open", "read", "back" (readFile) or "done"
  todo,     \* the work left, [op, at]
  seat,     \* the function being resolved, in a singleton: its address, what its
            \* symlink spelled and the component to look at next
  handle,   \* the file readFile has open, in a singleton
  data,     \* what readFile returned to its caller, in a singleton
  host,     \* the Host so far, see ReadTree
  span,     \* history: the trees since readFile began
  during    \* history: the trees since Read began

readVars == <<now, changes, pc, todo, seat, handle, data, host, span, during>>

Tree == Trees[now]
Task(op, at) == [op |-> op, at |-> at]
Head1 == Head(todo)
At == Head1.at

Listing(class) == Task("list", <<class, 0, 0, "">>)
NoHost == [dev |-> <<>>, val |-> <<>>, link |-> <<>>, rdma |-> <<>>, net |-> {}, bad |-> {}]

ReadInit ==
  /\ now \in DOMAIN Trees /\ changes = 0
  /\ pc = "next"
  /\ todo = << Listing("pci"), Listing("node"), Listing("rdma"), Listing("net") >>
  /\ seat = {} /\ handle = {} /\ data = {} /\ host = NoHost
  /\ span = {} /\ during = {now}

-----------------------------------------------------------------------------
\* The environment.
Change(i) ==
  /\ changes < MaxChanges /\ pc # "done" /\ i # now
  /\ now' = i /\ changes' = changes + 1
  /\ span' = span \cup {i} /\ during' = during \cup {i}
  /\ UNCHANGED <<pc, todo, seat, handle, data, host>>

\* The next piece of work is done and leads to `more`.
Then(more) == todo' = more \o Tail(todo) /\ UNCHANGED <<now, changes, pc, handle, data, span, during>>
Turn(op) == pc = "next" /\ seat = {} /\ todo # <<>> /\ Head1.op = op
Put(f, x, v) == [ y \in DOMAIN f \cup {x} |-> IF y = x THEN v ELSE f[y] ]
Bad(x) == host' = [host EXCEPT !.bad = @ \cup {x}]

\* The sorted names of a class directory, each with what is done with it.
Listed(class) ==
  LET Each(op, names, name) ==
        LET n == InOrder(names) IN [ i \in DOMAIN n |-> Task(op, <<class, n[i], 0, name>>) ]
  IN CASE class = "pci" -> Each("resolve", DOMAIN Tree.bus, "")
       [] class = "node" -> Each("file", Tree.node, "cpulist")
       [] class = "rdma" -> Each("bind", Tree.rdma, "device")
       [] class = "net" -> Each("bind", Tree.net, "device")

\* listDir: only a host without PCI devices is a problem.
ListDir ==
  /\ Turn("list")
  /\ IF At[1] \in Tree.lists
       THEN Then(Listed(At[1])) /\ UNCHANGED host
       ELSE Then(<<>>) /\ (IF At[1] = "pci" THEN Bad(<<"bus", 0>>) ELSE UNCHANGED host)
  /\ UNCHANGED seat

\* Mutant of ResolveLink: a name that is not resolved is passed over.
ResolveLinkSilently ==
  /\ Turn("resolve")
  /\ LET d == At[2]
     IN IF d \notin DOMAIN Tree.bus \/ Tree.bus[d].chain = <<>>
          THEN Then(<<>>) /\ UNCHANGED <<host, seat>>
          ELSE Then(<<>>) /\ seat' = {[bdf |-> d, at |-> Tree.bus[d], k |-> 1]} /\ UNCHANGED host

\* The first part of resolve: the symlink is read and followed lexically.
ResolveLink ==
  /\ Turn("resolve")
  /\ LET d == At[2]
     IN IF d \notin DOMAIN Tree.bus \/ Tree.bus[d].chain = <<>>
          THEN Then(<<>>) /\ Bad(<<"bus", d>>) /\ UNCHANGED seat
          ELSE Then(<<>>) /\ seat' = {[bdf |-> d, at |-> Tree.bus[d], k |-> 1]} /\ UNCHANGED host

\* readAttributes: the work for one function.
FunctionWork(d) ==
  LET Files(names) == [ i \in DOMAIN names |-> Task("file", <<"pci", d, 0, names[i]>>) ]
      Links(names) == [ i \in DOMAIN names |-> Task("link", <<"pci", d, 0, names[i]>>) ]
  IN Files(IDFiles) \o Links(Symlinks) \o Files(LinkFiles)

\* The last loop of resolve: one directory of the chain after the other.
Lstat(s) ==
  /\ pc = "next" /\ seat = {s}
  /\ LET chain == s.at.chain
         there == chain[s.k] \in Tree.dirs
     IN \/ ~there /\ seat' = {} /\ Bad(<<"bus", s.bdf>>) /\ UNCHANGED todo
        \/ there /\ s.k < Len(chain) /\ seat' = {[s EXCEPT !.k = @ + 1]} /\ UNCHANGED <<host, todo>>
        \/ /\ there /\ s.k = Len(chain) /\ seat' = {}
           /\ host' = [host EXCEPT !.dev = Put(@, s.bdf, s.at)]
           /\ todo' = FunctionWork(s.bdf) \o todo
  /\ UNCHANGED <<now, changes, pc, handle, data, span, during>>

\* readLinkBase of driver, and the Lstat of physfn.
ReadLink ==
  /\ Turn("link")
  /\ Then(<<>>)
  /\ host' = IF Shown(Tree, At) THEN [host EXCEPT !.link = Put(@, At, Tree.link[At])] ELSE host
  /\ UNCHANGED seat

\* readRDMA, readNet: an entry without a PCI function is a problem of the
\* former and no matter to the latter.
Bind ==
  /\ Turn("bind")
  /\ LET class == At[1]
         x == At[2]
         Linked1 == [host EXCEPT !.link = Put(@, At, BaseOf(Tree, At))]
     IN IF BaseOf(Tree, At) = 0
          THEN Then(<<>>) /\ (IF class = "rdma" THEN Bad(<<"rdma", x>>) ELSE UNCHANGED host)
          ELSE IF class = "rdma"
            THEN Then(<< Task("ports", At) >>) /\ host' = Linked1
            ELSE /\ Then([ i \in DOMAIN NetFiles |-> Task("file", <<"net", x, 0, NetFiles[i]>>) ])
                 /\ host' = [Linked1 EXCEPT !.net = @ \cup {x}]
  /\ UNCHANGED seat

ListPorts ==
  /\ Turn("ports")
  /\ LET r == At[2]
         found == IF r \in DOMAIN Tree.ports THEN Tree.ports[r] ELSE {}
         work == FlattenSeq([ i \in DOMAIN InOrder(found) |->
                   [ j \in DOMAIN PortFiles |-> Task("file", <<"rdma", r, InOrder(found)[i], PortFiles[j]>>) ] ])
     IN /\ Then(work)
        /\ host' = [ host EXCEPT !.rdma = Put(@, r, found),
                                 !.bad  = IF r \in DOMAIN Tree.ports THEN @ ELSE @ \cup {<<"ports", r>>} ]
  /\ UNCHANGED seat

-----------------------------------------------------------------------------
(* readFile, called by the reader and by copyFile: `data` is what it       *)
(* returns, to be looked at by its caller at pc = "back".                  *)

InFile(from) == pc = from /\ seat = {} /\ todo # <<>> /\ Head1.op \in {"file", "copy"}
Comes(r) == pc' = "back" /\ data' = {r} /\ handle' = {}

\* Stat: its answer may be stale when the file is opened.
Stat ==
  /\ InFile("next") /\ span' = {now}
  /\ IF At \in DOMAIN Tree.file /\ Regular(Tree.file[At])
       THEN pc' = "open" /\ UNCHANGED <<handle, data>>
       ELSE Comes(Fault(IF At \in DOMAIN Tree.file THEN "unreadable" ELSE "missing"))
  /\ UNCHANGED <<now, changes, todo, seat, host, during>>

\* Mutant of OpenFails: whatever keeps the file from being opened, it is missing.
OpenFailsMissing ==
  /\ InFile("open")
  /\ At \in DOMAIN Tree.file => Tree.file[At].kind = "denied"
  /\ Comes(Fault("missing"))
  /\ UNCHANGED <<now, changes, todo, seat, host, span, during>>

OpenFails ==
  /\ InFile("open")
  /\ At \in DOMAIN Tree.file => Tree.file[At].kind = "denied"
  /\ Comes(Fault(IF At \in DOMAIN Tree.file THEN "permission" ELSE "missing"))
  /\ UNCHANGED <<now, changes, todo, seat, host, span, during>>

\* Mutant of Opens: without O_NONBLOCK the open of a FIFO waits for a writer.
OpensRegular(f) == f.kind # "denied" /\ Regular(f)

\* O_NONBLOCK: the open of a FIFO that took the place of the file comes back.
Opens(f) == f.kind # "denied"

Open ==
  /\ InFile("open")
  /\ At \in DOMAIN Tree.file /\ Opens(Tree.file[At])
  /\ pc' = "read" /\ handle' = {Tree.file[At]}
  /\ UNCHANGED <<now, changes, todo, seat, host, data, span, during>>

\* What an open file f may say: what it was when it was opened, or what is in
\* its place now (an attribute of sysfs is made up when it is read), where the
\* file of a device that is gone fails.
Says(f) ==
  { Content(f),
    IF At \notin DOMAIN Tree.file THEN Fault("unreadable")
    ELSE IF Regular(Tree.file[At]) /\ Opens(Tree.file[At]) THEN Content(Tree.file[At]) ELSE Content(f) }

\* Mutant of ReadOpened: the opened file is not looked at again.
ReadOpenedUnchecked(f) == IF Regular(f) THEN Says(f) ELSE {Read(f.text)}

\* f.Stat, then ReadAll.
ReadOpened(f) == IF Regular(f) THEN Says(f) ELSE {Fault("unreadable")}

ReadHandle(f) ==
  /\ InFile("read") /\ handle = {f}
  /\ \E r \in ReadOpened(f) : Comes(r)
  /\ UNCHANGED <<now, changes, todo, seat, host, span, during>>

ReadFile == Stat \/ OpenFails \/ Open \/ \E f \in handle : ReadHandle(f)

\* readAttr and the parsers, after readFile.
Keep(r) ==
  /\ pc = "back" /\ Head1.op = "file" /\ data = {r}
  /\ host' = [host EXCEPT !.val = Put(@, At, Understood(At, r))]
  /\ pc' = "next" /\ todo' = Tail(todo) /\ data' = {}
  /\ UNCHANGED <<now, changes, seat, handle, span, during>>

\* Read returns; what follows is the caller's.
ReadReturns == todo = <<>> /\ pc = "next" /\ seat = {}

ReadStep ==
  \/ ListDir \/ ResolveLink \/ ReadLink \/ Bind \/ ListPorts
  \/ \E s \in seat : Lstat(s)
  \/ ReadFile
  \/ \E r \in data : Keep(r)

Changes == \E i \in DOMAIN Trees : Change(i)
=============================================================================
