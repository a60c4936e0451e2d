------------------------------- MODULE Commands -------------------------------
(***************************************************************************)
(* pathctl path, check and capture around nvidia-smi: its three outputs    *)
(* come in as Outputs promises, are parsed line by line, joined with what  *)
(* sysfs listed and judged, or written to a fixture and read back.         *)
(*                                                                         *)
(* An output is a sequence of lines.  A line of the inventory is           *)
(* [cols, index, uuid, bus], a blank one has no columns.  A line of nvlink *)
(* is a header [kind |-> "gpu", uuid], a link [kind |-> "link", gbps] or   *)
(* something else; one of topo a "head", a "row", the word "Legend", a     *)
(* "name" of it or something else.  A bus id is [form, addr].              *)
(*                                                                         *)
(* What the command line says is chosen where it is first looked at.       *)
(***************************************************************************)
EXTENDS Checks

CONSTANTS
  Host,     \* the host sysfs shows, see Checks
  Texts,    \* command -> the texts it may print
  MaxLines, \* bound on the lines of the three together
  TopoColumns, \* the columns of the matrix it prints
  Keys      \* what --gpu may say: [kind, val], or NoKey

Cmd == {"query", "nvlink", "topo"}
NoKey == [kind |-> "none", val |-> 0]

\* No function of the host has the address of none.
ASSUME HostAssumption ==
  {"dev", "smi", "nvlink", "topo"} \subseteq DOMAIN Host /\ DOMAIN Host.dev \subseteq Nat \ {0}

\* An output is a list of lines.
ASSUME LinesAssumption ==
  /\ \A c \in Cmd : \A t \in Texts[c] : t \in Seq(ToSet(t))
  /\ \A t \in Texts["query"] : \A n \in DOMAIN t : t[n].cols \in Nat

\* --gpu, when it is given, is not empty.
ASSUME KeysAssumption ==
  \A k \in Keys \ {NoKey} :
    k.kind \in {"bus", "uuid", "index"} /\ (k.kind = "uuid" => k.val # "") /\ (k.kind = "index" => k.val \in Int)

\* nvidia-smi nvlink lists a GPU once, by its UUID.
ASSUME HeadersAssumption ==
  \A t \in Texts["nvlink"] : \A m, n \in { k \in DOMAIN t : t[k].kind = "gpu" } :
    t[n].uuid # "" /\ (t[m].uuid = t[n].uuid => m = n)

\* The matrix has a header, which names its columns, or begins with the row of
\* its first column.
ASSUME MatrixAssumption ==
  /\ TopoColumns \in Seq(ToSet(TopoColumns)) /\ TopoColumns # <<>>
  /\ \A t \in Texts["topo"] : \A n \in DOMAIN t :
       LET first == \A m \in 1..(n - 1) : t[m].kind \notin {"head", "row"}
       IN /\ t[n].kind = "head" => first /\ t[n].names = TopoColumns
          /\ t[n].kind = "row" /\ first => t[n].name = TopoColumns[1]

VARIABLES
  pc,        \* "collect", "report", "write" or "done"
  res, cancelled, closed, \* what nvidia.Run did, see Outputs
  text,      \* the outputs
  report,    \* what Build returned, in a singleton
  cmd, key,  \* the command and --gpu
  shown,     \* Report.GPUs as rendered
  pending,   \* capture: the outputs not yet visited
  dir,       \* capture: the files of the directory nvidia, <<>> is an empty file
  code       \* the exit code, -1 before
smiVars == <<res, cancelled, closed, text>>
vars == <<pc, smiVars, report, cmd, key, shown, pending, dir, code>>

Run == INSTANCE Outputs

Init ==
  /\ pc = "collect" /\ Run!Init /\ text = [c \in Cmd |-> <<>>]
  /\ report = {} /\ cmd = "" /\ key = NoKey /\ shown = {}
  /\ pending = {} /\ dir = <<>> /\ code = -1

-----------------------------------------------------------------------------
(* The parsers. *)

NoAddress == 0

\* The address a bus id spells, whatever the case and the width of its domain.
CanonicalBDF(bus) == IF bus.form \in {"sysfs", "smi"} THEN bus.addr ELSE NoAddress

Fits(row) == row.cols = 8 /\ row.index >= 0 /\ row.uuid # "" /\ CanonicalBDF(row.bus) # NoAddress
Entry(row) == [index |-> row.index, uuid |-> row.uuid, bdf |-> CanonicalBDF(row.bus)]

\* The rows of the inventory about one function have its one UUID.
ASSUME RowsAssumption ==
  \A t \in Texts["query"] : \A m, n \in { k \in DOMAIN t : Fits(t[k]) } :
    CanonicalBDF(t[m].bus) = CanonicalBDF(t[n].bus) => t[m].uuid = t[n].uuid

KeepRow(gpus, row) == IF Fits(row) THEN Append(gpus, Entry(row)) ELSE gpus

\* Mutant of ParseQuery: a row that does not fit is passed over.
ParseQuerySilently(lines) == [gpus |-> FoldLeft(KeepRow, <<>>, lines), errs |-> {}]

\* ParseQuery: the rows that fit, and the numbers of those that do not.
ParseQuery(lines) ==
  [ gpus |-> FoldLeft(KeepRow, <<>>, lines),
    errs |-> { n \in DOMAIN lines : lines[n].cols > 0 /\ ~Fits(lines[n]) } ]

Active(line) == line.gbps > 0

\* Mutant of CountLink: the link is counted for the first GPU.
CountLinkFirst(gpus, line) ==
  [gpus EXCEPT ![1].all = @ + 1, ![1].up = @ + (IF Active(line) THEN 1 ELSE 0)]

\* A link is counted for the last header there was.
CountLink(gpus, line) ==
  [gpus EXCEPT ![Len(gpus)].all = @ + 1, ![Len(gpus)].up = @ + (IF Active(line) THEN 1 ELSE 0)]

\* One line of nvlink: a header, a link, a link before any header, or neither.
LinkLine(acc, n, line) ==
  CASE line.kind = "gpu" ->
         [acc EXCEPT !.gpus = Append(@, [uuid |-> line.uuid, up |-> 0, all |-> 0])]
    [] line.kind = "link" /\ acc.gpus = <<>> -> [acc EXCEPT !.errs = @ \cup {n}]
    [] line.kind = "link" /\ acc.gpus # <<>> -> [acc EXCEPT !.gpus = CountLink(@, line)]
    [] OTHER -> acc

ParseNVLink(lines) ==
  LET Line(acc, n) == LinkLine(acc, n, lines[n])
  IN FoldLeft(Line, [gpus |-> <<>>, errs |-> {}], [ n \in DOMAIN lines |-> n ])

\* Mutant of Cells: the name of the row is taken for its first cell.
CellsShifted(row, devices) == [ x \in { <<row.name, devices[i]>> : i \in 2..Len(devices) } |->
  row.cells[(CHOOSE i \in 2..Len(devices) : devices[i] = x[2]) - 1] ]

\* The relations of one row of the matrix.
Cells(row, devices) == [ x \in { <<row.name, d>> : d \in ToSet(devices) } |->
  row.cells[CHOOSE i \in DOMAIN devices : devices[i] = x[2]] ]

\* f with the values of g where it has none.
Over(f, g) == [ x \in (DOMAIN f) \cup (DOMAIN g) |-> IF x \in DOMAIN f THEN f[x] ELSE g[x] ]

\* One line of topo: without a header that is recognised the first row is taken
\* for it; a row with too few cells is the end.
TopoLine(acc, l) ==
  CASE acc.err -> acc
    [] ~acc.err /\ l.kind = "legend" -> [acc EXCEPT !.legend = TRUE]
    [] ~acc.err /\ acc.legend /\ l.kind = "name" -> [acc EXCEPT !.cols = Over([ c \in {l.col} |-> l.name ], @)]
    [] ~acc.err /\ ~acc.legend /\ acc.devices = <<>> /\ l.kind = "head" -> [acc EXCEPT !.devices = l.names]
    [] ~acc.err /\ ~acc.legend /\ acc.devices = <<>> /\ l.kind = "row" -> [acc EXCEPT !.devices = <<l.name>>]
    [] ~acc.err /\ ~acc.legend /\ acc.devices # <<>> /\ l.kind = "row" ->
         IF Len(l.cells) < Len(acc.devices) THEN [acc EXCEPT !.err = TRUE]
         ELSE [acc EXCEPT !.rel = Over(Cells(l, acc.devices), @)]
    [] OTHER -> acc

NoLines == [devices |-> <<>>, rel |-> <<>>, cols |-> <<>>, legend |-> FALSE, err |-> FALSE]

ParseTopo(lines) ==
  LET end == FoldLeft(TopoLine, NoLines, lines)
  IN [ err |-> end.err \/ end.devices = <<>>, rel |-> end.rel, cols |-> end.cols ]

-----------------------------------------------------------------------------
(* parseNVIDIA, buildGPUs and the checks.  The report is a function of the  *)
(* outcomes r of the commands and the texts t they printed.                *)

Nothing == [gpus |-> <<>>, errs |-> {}]
NoMatrix == [err |-> FALSE, rel |-> <<>>, cols |-> <<>>]

QueryOf(r, t) == IF r["query"] = "output" THEN ParseQuery(t["query"]) ELSE Nothing
NVLinkListOf(r, t) == IF r["nvlink"] = "output" THEN ParseNVLink(t["nvlink"]) ELSE Nothing
TopoOf(r, t) == IF r["topo"] = "output" THEN ParseTopo(t["topo"]) ELSE NoMatrix
Errors(r) == { <<c, "error">> : c \in { x \in Cmd : r[x] = "error" } }

\* byBDF and byUUID: of two rows about one function, or two listings of one
\* UUID, the later wins.
ByBDF(gpus) ==
  [ d \in { x.bdf : x \in ToSet(gpus) } \cap DOMAIN Host.dev |->
      gpus[Max({ i \in DOMAIN gpus : gpus[i].bdf = d })] ]
ByUUID(lists) ==
  [ u \in { x.uuid : x \in ToSet(lists) } |-> lists[Max({ i \in DOMAIN lists : lists[i].uuid = u })] ]

\* The limitations about what was parsed, and about the rows and the GPUs
\* without a partner.
ParseLimits(query, lists, topo) ==
  { <<"query", n>> : n \in query.errs } \cup { <<"nvlink", n>> : n \in lists.errs }
    \cup (IF topo.err THEN {<<"topo", 0>>} ELSE {})
    \cup { <<"not in sysfs", x.bdf>> : x \in { y \in ToSet(query.gpus) : y.bdf \notin DOMAIN Host.dev } }
    \cup { <<"not in inventory", g>> :
             g \in { x \in Gpus(Host.dev) : ByBDF(query.gpus) # <<>> /\ x \notin DOMAIN ByBDF(query.gpus) } }

Joined(query, lists, topo) ==
  [ Host EXCEPT !.smi = ByBDF(query.gpus), !.nvlink = ByUUID(lists.gpus),
                !.topo = IF topo.err THEN [rel |-> <<>>, cols |-> <<>>] ELSE [rel |-> topo.rel, cols |-> topo.cols] ]

ReportFrom(query, lists, topo, errors) ==
  LET h == Joined(query, lists, topo)
  IN [ smi    |-> h.smi,
       lanes  |-> [ g \in Gpus(Host.dev) |-> NVLinkOf(h, g) ],
       topo   |-> h.topo,
       checks |-> ChecksFor(h),
       limits |-> errors \cup ParseLimits(query, lists, topo) ]

ReportOf(r, t) == ReportFrom(QueryOf(r, t), NVLinkListOf(r, t), TopoOf(r, t), Errors(r))

IndexOf(rep, g) == IF g \in DOMAIN rep.smi THEN rep.smi[g].index ELSE -1
UUIDOf(rep, g) == IF g \in DOMAIN rep.smi THEN rep.smi[g].uuid ELSE ""

Matches(rep, g, k) ==
  \/ k.kind = "bus" /\ CanonicalBDF(k.val) = g
  \/ k.kind = "uuid" /\ UUIDOf(rep, g) = k.val
  \/ k.kind = "index" /\ IndexOf(rep, g) = k.val

\* Mutant of FindGPU: a number is the place in the report.
FindGPUByPlace(rep, k) ==
  LET gpus == SetToSortSeq(DOMAIN rep.checks, <)
  IN IF k.kind = "index" THEN IF k.val + 1 \in DOMAIN gpus THEN {gpus[k.val + 1]} ELSE {}
     ELSE { g \in DOMAIN rep.checks : Matches(rep, g, k) }

\* The first GPU, by address, that the key fits.
FindGPU(rep, k) ==
  LET fit == { g \in DOMAIN rep.checks : Matches(rep, g, k) }
  IN IF fit = {} THEN {} ELSE {Min(fit)}

-----------------------------------------------------------------------------
(* The commands. *)

\* A directory that cannot be opened, or a capture of sysfs that failed.
OpenFails ==
  /\ pc = "collect" /\ Run!Waiting = Cmd /\ pc' = "done" /\ code' = 1
  /\ UNCHANGED <<smiVars, report, cmd, key, shown, pending, dir>>

Lines(t) == Len(t["query"]) + Len(t["nvlink"]) + Len(t["topo"])

Deliver(c) ==
  /\ pc = "collect"
  /\ \/ \E t \in Texts[c] : Run!Delivers(c, "output") /\ text' = [text EXCEPT ![c] = t]
     \/ Run!Delivers(c, "empty") /\ UNCHANGED text
  /\ Lines(text') <= MaxLines
  /\ UNCHANGED <<pc, report, cmd, key, shown, pending, dir, code>>

Breaks ==
  /\ pc = "collect"
  /\ \E S \in SUBSET Cmd : Run!Fails(S) \/ Run!Cancel(S)
  /\ UNCHANGED <<text, pc, report, cmd, key, shown, pending, dir, code>>

\* path and check build a report, of a live host or of a fixture.
Build ==
  /\ pc = "collect" /\ Run!Waiting = {}
  /\ pc' = "report" /\ report' = {ReportOf(res, text)}
  /\ UNCHANGED <<smiVars, cmd, key, shown, pending, dir, code>>

\* Mutant of ExitCode: path and check are one command.
ExitCodeOfPath(c, statuses) == 0

ExitCode(c, statuses) == IF c = "check" /\ "FAIL" \in statuses THEN 3 ELSE 0

Statuses(rep, G) == { rep.checks[g][n] : g \in G, n \in CheckNames }

\* The rest of runPath; rendering or writing may fail.
Show(rep) ==
  /\ pc = "report" /\ pc' = "done"
  /\ cmd' \in {"path", "check"} /\ key' \in Keys
  /\ shown' = IF key' = NoKey THEN DOMAIN rep.checks ELSE FindGPU(rep, key')
  /\ code' \in IF key' # NoKey /\ shown' = {} THEN {4} ELSE {1, ExitCode(cmd', Statuses(rep, shown'))}
  /\ UNCHANGED <<smiVars, report, pending, dir>>

\* runCapture after sysfs.Capture: the outputs are written in map order.
StartWriting ==
  /\ pc = "collect" /\ Run!Waiting = {}
  /\ pc' = "write" /\ cmd' = "capture" /\ pending' = Cmd
  /\ UNCHANGED <<smiVars, report, key, shown, dir, code>>

\* Mutant of Saved: a command without an output leaves an empty file.
SavedAlways(c) == TRUE

\* The output of a command is written when there is one: an empty one is nil.
Saved(c) == res[c] = "output"

WriteOutput(c) ==
  /\ pc = "write" /\ c \in pending /\ pending' = pending \ {c}
  /\ dir' = [ f \in DOMAIN dir \cup { x \in {c} : Saved(x) } |-> IF f = c /\ Saved(f) THEN text[f] ELSE dir[f] ]
  /\ UNCHANGED <<pc, smiVars, report, cmd, key, shown, code>>

WriteFails ==
  /\ pc = "write" /\ \E c \in pending : Saved(c)
  /\ pc' = "done" /\ code' = 1
  /\ UNCHANGED <<smiVars, report, cmd, key, shown, pending, dir>>

Captured ==
  /\ pc = "write" /\ pending = {}
  /\ pc' = "done" /\ code' = 0
  /\ UNCHANGED <<smiVars, report, cmd, key, shown, pending, dir>>

Next ==
  \/ OpenFails \/ Breaks \/ Build \/ StartWriting \/ WriteFails \/ Captured
  \/ \E c \in Cmd : Deliver(c) \/ WriteOutput(c)
  \/ \E rep \in report : Show(rep)

Spec == Init /\ [][Next]_vars
-----------------------------------------------------------------------------
Printed(c) == IF res[c] = "output" THEN text[c] ELSE <<>>
LineNumbers(c) == DOMAIN Printed(c)

\* Whatever order the commands end in, nothing nvidia-smi said of a GPU is lost
\* in silence: a command that failed or that the signal kept from running is a
\* limitation; a row of the inventory is one, or the name of its GPU, or is
\* about the function of a later row that fits or about no GPU (nvidia.go:160-197,
\* build.go:162-228).
OutputsAccounted ==
  \A rep \in report :
    /\ \A c \in Cmd : c \in closed \/ res[c] = "error" => <<c, "error">> \in rep.limits
    /\ \A n \in LineNumbers("query") :
         LET row == text["query"][n]
             d == CanonicalBDF(row.bus)
         IN \/ row.cols = 0
            \/ <<"query", n>> \in rep.limits \/ <<"not in sysfs", d>> \in rep.limits
            \/ d \in DOMAIN rep.checks /\ IndexOf(rep, d) = row.index /\ UUIDOf(rep, d) = row.uuid
            \/ \E m \in LineNumbers("query") :
                 m > n /\ Fits(text["query"][m]) /\ CanonicalBDF(text["query"][m].bus) = d
            \/ d \in DOMAIN Host.dev \ Gpus(Host.dev)

\* The links between line n and the next header.
Section(n) ==
  { m \in LineNumbers("nvlink") :
      m > n /\ text["nvlink"][m].kind = "link" /\ \A k \in (n + 1)..m : text["nvlink"][k].kind # "gpu" }
Headers(u) == { n \in LineNumbers("nvlink") : text["nvlink"][n].kind = "gpu" /\ text["nvlink"][n].uuid = u }

\* A GPU has exactly the links listed from its own header to the next one, and
\* a link before any header is a limitation (nvidia.go:244-280, build.go:207-221).
LinksWhereTheyBelong ==
  \A rep \in report :
    /\ \A g \in DOMAIN rep.lanes : \A n \in Headers(UUIDOf(rep, g)) :
         /\ rep.lanes[g].all = Cardinality(Section(n))
         /\ rep.lanes[g].up = Cardinality({ m \in Section(n) : text["nvlink"][m].gbps > 0 })
    /\ \A m \in Section(0) : <<"nvlink", m>> \in rep.limits

\* Every relation the report has is the cell of that row and column in the
\* matrix nvidia-smi printed, also when its header was not recognised
\* (nvidia.go:297-357).
TopoCellsTrue ==
  \A rep \in report : \A x \in DOMAIN rep.topo.rel :
    \E n \in LineNumbers("topo"), i \in DOMAIN TopoColumns :
      /\ text["topo"][n].kind = "row" /\ text["topo"][n].name = x[1]
      /\ TopoColumns[i] = x[2] /\ rep.topo.rel[x] = text["topo"][n].cells[i]

\* --gpu with an index of the inventory, a bus id or a UUID shows the GPU that
\* has it and says "not found" only when there is none (main.go:129-137, 191-204,
\* README.md:41).
FoundWasAsked ==
  \A rep \in report : pc = "done" /\ key # NoKey =>
    LET RowsOf(g) == { n \in LineNumbers("query") : Fits(text["query"][n]) /\ CanonicalBDF(text["query"][n].bus) = g }
        RowOf(g) == text["query"][Max(RowsOf(g))]
        Is(g) == CASE key.kind = "bus" -> CanonicalBDF(key.val) = g
                   [] key.kind = "uuid" -> RowsOf(g) # {} /\ RowOf(g).uuid = key.val
                   [] OTHER -> RowsOf(g) # {} /\ RowOf(g).index = key.val
    IN /\ code = 4 => \A g \in Gpus(Host.dev) : ~Is(g)
       /\ code # 4 /\ ~(key.kind = "index" /\ key.val < 0) => \E g \in Gpus(Host.dev) : shown = {g} /\ Is(g)

\* check ends with 0 only if no NVLink of a GPU of the inventory was printed as
\* inactive (main.go:160-163, checks.go:130-142).
ExitZeroHidesNoLink ==
  \A rep \in report : pc = "done" /\ cmd = "check" /\ key = NoKey /\ code = 0 =>
    \A g \in Gpus(Host.dev), n \in LineNumbers("query") :
      Fits(text["query"][n]) /\ CanonicalBDF(text["query"][n].bus) = g =>
        \A k \in Headers(text["query"][n].uuid) : \A m \in Section(k) : text["nvlink"][m].gbps > 0

\* FromDir.
FromDir(files) ==
  [ res  |-> [ c \in Cmd |-> IF c \in DOMAIN files THEN "output" ELSE "error" ],
    text |-> [ c \in Cmd |-> IF c \in DOMAIN files THEN files[c] ELSE <<>> ] ]

\* A fixture captured into an empty directory gives the report of the live
\* host, with its limitations (main.go:289-308, nvidia.go:121-143).
CaptureReplays ==
  pc = "done" /\ cmd = "capture" /\ code = 0 =>
    LET live == ReportOf(res, text)
        replayed == ReportOf(FromDir(dir).res, FromDir(dir).text)
    IN /\ replayed.checks = live.checks /\ replayed.smi = live.smi /\ replayed.topo = live.topo
       /\ live.limits \subseteq replayed.limits

=============================================================================
