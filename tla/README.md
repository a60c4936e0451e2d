# Verification of pathctl

TLA+ models, TLC runs and TLAPS proofs about `pathctl`, the command that shows
and checks the data path of every GPU on a host. All paths below are relative
to the repository (`src/`).

## The system

Data flows one way, from the host to the screen
(`docs/architecture.md`): `internal/sysfs` and `internal/nvidia` read,
`internal/datapath` builds a report, `internal/render` prints it and
`cmd/pathctl` drives the four of them. Only `watch` keeps state between reads.

| part | state | operations | correct when |
|---|---|---|---|
| `pathctl watch` (`cmd/pathctl/watch.go`) | the map of the last check per key, the FAIL flag, the read number | read, judge and print, wait, stop on a signal | the exit code and the change log tell the truth about all reads; it ends when told to |
| nvidia-smi runner (`internal/nvidia`: `Run`, `run`, `limitWriter`) | outputs and errors per command, the buffer of the running one | start, copy output, time out, kill, return | an output is complete or an error; always comes back |
| nvidia-smi parsers (`ParseQuery`, `ParseNVLink`, `ParseTopo`, `FromDir`) | none | parse three texts | rows are joined to the right GPU |
| sysfs reader (`internal/sysfs`: `Read` and below) | none kept; the `Host` it fills | list, resolve, read attributes and ports, one system call after the other on a tree that changes | every value was true while it was read; what was not read carries a status and no value; nothing listed is lost in silence |
| configuration space parser (`ParseConfig`) | pointer and hop count of two walks | follow two linked lists in an image of any length | finds what the list leads to; always ends |
| path model (`locality.go`, `build.go`, `model.go`) | none | judge a link, classify a pair, list the links between, find the bottleneck, choose a port, rank the NICs | means what the README's vocabulary means |
| checks (`checks.go`, `peers`, `attach`) | none | nine judgements per GPU | PASS and FAIL are true of the host, the rest is UNKNOWN |
| report builder (`Build`) | `Report.Devices`, which grows while GPUs are visited | list, walk chains, judge | a pure function of its input |
| device table (`devices.go`) | the table | look up, load extra entries | table before class code |
| capture (`Capture`) | files | read the host, then copy the read set file by file | reading the copy gives the same host, into an empty directory or over an old capture |
| commands `path`, `check`, `capture` (`main.go`) | none | parse flags, `collect`, print, exit code | exit codes as documented |
| render | none | text, JSON, mermaid | layout |

Interactions. `watch` calls `collect` once per read; `collect` calls
`sysfs.Read`, then `nvidia.Run`, then `datapath.Build`. A SIGINT or SIGTERM
cancels the one context of the program: `watch` looks at it in its select,
`exec` kills the running nvidia-smi because of it. `path` and `check` collect
once; `capture` calls `sysfs.Capture`, which calls `Read` and then opens every
file again, and `nvidia.Run`; a fixture it wrote is what `--fixture` reads with
`Read` and `FromDir`. `Build` lets the GPUs share
`Report.Devices`, which a walk of one GPU's chain extends with bridges the
listing did not have.

What is hard here: attributes that cannot be read one by one (no root, a
device that goes away, a directory not listed) and must never turn into a
verdict; a tree that changes between two system calls (a link that retrains, a
device off the bus, a FIFO in the place of a file); a second pass over it; a
child process that may write, hang, fork and be killed; a signal at
any moment of a long watch; linked lists in a malformed or truncated image; map
order; off-by-one in prefixes of chains. `PROJECT.json` lists these hazards at
their lines with the properties that watch over them.

## Modules

| module | models | state and actions |
|---|---|---|
| `Watch` | `runWatch` | one action per stretch of the loop between two places where the environment can interfere: `Collect`, `CollectFails`, `GpuNotFound` (the read and `--gpu`), `Report` (judge, print, record, last read), `Stop` and `NextRead` (the two branches of the select), `TimerFires`, `Interrupt` |
| `BurnIn` | the promise of `watch`, without a loop, a timer or a signal | `Observe`, `Publish`, `Finish`, `Abort` |
| `Outputs` | the promise of `nvidia.Run`, without a process, a pipe or a clock | `Delivers`, `Fails`, `Cancel` |
| `Smi` | `Run`, `run`, `limitWriter`, the first lines of `collect` | `Start`, `StartFails`, `Writes`, `Exits`, `Expires`, `Interrupt`, `Kill`, `Returns`, `WaitDelayEnds`, `DescendantCloses`, `NoBinary` |
| `SysFiles` | what one file, one attribute and a tree that holds still mean: `readFile`, `readAttr`, `hex`, `readWidth`, `ParseSpeed`, `readAER`, `parseRate` and the input `Build` gets | operators; `ReadTree(t)` is the host of a tree, `PathHost(h)` the host of `Checks` |
| `Reader` | `Read` with `listDir`, `resolve`, `readLinkBase`, `readFile`, `readAttributes`, `readNUMA`, `readRDMA`, `readNet` | one action per system call: `ListDir`, `ResolveLink`, `Lstat`, `ReadLink`, `Bind`, `ListPorts`, `Stat`, `Open`, `OpenFails`, `ReadHandle`, then `Keep`; `Change` is the host. `todo` is the work left, in the order of the loops |
| `Capture` | `Capture`, `copyFile` | the second pass on the same tree: `ReadEnds` (what to copy), `MkDir`, `Relink`, `Symlink1`, `WriteNode`, `CopyFile` after another `readFile`, `CopyFileFails` and `SymlinkFails` (the ignored errors), `CopyFails`, `CopyEnds`; `Cut` and `WithLineEnd` are what is written of a text |
| `Commands` | `collect`, `runPath`, `findGPU`, `runCapture`, `ParseQuery`, `ParseNVLink`, `ParseTopo`, `FromDir`, `parseNVIDIA`, `buildGPUs` | `Deliver`, `Breaks` (the outputs, as `Outputs` promises them), `Build`, `Show` (`--gpu`, the exit code), `StartWriting`, `WriteOutput` in any order, `WriteFails`, `Captured`, `OpenFails` |
| `ConfigSpace` | `ParseConfig` | one turn of a loop is one action: `StdStep`, `ExtStep`; `Start`, `StdEnds`, `ExtEnds` |
| `Path` | the pure part of `build.go`, `locality.go`, `model.go` | operators on a function from PCI addresses to what sysfs said |
| `Checks` | `checks.go`, `attach`, `peers`, `buildNICs` | operators; `ChecksFor(h)` is the report of a host as a function |
| `Sight` | what `internal/sysfs` hands on of a host that is partly unreadable | one attribute after the other is lost (`Lose`); `Seen` is what `Read` returns |
| `Topology` | the chains of `resolve` on every hierarchy PCIe allows | `AddRoot`, `AddSwitch`, `AddDownstream`, `AddEndpoint` |
| `Build` | `Build`, `buildNICs`, `buildGPUs`, `hops`, `topoNIC` step by step, run twice on a host | `List`, `AddGPU`, `GpusBuilt`, `JudgeGPU`, `Return`, `Again` |
| `MC...`, `MCHosts` | instances for TLC | |
| `ListProofs` | what the other proofs need of lists: sorted and numbered sets, folds, common beginnings of chains | lemmas |
| `WatchProofs`, `SmiProofs`, `CaptureProofs`, `CommandsProofs`, `ConfigSpaceProofs`, `SightProofs`, `PathProofs` | theorems; those about `Build` and `Topology` are in `PathProofs` | |

`Sight` and `Topology` extend `Checks` or `Path` and feed them the inputs the
reader can produce; `Build` composes `Path` and `Checks` in the
order of the code. `Capture` extends `Reader`, which extends `SysFiles`: both
passes call the one `readFile`, and the copy is judged by `ReadTree`, the same
definition a reading of a host that holds still is proved to agree with
(`StillTreeIsRead`). `PathHost` hands the host of the reader to the checks.
`Watch` implements `BurnIn` (`Promise == INSTANCE BurnIn WITH now <- report,
failSeen <- sawFail, view <- shown, result <- code`) and `Smi` implements
`Outputs` (`INSTANCE Outputs WITH res <- Result, cancelled <- ctxDone,
closed <- late`);
`Commands` is built on that promise (`Run == INSTANCE Outputs`) and not on the
process, so what is shown of it holds for whatever `Smi` lets happen.

Abstractions. PCI addresses are numbers in the order of the strings. A speed
is in 0.1 GT/s as in the code, a bandwidth in MB/s where the code has a float
of GB/s. A value that was not read is `Unread`, which stands for the status
next to the zero value; where the code forgets the status the operator uses
the value as the code does (`ExpWidth`, `LinkOf`). ACS control bits are names
in a set. Of the text of an attribute the model has what its first
`MaxAttrBytes` spell (a number, or blank, a NUL, garbage, "Unknown", the longest
CPU list), whether it is longer than that, and whether they end in a line end
or have room for one. This is what `readAttr` and `copyFile` look at, so that a
copy that is cut or gets a line end (`internal/sysfs/capture.go:52`, `:99-104`)
may mean something else than its original, and does in `MCCapture`; what a
number looks like in characters is left out. A line of
nvidia-smi is a record of what the patterns of the parsers find in it; the
parsers keep their loops. What the command line says is chosen where it is
first looked at. Wording and layout are left out, the detail column in `Watch`
excepted, since it decides what is printed. An operator whose name says it is
a mutant in its comment is not used by any specification: it is a plausible
bug of the definition after it, to see that the property fails under it.

`Watch` has no actions of the reader inside a read: `Collect` returns any
report. So what it shows holds for whatever a torn read may return. Of the
attributes of a function `Reader` leaves out those treated exactly as one it
has (`device` as `vendor`, `subsystem_device` and `revision` as
`subsystem_vendor`) and those only shown; names that are no PCI address and
limits on lengths are links that `resolve` refuses.

## Runs

Passing runs:

| run | question | bounds |
|---|---|---|
| `MCWatch` | do the exit code and the log tell the truth over reads in which GPUs come, go, fail and recover; does the loop keep the promise; does it end, and end when told to | 2 GPUs, one check name, 4 judgements (two FAILs that differ in the detail only); `--count` 3 or 0, with and without `--gpu`: FAIL then recover, vanish then return, change of detail, a signal in each place. The number of a read has no influence without a count, so an unlimited watch stops counting at 3 |
| `MCSmi` | is an output whole or an error, is every command accounted for, does `Run` keep `Outputs` and come back | the 3 commands; limit 2 bytes, writes of 1 and 3 bytes, 4 in all: below, at and above the limit, in one write or several |
| `MCCapture` | does a read of a host that changes under it invent a value, lose a device in silence or call a healthy link degraded; does the copy say what the host said, also over an old one, after failed writes; does it end | a root port, a GPU, a node, an RDMA port and an interface; six states of the host: healthy, link trained down, GPU removed and the RDMA device without a port, GPU off the bus, a fixture in pieces (a FIFO, a file nobody may open, links out of the tree, a directory that is gone), GPU still listed while its directory is gone and the other files at and above the size limit, with and without a line end there. One change to any other state, between any two system calls of either pass, or one failed write or symlink: a torn value needs one change, a value of neither state would need a bug in one read. An empty directory or an old capture of another state |
| `MCCommands` | is anything nvidia-smi said lost or given to the wrong GPU; do `--gpu` and the exit code answer what was asked; does a fixture replay the live report | two GPUs and a function that is no GPU; inventories of two lines (two rows for one function, a row of an unknown function, broken rows), link lists of three, six matrices, five lines in all; every command failing, empty or cancelled in every order |
| `MCSight` | are PASS and FAIL of the link and ACS checks, and the capacity, true although two attributes are unread | 11 hosts over one switch with two GPUs and a NIC, and a NIC on another socket; every pair of attributes of `LoseCurrent` |
| `MCTopology` | do PIX, PXB, PHB and the path links mean switches and edges | 9 functions, 2 host bridges: two switches in a row below one port, each with an endpoint, or ends on different root ports, endpoints with 2 functions |
| `MCBuild` | are the checks a function of the host although GPUs share `Report.Devices`; does the chosen port stand for the NIC | 72 hosts with GPUs: every subset of four bridges unlisted, redirects, topo verdicts that agree or contradict; 14287 without: a NIC with any two RDMA ports and two interfaces, every state (unread included) and three rates, in every order, beside a NIC with ports of its own |
| `MCConfigSpace` | does the walk find what the lists lead to, and end | 3 places in each list, every pointer among them, to nothing and below; 3 and 2 hops; 11 lengths around the ends of the entries |

The hop bounds of `MCConfigSpace` are 3 = as many as places, and 2 = fewer than
places, which are the two cases of the code: 48 turns are as many as there are
4-byte places between 0x40 and 0x100, 64 are fewer than there are between
0x100 and 0x1000. `ACSFoundIfListed` therefore counts hops, `PCIeFoundIfListed`
does not.

Runs that find a disagreement between the code and what the repository says of
it (details and quotations in `PROJECT.json`, "findings"):

| run | what TLC finds |
|---|---|
| `MCWatchExit3` | a FAIL, then a failed read or a vanished GPU: exit 1 or 4, not 3 |
| `MCSightPass` | unreadable link maxima: PASS of a degraded link |
| `MCCaptureFull` | a write of an attribute or a symlink fails: exit 0, and `Read` of the copy does not see what `Read` of the host saw |
| `MCBuildColumns` | two columns of the topo legend name RDMA devices of one function: they are visited in map order (`internal/datapath/locality.go:123`), and two builds of one host differ in a limitation |

Smaller disagreements met while modelling, which the models keep as the code
has them and no run is spent on:

- when the maxima of the slot cannot be read, a GPU in a narrower slot is FAIL
  (`internal/datapath/build.go:91`), which `README.md:68-70` calls a platform
  limit and `README.md:89` does not count as FAIL;
- when the state of the near NIC's port cannot be read, a far NIC becomes the
  best one and `nic-locality` is FAIL (`internal/datapath/locality.go:101`);
  `README.md:99` says that UNKNOWN never fails a host;
- a text at the size limit is not copied as it reads
  (`internal/sysfs/capture.go:99-104`, `:52`). One of exactly 4096 bytes that
  does not end in a line end, or a CPU list of 4096 characters, is read of the
  host and is malformed in the copy, where it has a byte more. One that is
  longer and has a line end as byte 4096 is malformed on the host, and in the
  copy its beginning reads as the whole; so does one that is longer without a
  line end there if the write stops at a full disk. `CopyTellsTheTree` and
  `RecaptureRefreshes` have the premise `Fits`, `CopyInventsNothing` the case
  `BeginsWith`, each no wider than this: TLC refutes each property when a part
  of them is taken out. The attributes of a live sysfs are shorter than a page,
  so that only the capture of a fixture meets it;
- an attribute that may not be opened (`permission`) is `missing` in a capture,
  which the comment at `internal/sysfs/capture.go:92-93` calls reporting it the
  same way; `CopyTellsTheTree` compares with the tree without such files;
- of an RDMA device whose `ports` directory is empty the capture has no `ports`
  directory (`internal/sysfs/capture.go:65-67` makes one for each port only), and
  `Read` reports it as a problem (`internal/sysfs/ports.go:90-92`) it did not
  report of the host; `Legible` leaves empty directories out for this reason.
  The attempt to prove `CopyTellsTheTree` met it: `MCCapture` had no such tree
  then, and has one now;
- a second capture into one directory leaves what is no longer there: files,
  functions, nodes, and a `driver` or `physfn` link that already exists is not
  replaced (`internal/sysfs/capture.go:33`). `RecaptureRefreshes` claims only
  what can be read now, and not of these links;
- outputs of nvidia-smi of an earlier capture stay when the command fails this
  time (`cmd/pathctl/main.go:298`);
- `--gpu -1` takes the first GPU that nvidia-smi did not list
  (`cmd/pathctl/main.go:199`), hence the exception in `FoundWasAsked`;
- a command that exits 0 without output has neither bytes nor an error
  (`internal/nvidia/nvidia.go:101` against the comment at line 51): capture
  prints a nil error, and the fixture has a limitation the live report has not;
- a switch port whose class cannot be read is not a bridge, and `p2p-acs`
  passes over it (`internal/datapath/locality.go:178`); for this reason the
  class is not among the attributes `MCSight` loses, as the maxima of the links
  are not (see `MCSightPass`);
- a configuration space cut after the first extended header and before the ACS
  capability has `ExtendedRead` set and no ACS, and its port passes as free of
  it (`internal/sysfs/pci.go:417-428`). `Sight` cuts to the 64 bytes an
  unprivileged reader gets and not there: the kernel gives 64, 256 or 4096
  bytes, and only a fixture can end elsewhere;
- a bridge of the NIC's chain that is not listed is no hop of the capacity
  (`internal/datapath/locality.go:73` against `model.go:143-144`), hence the
  premise of `CapacityExactOrZero`;
- without root `pcie-payload` says N/A, `docs/getting-started.md:21-22` says
  UNKNOWN;
- a network interface may stand for a NIC that has an RDMA port, when the state
  of that port was not read (`internal/datapath/build.go:145` against the
  comment at lines 127-128);
- an image that ends before the ACS control register gives an ACS capability
  with control bits of 0, as a port has that redirects nothing
  (`internal/sysfs/pci.go:428`; lines 28-29 say that what could not be read is
  never turned into a value). `ACSFoundIfListed` states both: every control bit
  of a register in the image is reported, and none of a register that the image
  ends before.

Deadlock is not checked: every one of these programs or constructions ends.

## Fairness

- `Watch`. A read returns: each file of sysfs is bounded and opened
  non-blocking, and `Smi` shows `RunReturns`, so `CollectReturns` is weakly
  fair. `Report`, `NextRead` and `TimerFires` are the program and its timer.
  `Stop` is strongly fair: a select chooses at random among the ready
  branches, so a context that stays done is not passed over for ever, although
  the timer may be preferred some times.
- `Smi`. The loop, the context timer, the kill and the return are weakly fair.
  The child and its descendants get none: they may hang.
- `Capture`. The program takes its next step (weak fairness of `Reads \/
  Copies1` together): it is sequential, and every system call it makes on a
  regular file or, thanks to `O_NONBLOCK`, on a FIFO comes back. Nothing is
  assumed of the tree.
- `ConfigSpace`. A sequential program takes its next step.
- `Commands`, `Sight`, `Topology`, `Build` state safety only.

`CountedEnds` needs no signal; `InterruptEnds` holds without a `--count`.

## Proofs

TLAPS checks these for every value of the constants that meets the named
assumptions.

- `WatchProofs`. Assumptions: a check is a status with a detail, `NoCheck` is
  none; the values of `--count` are numbers up to `ReadCap`. The properties are not inductive:
  at the exit only the flag is left of the reads. `IInv` adds that the map is
  the log (`Recorded`), and that the flag lags behind the history exactly while
  a report waits to be judged (`FlagExact`). The key lemma is
  `PrintedIsRecorded`: printing only changes leaves the log where recording
  everything leaves the map, because a check is no more than its status and
  its detail. `ImplementsPromise` maps each action to a step of `BurnIn`
  (`Collect` to `Observe`, `Report` to `Publish` or `Finish`, `Stop` to
  `Finish`, the two errors to `Abort`) or to no step.
- `SmiProofs`. `KeptCounts` says the buffer counts exactly up to the limit and
  sticks one above it. `IInv` adds `BufferExact` (the buffer of the running
  command is that count of what it wrote), `Partition` (a command is waiting,
  running, failed or has an output) and `LateWaits` (what the signal found
  waiting is still waiting or failed, since nothing starts after it).
  `ImplementsPromise` uses that invariant to map each step to one of `Outputs`
  (`Returns` and `WaitDelayEnds` to `Delivers` or `Fails`, `NoBinary` and
  `StartFails` to `Fails`, `Interrupt` to `Cancel`) or to no step: the mapping
  counts a command as ended when `Run` has put it away, and at most the running
  one can still deliver because of `LateWaits`.
- `ListProofs`. The provers have no induction over an operator, so what would be
  an induction over a list is an argument about a set of numbers: a set that
  holds 0 and with each number the next one holds all up to a bound
  (`InductionTo`), a set of numbers that is not empty has a least one. From this
  follow what the folds of the parsers and of `pickPort` return, that `InOrder`
  lists each member of a finite set once (`AllOf`, `ElementsOf`), what a list of
  lists has in it (`FlattenIs`, `ElementsOfFour`), and how far two chains agree.
- `CaptureProofs`. Assumptions: what a directory lists is finite and a chain is a
  list of numbers (`TreeAssumption`), and a tree has the fields of a tree, as has
  what was in the directory before (`ShapeAssumption`). The trees, what an
  earlier capture left, the texts, the device table, the number of changes and
  the writes and symlinks that fail are arbitrary. TLC evaluates both for
  `MCCapture`, and that a vendor that was not read is none of the table's
  (`TableAssumption`), which no proof needs.
  - `ValuesWereTrue`: values, links, functions and the directories of their
    chains. They are not inductive alone: `IInv` adds what a file that is open
    was when it was opened (`OpenedWasThere`), that the function being resolved
    was listed with its chain and the directories up to the next one were there
    (`SeatWasThere`), and that the tree of this moment is among those seen since
    `readFile` and `Read` began. It needs the second look at the opened file:
    without it the content of a FIFO would count as a value.
  - `NoFunctionIsLost`: `WorkInv` says which tasks `todo` holds in either pass,
    and `NoneForgotten` that a function listed all along is resolved, a problem,
    in the seat, or behind a task in `todo` (`Pending`).
  - `FailWasTrue` has the hypothesis `SteadyMaxima` (what a link can do at most
    does not change), which `MCCapture` evaluates for its trees: the width and
    its maximum are read at different moments.
  - `CopyIsTrue`: `CopyInv` says that what is in the directory so far was so: a
    text there stands for one its file had (`FilesWereSo`: `Stands`, `CopyOf`),
    whole, cut or the beginning a failed write leaves, for which every copy must
    know its task (`WorkInv`) and that a file that is being read has one
    (`Busy`). What such a text can be read as is what the property allows.
  - `StillIsRead`: a host and a tree are taken as sets of facts, so that what is
    found and what is left can be added up. `StillInv` says that the facts found,
    and those the tasks in `todo` lead to, are together all facts of the tree
    (`SoFar`): no task may lead to too few, which would lose a value, or to too
    many, which would invent one. When nothing is left the host is the tree's
    (`ReadTree`), since a host is determined by its facts.
  - `Refreshes` and `CopyTellsIt` start from that host. `DoneInv` says that each
    task of the second pass (`IsCopyTask`, read off the host) is in `todo` or
    `Done`, and that a directory that was empty has `NoMore` in it than tasks put
    there. The work is that no task undoes another one: what a task writes is what
    the tree has in that place, so nothing done is replaced by something else, and
    an old link is removed only by the task that makes it anew. From `Finished` follows what the directory
    holds (`Tells`), from that the one host it reads as (`TellsHost`,
    `ReadsOne`), and `LegibleTells` says the same of the tree without what could
    not be read, so the two hosts are one.
- `CommandsProofs`. Assumptions, about what nvidia-smi prints and nothing about
  how much: an output is a list of lines (`LinesAssumption`); the rows of one
  GPU have its one UUID (`RowsAssumption`); the link listing has one header for
  a UUID (`HeadersAssumption`); the matrix has one header, or begins with the
  row of its first column (`MatrixAssumption`); no function has the address
  of none (`HostAssumption`), and a `--gpu` that is given is not empty
  (`KeysAssumption`). TLC evaluates them for `MCCommands`. `IInv`
  says which files are in the directory: those of the outputs already visited,
  each with its text, and that a capture that ends well has visited all.
  - `FixtureReplays`: the report is a function of outcomes and texts, and an
    empty output and one never captured are parsed alike.
  - `NothingLost`, `LinksHaveTheirHeader`, `CellsAreTrue`, `AskedIsFound` and
    `ExitZeroIsHonest` are about the folds of the parsers: what the accumulator
    holds after any number of lines. `ExitZeroIsHonest` follows from where the links
    went and from the verdict on a GPU with one that is inactive.
- `ConfigSpaceProofs`. There is one way only to walk along the pointers
  (`Trace`); `Leads` is where it comes within a number of steps, `Stops` where it
  must end. `IInv` has the walk so far as a witness (`StdWalked`, `ExtWalked`)
  and, once a loop has ended, that it found what its list leads to (`StdFound`,
  `ExtFound`), with exactly the bits of that entry. `FindsPCIe` needs `EnoughTurns`, that the loop has
  as many turns as there are places in the first list, which is why 48 is
  enough and which `MCConfigSpace` evaluates; `FindsACS` needs nothing, since
  the property itself counts the turns. Pointers, circles and the place where
  the image is cut are arbitrary.
- `SightProofs`. Assumption (`TruthAssumption`): the hosts are hosts, that is,
  chains belong to one tree, end in the function itself and lead to it through
  bridges, the device table agrees with the class of a bridge, the maxima of a
  link are positive, and only a root port says that it is one. Which attributes
  are unread is arbitrary, but for the class in `AcsPassIsSound` and the maxima
  in `LinkPassIsSound`: these are where the code is not sound (above), and what
  `MCSight` does not lose either. The invariant is only that the host is one;
  the work is in the operators. `LinksAreBetween`: the path links are the
  functions on one chain only, although `PathLinks` walks indexes;
  `PeersShareAPort`: GPUs are peers over PCIe exactly when their chains meet;
  `RedirectIsSeenOrUnread`: a bridge that redirects is seen to, or counts as
  unread, also when it was not listed; `KnownLink`: a link that is called known
  has its true width and speed.
- `PathProofs`.
  - Facts about single operators: `GpuLinkExact`, `ClassifySymmetric`,
    `RedirectFailsBoth` (both GPUs of a pair get the same verdict although each
    walks the path from its own end), `CapacityIsBottleneck`,
    `RankLexicographic` (the weights 1000, 100, 50 do not run into each other),
    `BeforeIsTotalOrder`.
  - `Build`. Assumptions: what sysfs lists is a function (`HostAssumption`), the
    ports of a host are lists of ports and interfaces (`PortAssumption`); TLC
    evaluates both for `MCBuild`. `IInv` says what the variables are at each
    place: the devices are those listed and the chains of the GPUs already
    walked (`Grown`), the links and NICs are those of the listing, each check so
    far is the pure one. `OneMoreWalked` is the step of the loop. That two builds
    agree (`SameHostSameReport`) is false, see `MCBuildColumns`, and not proved of
    any case.
  - The ports of a NIC, for lists of any length. `FastestOfAny`,
    `UnknownOfNoWorkingPort` and `DownOfNoWorkingPort` have the hypothesis
    `BelowBoost`: every rate is below the 2^20 Gb/s `pickPort` adds to an active
    port (`build.go:136-137`). `BestRDMA` and `BestNet` say what the loop keeps:
    an entry of the list with the greatest score, or the port it began with.
  - `Topology`, for hierarchies of any size. Assumption: the name of a host
    bridge is not empty (`BoundAssumption`). `Wired` is the invariant: each
    function is below an earlier one of the right kind and the same host bridge,
    and a port has one switch or the functions of one endpoint below it.
    `ChainsAre` is the induction over the recursive `Chain`; `Descends` says that
    a chain leads from the root port to the function one edge at a time, so that
    two chains that meet agree from there up (`ChainsMeet`). `LinksAreTheWay`
    and `LocalityIsExact` compare the indexes of the code with switches and
    edges: below the lowest port two ends share, either the ends follow at once
    (`AtPort`) or a downstream port of the same switch on both sides, and behind
    it another switch (`BelowSwitch`).

Only model-checked: everything temporal beyond safety (`CountedEnds`,
`InterruptEnds`, `RunReturns`, `CaptureEnds`, `WalkEnds`): liveness under
fairness is out of the prover's reach. Every safety property a passing run checks
is stated by a theorem.

## Not modelled

Rendering (layout), the flags (exit 2), the contents of the device table and
`LoadExtra` (data, complete before anything runs), MaxReadReq and the other
registers no check reads, the default kinds of hops without configuration space
(they are shown and not judged), the affinity columns of topo and the link
columns of the inventory (shown and not judged), a second header line of the
topo matrix (nvidia-smi prints one), limits on the number of directory entries
and on the length of names.

## What is left

- The composition of `Commands` and `Smi`. Both are about `Outputs`, one
  implements it and the other is built on it; that `Commands` over `Smi` has the
  properties of `Commands` follows from the two and is not stated as one theorem.
- The layout of the reports (`internal/render`), which no property is about.
