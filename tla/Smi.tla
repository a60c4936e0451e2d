--------------------------------- MODULE Smi ---------------------------------
(***************************************************************************)
(* The bounded run of nvidia-smi: Run, run and limitWriter of              *)
(* internal/nvidia/nvidia.go, and the part of collect (cmd/pathctl/main.go *)
(* 229-237) that decides whether to run it at all.                         *)
(*                                                                         *)
(* The child, its descendants and os/exec are the environment.  A child    *)
(* may write any amount, hang, fail, be killed when its context ends, or   *)
(* exit while a descendant keeps the write end of the stdout pipe open.    *)
(***************************************************************************)
EXTENDS Integers

CONSTANTS
  Cmd,       \* the three commands: query.csv, nvlink.txt, topo.txt
  Max,       \* MaxOutputBytes
  Chunk,     \* sizes one copy from the pipe may have
  WriteCap   \* bound on what one command writes in all

ASSUME MaxAssumption == Max \in Nat
ASSUME ChunkAssumption == Chunk \subseteq Nat \ {0} /\ WriteCap \in Nat

NoData == -1

VARIABLES
  todo,      \* commands the range over the map of Run has yet to visit
  cur,       \* {} or the singleton of the command being run
  child,     \* "none", "running", "ok" (exit 0) or "bad" (failed or killed)
  held,      \* somebody can still write to the stdout pipe
  deadline,  \* the 5 s context of the current command has expired
  ctxDone,   \* the context of the program is cancelled (SIGINT, SIGTERM)
  wrote,     \* bytes each command wrote
  buf,       \* stdout.Len() of the current command
  out,       \* length of the output Run returns per command, or NoData
  errs,      \* commands with an entry in Outputs.Errors
  late       \* history: commands not yet visited when the signal came

vars == <<todo, cur, child, held, deadline, ctxDone, wrote, buf, out, errs, late>>

Init ==
  /\ todo = Cmd /\ cur = {}
  /\ child = "none" /\ held = FALSE
  /\ deadline = FALSE /\ ctxDone = FALSE
  /\ wrote = [c \in Cmd |-> 0] /\ buf = 0
  /\ out = [c \in Cmd |-> NoData]
  /\ errs = {} /\ late = {}

Done == todo = {} /\ cur = {}

-----------------------------------------------------------------------------
\* Mutant of Kept: no byte to tell an overflow by.
KeptToMax(len, p) == IF len + p > Max THEN Max ELSE len + p

\* limitWriter.Write: the length of the buffer after a write of p bytes to a
\* buffer of length len.  One byte above Max is kept, to tell an overflow.
Kept(len, p) ==
  IF len <= Max
    THEN LET room == Max + 1 - len IN IF p > room THEN len + room ELSE len + p
    ELSE len

\* collect: without a binary every command gets the error of findSMI.
NoBinary ==
  /\ todo = Cmd /\ cur = {}
  /\ todo' = {} /\ errs' = Cmd
  /\ UNCHANGED <<cur, child, held, deadline, ctxDone, wrote, buf, out, late>>

\* A process is not started once the context is done; starting may also fail.
StartFails(c) ==
  /\ cur = {} /\ c \in todo
  /\ todo' = todo \ {c} /\ errs' = errs \cup {c}
  /\ UNCHANGED <<cur, child, held, deadline, ctxDone, wrote, buf, out, late>>

\* Mutants of Start: a command starts beside another; a done context is ignored.
StartAtOnce(c) ==
  /\ c \in todo /\ ~ctxDone
  /\ todo' = todo \ {c} /\ cur' = cur \cup {c}
  /\ child' = "running" /\ held' = TRUE
  /\ deadline' = FALSE /\ buf' = 0
  /\ UNCHANGED <<ctxDone, wrote, out, errs, late>>
StartAnyway(c) ==
  /\ cur = {} /\ c \in todo
  /\ todo' = todo \ {c} /\ cur' = {c}
  /\ child' = "running" /\ held' = TRUE
  /\ deadline' = FALSE /\ buf' = 0
  /\ UNCHANGED <<ctxDone, wrote, out, errs, late>>

Start(c) ==
  /\ cur = {} /\ c \in todo /\ ~ctxDone
  /\ todo' = todo \ {c} /\ cur' = {c}
  /\ child' = "running" /\ held' = TRUE
  /\ deadline' = FALSE /\ buf' = 0
  /\ UNCHANGED <<ctxDone, wrote, out, errs, late>>

Writes(c, p) ==
  /\ c \in cur /\ held
  /\ wrote[c] + p <= WriteCap
  /\ wrote' = [wrote EXCEPT ![c] = @ + p]
  /\ buf' = Kept(buf, p)
  /\ UNCHANGED <<todo, cur, child, held, deadline, ctxDone, out, errs, late>>

\* The child ends by itself, its descendants may live on with its stdout.
Exits ==
  /\ child = "running"
  /\ child' \in {"ok", "bad"}
  /\ held' \in BOOLEAN
  /\ UNCHANGED <<todo, cur, deadline, ctxDone, wrote, buf, out, errs, late>>

DescendantCloses ==
  /\ child \in {"ok", "bad"} /\ held
  /\ held' = FALSE
  /\ UNCHANGED <<todo, cur, child, deadline, ctxDone, wrote, buf, out, errs, late>>

Expires ==
  /\ child = "running" /\ ~deadline
  /\ deadline' = TRUE
  /\ UNCHANGED <<todo, cur, child, held, ctxDone, wrote, buf, out, errs, late>>

Interrupt ==
  /\ ~ctxDone /\ ~Done
  /\ ctxDone' = TRUE /\ late' = todo
  /\ UNCHANGED <<todo, cur, child, held, deadline, wrote, buf, out, errs>>

\* exec kills a child whose context is done, and only the child.
Kill ==
  /\ child = "running" /\ (deadline \/ ctxDone)
  /\ child' = "bad"
  /\ held' \in BOOLEAN
  /\ UNCHANGED <<todo, cur, deadline, ctxDone, wrote, buf, out, errs, late>>

\* The rest of run after cmd.Run and of the loop body of Run.
Return(c, failed) ==
  /\ cur' = {} /\ child' = "none" /\ held' = FALSE
  /\ IF failed \/ buf > Max
       THEN errs' = errs \cup {c} /\ UNCHANGED out
       ELSE out' = [out EXCEPT ![c] = buf] /\ UNCHANGED errs
  /\ UNCHANGED <<todo, deadline, ctxDone, wrote, buf, late>>

\* The pipe reached its end: everything written is in the buffer or counted.
Returns(c) ==
  /\ c \in cur /\ child \in {"ok", "bad"} /\ ~held
  /\ Return(c, child = "bad")

\* Mutant of WaitDelayEnds: without WaitDelay only the end of the pipe helps.
WaitsForPipe(c) == Returns(c)

\* WaitDelay: the child is gone, its pipe is not; cmd.Run closes it and fails.
WaitDelayEnds(c) ==
  /\ c \in cur /\ child \in {"ok", "bad"} /\ held
  /\ Return(c, TRUE)

ReturnsAny == \E c \in Cmd : Returns(c) \/ WaitDelayEnds(c)
Visits == \E c \in Cmd : Start(c) \/ StartFails(c)

Next ==
  \/ NoBinary
  \/ \E c \in Cmd : Start(c) \/ StartFails(c) \/ Returns(c) \/ WaitDelayEnds(c)
  \/ \E c \in Cmd, p \in Chunk : Writes(c, p)
  \/ Exits \/ DescendantCloses \/ Expires \/ Interrupt \/ Kill

\* Nothing is assumed of the child: only the timers, the kill and the loop
\* itself make progress.
Fairness ==
  /\ WF_vars(Visits)
  /\ WF_vars(Expires)
  /\ WF_vars(Kill)
  /\ WF_vars(ReturnsAny)

SafeSpec == Init /\ [][Next]_vars
Spec == SafeSpec /\ Fairness

-----------------------------------------------------------------------------
\* Type correctness of the run and of what it returns (nvidia.go:51-102).
TypeOK ==
  /\ todo \subseteq Cmd /\ errs \subseteq Cmd /\ late \subseteq Cmd
  /\ cur \subseteq Cmd /\ \A c, d \in cur : c = d
  /\ child \in {"none", "running", "ok", "bad"}
  /\ child = "none" <=> cur = {}
  /\ held \in BOOLEAN /\ deadline \in BOOLEAN /\ ctxDone \in BOOLEAN
  /\ wrote \in [Cmd -> Nat]
  /\ buf \in Nat
  /\ out \in [Cmd -> Nat \cup {NoData}]

\* An output is used whole or not at all: what Run returns is every byte the
\* command and its descendants wrote, never a prefix cut by the size limit, a
\* kill or WaitDelay (nvidia.go:85-102, 109-119).
WholeOrNothing == \A c \in Cmd : out[c] # NoData => out[c] = wrote[c]

\* The buffer never holds more than one byte above the limit however much the
\* command writes (nvidia.go:109-119).
BufferBounded == buf <= Max + 1

\* When Run is back every command has an output or an error and none has both,
\* whatever order the map was visited in (nvidia.go:67-81).
OutputXorError ==
  /\ \A c \in errs : out[c] = NoData
  /\ Done => \A c \in Cmd : out[c] # NoData \/ c \in errs

\* Every command the signal found waiting ends as an error: what follows the
\* signal is reported as not read (nvidia.go:68-72, main.go:84).
LateCommandsFail == Done => late \subseteq errs

\* What a command came to, for the promise; "part" is a part of an output.
Result ==
  [ c \in Cmd |-> IF c \in errs THEN "error"
                  ELSE IF out[c] = NoData THEN "none"
                  ELSE IF out[c] # wrote[c] THEN "part"
                  ELSE IF out[c] = 0 THEN "empty" ELSE "output" ]
Promise == INSTANCE Outputs WITH res <- Result, cancelled <- ctxDone, closed <- late

\* However the child, its descendants, the timers and the signal interleave, Run
\* does what its callers count on: one whole output or error per command, and
\* only the running one after the signal (nvidia.go:58-102).
KeepsPromise == Promise!Spec

\* Run comes back although a command hangs or a descendant never lets go of
\* the pipe (nvidia.go:86-97).
RunReturns == <>Done
=============================================================================
