-------------------------------- MODULE Watch --------------------------------
(***************************************************************************)
(* `pathctl watch`: the read loop of runWatch in cmd/pathctl/watch.go.     *)
(* One behaviour is one run of the command after its flags were accepted.  *)
(*                                                                         *)
(* The host is the environment: each read may find any report, fail, or    *)
(* not find the GPU asked for with --gpu.  SIGINT or SIGTERM may come at   *)
(* any moment and only sets the context; the loop looks at the context in  *)
(* its select and nowhere else, and when the timer has fired as well the   *)
(* select may take either branch.                                          *)
(***************************************************************************)
EXTENDS Naturals

CONSTANTS
  Gpu,       \* PCI addresses of the GPUs that may be in a report
  Name,      \* the check names
  Detail,    \* what the detail column may say
  Check,     \* judgements that may occur, each a status with a detail
  NoCheck,   \* the GPU is not in the report
  Counts,    \* values of --count, 0: until interrupted
  ReadCap    \* bound on the read number of an unlimited watch

Status == {"PASS", "WARN", "FAIL", "UNKNOWN", "N/A"}

ASSUME CheckAssumption ==
  /\ Check \subseteq [status : Status, detail : Detail]
  /\ NoCheck \notin Check
ASSUME CountAssumption ==
  /\ ReadCap \in Nat /\ ReadCap >= 1
  /\ Counts \subseteq 0..ReadCap

Key == Gpu \X Name
NoReport == [k \in Key |-> NoCheck]

Running == 99 \* no exit code yet

VARIABLES
  flags,    \* the values of --count and --gpu
  pc,       \* "read", "report", "select" or "exit"
  n,        \* the number of the current read
  report,   \* the report collect returned
  prev,     \* the map of the loop: the last check recorded per key
  failed,   \* the flag of the loop
  ctxDone,  \* a signal was received
  timer,    \* time.After(interval) of the current select has fired
  code,     \* the exit code
  shown,    \* stdout: the check the last line about a key showed
  sawFail   \* history: some report returned so far held a FAIL

vars == <<flags, pc, n, report, prev, failed, ctxDone, timer, code, shown, sawFail>>

\* A report gives every check of a GPU or none; --gpu leaves one GPU of it.
Listed(r) == {g \in Gpu : \A x \in Name : r[<<g, x>>] # NoCheck}
Reports ==
  { r \in [Key -> Check \cup {NoCheck}] :
      /\ \A g \in Gpu \ Listed(r) : \A x \in Name : r[<<g, x>>] = NoCheck
      /\ flags.filtered => \E g \in Gpu : Listed(r) = {g} }

HasFail(r) == \E k \in Key : r[k] # NoCheck /\ r[k].status = "FAIL"
HasWarn(r) == \E k \in Key : r[k] # NoCheck /\ r[k].status = "WARN"

\* Mutant of Overall: a WARN counts as a FAIL.
OverallWarnFails(r) == IF HasFail(r) \/ HasWarn(r) THEN "FAIL" ELSE "PASS"

\* Report.Overall: the worst status; UNKNOWN and N/A count as nothing, and a
\* report without any GPU is a PASS.
Overall(r) ==
  IF HasFail(r) THEN "FAIL" ELSE IF HasWarn(r) THEN "WARN" ELSE "PASS"

Init ==
  /\ flags \in [count : Counts, filtered : BOOLEAN]
  /\ pc = "read" /\ n = 1
  /\ report = NoReport /\ prev = NoReport
  /\ failed = FALSE
  /\ ctxDone = FALSE /\ timer = FALSE
  /\ code = Running
  /\ shown = NoReport
  /\ sawFail = FALSE

-----------------------------------------------------------------------------
Collect ==
  /\ pc = "read"
  /\ report' \in Reports
  /\ sawFail' = (sawFail \/ HasFail(report'))
  /\ pc' = "report"
  /\ UNCHANGED <<flags, n, prev, failed, ctxDone, timer, code, shown>>

CollectFails ==
  /\ pc = "read"
  /\ pc' = "exit" /\ code' = 1
  /\ UNCHANGED <<flags, n, report, prev, failed, ctxDone, timer, shown, sawFail>>

\* The report this read collected is dropped, a FAIL in it included: the loop
\* never judged the GPUs it was not asked about.
GpuNotFound ==
  /\ flags.filtered
  /\ pc = "read"
  /\ pc' = "exit" /\ code' = 4
  /\ UNCHANGED <<flags, n, report, prev, failed, ctxDone, timer, shown, sawFail>>

\* Mutant of ExitCode: a FAIL that is forgotten.
ExitCodeDone(f) == 0

ExitCode(f) == IF f THEN 3 ELSE 0

\* Mutants of Changed: the detail is not compared; new keys are not printed.
ChangedStatus(old, r) ==
  { k \in Key : r[k] # NoCheck /\ (old[k] = NoCheck \/ old[k].status # r[k].status) }
ChangedKnown(old, r) == { k \in Key : r[k] # NoCheck /\ old[k] # NoCheck /\ old[k] # r[k] }

\* Keys a line is printed for: new ones, and those whose check changed.
Changed(old, r) ==
  { k \in Key :
      /\ r[k] # NoCheck
      /\ \/ old[k] = NoCheck
         \/ old[k].status # r[k].status
         \/ old[k].detail # r[k].detail }

Record(old, r) == [k \in Key |-> IF r[k] = NoCheck THEN old[k] ELSE r[k]]
Printed(old, r) ==
  [k \in Key |-> IF k \in Changed(old, r) THEN r[k] ELSE shown[k]]

\* Mutant of LastRead: one read early.
LastReadEarly == flags.count # 0 /\ n + 1 >= flags.count

LastRead == flags.count # 0 /\ n = flags.count

Report ==
  /\ pc = "report"
  /\ failed' = (failed \/ Overall(report) = "FAIL")
  /\ shown' = Printed(prev, report)
  /\ prev' = Record(prev, report)
  /\ IF LastRead
       THEN pc' = "exit" /\ code' = ExitCode(failed') /\ UNCHANGED timer
       ELSE pc' = "select" /\ timer' = FALSE /\ UNCHANGED code
  /\ UNCHANGED <<flags, n, report, ctxDone, sawFail>>

\* Mutant of Stop: the context is looked at after the last read only.
StopAtLast ==
  /\ pc = "select" /\ ctxDone /\ LastRead
  /\ pc' = "exit" /\ code' = ExitCode(failed)
  /\ UNCHANGED <<flags, n, report, prev, failed, ctxDone, timer, shown, sawFail>>

Stop ==
  /\ pc = "select" /\ ctxDone
  /\ pc' = "exit" /\ code' = ExitCode(failed)
  /\ UNCHANGED <<flags, n, report, prev, failed, ctxDone, timer, shown, sawFail>>

\* Mutant of NextRead: the reads are not counted.
NextReadUncounted ==
  /\ pc = "select" /\ timer
  /\ pc' = "read"
  /\ UNCHANGED <<flags, n, report, prev, failed, ctxDone, timer, code, shown, sawFail>>

\* n is compared with a positive count only, so an unlimited watch may stop
\* counting at ReadCap without behaving differently.
NextRead ==
  /\ pc = "select" /\ timer
  /\ n' = IF n < ReadCap THEN n + 1 ELSE n
  /\ pc' = "read"
  /\ UNCHANGED <<flags, report, prev, failed, ctxDone, timer, code, shown, sawFail>>

-----------------------------------------------------------------------------
TimerFires ==
  /\ pc = "select" /\ ~timer
  /\ timer' = TRUE
  /\ UNCHANGED <<flags, pc, n, report, prev, failed, ctxDone, code, shown, sawFail>>

Interrupt ==
  /\ pc # "exit" /\ ~ctxDone
  /\ ctxDone' = TRUE
  /\ UNCHANGED <<flags, pc, n, report, prev, failed, timer, code, shown, sawFail>>

CollectReturns == Collect \/ CollectFails \/ GpuNotFound

Next ==
  \/ Collect \/ CollectFails \/ GpuNotFound
  \/ Report \/ Stop \/ NextRead
  \/ TimerFires \/ Interrupt

\* Every read of the host is bounded in time, so collect returns; timers fire;
\* a select whose two channels are ready chooses one at random, so it does not
\* pass over a done context for ever.
Fairness ==
  /\ WF_vars(CollectReturns)
  /\ WF_vars(Report)
  /\ WF_vars(NextRead)
  /\ WF_vars(TimerFires)
  /\ SF_vars(Stop)

SafeSpec == Init /\ [][Next]_vars
Spec == SafeSpec /\ Fairness

-----------------------------------------------------------------------------
\* Type correctness of the loop's variables (watch.go:36-39).
TypeOK ==
  /\ flags \in [count : Counts, filtered : BOOLEAN]
  /\ pc \in {"read", "report", "select", "exit"}
  /\ n \in 1..ReadCap
  /\ report \in [Key -> Check \cup {NoCheck}]
  /\ prev \in [Key -> Check \cup {NoCheck}]
  /\ shown \in [Key -> Check \cup {NoCheck}]
  /\ failed \in BOOLEAN /\ sawFail \in BOOLEAN
  /\ ctxDone \in BOOLEAN /\ timer \in BOOLEAN
  /\ code \in {Running, 0, 1, 3, 4}
  /\ pc = "exit" <=> code # Running

\* A burn-in script reads the exit code: 0 must mean that no read of the run
\* held a FAIL, also one that recovered by the next read (watch.go:55-57,
\* 82-85).
ExitZeroMeansClean == code = 0 => ~sawFail

\* 3 is never a false alarm: some read of this run held a FAIL (watch.go:82).
ExitThreeMeansFail == code = 3 => sawFail

\* The arrow lines chain: the old status a line prints comes from prev and is
\* the one the reader of the log saw last for that key, also when the GPU was
\* absent from the reads in between (watch.go:61-69).
LogChains == prev = shown

\* After a read was reported, the log tells the truth about every GPU of that
\* read although only changes were printed (watch.go:59-71).
LogIsCurrent ==
  pc = "select" \/ code \in {0, 3} =>
    \A k \in Key : report[k] # NoCheck => shown[k] = report[k]

\* A run that ends normally before its --count reads was interrupted, and an
\* unlimited one always was (watch.go:39, 72-81).
ShortOnlyWhenInterrupted == code \in {0, 3} => ctxDone \/ n = flags.count

\* What the doc comment of runWatch says of every run (watch.go:15-16).
AnyFailExits3 == code # Running /\ sawFail => code = 3

\* The loop implements what a burn-in relies on.
Promise == INSTANCE BurnIn
  WITH now <- report, failSeen <- sawFail, view <- shown, result <- code
KeepsPromise == Promise!Spec

\* An interrupted watch ends, although the select may prefer the timer a few
\* times (watch.go:75-80).
InterruptEnds == ctxDone ~> pc = "exit"

\* A watch with --count ends without help from anyone (watch.go:39, 72-74).
CountedEnds == flags.count # 0 => <>(pc = "exit")
=============================================================================
