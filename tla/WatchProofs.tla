----------------------------- MODULE WatchProofs -----------------------------
(***************************************************************************)
(* Proofs about Watch, for any GPUs, checks, details and --count.          *)
(***************************************************************************)
EXTENDS Watch, TLAPS

\* The map of the loop and the log agree, and outside the step that is about
\* to report they already hold the last report.
Recorded ==
  /\ prev = shown
  /\ pc # "report" => \A k \in Key : report[k] # NoCheck => shown[k] = report[k]

\* The flag lags behind what was read only while a report waits to be judged.
FlagExact ==
  sawFail <=> failed \/ (pc = "report" /\ HasFail(report))

ExitExact ==
  /\ code = 0 => ~failed
  /\ code = 3 => failed
  /\ code \in {0, 3} => ctxDone \/ n = flags.count

IInv == TypeOK /\ Recorded /\ FlagExact /\ ExitExact

-----------------------------------------------------------------------------
\* An overall FAIL is exactly a FAIL of some check (model.go:236-249).
LEMMA OverallFail == \A r : Overall(r) = "FAIL" <=> HasFail(r)
  BY DEF Overall

\* Printing the changes brings the log to where recording brings the map.
LEMMA PrintedIsRecorded ==
  ASSUME NEW r \in [Key -> Check \cup {NoCheck}],
         shown \in [Key -> Check \cup {NoCheck}]
  PROVE  Printed(shown, r) = Record(shown, r)
<1>1. SUFFICES ASSUME NEW k \in Key
               PROVE  Printed(shown, r)[k] = Record(shown, r)[k]
  BY DEF Printed, Record
<1>2. CASE r[k] = NoCheck
  BY <1>2 DEF Printed, Record, Changed
<1>3. CASE r[k] # NoCheck /\ k \in Changed(shown, r)
  BY <1>3 DEF Printed, Record
<1>4. CASE r[k] # NoCheck /\ k \notin Changed(shown, r)
  <2>1. shown[k] # NoCheck /\ shown[k].status = r[k].status /\ shown[k].detail = r[k].detail
    BY <1>4 DEF Changed
  <2>2. shown[k] \in [status : Status, detail : Detail]
    BY <2>1, CheckAssumption
  <2>3. r[k] \in [status : Status, detail : Detail]
    BY <1>4, CheckAssumption
  <2>4. shown[k] = r[k]
    BY <2>1, <2>2, <2>3
  <2> QED BY <1>4, <2>4 DEF Printed, Record
<1> QED BY <1>2, <1>3, <1>4

\* The map keeps its type and holds what was just recorded (watch.go:69).
LEMMA RecordType ==
  ASSUME NEW old \in [Key -> Check \cup {NoCheck}],
         NEW r \in [Key -> Check \cup {NoCheck}]
  PROVE  /\ Record(old, r) \in [Key -> Check \cup {NoCheck}]
         /\ \A k \in Key : r[k] # NoCheck => Record(old, r)[k] = r[k]
  BY DEF Record

-----------------------------------------------------------------------------
\* The invariant holds before the first read.
LEMMA InitIInv == Init => IInv
<1> SUFFICES ASSUME Init PROVE IInv
  OBVIOUS
<1>1. NoReport \in [Key -> Check \cup {NoCheck}] /\ \A k \in Key : NoReport[k] = NoCheck
  BY DEF NoReport
<1>2. ~HasFail(NoReport)
  BY <1>1 DEF HasFail
<1>3. TypeOK
  <2>1. n \in 1..ReadCap
    BY CountAssumption DEF Init
  <2>2. /\ report \in [Key -> Check \cup {NoCheck}]
        /\ prev \in [Key -> Check \cup {NoCheck}]
        /\ shown \in [Key -> Check \cup {NoCheck}]
    BY <1>1 DEF Init
  <2> QED BY <2>1, <2>2 DEF Init, TypeOK
<1>4. Recorded
  BY <1>1 DEF Init, Recorded
<1>5. FlagExact
  BY <1>2 DEF Init, FlagExact
<1>6. ExitExact
  BY DEF Init, ExitExact, Running
<1> QED BY <1>3, <1>4, <1>5, <1>6 DEF IInv

\* Every step of the loop and of its environment keeps the invariant.
LEMMA NextIInv == IInv /\ [Next]_vars => IInv'
<1> SUFFICES ASSUME IInv, [Next]_vars PROVE IInv'
  OBVIOUS
<1> USE CountAssumption DEF IInv, Running
<1>1. CASE Collect
  <2>1. report' \in [Key -> Check \cup {NoCheck}]
    BY <1>1 DEF Collect, Reports
  <2>2. HasFail(report)' = HasFail(report')
    BY DEF HasFail
  <2> QED BY <1>1, <2>1, <2>2 DEF Collect, TypeOK, Recorded, FlagExact, ExitExact
<1>2. CASE CollectFails
  BY <1>2 DEF CollectFails, TypeOK, Recorded, FlagExact, ExitExact, HasFail
<1>3. CASE GpuNotFound
  BY <1>3 DEF GpuNotFound, TypeOK, Recorded, FlagExact, ExitExact, HasFail
<1>4. CASE Report
  <2>1. prev' = Record(shown, report) /\ shown' = Record(shown, report)
    BY <1>4, PrintedIsRecorded DEF Report, TypeOK, Recorded
  <2>2. shown' \in [Key -> Check \cup {NoCheck}] /\ \A k \in Key : report[k] # NoCheck => shown'[k] = report[k]
    BY <2>1, RecordType DEF TypeOK
  <2>3. failed' <=> sawFail
    BY <1>4, OverallFail DEF Report, FlagExact
  <2>4. TypeOK'
    <3>1. CASE LastRead
      BY <1>4, <2>1, <2>2, <3>1 DEF Report, TypeOK, ExitCode
    <3>2. CASE ~LastRead
      BY <1>4, <2>1, <2>2, <3>2 DEF Report, TypeOK
    <3> QED BY <3>1, <3>2
  <2>5. Recorded'
    BY <1>4, <2>1, <2>2 DEF Report, Recorded
  <2>6. FlagExact'
    BY <1>4, <2>3 DEF Report, FlagExact
  <2>7. ExitExact'
    BY <1>4 DEF Report, ExitExact, ExitCode, LastRead, TypeOK
  <2> QED BY <2>4, <2>5, <2>6, <2>7
<1>5. CASE Stop
  BY <1>5 DEF Stop, TypeOK, Recorded, FlagExact, ExitExact, ExitCode, HasFail
<1>6. CASE NextRead
  BY <1>6 DEF NextRead, TypeOK, Recorded, FlagExact, ExitExact, HasFail
<1>7. CASE TimerFires
  BY <1>7 DEF TimerFires, TypeOK, Recorded, FlagExact, ExitExact, HasFail
<1>8. CASE Interrupt
  BY <1>8 DEF Interrupt, TypeOK, Recorded, FlagExact, ExitExact, HasFail
<1>9. CASE UNCHANGED vars
  BY <1>9 DEF vars, TypeOK, Recorded, FlagExact, ExitExact, HasFail
<1> QED
  BY <1>1, <1>2, <1>3, <1>4, <1>5, <1>6, <1>7, <1>8, <1>9 DEF Next

\* The invariant holds all along.
LEMMA Invariance == Spec => []IInv
  BY InitIInv, NextIInv, PTL DEF Spec, SafeSpec

-----------------------------------------------------------------------------
\* The loop's variables keep their types (watch.go:36-39).
THEOREM TypeCorrect == Spec => []TypeOK
  BY Invariance, PTL DEF IInv

\* The exit code of a run that ends normally is exact: 0 says that no report
\* of the run held a FAIL, 3 that one did (watch.go:55-57, 82-85).
THEOREM ExitZeroSound == Spec => []ExitZeroMeansClean
<1>1. IInv => ExitZeroMeansClean
  BY DEF IInv, TypeOK, FlagExact, ExitExact, ExitZeroMeansClean, Running
<1> QED BY <1>1, Invariance, PTL

\* An exit code of 3 is no false alarm: a report of the run held a FAIL
\* (watch.go:55-57, 82-83).
THEOREM ExitThreeSound == Spec => []ExitThreeMeansFail
<1>1. IInv => ExitThreeMeansFail
  BY DEF IInv, FlagExact, ExitExact, ExitThreeMeansFail
<1> QED BY <1>1, Invariance, PTL

\* What is printed on a change carries the status printed before it, and the
\* log is current after every read (watch.go:59-71).
THEOREM LogSound == Spec => [](LogChains /\ LogIsCurrent)
<1>1. IInv => LogChains /\ LogIsCurrent
  BY DEF IInv, TypeOK, Recorded, LogChains, LogIsCurrent, Running
<1> QED BY <1>1, Invariance, PTL

\* Only a signal shortens a run that ends normally (watch.go:39, 72-81).
THEOREM NotShortened == Spec => []ShortOnlyWhenInterrupted
<1>1. IInv => ShortOnlyWhenInterrupted
  BY DEF IInv, ExitExact, ShortOnlyWhenInterrupted
<1> QED BY <1>1, Invariance, PTL

-----------------------------------------------------------------------------
\* A run of the loop starts as the promise does.
LEMMA InitRefines == Init => Promise!Init
  BY DEF Init, Promise!Init, NoReport

\* Every step of the loop is a step of the promise or none of its business.
LEMMA NextRefines == IInv /\ IInv' /\ [Next]_vars => [Promise!Next]_Promise!vars
<1> SUFFICES ASSUME IInv, IInv', [Next]_vars PROVE [Promise!Next]_Promise!vars
  OBVIOUS
<1> USE DEF IInv
<1>a. pc # "report" => shown = Promise!Overlay(shown, report)
  BY DEF Recorded, TypeOK, Promise!Overlay
<1>b. \A r : Promise!HasFail(r) <=> HasFail(r)
  BY DEF Promise!HasFail, HasFail
<1>1. CASE Collect
  <2>1. Promise!Observe
    BY <1>1, <1>a, <1>b DEF Collect, Reports, Promise!Observe, Promise!Published, TypeOK
  <2> QED BY <2>1 DEF Promise!Next
<1>2. CASE CollectFails
  BY <1>2 DEF CollectFails, TypeOK, Promise!Next, Promise!Abort
<1>3. CASE GpuNotFound
  BY <1>3 DEF GpuNotFound, TypeOK, Promise!Next, Promise!Abort
<1>4. CASE Report
  <2>1. shown' = Promise!Overlay(shown, report)
    BY <1>4, PrintedIsRecorded DEF Report, Recorded, TypeOK, Record, Promise!Overlay
  <2>2. failed' <=> sawFail
    BY <1>4, OverallFail DEF Report, FlagExact
  <2>3. code = Running
    BY <1>4 DEF Report, TypeOK
  <2>4. CASE LastRead
    <3>1. Promise!Finish
      BY <1>4, <2>1, <2>2, <2>3, <2>4 DEF Report, ExitCode, Promise!Finish
    <3> QED BY <3>1 DEF Promise!Next
  <2>5. CASE ~LastRead
    <3>1. Promise!Publish
      BY <1>4, <2>1, <2>3, <2>5 DEF Report, Promise!Publish
    <3> QED BY <3>1 DEF Promise!Next
  <2> QED BY <2>4, <2>5
<1>5. CASE Stop
  <2>1. failed <=> sawFail
    BY <1>5 DEF Stop, FlagExact
  <2>2. Promise!Finish
    BY <1>5, <1>a, <2>1 DEF Stop, TypeOK, ExitCode, Promise!Finish
  <2> QED BY <2>2 DEF Promise!Next
<1>6. CASE NextRead
  BY <1>6 DEF NextRead, Promise!vars
<1>7. CASE TimerFires
  BY <1>7 DEF TimerFires, Promise!vars
<1>8. CASE Interrupt
  BY <1>8 DEF Interrupt, Promise!vars
<1>9. CASE UNCHANGED vars
  BY <1>9 DEF vars, Promise!vars
<1> QED
  BY <1>1, <1>2, <1>3, <1>4, <1>5, <1>6, <1>7, <1>8, <1>9 DEF Next

\* The loop implements BurnIn: every report read is published before the next
\* read, the log shows the last thing read about every check, and a normal end
\* says 3 exactly when some read saw a FAIL (watch.go:38-85).
THEOREM ImplementsPromise == Spec => KeepsPromise
  BY InitRefines, NextRefines, Invariance, PTL
     DEF Spec, SafeSpec, KeepsPromise, Promise!Spec
=============================================================================
