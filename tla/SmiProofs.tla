------------------------------ MODULE SmiProofs ------------------------------
(***************************************************************************)
(* Proofs about Smi, for any set of commands, any limit and any sizes of   *)
(* the writes.                                                             *)
(***************************************************************************)
EXTENDS Smi, TLAPS

\* What the buffer says about the bytes written: their number, or Max + 1.
Counted(len, total) == len = IF total <= Max THEN total ELSE Max + 1

BufferExact == \A c \in cur : Counted(buf, wrote[c])

\* Every command is waiting, running, failed or has an output.
Partition ==
  /\ \A c \in todo : wrote[c] = 0 /\ c \notin cur \cup errs
  /\ \A c \in cur : c \notin errs
  /\ \A c \in todo \cup cur \cup errs : out[c] = NoData
  /\ \A c \in Cmd : c \in todo \cup cur \cup errs \/ out[c] # NoData

LateWaits == late \subseteq todo \cup errs /\ (late # {} => ctxDone)

IInv == TypeOK /\ BufferBounded /\ BufferExact /\ Partition /\ LateWaits /\ WholeOrNothing

-----------------------------------------------------------------------------
\* limitWriter counts exactly up to the limit and recognises every overflow,
\* however the bytes are cut into writes (nvidia.go:109-119).
THEOREM KeptCounts ==
  ASSUME NEW len \in Nat, NEW total \in Nat, NEW p \in Nat, Counted(len, total)
  PROVE  Kept(len, p) \in Nat /\ Kept(len, p) <= Max + 1 /\ Counted(Kept(len, p), total + p)
  BY MaxAssumption DEF Counted, Kept

\* The invariant holds when Run starts.
LEMMA InitIInv == Init => IInv
<1> SUFFICES ASSUME Init PROVE IInv
  OBVIOUS
<1>1. TypeOK
  BY DEF Init, TypeOK
<1>2. BufferBounded /\ BufferExact
  BY MaxAssumption DEF Init, BufferBounded, BufferExact
<1>3. Partition
  BY DEF Init, Partition
<1>4. LateWaits /\ WholeOrNothing
  BY DEF Init, LateWaits, WholeOrNothing
<1> QED BY <1>1, <1>2, <1>3, <1>4 DEF IInv

\* The return of a command keeps the invariant, with or without an error
\* (nvidia.go:95-101, 68-81).
LEMMA ReturnIInv ==
  ASSUME IInv, NEW c \in cur, NEW f \in BOOLEAN, Return(c, f)
  PROVE  IInv'
<1> USE DEF IInv
<1>1. cur = {c} /\ c \in Cmd
  BY DEF TypeOK
<1>2. CASE f \/ buf > Max
  <2>1. /\ cur' = {} /\ child' = "none" /\ held' = FALSE
        /\ errs' = errs \cup {c} /\ UNCHANGED <<out, todo, deadline, ctxDone, wrote, buf, late>>
    BY <1>2 DEF Return
  <2>2. TypeOK'
    BY <1>1, <2>1 DEF TypeOK
  <2>3. BufferBounded' /\ BufferExact' /\ LateWaits'
    BY <2>1 DEF BufferBounded, BufferExact, LateWaits
  <2>4. Partition' /\ WholeOrNothing'
    BY <1>1, <2>1 DEF Partition, WholeOrNothing
  <2> QED BY <2>2, <2>3, <2>4
<1>3. CASE ~(f \/ buf > Max)
  <2>1. buf = wrote[c]
    BY <1>1, <1>3, MaxAssumption DEF BufferExact, Counted, TypeOK
  <2>2. out' = [out EXCEPT ![c] = buf] /\ errs' = errs
    BY <1>3 DEF Return
  <2>3. TypeOK'
    <3>1. out' \in [Cmd -> Nat \cup {NoData}]
      BY <2>2 DEF TypeOK
    <3> QED BY <1>1, <2>2, <3>1 DEF Return, TypeOK
  <2>4. BufferBounded' /\ BufferExact' /\ LateWaits'
    BY <2>2 DEF Return, BufferBounded, BufferExact, LateWaits
  <2>5. Partition'
    <3>1. out'[c] = buf /\ \A d \in Cmd \ {c} : out'[d] = out[d]
      BY <1>1, <2>2 DEF TypeOK
    <3>2. buf # NoData
      BY DEF TypeOK, NoData
    <3> QED BY <1>1, <2>2, <3>1, <3>2 DEF Return, Partition, TypeOK
  <2>6. WholeOrNothing'
    BY <1>1, <2>1, <2>2 DEF Return, WholeOrNothing, TypeOK
  <2> QED BY <2>3, <2>4, <2>5, <2>6
<1> QED BY <1>2, <1>3

\* Every step keeps the invariant, those of the child and the signal included.
LEMMA NextIInv == IInv /\ [Next]_vars => IInv'
<1> SUFFICES ASSUME IInv, [Next]_vars PROVE IInv'
  OBVIOUS
<1> USE MaxAssumption DEF IInv
<1>1. CASE NoBinary
  BY <1>1 DEF NoBinary, TypeOK, BufferBounded, BufferExact, Partition, LateWaits, WholeOrNothing
<1>2. ASSUME NEW c \in Cmd, StartFails(c) PROVE IInv'
  BY <1>2 DEF StartFails, TypeOK, BufferBounded, BufferExact, Partition, LateWaits, WholeOrNothing
<1>3. ASSUME NEW c \in Cmd, Start(c) PROVE IInv'
  <2>1. TypeOK'
    BY <1>3 DEF Start, TypeOK
  <2>2. BufferBounded' /\ BufferExact'
    BY <1>3 DEF Start, TypeOK, BufferBounded, BufferExact, Partition, Counted
  <2>3. Partition' /\ LateWaits' /\ WholeOrNothing'
    BY <1>3 DEF Start, TypeOK, Partition, LateWaits, WholeOrNothing
  <2> QED BY <2>1, <2>2, <2>3
<1>4. ASSUME NEW c \in Cmd, Returns(c) PROVE IInv'
  BY <1>4, ReturnIInv DEF Returns
<1>5. ASSUME NEW c \in Cmd, WaitDelayEnds(c) PROVE IInv'
  BY <1>5, ReturnIInv DEF WaitDelayEnds
<1>6. ASSUME NEW c \in Cmd, NEW p \in Chunk, Writes(c, p) PROVE IInv'
  <2>1. cur = {c} /\ p \in Nat /\ wrote[c] \in Nat /\ buf \in Nat
    BY <1>6, ChunkAssumption DEF Writes, TypeOK
  <2>2. Counted(buf, wrote[c])
    BY <2>1 DEF BufferExact
  <2>3. buf' \in Nat /\ buf' <= Max + 1 /\ Counted(buf', wrote[c] + p)
    BY <1>6, <2>1, <2>2, KeptCounts DEF Writes
  <2>4. wrote' = [wrote EXCEPT ![c] = wrote[c] + p] /\ wrote' \in [Cmd -> Nat]
    BY <1>6, <2>1 DEF Writes, TypeOK
  <2>5. TypeOK'
    BY <1>6, <2>3, <2>4 DEF Writes, TypeOK
  <2>6. BufferBounded' /\ BufferExact'
    BY <1>6, <2>1, <2>3, <2>4 DEF Writes, BufferBounded, BufferExact, TypeOK
  <2>7. Partition' /\ LateWaits'
    BY <1>6, <2>1, <2>4 DEF Writes, Partition, LateWaits, TypeOK
  <2>8. WholeOrNothing'
    BY <1>6, <2>1, <2>4 DEF Writes, Partition, WholeOrNothing, TypeOK
  <2> QED BY <2>5, <2>6, <2>7, <2>8
<1>7. CASE Exits
  BY <1>7 DEF Exits, TypeOK, BufferBounded, BufferExact, Partition, LateWaits, WholeOrNothing
<1>8. CASE DescendantCloses
  BY <1>8 DEF DescendantCloses, TypeOK, BufferBounded, BufferExact, Partition, LateWaits, WholeOrNothing
<1>9. CASE Expires
  BY <1>9 DEF Expires, TypeOK, BufferBounded, BufferExact, Partition, LateWaits, WholeOrNothing
<1>10. CASE Interrupt
  BY <1>10 DEF Interrupt, TypeOK, BufferBounded, BufferExact, Partition, LateWaits, WholeOrNothing
<1>11. CASE Kill
  BY <1>11 DEF Kill, TypeOK, BufferBounded, BufferExact, Partition, LateWaits, WholeOrNothing
<1>12. CASE UNCHANGED vars
  BY <1>12 DEF vars, TypeOK, BufferBounded, BufferExact, Partition, LateWaits, WholeOrNothing, Counted
<1> QED
  BY <1>1, <1>2, <1>3, <1>4, <1>5, <1>6, <1>7, <1>8, <1>9, <1>10, <1>11, <1>12 DEF Next

\* The invariant holds all along.
LEMMA Invariance == Spec => []IInv
  BY InitIInv, NextIInv, PTL DEF Spec, SafeSpec

-----------------------------------------------------------------------------
\* The variables of the run keep their types (nvidia.go:51-102).
THEOREM TypeCorrect == Spec => []TypeOK
  BY Invariance, PTL DEF IInv

\* Whatever a command writes, in whatever pieces, and however it ends, Run
\* never returns a part of its output as if it were all (nvidia.go:85-119).
THEOREM WholeOutputs == Spec => [](WholeOrNothing /\ BufferBounded)
  BY Invariance, PTL DEF IInv

\* Run accounts for every command exactly once (nvidia.go:67-81).
THEOREM EveryCommandAccounted == Spec => []OutputXorError
<1>1. IInv => OutputXorError
  BY DEF IInv, Partition, OutputXorError, Done
<1> QED BY <1>1, Invariance, PTL

\* No command the signal found waiting produces an output (nvidia.go:68-72).
THEOREM LateFail == Spec => []LateCommandsFail
<1>1. IInv => LateCommandsFail
  BY DEF IInv, LateWaits, LateCommandsFail, Done
<1> QED BY <1>1, Invariance, PTL
-----------------------------------------------------------------------------
(* Run implements the promise of Outputs. *)

\* A command has no result as long as it waits or runs.
LEMMA ResultNone ==
  ASSUME IInv, NEW c \in Cmd
  PROVE  Result[c] = "none" <=> c \in todo \cup cur
  BY DEF IInv, Result, Partition, TypeOK, WholeOrNothing, NoData

\* Run starts as the promise does.
LEMMA InitRefines == Init => Promise!Init
  BY DEF Init, Promise!Init, Result, NoData

\* The return of a command is its output or its failure (nvidia.go:68-81, 95-101).
LEMMA ReturnRefines ==
  ASSUME IInv, IInv', NEW c \in Cmd, c \in cur, NEW f \in BOOLEAN, Return(c, f)
  PROVE  Promise!Next
<1>1. cur = {c} /\ Result[c] = "none" /\ c \notin late
  BY ResultNone DEF IInv, TypeOK, LateWaits, Partition
<1>2. UNCHANGED <<ctxDone, late, wrote>>
  BY DEF Return
<1>3. CASE f \/ buf > Max
  <2>1. errs' = errs \cup {c} /\ out' = out
    BY <1>3 DEF Return
  <2>2. Result' = [d \in Cmd |-> IF d \in {c} THEN "error" ELSE Result[d]]
    BY <1>2, <2>1 DEF Result
  <2>3. Promise!Fails({c})
    BY <1>1, <1>2, <2>2 DEF Promise!Fails, Promise!Waiting
  <2> QED BY <2>3 DEF Promise!Next
<1>4. CASE ~(f \/ buf > Max)
  <2>1. errs' = errs /\ out' = [out EXCEPT ![c] = buf]
    BY <1>4 DEF Return
  <2>2. c \notin errs /\ out'[c] = wrote[c] /\ out'[c] # NoData
    BY <1>1, <1>2, <2>1 DEF IInv, Partition, WholeOrNothing, TypeOK, NoData
  <2>3. PICK r \in {"output", "empty"} : Result'[c] = r
    BY <1>2, <2>1, <2>2 DEF Result
  <2>4. \A d \in Cmd \ {c} : out'[d] = out[d]
    BY <2>1 DEF IInv, TypeOK
  <2>5. \A d \in Cmd \ {c} : Result'[d] = Result[d]
    BY <1>2, <2>1, <2>4 DEF Result
  <2>6. Result' = [Result EXCEPT ![c] = r]
    BY <2>3, <2>5 DEF Result
  <2>7. Promise!Delivers(c, r)
    BY <1>1, <1>2, <2>6 DEF Promise!Delivers, Promise!Waiting
  <2> QED BY <2>7 DEF Promise!Next
<1> QED BY <1>3, <1>4

\* Every step of Run is one of the promise or changes nothing it speaks of.
LEMMA NextRefines == IInv /\ IInv' /\ [Next]_vars => [Promise!Next]_(Promise!vars)
<1> SUFFICES ASSUME IInv, IInv', [Next]_vars PROVE Promise!Next \/ UNCHANGED Promise!vars
  OBVIOUS
<1> DEFINE Stutters == UNCHANGED <<errs, out, ctxDone, late>>
<1>1. ASSUME Stutters, \A c \in Cmd : out[c] # NoData => wrote'[c] = wrote[c]
      PROVE  UNCHANGED Promise!vars
  <2>1. Result' = Result
    BY <1>1 DEF Result
  <2> QED BY <1>1, <2>1 DEF Promise!vars
<1>2. CASE NoBinary
  <2>1. Result' = [c \in Cmd |-> IF c \in Cmd THEN "error" ELSE Result[c]]
    BY <1>2 DEF NoBinary, Result
  <2>2. CASE Cmd # {}
    <3>1. Promise!Fails(Cmd)
      BY <1>2, <2>1, <2>2, ResultNone DEF NoBinary, Promise!Fails, Promise!Waiting
    <3> QED BY <3>1 DEF Promise!Next
  <2>3. CASE Cmd = {}
    <3>1. Result' = Result
      BY <2>3 DEF Result
    <3> QED BY <1>2, <3>1 DEF NoBinary, Promise!vars
  <2> QED BY <2>2, <2>3
<1>3. ASSUME NEW c \in Cmd, StartFails(c) PROVE Promise!Next
  <2>1. Result' = [d \in Cmd |-> IF d \in {c} THEN "error" ELSE Result[d]]
    BY <1>3 DEF StartFails, Result
  <2>2. Promise!Fails({c})
    BY <1>3, <2>1, ResultNone DEF StartFails, Promise!Fails, Promise!Waiting
  <2> QED BY <2>2 DEF Promise!Next
<1>4. ASSUME NEW c \in Cmd, Start(c) PROVE UNCHANGED Promise!vars
  BY <1>1, <1>4 DEF Start
<1>5. ASSUME NEW c \in Cmd, Returns(c) \/ WaitDelayEnds(c) PROVE Promise!Next
  BY <1>5, ReturnRefines DEF Returns, WaitDelayEnds
<1>6. ASSUME NEW c \in Cmd, NEW p \in Chunk, Writes(c, p) PROVE UNCHANGED Promise!vars
  <2>1. out[c] = NoData /\ \A d \in Cmd \ {c} : wrote'[d] = wrote[d]
    BY <1>6 DEF Writes, IInv, Partition, TypeOK
  <2> QED BY <1>1, <1>6, <2>1 DEF Writes
<1>7. ASSUME Exits \/ DescendantCloses \/ Expires \/ Kill PROVE UNCHANGED Promise!vars
  BY <1>1, <1>7 DEF Exits, DescendantCloses, Expires, Kill
<1>8. CASE Interrupt
  <2>1. Result' = Result
    BY <1>8 DEF Interrupt, Result
  <2>2. Promise!Waiting = todo \cup cur
    BY ResultNone DEF Promise!Waiting, IInv, TypeOK
  <2>3. Promise!Cancel(todo)
    BY <1>8, <2>1, <2>2 DEF Interrupt, Done, Promise!Cancel, IInv, TypeOK
  <2>4. todo \in SUBSET Cmd
    BY DEF IInv, TypeOK
  <2> QED BY <2>3, <2>4 DEF Promise!Next
<1>9. CASE UNCHANGED vars
  BY <1>1, <1>9 DEF vars
<1> QED
  BY <1>2, <1>3, <1>4, <1>5, <1>6, <1>7, <1>8, <1>9 DEF Next

\* For any commands, any limit and any child, Run is an implementation of what
\* its callers count on (nvidia.go:58-102).
THEOREM ImplementsPromise == Spec => KeepsPromise
<1>1. Spec => [][Next]_vars
  BY PTL DEF Spec, SafeSpec
<1>2. Spec => Promise!Init
  BY InitRefines, PTL DEF Spec, SafeSpec
<1> QED
  BY <1>1, <1>2, Invariance, NextRefines, PTL DEF KeepsPromise, Promise!Spec
=============================================================================
