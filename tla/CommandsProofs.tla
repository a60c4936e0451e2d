---------------------------- MODULE CommandsProofs ----------------------------
(***************************************************************************)
(* What path, check and capture make of the outputs of nvidia-smi, for any *)
(* host, any texts and any order in which the commands end and the files   *)
(* are written: a fixture replays the live report, every row, link and     *)
(* cell is in the report where it belongs, and --gpu and the exit code     *)
(* tell the truth of it.                                                   *)
(***************************************************************************)
EXTENDS Commands, ListProofs

\* The directory holds the outputs of the commands in S and nothing else.
Holds(S) ==
  /\ DOMAIN dir = { c \in S : res[c] = "output" }
  /\ \A c \in DOMAIN dir : dir[c] = text[c]

IInv ==
  /\ pending \subseteq Cmd
  /\ res \in [Cmd -> {"none", "output", "empty", "error"}]
  /\ pc \in {"collect", "report"} => cmd = "" /\ dir = <<>>
  /\ pc = "write" => Holds(Cmd \ pending)
  /\ pc = "done" /\ cmd = "capture" /\ code = 0 => Holds(Cmd)

\* The invariant holds when a command starts.
LEMMA InitIInv == Init => IInv
  BY DEF Init, Run!Init, IInv

\* What nvidia-smi does changes only the outcomes and the texts.
LEMMA RunsIInv ==
  ASSUME IInv, pc = "collect", Run!Next, UNCHANGED <<pc, cmd, pending, dir, code>>
  PROVE  IInv'
<1>1. res' \in [Cmd -> {"none", "output", "empty", "error"}]
  <2>1. ASSUME NEW c \in Cmd, NEW r \in {"output", "empty"}, Run!Delivers(c, r)
        PROVE  res' \in [Cmd -> {"none", "output", "empty", "error"}]
    BY <2>1 DEF Run!Delivers, IInv
  <2>2. ASSUME NEW S \in SUBSET Cmd, Run!Fails(S)
        PROVE  res' \in [Cmd -> {"none", "output", "empty", "error"}]
    BY <2>2 DEF Run!Fails, IInv
  <2>3. ASSUME NEW S \in SUBSET Cmd, Run!Cancel(S)
        PROVE  res' \in [Cmd -> {"none", "output", "empty", "error"}]
    BY <2>3 DEF Run!Cancel, IInv
  <2> QED BY <2>1, <2>2, <2>3 DEF Run!Next
<1> QED BY <1>1 DEF IInv

\* Every step of the commands keeps the invariant.
LEMMA NextIInv == IInv /\ [Next]_vars => IInv'
<1> SUFFICES ASSUME IInv, [Next]_vars PROVE IInv'
  OBVIOUS
<1>1. CASE OpenFails
  BY <1>1 DEF OpenFails, IInv, smiVars
<1>2. CASE Breaks
  <2>1. Run!Next /\ pc = "collect" /\ UNCHANGED <<pc, cmd, pending, dir, code>>
    BY <1>2 DEF Breaks, Run!Next
  <2> QED BY <2>1, RunsIInv
<1>3. ASSUME NEW c \in Cmd, Deliver(c) PROVE IInv'
  <2>1. Run!Next /\ pc = "collect" /\ UNCHANGED <<pc, cmd, pending, dir, code>>
    BY <1>3 DEF Deliver, Run!Next
  <2> QED BY <2>1, RunsIInv
<1>4. CASE Build
  BY <1>4 DEF Build, IInv, smiVars
<1>5. CASE StartWriting
  <2>1. pc = "collect" /\ pc' = "write" /\ cmd' = "capture" /\ pending' = Cmd /\ res' = res /\ dir' = dir
    BY <1>5 DEF StartWriting, smiVars
  <2>2. dir' = <<>>
    BY <2>1 DEF IInv
  <2>3. DOMAIN dir' = {}
    <3>1. DOMAIN <<>> = {}
      OBVIOUS
    <3> QED BY <2>2, <3>1
  <2>4. Holds(Cmd \ pending)'
    BY <2>1, <2>3 DEF Holds
  <2> QED BY <2>1, <2>4 DEF IInv
<1>6. ASSUME NEW c \in Cmd, WriteOutput(c) PROVE IInv'
  <2>1. UNCHANGED <<res, text, pc>> /\ pc = "write" /\ c \in pending /\ pending' = pending \ {c}
    BY <1>6 DEF WriteOutput, smiVars
  <2>2. dir' = [ f \in DOMAIN dir \cup { x \in {c} : Saved(x) } |->
                   IF f = c /\ Saved(f) THEN text[f] ELSE dir[f] ]
    BY <1>6 DEF WriteOutput
  <2>3. DOMAIN dir' = { d \in Cmd \ pending' : res'[d] = "output" }
    BY <2>1, <2>2 DEF Holds, Saved, IInv
  <2>4. \A d \in DOMAIN dir' : dir'[d] = text'[d]
    BY <2>1, <2>2 DEF Holds, Saved, IInv
  <2>5. Holds(Cmd \ pending)'
    BY <2>3, <2>4 DEF Holds
  <2> QED BY <2>1, <2>5 DEF IInv
<1>7. CASE WriteFails
  BY <1>7 DEF WriteFails, IInv, smiVars
<1>8. CASE Captured
  BY <1>8 DEF Captured, IInv, smiVars, Holds
<1>9. ASSUME NEW rep \in report, Show(rep) PROVE IInv'
  BY <1>9 DEF Show, IInv, smiVars
<1>10. CASE UNCHANGED vars
  BY <1>10 DEF vars, smiVars, IInv, Holds
<1> QED
  BY <1>1, <1>2, <1>3, <1>4, <1>5, <1>6, <1>7, <1>8, <1>9, <1>10 DEF Next

\* The invariant holds all along.
LEMMA Invariance == Spec => []IInv
  BY InitIInv, NextIInv, PTL DEF Spec

-----------------------------------------------------------------------------
\* What a directory that holds the outputs says to FromDir is what the commands
\* said; an output that is not there is an error (nvidia.go:121-143).
LEMMA SameOutputs ==
  ASSUME Holds(Cmd), IInv
  PROVE  LET f == FromDir(dir)
         IN /\ QueryOf(f.res, f.text) = QueryOf(res, text)
            /\ NVLinkListOf(f.res, f.text) = NVLinkListOf(res, text)
            /\ TopoOf(f.res, f.text) = TopoOf(res, text)
            /\ Errors(res) \subseteq Errors(f.res)
<1> DEFINE f == FromDir(dir)
<1>1. \A c \in Cmd : f.res[c] = "output" <=> res[c] = "output"
  BY DEF Holds, FromDir
<1>2. \A c \in Cmd : res[c] = "output" => f.text[c] = text[c]
  BY DEF Holds, FromDir
<1>3. \A c \in Cmd : res[c] = "error" => f.res[c] = "error"
  BY DEF Holds, FromDir
<1>4. "query" \in Cmd /\ "nvlink" \in Cmd /\ "topo" \in Cmd
  BY DEF Cmd
<1> HIDE DEF f
<1>5. QueryOf(f.res, f.text) = QueryOf(res, text)
  BY <1>1, <1>2, <1>4 DEF QueryOf
<1>6. NVLinkListOf(f.res, f.text) = NVLinkListOf(res, text)
  BY <1>1, <1>2, <1>4 DEF NVLinkListOf
<1>7. TopoOf(f.res, f.text) = TopoOf(res, text)
  BY <1>1, <1>2, <1>4 DEF TopoOf
<1>8. Errors(res) \subseteq Errors(f.res)
  BY <1>3 DEF Errors
<1> QED BY <1>5, <1>6, <1>7, <1>8 DEF f

\* More errors change only the limitations of a report.
LEMMA ErrorsOnlyLimit ==
  ASSUME NEW q, NEW l, NEW t, NEW E, NEW F, E \subseteq F
  PROVE  LET a == ReportFrom(q, l, t, E)
             b == ReportFrom(q, l, t, F)
         IN /\ b.checks = a.checks /\ b.smi = a.smi /\ b.topo = a.topo
            /\ a.limits \subseteq b.limits
  BY DEF ReportFrom

\* For any host, texts and order of events, a capture into an empty directory
\* that ended well gives the live report again (main.go:289-308).
THEOREM FixtureReplays == Spec => []CaptureReplays
<1>1. IInv => CaptureReplays
  <2> SUFFICES ASSUME IInv, pc = "done", cmd = "capture", code = 0 PROVE CaptureReplays
    BY DEF CaptureReplays
  <2>1. Holds(Cmd)
    BY DEF IInv
  <2> QED BY <2>1, SameOutputs, ErrorsOnlyLimit DEF CaptureReplays, ReportOf
<1> QED BY <1>1, Invariance, PTL

-----------------------------------------------------------------------------
(* ParseQuery. *)

\* Every GPU is that of a fitting row before line k + 1, and after the GPU of
\* such a row come those of later rows only.
Kept(lines, k, gpus) ==
  /\ \A i \in 1..Len(gpus) : \E m \in 1..k : Fits(lines[m]) /\ gpus[i] = Entry(lines[m])
  /\ \A m \in 1..k : Fits(lines[m]) =>
       \E i \in 1..Len(gpus) :
         /\ gpus[i] = Entry(lines[m])
         /\ \A j \in (i + 1)..Len(gpus) : \E q \in (m + 1)..k : Fits(lines[q]) /\ gpus[j] = Entry(lines[q])

\* One more line.
LEMMA KeptStep ==
  ASSUME NEW lines, NEW k \in Nat, NEW T, NEW gpus \in Seq(T), Kept(lines, k, gpus), Entry(lines[k + 1]) \in T
  PROVE  Kept(lines, k + 1, KeepRow(gpus, lines[k + 1]))
<1> DEFINE row == lines[k + 1]
           more == KeepRow(gpus, row)
<1>1. Len(gpus) \in Nat
  BY LenProperties
<1>2. CASE ~Fits(row)
  <2>1. more = gpus
    BY <1>2 DEF KeepRow
  <2>2. \A m \in 1..(k + 1) : Fits(lines[m]) => m \in 1..k
    BY <1>2
  <2> HIDE DEF more, row
  <2>3. Kept(lines, k + 1, gpus)
    BY <2>2 DEF Kept
  <2> QED BY <2>1, <2>3 DEF more, row
<1>3. CASE Fits(row)
  <2>1. more = Append(gpus, Entry(row))
    BY <1>3 DEF KeepRow
  <2>2. /\ Len(more) = Len(gpus) + 1 /\ more[Len(gpus) + 1] = Entry(row)
        /\ \A i \in 1..Len(gpus) : more[i] = gpus[i]
    BY <2>1, AppendProperties
  <2> HIDE DEF more, row
  <2>3. ASSUME NEW i \in 1..Len(more) PROVE \E m \in 1..(k + 1) : Fits(lines[m]) /\ more[i] = Entry(lines[m])
    <3>1. CASE i = Len(gpus) + 1
      BY <1>3, <2>2, <3>1 DEF row
    <3>2. CASE i # Len(gpus) + 1
      <4>1. i \in 1..Len(gpus)
        BY <1>1, <2>2, <3>2
      <4>2. PICK m \in 1..k : Fits(lines[m]) /\ gpus[i] = Entry(lines[m])
        BY <4>1 DEF Kept
      <4> QED BY <2>2, <4>1, <4>2
    <3> QED BY <3>1, <3>2
  <2>4. ASSUME NEW m \in 1..(k + 1), Fits(lines[m])
        PROVE  \E i \in 1..Len(more) :
                 /\ more[i] = Entry(lines[m])
                 /\ \A j \in (i + 1)..Len(more) : \E q \in (m + 1)..(k + 1) : Fits(lines[q]) /\ more[j] = Entry(lines[q])
    <3>1. CASE m = k + 1
      <4>1. Len(gpus) + 1 \in 1..Len(more) /\ (Len(gpus) + 1 + 1)..Len(more) = {}
        BY <1>1, <2>2
      <4> QED BY <2>2, <3>1, <4>1 DEF row
    <3>2. CASE m # k + 1
      <4>1. PICK i \in 1..Len(gpus) :
              /\ gpus[i] = Entry(lines[m])
              /\ \A j \in (i + 1)..Len(gpus) : \E q \in (m + 1)..k : Fits(lines[q]) /\ gpus[j] = Entry(lines[q])
        BY <2>4, <3>2 DEF Kept
      <4>2. ASSUME NEW j \in (i + 1)..Len(more)
            PROVE  \E q \in (m + 1)..(k + 1) : Fits(lines[q]) /\ more[j] = Entry(lines[q])
        <5>1. CASE j = Len(gpus) + 1
          <6>1. k + 1 \in (m + 1)..(k + 1)
            BY <3>2
          <6> QED BY <1>3, <2>2, <5>1, <6>1 DEF row
        <5>2. CASE j # Len(gpus) + 1
          <6>1. j \in (i + 1)..Len(gpus) /\ j \in 1..Len(gpus)
            BY <1>1, <2>2, <5>2
          <6>2. PICK q \in (m + 1)..k : Fits(lines[q]) /\ gpus[j] = Entry(lines[q])
            BY <4>1, <6>1
          <6>3. q \in (m + 1)..(k + 1)
            OBVIOUS
          <6> QED BY <2>2, <6>1, <6>2, <6>3
        <5> QED BY <5>1, <5>2
      <4>3. i \in 1..Len(more)
        BY <1>1, <2>2
      <4> QED BY <2>2, <4>1, <4>2, <4>3
    <3> QED BY <3>1, <3>2
  <2>5. Kept(lines, k + 1, more)
    BY <2>3, <2>4 DEF Kept
  <2> QED BY <2>5 DEF more, row
<1> QED BY <1>2, <1>3

\* The GPUs of an inventory, for a text of any length (nvidia.go:158-202).
LEMMA KeptAll ==
  ASSUME NEW X, NEW lines \in Seq(X)
  PROVE  LET gpus == FoldLeft(KeepRow, <<>>, lines)
         IN (\E T : gpus \in Seq(T)) /\ Kept(lines, Len(lines), gpus)
<1> DEFINE n == Len(lines)
           U == { Entry(lines[i]) : i \in 1..n }
           T == Seq(U)
           step == [ i \in 1..n |-> [ gpus \in T |-> KeepRow(gpus, lines[i]) ] ]
           IsFold(it) == it = [ s \in SUBSET (1..n) |->
                                  IF s = {} THEN <<>> ELSE KeepRow(it[s \ {Max(s)}], lines[Max(s)]) ]
<1>1. n \in Nat /\ DOMAIN lines = 1..n
  BY LenProperties
<1>2. <<>> \in T /\ step \in [1..n -> [T -> T]]
  <2>1. ASSUME NEW i \in 1..n, NEW gpus \in T PROVE KeepRow(gpus, lines[i]) \in T
    <3>1. Entry(lines[i]) \in U
      OBVIOUS
    <3> HIDE DEF U
    <3> QED BY <3>1, AppendProperties DEF KeepRow
  <2> HIDE DEF U
  <2> QED BY <2>1
<1>3. ASSUME NEW s \in SUBSET (1..n), s # {} PROVE Max(s) \in 1..n
  <2>1. s \in SUBSET (0..n)
    OBVIOUS
  <2> QED BY <1>1, <1>3, <2>1, MaxOf
<1>4. \E it : IsFold(it)
  <2>1. PICK it : FoldDefines(n, T, <<>>, step, it)
    <3> HIDE DEF n, T, step
    <3> QED BY <1>1, <1>2, FoldExists, Zenon
  <2>2. /\ it \in [SUBSET (1..n) -> T]
        /\ \A s \in SUBSET (1..n) : it[s] = IF s = {} THEN <<>> ELSE step[Max(s)][it[s \ {Max(s)}]]
    <3> HIDE DEF n, T, step
    <3> QED BY <2>1 DEF FoldDefines
  <2>3. ASSUME NEW s \in SUBSET (1..n), s # {}
        PROVE  step[Max(s)][it[s \ {Max(s)}]] = KeepRow(it[s \ {Max(s)}], lines[Max(s)])
    <3>1. it[s \ {Max(s)}] \in T
      <4> HIDE DEF T
      <4> QED BY <2>2
    <3> HIDE DEF T
    <3> QED BY <1>3, <2>3, <3>1
  <2>4. it = [ s \in SUBSET (1..n) |-> IF s = {} THEN <<>> ELSE KeepRow(it[s \ {Max(s)}], lines[Max(s)]) ]
    <3> HIDE DEF T, step
    <3> QED BY <2>2, <2>3
  <2> QED BY <2>4
<1>5. PICK g : IsFold(g) /\ FoldLeft(KeepRow, <<>>, lines) = g[1..n]
  <2>1. FoldLeft(KeepRow, <<>>, lines) = (CHOOSE g : IsFold(g))[1..n]
    BY <1>1 DEF FoldLeft, MapThenFoldSet
  <2>2. IsFold(CHOOSE g : IsFold(g))
    <3> HIDE DEF IsFold
    <3> QED BY <1>4
  <2> HIDE DEF IsFold
  <2> QED BY <2>1, <2>2
<1>6. PICK r : Iterates(n, T, <<>>, step, r) /\ r[n] = g[1..n]
  <2>1. g[{}] = <<>>
    BY <1>5
  <2>2. ASSUME NEW s \in SUBSET (1..n), s # {}, g[s \ {Max(s)}] \in T
        PROVE  g[s] = step[Max(s)][g[s \ {Max(s)}]]
    <3>1. g[s] = KeepRow(g[s \ {Max(s)}], lines[Max(s)])
      BY <1>5, <2>2
    <3> HIDE DEF T
    <3> QED BY <1>3, <2>2, <3>1
  <2> HIDE DEF T, step, n
  <2>3. FoldsBy(n, T, <<>>, step, g)
    BY <2>1, <2>2 DEF FoldsBy
  <2> QED BY <1>1, <1>2, <2>3, FoldRuns
<1> DEFINE S == { k \in 0..n : Kept(lines, k, r[k]) }
<1>7. r \in [0..n -> T] /\ r[0] = <<>> /\ \A k \in 0..(n - 1) : r[k + 1] = KeepRow(r[k], lines[k + 1])
  <2>1. r \in [0..n -> T] /\ r[0] = <<>> /\ \A k \in 0..(n - 1) : r[k + 1] = step[k + 1][r[k]]
    <3> HIDE DEF T, step, n
    <3> QED BY <1>6 DEF Iterates
  <2>2. ASSUME NEW k \in 0..(n - 1) PROVE step[k + 1][r[k]] = KeepRow(r[k], lines[k + 1])
    <3>1. k + 1 \in 1..n /\ k \in 0..n
      BY <1>1
    <3>2. r[k] \in T
      <4> HIDE DEF T
      <4> QED BY <2>1, <3>1
    <3> HIDE DEF T
    <3> QED BY <3>1, <3>2
  <2> HIDE DEF T, step
  <2> QED BY <2>1, <2>2
<1>8. 0 \in S
  <2>1. Kept(lines, 0, <<>>)
    BY DEF Kept
  <2> QED BY <1>1, <1>7, <2>1
<1>9. ASSUME NEW k \in 0..(n - 1), k \in S PROVE k + 1 \in S
  <2>1. k + 1 \in 1..n /\ k \in 0..n /\ k + 1 \in 0..n /\ k \in Nat
    BY <1>1
  <2>2. Entry(lines[k + 1]) \in U /\ r[k] \in Seq(U)
    <3> QED BY <1>7, <2>1
  <2> HIDE DEF U
  <2>3. Kept(lines, k + 1, KeepRow(r[k], lines[k + 1]))
    BY <1>9, <2>1, <2>2, KeptStep
  <2> QED BY <1>7, <2>1, <2>3
<1>10. n \in S
  <2> HIDE DEF S, n
  <2> QED BY <1>1, <1>8, <1>9, InductionTo
<1>11. r[n] \in T
  <2> HIDE DEF T
  <2> QED BY <1>1, <1>7
<1> HIDE DEF U
<1> QED BY <1>5, <1>6, <1>10, <1>11

\* The rows of an inventory about function d.
Rows(lines, d) == { n \in 1..Len(lines) : Fits(lines[n]) /\ CanonicalBDF(lines[n].bus) = d }

\* A function of the host has an entry when a row is about it, that of the last
\* one (build.go:198-206).
LEMMA LastRowWins ==
  ASSUME NEW X, NEW lines \in Seq(X), NEW gpus, gpus = ParseQuery(lines).gpus, NEW d
  PROVE  /\ (\E x \in ToSet(gpus) : x.bdf = d) <=> Rows(lines, d) # {}
         /\ d \in DOMAIN ByBDF(gpus) <=> d \in DOMAIN Host.dev /\ Rows(lines, d) # {}
         /\ d \in DOMAIN ByBDF(gpus) => ByBDF(gpus)[d] = Entry(lines[Max(Rows(lines, d))])
<1> DEFINE n == Len(lines)
           R == Rows(lines, d)
           I == { i \in DOMAIN gpus : gpus[i].bdf = d }
<1>1. gpus = FoldLeft(KeepRow, <<>>, lines)
  BY DEF ParseQuery
<1>2. PICK T : gpus \in Seq(T)
  BY <1>1, KeptAll
<1>3. Kept(lines, n, gpus)
  BY <1>1, KeptAll
<1>4. DOMAIN gpus = 1..Len(gpus) /\ Len(gpus) \in Nat /\ n \in Nat
  BY <1>2, LenProperties
<1>5. \A row : Entry(row).bdf = CanonicalBDF(row.bus)
  BY DEF Entry
<1>6. I # {} <=> R # {}
  <2>1. ASSUME NEW i \in I PROVE R # {}
    <3>1. PICK m \in 1..n : Fits(lines[m]) /\ gpus[i] = Entry(lines[m])
      BY <1>3, <1>4 DEF Kept
    <3>2. m \in R
      BY <1>5, <3>1 DEF Rows
    <3> QED BY <3>2
  <2>2. ASSUME NEW m \in R PROVE I # {}
    <3>1. PICK i \in 1..Len(gpus) : gpus[i] = Entry(lines[m])
      BY <1>3, <2>2 DEF Kept, Rows
    <3>2. i \in I
      BY <1>4, <1>5, <2>2, <3>1 DEF Rows
    <3> QED BY <3>2
  <2> QED BY <2>1, <2>2
<1>7. (\E x \in ToSet(gpus) : x.bdf = d) <=> I # {}
  BY DEF ToSet
<1>8. ASSUME R # {} PROVE gpus[Max(I)] = Entry(lines[Max(R)])
  <2> DEFINE m == Max(R)
  <2>1. m \in R /\ \A x \in R : x <= m
    <3>1. R \in SUBSET (0..n)
      BY <1>4 DEF Rows
    <3> HIDE DEF R
    <3> QED BY <1>4, <1>8, <3>1, MaxOf
  <2> HIDE DEF m
  <2>2. PICK i \in 1..Len(gpus) :
          /\ gpus[i] = Entry(lines[m])
          /\ \A j \in (i + 1)..Len(gpus) : \E q \in (m + 1)..n : Fits(lines[q]) /\ gpus[j] = Entry(lines[q])
    BY <1>3, <2>1 DEF Kept, Rows
  <2>3. i \in I
    BY <1>4, <1>5, <2>1, <2>2 DEF Rows
  <2>4. ASSUME NEW j \in I PROVE j <= i
    <3> SUFFICES ASSUME j > i PROVE FALSE
      BY <1>4
    <3>1. j \in (i + 1)..Len(gpus)
      BY <1>4
    <3>2. PICK q \in (m + 1)..n : Fits(lines[q]) /\ gpus[j] = Entry(lines[q])
      BY <2>2, <3>1
    <3>3. q \in R /\ q > m
      BY <1>4, <1>5, <2>1, <3>2 DEF Rows
    <3> QED BY <2>1, <3>3 DEF Rows
  <2>5. Max(I) = i
    <3>1. I \in SUBSET Int
      BY <1>4
    <3> HIDE DEF I
    <3> QED BY <2>3, <2>4, <3>1, MaxIs
  <2> QED BY <2>2, <2>5 DEF m
<1>9. /\ DOMAIN ByBDF(gpus) = { x.bdf : x \in ToSet(gpus) } \cap DOMAIN Host.dev
      /\ d \in DOMAIN ByBDF(gpus) => ByBDF(gpus)[d] = gpus[Max(I)]
  BY DEF ByBDF
<1> HIDE DEF I, R
<1> QED BY <1>6, <1>7, <1>8, <1>9 DEF R

-----------------------------------------------------------------------------
(* The report and what is shown of it. *)

\* What Show makes of a report.
Shows(rep) ==
  /\ cmd \in {"path", "check"} /\ key \in Keys
  /\ shown = IF key = NoKey THEN DOMAIN rep.checks ELSE FindGPU(rep, key)
  /\ code \in IF key # NoKey /\ shown = {} THEN {4} ELSE {1, ExitCode(cmd, Statuses(rep, shown))}

\* A report is that of the outcomes and the texts, all commands having ended; a
\* command that had not begun when the program was told to stop has no output.
SInv ==
  /\ text = [c \in Cmd |-> text[c]] /\ \A c \in Cmd : text[c] \in Texts[c] \cup {<<>>}
  /\ closed \subseteq Cmd /\ \A c \in closed : res[c] \in {"none", "error"}
  /\ pc \in {"collect", "write"} => report = {}
  /\ \A rep \in report : rep = ReportOf(res, text) /\ Run!Waiting = {}
  /\ pc = "done" => \A rep \in report : Shows(rep)

\* What nvidia-smi does keeps it.
LEMMA RunsSInv ==
  ASSUME IInv, SInv, pc = "collect", Run!Next, UNCHANGED <<pc, report>>,
         text' = text \/ \E c \in Cmd : \E t \in Texts[c] : text' = [text EXCEPT ![c] = t]
  PROVE  SInv'
<1>1. closed' \subseteq Cmd /\ \A c \in closed' : res'[c] \in {"none", "error"}
  <2>1. ASSUME NEW c \in Cmd, NEW r \in {"output", "empty"}, Run!Delivers(c, r)
        PROVE  closed' \subseteq Cmd /\ \A d \in closed' : res'[d] \in {"none", "error"}
    <3>1. c \notin closed /\ closed' = closed /\ res' = [res EXCEPT ![c] = r]
      BY <2>1 DEF Run!Delivers
    <3> QED BY <3>1 DEF SInv, IInv
  <2>2. ASSUME NEW S \in SUBSET Cmd, Run!Fails(S)
        PROVE  closed' \subseteq Cmd /\ \A d \in closed' : res'[d] \in {"none", "error"}
    BY <2>2 DEF Run!Fails, SInv, IInv
  <2>3. ASSUME NEW S \in SUBSET Cmd, Run!Cancel(S)
        PROVE  closed' \subseteq Cmd /\ \A d \in closed' : res'[d] \in {"none", "error"}
    BY <2>3 DEF Run!Cancel, Run!Waiting
  <2> QED BY <2>1, <2>2, <2>3 DEF Run!Next
<1>2. text' = [c \in Cmd |-> text'[c]] /\ \A c \in Cmd : text'[c] \in Texts[c] \cup {<<>>}
  BY DEF SInv
<1>3. report' = {} /\ pc' = "collect"
  BY DEF SInv
<1> QED BY <1>1, <1>2, <1>3 DEF SInv

\* It holds all along.
LEMMA SInvariance == Spec => [](IInv /\ SInv)
<1>1. Init => SInv
  <2> SUFFICES ASSUME Init PROVE SInv
    OBVIOUS
  <2>1. closed = {} /\ text = [c \in Cmd |-> <<>>] /\ report = {}
    BY DEF Init, Run!Init
  <2> QED BY <2>1 DEF SInv
<1>2. IInv /\ SInv /\ [Next]_vars => SInv'
  <2> SUFFICES ASSUME IInv, SInv, [Next]_vars PROVE SInv'
    OBVIOUS
  <2>1. CASE OpenFails
    <3>1. pc' = "done" /\ report' = {} /\ UNCHANGED <<res, closed, text>>
      BY <2>1 DEF OpenFails, smiVars, SInv
    <3> QED BY <3>1 DEF SInv
  <2>2. CASE Breaks
    <3>1. Run!Next /\ pc = "collect" /\ UNCHANGED <<pc, report, text>>
      BY <2>2 DEF Breaks, Run!Next
    <3> QED BY <3>1, RunsSInv
  <2>3. ASSUME NEW c \in Cmd, Deliver(c) PROVE SInv'
    <3>1. Run!Next /\ pc = "collect" /\ UNCHANGED <<pc, report>>
      BY <2>3 DEF Deliver, Run!Next
    <3>2. text' = text \/ \E t \in Texts[c] : text' = [text EXCEPT ![c] = t]
      BY <2>3 DEF Deliver
    <3> QED BY <3>1, <3>2, RunsSInv
  <2>4. CASE Build
    <3>1. /\ pc' = "report" /\ report' = {ReportOf(res, text)} /\ Run!Waiting = {}
          /\ UNCHANGED <<res, closed, text>>
      BY <2>4 DEF Build, smiVars
    <3>2. Run!Waiting' = {}
      BY <3>1 DEF Run!Waiting
    <3> QED BY <3>1, <3>2 DEF SInv
  <2>5. CASE StartWriting
    <3>1. pc' = "write" /\ report' = {} /\ UNCHANGED <<res, closed, text>>
      BY <2>5 DEF StartWriting, smiVars, SInv
    <3> QED BY <3>1 DEF SInv
  <2>6. ASSUME NEW c \in Cmd, WriteOutput(c) PROVE SInv'
    <3>1. pc = "write" /\ pc' = pc /\ report' = {} /\ UNCHANGED <<res, closed, text>>
      BY <2>6 DEF WriteOutput, smiVars, SInv
    <3> QED BY <3>1 DEF SInv
  <2>7. CASE WriteFails \/ Captured
    <3>1. pc' = "done" /\ report' = {} /\ UNCHANGED <<res, closed, text>>
      BY <2>7 DEF WriteFails, Captured, smiVars, SInv
    <3> QED BY <3>1 DEF SInv
  <2>8. ASSUME NEW rep \in report, Show(rep) PROVE SInv'
    <3>1. pc' = "done" /\ report' = report /\ UNCHANGED <<res, closed, text>>
      BY <2>8 DEF Show, smiVars
    <3>2. Shows(rep)'
      BY <2>8 DEF Show, Shows
    <3>3. \A rep2 \in report' : Shows(rep2)'
      BY <3>1, <3>2 DEF SInv
    <3>4. Run!Waiting' = Run!Waiting
      BY <3>1 DEF Run!Waiting
    <3> QED BY <3>1, <3>3, <3>4 DEF SInv
  <2>9. CASE UNCHANGED vars
    <3>1. Run!Waiting' = Run!Waiting /\ (\A rep : Shows(rep)' <=> Shows(rep))
      BY <2>9 DEF vars, smiVars, Run!Waiting, Shows
    <3> QED BY <2>9, <3>1 DEF vars, smiVars, SInv
  <2> QED BY <2>1, <2>2, <2>3, <2>4, <2>5, <2>6, <2>7, <2>8, <2>9 DEF Next
<1> QED BY <1>1, <1>2, InitIInv, NextIInv, PTL DEF Spec

\* The fields of a report, for what was parsed.
LEMMA ReportFields ==
  ASSUME NEW q, NEW l, NEW t, NEW E, NEW rep, rep = ReportFrom(q, l, t, E)
  PROVE  /\ rep.smi = ByBDF(q.gpus) /\ rep.limits = E \cup ParseLimits(q, l, t)
         /\ DOMAIN rep.checks = Gpus(Host.dev) /\ DOMAIN rep.lanes = Gpus(Host.dev)
<1> DEFINE h == Joined(q, l, t)
<1>1. h.dev = Host.dev /\ h.smi = ByBDF(q.gpus)
  BY HostAssumption DEF Joined
<1>2. DOMAIN ChecksFor(h) = Gpus(h.dev)
  BY DEF ChecksFor
<1>3. /\ rep.smi = h.smi /\ rep.checks = ChecksFor(h)
      /\ rep.limits = E \cup ParseLimits(q, l, t) /\ DOMAIN rep.lanes = Gpus(Host.dev)
  BY DEF ReportFrom
<1> HIDE DEF h
<1> QED BY <1>1, <1>2, <1>3

\* Its matrix is the one that was parsed, none after an error.
LEMMA ReportTopo ==
  ASSUME NEW q, NEW l, NEW t, NEW E, NEW rep, rep = ReportFrom(q, l, t, E), NEW x \in DOMAIN rep.topo.rel
  PROVE  x \in DOMAIN t.rel /\ rep.topo.rel[x] = t.rel[x]
<1>1. Joined(q, l, t).topo = (IF t.err THEN [rel |-> <<>>, cols |-> <<>>] ELSE [rel |-> t.rel, cols |-> t.cols])
  BY HostAssumption DEF Joined
<1>2. rep.topo = Joined(q, l, t).topo
  BY DEF ReportFrom
<1>3. DOMAIN <<>> = {}
  OBVIOUS
<1> QED BY <1>1, <1>2, <1>3

\* The lines of an output that was delivered.
LEMMA PrintedLines ==
  ASSUME SInv, NEW c \in Cmd, NEW n \in LineNumbers(c)
  PROVE  res[c] = "output" /\ text[c] \in Texts[c] /\ n \in DOMAIN text[c]
<1>1. DOMAIN <<>> = {}
  OBVIOUS
<1>2. res[c] = "output" /\ n \in DOMAIN text[c]
  BY <1>1 DEF LineNumbers, Printed
<1> QED BY <1>1, <1>2 DEF SInv

\* A text is a list of lines.
LEMMA TextIsList ==
  ASSUME SInv, NEW c \in Cmd
  PROVE  text[c] \in Seq(ToSet(text[c])) /\ DOMAIN text[c] = 1..Len(text[c]) /\ Len(text[c]) \in Nat
<1>1. text[c] \in Seq(ToSet(text[c]))
  <2>1. CASE text[c] \in Texts[c]
    BY <2>1, LinesAssumption
  <2>2. CASE text[c] = <<>>
    BY <2>2
  <2> QED BY <2>1, <2>2 DEF SInv
<1> QED BY <1>1, LenProperties

\* A row of an inventory that is not blank fits or is one of its errors.
LEMMA FitsOrError ==
  ASSUME NEW lines \in Texts["query"], NEW n \in DOMAIN lines, lines[n].cols # 0
  PROVE  Fits(lines[n]) \/ n \in ParseQuery(lines).errs
<1>1. lines[n].cols \in Nat
  BY LinesAssumption
<1>2. lines[n].cols > 0
  BY <1>1
<1>3. ParseQuery(lines).errs = { k \in DOMAIN lines : lines[k].cols > 0 /\ ~Fits(lines[k]) }
  BY DEF ParseQuery
<1> QED BY <1>2, <1>3

\* Nothing nvidia-smi said of a GPU is lost in silence, whatever it printed and
\* in whatever order its commands ended (nvidia.go:160-197, build.go:162-228).
THEOREM NothingLost == Spec => []OutputsAccounted
<1>1. IInv /\ SInv => OutputsAccounted
  <2> SUFFICES ASSUME IInv, SInv, NEW rep \in report
               PROVE  /\ \A c \in Cmd : c \in closed \/ res[c] = "error" => <<c, "error">> \in rep.limits
                      /\ \A n \in LineNumbers("query") :
                           LET row == text["query"][n]
                               d == CanonicalBDF(row.bus)
                           IN \/ row.cols = 0
                              \/ <<"query", n>> \in rep.limits \/ <<"not in sysfs", d>> \in rep.limits
                              \/ d \in DOMAIN rep.checks /\ IndexOf(rep, d) = row.index /\ UUIDOf(rep, d) = row.uuid
                              \/ \E m \in LineNumbers("query") :
                                   m > n /\ Fits(text["query"][m]) /\ CanonicalBDF(text["query"][m].bus) = d
                              \/ d \in DOMAIN Host.dev \ Gpus(Host.dev)
    BY DEF OutputsAccounted
  <2> DEFINE q == QueryOf(res, text)
             l == NVLinkListOf(res, text)
             t == TopoOf(res, text)
  <2>1. rep = ReportFrom(q, l, t, Errors(res)) /\ Run!Waiting = {}
    BY DEF SInv, ReportOf
  <2>2. /\ rep.smi = ByBDF(q.gpus) /\ rep.limits = Errors(res) \cup ParseLimits(q, l, t)
        /\ DOMAIN rep.checks = Gpus(Host.dev)
    <3> HIDE DEF q, l, t
    <3> QED BY <2>1, ReportFields
  <2>3. ASSUME NEW c \in Cmd, c \in closed \/ res[c] = "error" PROVE <<c, "error">> \in rep.limits
    <3>1. res[c] = "error"
      BY <2>1, <2>3 DEF SInv, Run!Waiting
    <3>2. <<c, "error">> \in Errors(res)
      BY <3>1 DEF Errors
    <3> HIDE DEF q, l, t
    <3> QED BY <2>2, <3>2
  <2>4. ASSUME NEW n \in LineNumbers("query"), NEW row, row = text["query"][n],
               NEW d, d = CanonicalBDF(row.bus), row.cols # 0,
               <<"query", n>> \notin rep.limits, <<"not in sysfs", d>> \notin rep.limits,
               \A m \in LineNumbers("query") :
                 m > n /\ Fits(text["query"][m]) => CanonicalBDF(text["query"][m].bus) # d,
               d \notin DOMAIN Host.dev \ Gpus(Host.dev)
        PROVE  d \in DOMAIN rep.checks /\ IndexOf(rep, d) = row.index /\ UUIDOf(rep, d) = row.uuid
    <3> DEFINE lines == text["query"]
    <3>1. "query" \in Cmd
      BY DEF Cmd
    <3>2. /\ res["query"] = "output" /\ lines \in Texts["query"] /\ n \in DOMAIN lines
          /\ lines \in Seq(ToSet(lines)) /\ DOMAIN lines = 1..Len(lines) /\ Len(lines) \in Nat
      BY <3>1, PrintedLines, TextIsList
    <3>3. q = ParseQuery(lines) /\ LineNumbers("query") = DOMAIN lines
      BY <3>2 DEF QueryOf, LineNumbers, Printed
    <3>4. ParseLimits(q, l, t) \subseteq rep.limits
      <4> HIDE DEF q, l, t
      <4> QED BY <2>2
    <3>5. Fits(row)
      <4>1. ~Fits(lines[n]) => n \in ParseQuery(lines).errs
        <5> HIDE DEF q, l, t
        <5>1. lines[n].cols # 0
          BY <2>4
        <5> HIDE DEF lines
        <5> QED BY <3>2, <5>1, FitsOrError
      <4>2. ~Fits(row) => n \in q.errs
        <5> HIDE DEF q, l, t
        <5> QED BY <2>4, <3>3, <4>1
      <4>3. n \in q.errs => <<"query", n>> \in ParseLimits(q, l, t)
        <5> HIDE DEF q, l, t
        <5> QED BY DEF ParseLimits
      <4> HIDE DEF q, l, t
      <4> QED BY <2>4, <3>4, <4>2, <4>3
    <3>6. n \in Rows(lines, d) /\ Rows(lines, d) \in SUBSET (1..Len(lines))
      BY <2>4, <3>2, <3>5 DEF Rows
    <3>7. /\ \E x \in ToSet(q.gpus) : x.bdf = d
          /\ d \in DOMAIN ByBDF(q.gpus) <=> d \in DOMAIN Host.dev
          /\ d \in DOMAIN ByBDF(q.gpus) => ByBDF(q.gpus)[d] = Entry(lines[Max(Rows(lines, d))])
      <4>1. q.gpus = ParseQuery(lines).gpus
        BY <3>3
      <4> HIDE DEF q, lines
      <4> QED BY <3>2, <3>6, <4>1, LastRowWins
    <3>8. d \in DOMAIN Host.dev
      <4>1. d \notin DOMAIN Host.dev => <<"not in sysfs", d>> \in ParseLimits(q, l, t)
        <5> HIDE DEF q, l, t
        <5> QED BY <3>7 DEF ParseLimits
      <4> HIDE DEF q, l, t
      <4> QED BY <2>4, <3>4, <4>1
    <3>9. Max(Rows(lines, d)) = n
      <4>1. \A m \in Rows(lines, d) : m <= n
        <5> SUFFICES ASSUME NEW m \in Rows(lines, d), m > n PROVE FALSE
          BY <3>2, <3>6
        <5> QED BY <2>4, <3>2, <3>3 DEF Rows
      <4>2. Rows(lines, d) \in SUBSET Int
        BY <3>2, <3>6
      <4> QED BY <3>6, <4>1, <4>2, MaxIs
    <3>10. d \in DOMAIN rep.smi /\ rep.smi[d] = Entry(row)
      <4> HIDE DEF q
      <4> QED BY <2>2, <2>4, <3>7, <3>8, <3>9
    <3>11. IndexOf(rep, d) = row.index /\ UUIDOf(rep, d) = row.uuid
      BY <3>10 DEF IndexOf, UUIDOf, Entry
    <3> QED BY <2>2, <2>4, <3>8, <3>11
  <2> HIDE DEF q, l, t
  <2> QED BY <2>3, <2>4
<1> QED BY <1>1, SInvariance, PTL

\* The rows that fit and are about function g, in what was printed.
RowsAbout(g) ==
  { n \in LineNumbers("query") : Fits(text["query"][n]) /\ CanonicalBDF(text["query"][n].bus) = g }

\* The entry of a function in the report is its last row.
LEMMA EntryIsLastRow ==
  ASSUME SInv, NEW rep \in report, NEW g
  PROVE  /\ g \in DOMAIN rep.smi <=> g \in DOMAIN Host.dev /\ RowsAbout(g) # {}
         /\ g \in DOMAIN rep.smi => rep.smi[g] = Entry(text["query"][Max(RowsAbout(g))])
<1> DEFINE q == QueryOf(res, text)
           l == NVLinkListOf(res, text)
           t == TopoOf(res, text)
           lines == text["query"]
<1>1. rep = ReportFrom(q, l, t, Errors(res))
  BY DEF SInv, ReportOf
<1>2. rep.smi = ByBDF(q.gpus)
  <2> HIDE DEF q, l, t
  <2> QED BY <1>1, ReportFields
<1>3. lines \in Seq(ToSet(lines)) /\ DOMAIN lines = 1..Len(lines)
  <2>1. "query" \in Cmd
    BY DEF Cmd
  <2> QED BY <2>1, TextIsList
<1>4. CASE res["query"] = "output"
  <2>1. q = ParseQuery(lines) /\ LineNumbers("query") = DOMAIN lines
    BY <1>4 DEF QueryOf, LineNumbers, Printed
  <2>2. RowsAbout(g) = Rows(lines, g)
    BY <1>3, <2>1 DEF RowsAbout, Rows
  <2>3. q.gpus = ParseQuery(lines).gpus
    BY <2>1
  <2> HIDE DEF q, lines
  <2>4. /\ g \in DOMAIN ByBDF(q.gpus) <=> g \in DOMAIN Host.dev /\ Rows(lines, g) # {}
        /\ g \in DOMAIN ByBDF(q.gpus) => ByBDF(q.gpus)[g] = Entry(lines[Max(Rows(lines, g))])
    BY <1>3, <2>3, LastRowWins
  <2> QED BY <1>2, <2>2, <2>4 DEF lines
<1>5. CASE res["query"] # "output"
  <2>1. DOMAIN <<>> = {}
    OBVIOUS
  <2>2. RowsAbout(g) = {}
    BY <1>5, <2>1 DEF RowsAbout, LineNumbers, Printed
  <2>3. q.gpus = <<>>
    BY <1>5 DEF QueryOf, Nothing
  <2>4. DOMAIN ByBDF(<<>>) = {}
    BY <2>1 DEF ByBDF, ToSet
  <2> HIDE DEF q
  <2> QED BY <1>2, <2>2, <2>3, <2>4
<1> QED BY <1>4, <1>5

\* The first GPU that a key fits is one that it fits.
LEMMA FoundFits ==
  ASSUME NEW rep, NEW k, DOMAIN rep.checks \subseteq Nat
  PROVE  LET fit == { g \in DOMAIN rep.checks : Matches(rep, g, k) }
         IN /\ fit = {} => FindGPU(rep, k) = {}
            /\ fit # {} => \E g \in fit : FindGPU(rep, k) = {g}
<1> DEFINE fit == { g \in DOMAIN rep.checks : Matches(rep, g, k) }
<1>1. FindGPU(rep, k) = IF fit = {} THEN {} ELSE {Min(fit)}
  BY DEF FindGPU
<1>2. fit # {} => Min(fit) \in fit
  <2>1. fit \in SUBSET Nat
    OBVIOUS
  <2> HIDE DEF fit
  <2> QED BY <2>1, MinOf
<1> HIDE DEF fit
<1>3. (fit = {} => FindGPU(rep, k) = {}) /\ (fit # {} => \E g \in fit : FindGPU(rep, k) = {g})
  BY <1>1, <1>2
<1> QED BY <1>3 DEF fit

\* --gpu shows the GPU that was asked for, and says "not found" only of one that
\* is not there, for any inventory (main.go:129-137, 191-204).
THEOREM AskedIsFound == Spec => []FoundWasAsked
<1>1. IInv /\ SInv => FoundWasAsked
  <2> SUFFICES ASSUME IInv, SInv, NEW rep \in report, pc = "done", key # NoKey
               PROVE  LET RowOf(g) == text["query"][Max(RowsAbout(g))]
                          Is(g) == CASE key.kind = "bus" -> CanonicalBDF(key.val) = g
                                     [] key.kind = "uuid" -> RowsAbout(g) # {} /\ RowOf(g).uuid = key.val
                                     [] OTHER -> RowsAbout(g) # {} /\ RowOf(g).index = key.val
                      IN /\ code = 4 => \A g \in Gpus(Host.dev) : ~Is(g)
                         /\ code # 4 /\ ~(key.kind = "index" /\ key.val < 0) =>
                              \E g \in Gpus(Host.dev) : shown = {g} /\ Is(g)
    BY DEF FoundWasAsked, RowsAbout
  <2> DEFINE RowOf(g) == text["query"][Max(RowsAbout(g))]
             Is(g) == CASE key.kind = "bus" -> CanonicalBDF(key.val) = g
                        [] key.kind = "uuid" -> RowsAbout(g) # {} /\ RowOf(g).uuid = key.val
                        [] OTHER -> RowsAbout(g) # {} /\ RowOf(g).index = key.val
             fit == { g \in DOMAIN rep.checks : Matches(rep, g, key) }
  <2>1. /\ cmd \in {"path", "check"} /\ key \in Keys /\ shown = FindGPU(rep, key)
        /\ code \in IF shown = {} THEN {4} ELSE {1, ExitCode(cmd, Statuses(rep, shown))}
    BY DEF SInv, Shows
  <2>2. /\ key.kind \in {"bus", "uuid", "index"} /\ (key.kind = "uuid" => key.val # "")
        /\ (key.kind = "index" => key.val \in Int)
    BY <2>1, KeysAssumption
  <2>3. DOMAIN rep.checks = Gpus(Host.dev)
    <3>1. rep = ReportFrom(QueryOf(res, text), NVLinkListOf(res, text), TopoOf(res, text), Errors(res))
      BY DEF SInv, ReportOf
    <3> QED BY <3>1, ReportFields
  <2>4. Gpus(Host.dev) \subseteq DOMAIN Host.dev /\ Gpus(Host.dev) \subseteq Nat
    BY HostAssumption DEF Gpus
  <2>5. (code = 4 <=> fit = {}) /\ (fit # {} => \E g \in fit : shown = {g})
    <3>1. (fit = {} => shown = {}) /\ (fit # {} => \E g \in fit : shown = {g})
      BY <2>1, <2>3, <2>4, FoundFits
    <3>2. ExitCode(cmd, Statuses(rep, shown)) \in {0, 3}
      BY DEF ExitCode
    <3> HIDE DEF fit
    <3> QED BY <2>1, <3>1, <3>2
  <2>6. ASSUME NEW g \in Gpus(Host.dev)
        PROVE  /\ Is(g) => Matches(rep, g, key)
               /\ Matches(rep, g, key) /\ ~(key.kind = "index" /\ key.val < 0) => Is(g)
    <3>1. /\ g \in DOMAIN rep.smi <=> RowsAbout(g) # {}
          /\ g \in DOMAIN rep.smi => rep.smi[g].index = RowOf(g).index /\ rep.smi[g].uuid = RowOf(g).uuid
      <4>1. /\ g \in DOMAIN rep.smi <=> RowsAbout(g) # {}
            /\ g \in DOMAIN rep.smi => rep.smi[g] = Entry(RowOf(g))
        <5> HIDE DEF Is, fit
        <5> QED BY <2>4, EntryIsLastRow
      <4>2. Entry(RowOf(g)).index = RowOf(g).index /\ Entry(RowOf(g)).uuid = RowOf(g).uuid
        BY DEF Entry
      <4> HIDE DEF RowOf
      <4> QED BY <4>1, <4>2
    <3> DEFINE row == RowOf(g)
    <3>5. Is(g) <=> CASE key.kind = "bus" -> CanonicalBDF(key.val) = g
                      [] key.kind = "uuid" -> RowsAbout(g) # {} /\ row.uuid = key.val
                      [] OTHER -> RowsAbout(g) # {} /\ row.index = key.val
      OBVIOUS
    <3>6. /\ g \in DOMAIN rep.smi <=> RowsAbout(g) # {}
          /\ g \in DOMAIN rep.smi => rep.smi[g].index = row.index /\ rep.smi[g].uuid = row.uuid
      BY <3>1
    <3> HIDE DEF row, Is
    <3>2. CASE key.kind = "bus"
      BY <3>2, <3>5 DEF Matches
    <3>3. CASE key.kind = "uuid"
      BY <2>2, <3>6, <3>5, <3>3 DEF Matches, UUIDOf
    <3>4. CASE key.kind = "index"
      BY <2>2, <3>6, <3>5, <3>4 DEF Matches, IndexOf
    <3> QED BY <2>2, <3>2, <3>3, <3>4
  <2>7. code = 4 => \A g \in Gpus(Host.dev) : ~Is(g)
    <3> HIDE DEF Is
    <3> QED BY <2>3, <2>5, <2>6
  <2>8. code # 4 /\ ~(key.kind = "index" /\ key.val < 0) => \E g \in Gpus(Host.dev) : shown = {g} /\ Is(g)
    <3> HIDE DEF Is
    <3> QED BY <2>3, <2>5, <2>6
  <2> QED BY <2>7, <2>8
<1> QED BY <1>1, SInvariance, PTL

-----------------------------------------------------------------------------
(* ParseNVLink. *)

\* The headers before line k + 1, and the links of the section of one of them.
Headed(lines, k) == { n \in 1..k : lines[n].kind = "gpu" }
SectionTo(lines, n, k) == { m \in (n + 1)..k : lines[m].kind = "link" /\ \A j \in (n + 1)..m : lines[j].kind # "gpu" }
UpTo(lines, n, k) == { m \in SectionTo(lines, n, k) : lines[m].gbps > 0 }
Lanes(lines, n, k) ==
  [ uuid |-> lines[n].uuid, up |-> Cardinality(UpTo(lines, n, k)), all |-> Cardinality(SectionTo(lines, n, k)) ]

\* What ParseNVLink made of the first k lines: the GPU of every header with the
\* links to the next one, the last one for the last header, and the links
\* before any header.
Counted(lines, k, acc) ==
  /\ acc.errs = SectionTo(lines, 0, k)
  /\ \A i \in 1..Len(acc.gpus) : \E n \in Headed(lines, k) :
       acc.gpus[i] = Lanes(lines, n, k) /\ (i = Len(acc.gpus) <=> \A m \in Headed(lines, k) : m <= n)
  /\ \A n \in Headed(lines, k) : \E i \in 1..Len(acc.gpus) : acc.gpus[i].uuid = lines[n].uuid

LanesType(U) == [uuid : U, up : Nat, all : Nat]
LinksType(U, n) == [gpus : Seq(LanesType(U)), errs : SUBSET (1..n)]

\* A section grows by the next line when it is a link and no header lies between.
LEMMA SectionGrows ==
  ASSUME NEW lines, NEW k \in Nat, NEW n \in 0..k
  PROVE  /\ IsFiniteSet(SectionTo(lines, n, k)) /\ IsFiniteSet(UpTo(lines, n, k))
         /\ k + 1 \notin SectionTo(lines, n, k)
         /\ SectionTo(lines, n, k + 1) =
              IF lines[k + 1].kind = "link" /\ \A j \in (n + 1)..k : lines[j].kind # "gpu"
                THEN SectionTo(lines, n, k) \cup {k + 1} ELSE SectionTo(lines, n, k)
<1>1. IsFiniteSet(SectionTo(lines, n, k))
  <2>1. SectionTo(lines, n, k) \subseteq (n + 1)..k
    BY DEF SectionTo
  <2>2. IsFiniteSet((n + 1)..k)
    BY FS_Interval
  <2> QED BY <2>1, <2>2, FS_Subset
<1>2. IsFiniteSet(UpTo(lines, n, k))
  <2>1. UpTo(lines, n, k) \subseteq SectionTo(lines, n, k)
    BY DEF UpTo
  <2> QED BY <1>1, <2>1, FS_Subset
<1>3. \A m \in (n + 1)..(k + 1) : m # k + 1 => m \in (n + 1)..k
  OBVIOUS
<1>4. k + 1 \in (n + 1)..(k + 1) /\ k + 1 \notin (n + 1)..k /\ (n + 1)..(k + 1) = (n + 1)..k \cup {k + 1}
  OBVIOUS
<1>5. CASE lines[k + 1].kind = "link" /\ \A j \in (n + 1)..k : lines[j].kind # "gpu"
  <2>1. k + 1 \in SectionTo(lines, n, k + 1)
    <3>1. \A j \in (n + 1)..(k + 1) : lines[j].kind # "gpu"
      BY <1>3, <1>5
    <3> QED BY <1>4, <1>5, <3>1 DEF SectionTo
  <2>2. SectionTo(lines, n, k + 1) = SectionTo(lines, n, k) \cup {k + 1}
    BY <1>3, <1>4, <2>1 DEF SectionTo
  <2> QED BY <1>1, <1>2, <1>4, <1>5, <2>2 DEF SectionTo
<1>6. CASE ~(lines[k + 1].kind = "link" /\ \A j \in (n + 1)..k : lines[j].kind # "gpu")
  <2>1. k + 1 \notin SectionTo(lines, n, k + 1)
    BY <1>4, <1>6 DEF SectionTo
  <2>2. SectionTo(lines, n, k + 1) = SectionTo(lines, n, k)
    BY <1>3, <1>4, <2>1 DEF SectionTo
  <2> QED BY <1>1, <1>2, <1>4, <1>6, <2>2 DEF SectionTo
<1> QED BY <1>5, <1>6

\* So do its counts.
LEMMA LanesGrow ==
  ASSUME NEW lines, NEW k \in Nat, NEW n \in 0..k
  PROVE  LET grows == lines[k + 1].kind = "link" /\ \A j \in (n + 1)..k : lines[j].kind # "gpu"
             now == Lanes(lines, n, k)
             then == Lanes(lines, n, k + 1)
         IN /\ now.uuid = lines[n].uuid /\ now.all \in Nat /\ now.up \in Nat
            /\ ~grows => then = now
            /\ grows => then = [ uuid |-> now.uuid, up |-> now.up + (IF lines[k + 1].gbps > 0 THEN 1 ELSE 0),
                                 all |-> now.all + 1 ]
<1> DEFINE S == SectionTo(lines, n, k)
           V == UpTo(lines, n, k)
           S2 == SectionTo(lines, n, k + 1)
           V2 == UpTo(lines, n, k + 1)
           grows == lines[k + 1].kind = "link" /\ \A j \in (n + 1)..k : lines[j].kind # "gpu"
<1>1. /\ IsFiniteSet(S) /\ IsFiniteSet(V) /\ k + 1 \notin S /\ k + 1 \notin V
      /\ S2 = IF grows THEN S \cup {k + 1} ELSE S
  BY SectionGrows DEF UpTo
<1>2. Cardinality(S) \in Nat /\ Cardinality(V) \in Nat
  BY <1>1, FS_CardinalityType
<1>3. V2 = IF grows /\ lines[k + 1].gbps > 0 THEN V \cup {k + 1} ELSE V
  <2> HIDE DEF grows
  <2> QED BY <1>1 DEF UpTo
<1>4. Cardinality(S \cup {k + 1}) = Cardinality(S) + 1 /\ Cardinality(V \cup {k + 1}) = Cardinality(V) + 1
  BY <1>1, FS_AddElement
<1>5. /\ Lanes(lines, n, k) = [uuid |-> lines[n].uuid, up |-> Cardinality(V), all |-> Cardinality(S)]
      /\ Lanes(lines, n, k + 1) = [uuid |-> lines[n].uuid, up |-> Cardinality(V2), all |-> Cardinality(S2)]
  BY DEF Lanes
<1> HIDE DEF S, V, S2, V2
<1>6. CASE grows
  <2>1. S2 = S \cup {k + 1} /\ Cardinality(V2) = Cardinality(V) + (IF lines[k + 1].gbps > 0 THEN 1 ELSE 0)
    BY <1>1, <1>2, <1>3, <1>4, <1>6
  <2>2. Cardinality(S2) = Cardinality(S) + 1
    BY <1>4, <2>1
  <2>3. Lanes(lines, n, k + 1) =
          [ uuid |-> Lanes(lines, n, k).uuid,
            up   |-> Lanes(lines, n, k).up + (IF lines[k + 1].gbps > 0 THEN 1 ELSE 0),
            all  |-> Lanes(lines, n, k).all + 1 ]
    BY <1>5, <2>1, <2>2
  <2> QED BY <1>2, <1>5, <1>6, <2>3
<1>7. CASE ~grows
  <2>1. S2 = S /\ V2 = V
    BY <1>1, <1>3, <1>7
  <2> QED BY <1>2, <1>5, <1>7, <2>1
<1> QED BY <1>6, <1>7

\* Counting a link for the last GPU leaves the others alone.
LEMMA LinkCounted ==
  ASSUME NEW U, NEW gpus \in Seq(LanesType(U)), gpus # <<>>, NEW line
  PROVE  LET N == Len(gpus)
             more == CountLink(gpus, line)
         IN /\ DOMAIN more = 1..N /\ \A i \in 1..(N - 1) : more[i] = gpus[i]
            /\ more[N] = [ uuid |-> gpus[N].uuid, up |-> gpus[N].up + (IF line.gbps > 0 THEN 1 ELSE 0),
                            all |-> gpus[N].all + 1 ]
            /\ more \in Seq(LanesType(U)) /\ Len(more) = N
<1> DEFINE N == Len(gpus)
           more == CountLink(gpus, line)
<1>1. N \in Nat /\ DOMAIN gpus = 1..N
  BY LenProperties
<1>2. N \in 1..N
  BY <1>1
<1>4. /\ DOMAIN more = 1..N /\ \A i \in 1..(N - 1) : more[i] = gpus[i]
      /\ more[N] = [ uuid |-> gpus[N].uuid, up |-> gpus[N].up + (IF line.gbps > 0 THEN 1 ELSE 0),
                      all |-> gpus[N].all + 1 ]
  <2>1. gpus[N] \in LanesType(U)
    BY <1>1, <1>2, ElementOfSeq
  <2>2. gpus[N] = [uuid |-> gpus[N].uuid, up |-> gpus[N].up, all |-> gpus[N].all]
    BY <2>1 DEF LanesType
  <2>3. (IF Active(line) THEN 1 ELSE 0) = IF line.gbps > 0 THEN 1 ELSE 0
    BY DEF Active
  <2> DEFINE old == gpus
             inc == IF line.gbps > 0 THEN 1 ELSE 0
  <2>4. more = [[old EXCEPT ![N].all = @ + 1] EXCEPT ![N].up = @ + inc]
    BY <2>3 DEF CountLink
  <2> HIDE DEF more, inc, N, old
  <2>5. DOMAIN old = 1..N /\ old[N] = [uuid |-> old[N].uuid, up |-> old[N].up, all |-> old[N].all]
    BY <1>1, <2>2 DEF old
  <2>6. DOMAIN more = 1..N /\ \A i \in 1..N : i # N => more[i] = old[i]
    BY <2>4, <2>5
  <2>7. more[N] = [uuid |-> old[N].uuid, up |-> old[N].up + inc, all |-> old[N].all + 1]
    BY <1>2, <2>4, <2>5
  <2>8. \A i \in 1..(N - 1) : i \in 1..N /\ i # N
    BY <1>1
  <2> QED BY <2>6, <2>7, <2>8 DEF old, inc
<1>5. more \in Seq(LanesType(U)) /\ Len(more) = N
  <2>1. \A i \in 1..N : gpus[i] \in LanesType(U)
    BY <1>1, ElementOfSeq
  <2>2. more[N] \in LanesType(U)
    BY <1>2, <1>4, <2>1 DEF LanesType
  <2>3. more = [ i \in 1..N |-> more[i] ]
    <3>1. more = [ i \in DOMAIN more |-> more[i] ]
      BY DEF CountLink
    <3> QED BY <1>4, <3>1
  <2> HIDE DEF more
  <2>4. \A i \in 1..N : more[i] \in LanesType(U)
    <3> SUFFICES ASSUME NEW i \in 1..N, i # N PROVE more[i] \in LanesType(U)
      BY <2>2
    <3>1. i \in 1..(N - 1)
      <4> HIDE DEF N
      <4> QED BY <1>1
    <3> QED BY <1>4, <2>1, <3>1
  <2>5. more \in [1..N -> LanesType(U)]
    BY <2>3, <2>4
  <2> QED BY <1>1, <2>5, SeqDef, LenProperties
<1> HIDE DEF more, N
<1>6. /\ DOMAIN more = 1..N /\ \A i \in 1..(N - 1) : more[i] = gpus[i]
      /\ more[N] = [ uuid |-> gpus[N].uuid, up |-> gpus[N].up + (IF line.gbps > 0 THEN 1 ELSE 0),
                      all |-> gpus[N].all + 1 ]
      /\ more \in Seq(LanesType(U)) /\ Len(more) = N
  BY <1>4, <1>5
<1> QED BY <1>6 DEF more, N

\* What a line makes of the GPUs so far is of the same kind.
LEMMA LinkLineType ==
  ASSUME NEW U, NEW K, NEW n \in 1..K, NEW acc \in LinksType(U, K), NEW line, line.kind = "gpu" => line.uuid \in U
  PROVE  LinkLine(acc, n, line) \in LinksType(U, K)
<1>1. /\ acc.gpus \in Seq(LanesType(U)) /\ acc.errs \in SUBSET (1..K)
      /\ acc = [gpus |-> acc.gpus, errs |-> acc.errs]
  BY DEF LinksType
<1>2. CASE line.kind = "gpu"
  <2> DEFINE gpu == [uuid |-> line.uuid, up |-> 0, all |-> 0]
  <2>1. gpu \in LanesType(U)
    BY <1>2 DEF LanesType
  <2>2. LinkLine(acc, n, line) = [gpus |-> Append(acc.gpus, gpu), errs |-> acc.errs]
    BY <1>1, <1>2 DEF LinkLine
  <2> HIDE DEF gpu
  <2>3. Append(acc.gpus, gpu) \in Seq(LanesType(U))
    BY <1>1, <2>1, AppendProperties
  <2> QED BY <1>1, <2>2, <2>3 DEF LinksType
<1>3. CASE line.kind = "link" /\ acc.gpus = <<>>
  BY <1>1, <1>3 DEF LinkLine, LinksType
<1>4. CASE line.kind = "link" /\ acc.gpus # <<>>
  <2>1. CountLink(acc.gpus, line) \in Seq(LanesType(U))
    BY <1>1, <1>4, LinkCounted
  <2>2. LinkLine(acc, n, line) = [gpus |-> CountLink(acc.gpus, line), errs |-> acc.errs]
    BY <1>1, <1>4 DEF LinkLine
  <2> QED BY <1>1, <2>1, <2>2 DEF LinksType
<1>5. CASE line.kind \notin {"gpu", "link"}
  BY <1>5 DEF LinkLine
<1> QED BY <1>2, <1>3, <1>4, <1>5

\* A header begins a section of its own.
LEMMA HeaderStep ==
  ASSUME NEW lines, NEW k \in Nat, NEW U, NEW K \in Nat, NEW acc \in LinksType(U, K), Counted(lines, k, acc),
         lines[k + 1].kind = "gpu", lines[k + 1].uuid \in U
  PROVE  /\ LinkLine(acc, k + 1, lines[k + 1]) \in LinksType(U, K)
         /\ Counted(lines, k + 1, LinkLine(acc, k + 1, lines[k + 1]))
<1> DEFINE gpu == [uuid |-> lines[k + 1].uuid, up |-> 0, all |-> 0]
           more == Append(acc.gpus, gpu)
           N == Len(acc.gpus)
<1>1. acc.gpus \in Seq(LanesType(U)) /\ acc.errs \in SUBSET (1..K) /\ gpu \in LanesType(U) /\ N \in Nat
  <2>1. acc.gpus \in Seq(LanesType(U)) /\ acc.errs \in SUBSET (1..K)
    BY DEF LinksType
  <2> QED BY <2>1, LenProperties DEF LanesType
<1>2. /\ LinkLine(acc, k + 1, lines[k + 1]).gpus = more /\ LinkLine(acc, k + 1, lines[k + 1]).errs = acc.errs
      /\ LinkLine(acc, k + 1, lines[k + 1]) = [gpus |-> more, errs |-> acc.errs]
  BY DEF LinkLine, LinksType
<1>3. more \in Seq(LanesType(U)) /\ Len(more) = N + 1 /\ more[N + 1] = gpu /\ \A i \in 1..N : more[i] = acc.gpus[i]
  <2> HIDE DEF gpu
  <2> QED BY <1>1, AppendProperties
<1> HIDE DEF more, gpu
<1>4. Headed(lines, k + 1) = Headed(lines, k) \cup {k + 1} /\ \A n \in Headed(lines, k) : n \in 1..k
  <2>1. 1..(k + 1) = 1..k \cup {k + 1}
    OBVIOUS
  <2> QED BY <2>1 DEF Headed
<1>5. \A n \in 0..k : SectionTo(lines, n, k + 1) = SectionTo(lines, n, k) /\ Lanes(lines, n, k + 1) = Lanes(lines, n, k)
  BY SectionGrows, LanesGrow
<1>6. Lanes(lines, k + 1, k + 1) = gpu
  <2>1. SectionTo(lines, k + 1, k + 1) = {} /\ UpTo(lines, k + 1, k + 1) = {}
    BY DEF SectionTo, UpTo
  <2> QED BY <2>1, FS_EmptySet DEF Lanes, gpu
<1>7. ASSUME NEW i \in 1..Len(more)
      PROVE  \E n \in Headed(lines, k + 1) :
               more[i] = Lanes(lines, n, k + 1) /\ (i = Len(more) <=> \A m \in Headed(lines, k + 1) : m <= n)
  <2>1. CASE i = N + 1
    <3>1. \A m \in Headed(lines, k + 1) : m <= k + 1
      BY <1>4
    <3> QED BY <1>3, <1>4, <1>6, <2>1, <3>1
  <2>2. CASE i # N + 1
    <3>1. i \in 1..N
      BY <1>1, <1>3, <2>2
    <3>2. PICK n \in Headed(lines, k) : acc.gpus[i] = Lanes(lines, n, k)
      BY <3>1 DEF Counted
    <3>3. n \in 0..k /\ ~(k + 1 <= n) /\ k + 1 \in Headed(lines, k + 1) /\ n \in Headed(lines, k + 1)
      BY <1>4
    <3>4. more[i] = Lanes(lines, n, k + 1)
      BY <1>3, <1>5, <3>1, <3>2, <3>3
    <3>5. i # Len(more) /\ ~(\A m \in Headed(lines, k + 1) : m <= n)
      BY <1>3, <2>2, <3>3
    <3> QED BY <3>3, <3>4, <3>5
  <2> QED BY <2>1, <2>2
<1>8. ASSUME NEW n \in Headed(lines, k + 1) PROVE \E i \in 1..Len(more) : more[i].uuid = lines[n].uuid
  <2>1. CASE n = k + 1
    BY <1>1, <1>3, <2>1 DEF gpu
  <2>2. CASE n # k + 1
    <3>1. PICK i \in 1..N : acc.gpus[i].uuid = lines[n].uuid
      BY <1>4, <2>2 DEF Counted
    <3>2. i \in 1..Len(more) /\ more[i] = acc.gpus[i]
      BY <1>1, <1>3
    <3> QED BY <3>1, <3>2
  <2> QED BY <2>1, <2>2
<1>9. acc.errs = SectionTo(lines, 0, k + 1)
  BY <1>5 DEF Counted
<1>10. Counted(lines, k + 1, LinkLine(acc, k + 1, lines[k + 1]))
  BY <1>2, <1>7, <1>8, <1>9 DEF Counted
<1> QED BY <1>1, <1>2, <1>3, <1>10 DEF LinksType

\* A link belongs to the section of the last header, if there is one.
LEMMA LinkStep ==
  ASSUME NEW lines, NEW k \in Nat, NEW U, NEW K \in Nat, k + 1 <= K,
         NEW acc \in LinksType(U, K), Counted(lines, k, acc), lines[k + 1].kind = "link"
  PROVE  /\ LinkLine(acc, k + 1, lines[k + 1]) \in LinksType(U, K)
         /\ Counted(lines, k + 1, LinkLine(acc, k + 1, lines[k + 1]))
<1> DEFINE N == Len(acc.gpus)
           line == lines[k + 1]
           more == CountLink(acc.gpus, line)
           H == Headed(lines, k)
<1>1. /\ acc.gpus \in Seq(LanesType(U)) /\ acc.errs \in SUBSET (1..K) /\ N \in Nat /\ DOMAIN acc.gpus = 1..N
      /\ acc = [gpus |-> acc.gpus, errs |-> acc.errs]
  <2>1. acc.gpus \in Seq(LanesType(U)) /\ acc.errs \in SUBSET (1..K) /\ acc = [gpus |-> acc.gpus, errs |-> acc.errs]
    BY DEF LinksType
  <2> QED BY <2>1, LenProperties
<1>2. Headed(lines, k + 1) = H /\ H \subseteq 1..k
  <2>1. 1..(k + 1) = 1..k \cup {k + 1}
    OBVIOUS
  <2> QED BY <2>1 DEF Headed
<1>3. CASE acc.gpus = <<>>
  <2>1. LinkLine(acc, k + 1, line) = [gpus |-> <<>>, errs |-> acc.errs \cup {k + 1}]
    BY <1>1, <1>3 DEF LinkLine
  <2>2. H = {}
    BY <1>3 DEF Counted
  <2>3. SectionTo(lines, 0, k + 1) = acc.errs \cup {k + 1}
    <3>1. \A j \in (0 + 1)..k : lines[j].kind # "gpu"
      BY <2>2 DEF Headed
    <3>2. SectionTo(lines, 0, k + 1) = SectionTo(lines, 0, k) \cup {k + 1}
      <4>1. 0 \in 0..k
        OBVIOUS
      <4> HIDE DEF N, more, H
      <4> QED BY <3>1, <4>1, SectionGrows
    <3> QED BY <3>2 DEF Counted
  <2>4. Counted(lines, k + 1, [gpus |-> <<>>, errs |-> acc.errs \cup {k + 1}])
    BY <1>2, <2>2, <2>3 DEF Counted
  <2>5. [gpus |-> <<>>, errs |-> acc.errs \cup {k + 1}] \in LinksType(U, K)
    BY <1>1 DEF LinksType
  <2> QED BY <2>1, <2>4, <2>5
<1>4. CASE acc.gpus # <<>>
  <2>1. LinkLine(acc, k + 1, line) = [gpus |-> more, errs |-> acc.errs]
    <3> HIDE DEF more
    <3> QED BY <1>1, <1>4 DEF LinkLine, more
  <2>2. N \in 1..N
    BY <1>1, <1>4
  <2>3. PICK last \in H : acc.gpus[N] = Lanes(lines, last, k) /\ \A m \in H : m <= last
    BY <2>2 DEF Counted
  <2>4. /\ DOMAIN more = 1..N /\ \A i \in 1..(N - 1) : more[i] = acc.gpus[i]
        /\ more[N] = [ uuid |-> acc.gpus[N].uuid, up |-> acc.gpus[N].up + (IF line.gbps > 0 THEN 1 ELSE 0),
                        all |-> acc.gpus[N].all + 1 ]
        /\ more \in Seq(LanesType(U)) /\ Len(more) = N
    <3> HIDE DEF line
    <3> QED BY <1>1, <1>4, LinkCounted
  <2> HIDE DEF more
  <2>6. last \in 0..k /\ last \in 1..k /\ lines[last].kind = "gpu" /\ \A j \in (last + 1)..k : lines[j].kind # "gpu"
    <3>1. last \in 1..k /\ lines[last].kind = "gpu"
      BY DEF Headed
    <3>2. ASSUME NEW j \in (last + 1)..k, lines[j].kind = "gpu" PROVE FALSE
      <4>1. j \in H /\ ~(j <= last)
        BY <3>1, <3>2 DEF Headed
      <4> QED BY <2>3, <4>1
    <3> QED BY <3>1, <3>2
  <2>7. Lanes(lines, last, k + 1) = more[N]
    BY <2>3, <2>4, <2>6, LanesGrow
  <2>8. \A n \in H : n # last => Lanes(lines, n, k + 1) = Lanes(lines, n, k)
    <3> SUFFICES ASSUME NEW n \in H, n # last PROVE Lanes(lines, n, k + 1) = Lanes(lines, n, k)
      OBVIOUS
    <3>1. last \in (n + 1)..k /\ n \in 0..k
      BY <1>2, <2>3, <2>6
    <3> QED BY <2>6, <3>1, LanesGrow
  <2>9. ASSUME NEW i \in 1..N
        PROVE  \E n \in H : more[i] = Lanes(lines, n, k + 1) /\ (i = N <=> \A m \in H : m <= n)
    <3>1. CASE i = N
      BY <2>3, <2>7, <3>1
    <3>2. CASE i # N
      <4>1. PICK n \in H : acc.gpus[i] = Lanes(lines, n, k) /\ ~(\A m \in H : m <= n)
        BY <3>2 DEF Counted
      <4>2. n # last /\ i \in 1..(N - 1)
        BY <1>1, <2>3, <3>2, <4>1
      <4> QED BY <2>4, <2>8, <3>2, <4>1, <4>2
    <3> QED BY <3>1, <3>2
  <2>10. ASSUME NEW n \in H PROVE \E i \in 1..N : more[i].uuid = lines[n].uuid
    <3>1. PICK i \in 1..N : acc.gpus[i].uuid = lines[n].uuid
      BY DEF Counted
    <3>2. more[i].uuid = acc.gpus[i].uuid
      <4>1. i # N => i \in 1..(N - 1)
        BY <1>1
      <4> QED BY <2>4, <4>1
    <3> QED BY <3>1, <3>2
  <2>11. SectionTo(lines, 0, k + 1) = acc.errs
    <3>1. last \in (0 + 1)..k /\ 0 \in 0..k
      BY <2>6
    <3>2. SectionTo(lines, 0, k + 1) = SectionTo(lines, 0, k)
      BY <2>6, <3>1, SectionGrows
    <3> QED BY <3>2 DEF Counted
  <2> DEFINE new == [gpus |-> more, errs |-> acc.errs]
  <2>12. new.gpus = more /\ new.errs = acc.errs /\ new \in LinksType(U, K)
    BY <1>1, <2>4 DEF LinksType
  <2> HIDE DEF new, H, N
  <2>13. Counted(lines, k + 1, new)
    BY <1>2, <2>4, <2>9, <2>10, <2>11, <2>12 DEF Counted
  <2> QED BY <2>1, <2>12, <2>13 DEF new
<1> QED BY <1>3, <1>4

\* One more line of any kind.
LEMMA CountedStep ==
  ASSUME NEW lines, NEW k \in Nat, NEW U, NEW K \in Nat, k + 1 <= K,
         NEW acc \in LinksType(U, K), Counted(lines, k, acc),
         lines[k + 1].kind = "gpu" => lines[k + 1].uuid \in U
  PROVE  /\ LinkLine(acc, k + 1, lines[k + 1]) \in LinksType(U, K)
         /\ Counted(lines, k + 1, LinkLine(acc, k + 1, lines[k + 1]))
<1>1. CASE lines[k + 1].kind = "gpu"
  BY <1>1, HeaderStep
<1>2. CASE lines[k + 1].kind = "link"
  BY <1>2, LinkStep
<1>3. CASE lines[k + 1].kind \notin {"gpu", "link"}
  <2>1. LinkLine(acc, k + 1, lines[k + 1]) = acc
    BY <1>3 DEF LinkLine
  <2>2. Headed(lines, k + 1) = Headed(lines, k) /\ Headed(lines, k) \subseteq 0..k
    <3>1. 1..(k + 1) = 1..k \cup {k + 1}
      OBVIOUS
    <3> QED BY <1>3, <3>1 DEF Headed
  <2>3. \A n \in 0..k : SectionTo(lines, n, k + 1) = SectionTo(lines, n, k) /\ Lanes(lines, n, k + 1) = Lanes(lines, n, k)
    BY <1>3, SectionGrows, LanesGrow
  <2>4. acc.errs = SectionTo(lines, 0, k + 1)
    BY <2>3 DEF Counted
  <2>5. ASSUME NEW i \in 1..Len(acc.gpus)
        PROVE  \E n \in Headed(lines, k + 1) :
                 /\ acc.gpus[i] = Lanes(lines, n, k + 1)
                 /\ i = Len(acc.gpus) <=> \A m \in Headed(lines, k + 1) : m <= n
    <3>1. PICK n \in Headed(lines, k) :
            acc.gpus[i] = Lanes(lines, n, k) /\ (i = Len(acc.gpus) <=> \A m \in Headed(lines, k) : m <= n)
      BY DEF Counted
    <3> QED BY <2>2, <2>3, <3>1
  <2>6. \A n \in Headed(lines, k + 1) : \E i \in 1..Len(acc.gpus) : acc.gpus[i].uuid = lines[n].uuid
    BY <2>2 DEF Counted
  <2>7. Counted(lines, k + 1, acc)
    BY <2>4, <2>5, <2>6 DEF Counted
  <2> QED BY <2>1, <2>7
<1> QED BY <1>1, <1>2, <1>3

\* The GPUs of nvidia-smi nvlink, for a text of any length (nvidia.go:242-280).
LEMMA CountedAll ==
  ASSUME NEW X, NEW lines \in Seq(X)
  PROVE  /\ Counted(lines, Len(lines), ParseNVLink(lines))
         /\ \E U : ParseNVLink(lines) \in LinksType(U, Len(lines))
<1> DEFINE n == Len(lines)
           U == { lines[i].uuid : i \in 1..n }
           T == LinksType(U, n)
           base == [gpus |-> <<>>, errs |-> {}]
           step == [ i \in 1..n |-> [ acc \in T |-> LinkLine(acc, i, lines[i]) ] ]
           IsFold(it) == it = [ s \in SUBSET (1..n) |->
                                  IF s = {} THEN base ELSE LinkLine(it[s \ {Max(s)}], Max(s), lines[Max(s)]) ]
<1>1. n \in Nat /\ DOMAIN lines = 1..n
  BY LenProperties
<1>2. base \in T /\ step \in [1..n -> [T -> T]]
  <2>1. base \in T
    BY DEF LinksType
  <2>2. ASSUME NEW i \in 1..n, NEW acc \in T PROVE LinkLine(acc, i, lines[i]) \in T
    <3>1. lines[i].uuid \in U
      OBVIOUS
    <3> HIDE DEF U, n
    <3> QED BY <3>1, LinkLineType
  <2> HIDE DEF T, base
  <2> QED BY <2>1, <2>2
<1>3. ASSUME NEW s \in SUBSET (1..n), s # {} PROVE Max(s) \in 1..n
  <2>1. s \in SUBSET (0..n)
    OBVIOUS
  <2> QED BY <1>1, <1>3, <2>1, MaxOf
<1>4. \E it : IsFold(it)
  <2>1. PICK it : FoldDefines(n, T, base, step, it)
    <3> HIDE DEF n, T, step, base
    <3> QED BY <1>1, <1>2, FoldExists, Zenon
  <2>2. /\ it \in [SUBSET (1..n) -> T]
        /\ \A s \in SUBSET (1..n) : it[s] = IF s = {} THEN base ELSE step[Max(s)][it[s \ {Max(s)}]]
    <3> HIDE DEF n, T, step, base
    <3> QED BY <2>1 DEF FoldDefines
  <2>3. ASSUME NEW s \in SUBSET (1..n), s # {}
        PROVE  step[Max(s)][it[s \ {Max(s)}]] = LinkLine(it[s \ {Max(s)}], Max(s), lines[Max(s)])
    <3>1. it[s \ {Max(s)}] \in T
      <4> HIDE DEF T, base
      <4> QED BY <2>2
    <3> HIDE DEF T
    <3> QED BY <1>3, <2>3, <3>1
  <2>4. it = [ s \in SUBSET (1..n) |->
                 IF s = {} THEN base ELSE LinkLine(it[s \ {Max(s)}], Max(s), lines[Max(s)]) ]
    <3> HIDE DEF T, step, base
    <3> QED BY <2>2, <2>3
  <2> QED BY <2>4
<1>5. PICK g : IsFold(g) /\ ParseNVLink(lines) = g[1..n]
  <2> DEFINE idx == [ i \in 1..n |-> i ]
             IsFolded(it) == it = [ s \in SUBSET (1..n) |->
                                      IF s = {} THEN base
                                      ELSE LinkLine(it[s \ {Max(s)}], idx[Max(s)], lines[idx[Max(s)]]) ]
  <2>0. ASSUME NEW it PROVE IsFolded(it) <=> IsFold(it)
    <3>1. \A s \in SUBSET (1..n) : s # {} => idx[Max(s)] = Max(s)
      BY <1>3
    <3> HIDE DEF idx, n, base
    <3> QED BY <3>1
  <2>3. DOMAIN idx = 1..n /\ DOMAIN lines = 1..n
    BY <1>1
  <2>4. ParseNVLink(lines) = (CHOOSE g : IsFolded(g))[1..n]
    BY <2>3 DEF ParseNVLink, FoldLeft, MapThenFoldSet
  <2>1. ParseNVLink(lines) = (CHOOSE g : IsFold(g))[1..n]
    <3> HIDE DEF IsFold, IsFolded
    <3> QED BY <2>0, <2>4
  <2>2. IsFold(CHOOSE g : IsFold(g))
    <3> HIDE DEF IsFold
    <3> QED BY <1>4
  <2> HIDE DEF IsFold
  <2> QED BY <2>1, <2>2
<1>6. PICK r : Iterates(n, T, base, step, r) /\ r[n] = g[1..n]
  <2>1. g[{}] = base
    BY <1>5
  <2>2. ASSUME NEW s \in SUBSET (1..n), s # {}, g[s \ {Max(s)}] \in T
        PROVE  g[s] = step[Max(s)][g[s \ {Max(s)}]]
    <3>1. g[s] = LinkLine(g[s \ {Max(s)}], Max(s), lines[Max(s)])
      BY <1>5, <2>2
    <3> HIDE DEF T
    <3> QED BY <1>3, <2>2, <3>1
  <2> HIDE DEF T, step, n, base
  <2>3. FoldsBy(n, T, base, step, g)
    BY <2>1, <2>2 DEF FoldsBy
  <2> QED BY <1>1, <1>2, <2>3, FoldRuns
<1>7. /\ r \in [0..n -> T] /\ r[0] = base
      /\ \A k \in 0..(n - 1) : r[k + 1] = LinkLine(r[k], k + 1, lines[k + 1])
  <2>1. r \in [0..n -> T] /\ r[0] = base /\ \A k \in 0..(n - 1) : r[k + 1] = step[k + 1][r[k]]
    <3> HIDE DEF T, step, n, base
    <3> QED BY <1>6 DEF Iterates
  <2>2. ASSUME NEW k \in 0..(n - 1) PROVE step[k + 1][r[k]] = LinkLine(r[k], k + 1, lines[k + 1])
    <3>1. k + 1 \in 1..n /\ k \in 0..n
      BY <1>1
    <3>2. r[k] \in T
      <4> HIDE DEF T
      <4> QED BY <2>1, <3>1
    <3> HIDE DEF T
    <3> QED BY <3>1, <3>2
  <2> HIDE DEF T, step, base
  <2> QED BY <2>1, <2>2
<1> DEFINE S == { k \in 0..n : Counted(lines, k, r[k]) }
<1>8. 0 \in S
  <2>1. Headed(lines, 0) = {} /\ SectionTo(lines, 0, 0) = {}
    BY DEF Headed, SectionTo
  <2>2. Counted(lines, 0, base)
    BY <2>1 DEF Counted
  <2> HIDE DEF base
  <2> QED BY <1>1, <1>7, <2>2
<1>9. ASSUME NEW k \in 0..(n - 1), k \in S PROVE k + 1 \in S
  <2>1. k + 1 \in 1..n /\ k \in 0..n /\ k + 1 \in 0..n /\ k \in Nat /\ k + 1 <= n
    BY <1>1
  <2>2. lines[k + 1].uuid \in U /\ r[k] \in T
    <3>1. r[k] \in T
      <4> HIDE DEF T
      <4> QED BY <1>7, <2>1
    <3> QED BY <2>1, <3>1
  <2>3. r[k] \in LinksType(U, n)
    BY <2>2
  <2> HIDE DEF U, T, n
  <2>4. Counted(lines, k + 1, LinkLine(r[k], k + 1, lines[k + 1]))
    BY <1>1, <1>9, <2>1, <2>2, <2>3, CountedStep
  <2> QED BY <1>7, <2>1, <2>4
<1>10. n \in S
  <2> HIDE DEF S, n
  <2> QED BY <1>1, <1>8, <1>9, InductionTo
<1>11. r[n] \in T
  <2> HIDE DEF T
  <2> QED BY <1>1, <1>7
<1> HIDE DEF U
<1> QED BY <1>5, <1>6, <1>10, <1>11

-----------------------------------------------------------------------------
(* The links of a GPU in the report. *)

\* The nvlink table has the links of every header that was printed, up to the
\* next one.
LEMMA HeaderInTable ==
  ASSUME SInv, NEW n \in LineNumbers("nvlink"), NEW lines, lines = text["nvlink"], lines[n].kind = "gpu",
         NEW table, table = ByUUID(NVLinkListOf(res, text).gpus)
  PROVE  /\ lines[n].uuid # "" /\ lines[n].uuid \in DOMAIN table
         /\ table[lines[n].uuid] = Lanes(lines, n, Len(lines))
<1> DEFINE K == Len(lines)
           u == lines[n].uuid
           gpus == ParseNVLink(lines).gpus
           S == { i \in DOMAIN gpus : gpus[i].uuid = u }
<1>1. "nvlink" \in Cmd
  BY DEF Cmd
<1>2. /\ res["nvlink"] = "output" /\ lines \in Texts["nvlink"] /\ n \in 1..K
      /\ lines \in Seq(ToSet(lines)) /\ DOMAIN lines = 1..K /\ K \in Nat
  BY <1>1, PrintedLines, TextIsList
<1>3. table = [ x \in { y.uuid : y \in ToSet(gpus) } |-> gpus[Max({ i \in DOMAIN gpus : gpus[i].uuid = x })] ]
  <2>1. NVLinkListOf(res, text).gpus = gpus
    BY <1>2 DEF NVLinkListOf
  <2> HIDE DEF gpus
  <2> QED BY <2>1 DEF ByUUID
<1>4. Counted(lines, K, ParseNVLink(lines)) /\ \E U : ParseNVLink(lines) \in LinksType(U, K)
  <2> HIDE DEF K
  <2> QED BY <1>2, CountedAll DEF K
<1>5. DOMAIN gpus = 1..Len(gpus) /\ Len(gpus) \in Nat
  <2>1. PICK U : ParseNVLink(lines) \in LinksType(U, K)
    BY <1>4
  <2>2. gpus \in Seq(LanesType(U))
    <3> HIDE DEF K
    <3> QED BY <2>1 DEF LinksType
  <2> HIDE DEF gpus
  <2> QED BY <2>2, LenProperties
<1>6. n \in Headed(lines, K)
  BY <1>2 DEF Headed
<1>7. S # {}
  <2> HIDE DEF K
  <2> QED BY <1>4, <1>5, <1>6 DEF Counted
<1>8. Max(S) \in DOMAIN gpus /\ gpus[Max(S)].uuid = u
  <2>1. S \in SUBSET (0..Len(gpus))
    <3> HIDE DEF gpus
    <3> QED BY <1>5
  <2>2. Max(S) \in S
    <3> HIDE DEF S, gpus
    <3> QED BY <1>5, <1>7, <2>1, MaxOf
  <2> QED BY <2>2
<1>9. gpus[Max(S)] = Lanes(lines, n, K)
  <2>1. PICK m \in Headed(lines, K) : gpus[Max(S)] = Lanes(lines, m, K)
    <3> HIDE DEF K, S
    <3> QED BY <1>4, <1>5, <1>8 DEF Counted
  <2>2. lines[m].uuid = u
    <3> HIDE DEF gpus, S, K
    <3> QED BY <1>8, <2>1 DEF Lanes
  <2>3. m \in DOMAIN lines /\ lines[m].kind = "gpu" /\ n \in DOMAIN lines
    BY <1>2 DEF Headed
  <2>4. m = n
    <3> HIDE DEF K
    <3> QED BY <1>2, <2>2, <2>3, HeadersAssumption
  <2> HIDE DEF gpus, S, K
  <2> QED BY <2>1, <2>4
<1>10. u # ""
  BY <1>2, HeadersAssumption
<1>11. u \in { y.uuid : y \in ToSet(gpus) }
  <2> HIDE DEF gpus
  <2> QED BY <1>8 DEF ToSet
<1>12. table[u] = gpus[Max(S)]
  <2> HIDE DEF gpus, u
  <2> QED BY <1>3, <1>11
<1> HIDE DEF gpus
<1> QED BY <1>3, <1>9, <1>10, <1>11, <1>12

\* The links after line n, in what was printed.
LEMMA PrintedSection ==
  ASSUME SInv, NEW n \in Nat, res["nvlink"] = "output"
  PROVE  Section(n) = SectionTo(text["nvlink"], n, Len(text["nvlink"]))
<1>1. "nvlink" \in Cmd
  BY DEF Cmd
<1>2. LineNumbers("nvlink") = 1..Len(text["nvlink"]) /\ Len(text["nvlink"]) \in Nat
  BY <1>1, TextIsList DEF LineNumbers, Printed
<1> QED BY <1>2 DEF Section, SectionTo

\* The links a report has for a GPU are those of its UUID.
LEMMA LanesOfReport ==
  ASSUME SInv, NEW rep \in report, NEW g \in Gpus(Host.dev), g \in DOMAIN rep.smi,
         NEW table, table = ByUUID(NVLinkListOf(res, text).gpus), rep.smi[g].uuid \in DOMAIN table
  PROVE  /\ rep.lanes[g] = table[rep.smi[g].uuid]
         /\ g \in DOMAIN rep.checks /\ \E entry : rep.checks[g]["nvlink"] = NVLink(rep.lanes[g], entry)
<1> DEFINE q == QueryOf(res, text)
           l == NVLinkListOf(res, text)
           t == TopoOf(res, text)
           h == Joined(q, l, t)
<1>1. rep = ReportFrom(q, l, t, Errors(res))
  BY DEF SInv, ReportOf
<1>2. h.dev = Host.dev /\ h.smi = ByBDF(q.gpus) /\ h.nvlink = table
  <2> HIDE DEF q, t
  <2> QED BY HostAssumption DEF Joined
<1>3. rep.smi = h.smi /\ rep.lanes[g] = NVLinkOf(h, g) /\ rep.checks = ChecksFor(h)
  <2> HIDE DEF q, l, t
  <2> QED BY <1>1 DEF ReportFrom
<1> HIDE DEF h
<1>4. NVLinkOf(h, g) = table[rep.smi[g].uuid]
  BY <1>2, <1>3 DEF NVLinkOf
<1>5. g \in DOMAIN ChecksFor(h) /\ ChecksFor(h)[g].nvlink = NVLink(NVLinkOf(h, g), AllDevices(h)[g].entry)
  BY <1>2 DEF ChecksFor, ChecksOf
<1> QED BY <1>3, <1>4, <1>5 DEF h

\* A GPU has the links of its own header, and a link without one is a
\* limitation, in any listing that has a header of each UUID once
\* (nvidia.go:244-280, build.go:207-221).
THEOREM LinksHaveTheirHeader == Spec => []LinksWhereTheyBelong
<1>1. IInv /\ SInv => LinksWhereTheyBelong
  <2> SUFFICES ASSUME IInv, SInv, NEW rep \in report
               PROVE  /\ \A g \in DOMAIN rep.lanes : \A n \in Headers(UUIDOf(rep, g)) :
                           /\ rep.lanes[g].all = Cardinality(Section(n))
                           /\ rep.lanes[g].up = Cardinality({ m \in Section(n) : text["nvlink"][m].gbps > 0 })
                      /\ \A m \in Section(0) : <<"nvlink", m>> \in rep.limits
    BY DEF LinksWhereTheyBelong
  <2> DEFINE q == QueryOf(res, text)
             l == NVLinkListOf(res, text)
             t == TopoOf(res, text)
             lines == text["nvlink"]
             table == ByUUID(l.gpus)
  <2>1. rep = ReportFrom(q, l, t, Errors(res))
    BY DEF SInv, ReportOf
  <2>2. rep.limits = Errors(res) \cup ParseLimits(q, l, t) /\ DOMAIN rep.lanes = Gpus(Host.dev)
    <3> HIDE DEF q, l, t
    <3> QED BY <2>1, ReportFields
  <2>3. "nvlink" \in Cmd
    BY DEF Cmd
  <2>4. lines \in Seq(ToSet(lines)) /\ DOMAIN lines = 1..Len(lines)
    BY <2>3, TextIsList
  <2>5. ASSUME NEW g \in DOMAIN rep.lanes, NEW n \in Headers(UUIDOf(rep, g))
        PROVE  /\ rep.lanes[g].all = Cardinality(Section(n))
               /\ rep.lanes[g].up = Cardinality({ m \in Section(n) : lines[m].gbps > 0 })
    <3>1. n \in LineNumbers("nvlink") /\ lines[n].kind = "gpu" /\ lines[n].uuid = UUIDOf(rep, g)
      BY DEF Headers
    <3>2. lines[n].uuid # "" /\ lines[n].uuid \in DOMAIN table /\ table[lines[n].uuid] = Lanes(lines, n, Len(lines))
      BY <3>1, HeaderInTable
    <3>3. g \in DOMAIN rep.smi /\ rep.smi[g].uuid = lines[n].uuid
      BY <3>1, <3>2 DEF UUIDOf
    <3>4. rep.lanes[g] = Lanes(lines, n, Len(lines))
      <4>1. g \in Gpus(Host.dev)
        BY <2>2
      <4>2. rep.lanes[g] = table[rep.smi[g].uuid]
        BY <3>2, <3>3, <4>1, LanesOfReport
      <4> QED BY <3>2, <3>3, <4>2
    <3>5. res["nvlink"] = "output" /\ n \in Nat
      <4>1. n \in 1..Len(lines)
        BY <2>3, <2>4, <3>1, PrintedLines
      <4> QED BY <2>3, <3>1, <4>1, PrintedLines
    <3>6. Section(n) = SectionTo(lines, n, Len(lines))
      BY <3>5, PrintedSection
    <3> HIDE DEF lines
    <3> QED BY <3>4, <3>6 DEF Lanes, UpTo
  <2>6. ASSUME NEW m \in Section(0) PROVE <<"nvlink", m>> \in rep.limits
    <3>1. m \in LineNumbers("nvlink")
      BY DEF Section
    <3>2. res["nvlink"] = "output"
      BY <2>3, <3>1, PrintedLines
    <3>3. m \in SectionTo(lines, 0, Len(lines))
      BY <3>2, PrintedSection
    <3>4. l.errs = SectionTo(lines, 0, Len(lines))
      <4>1. Counted(lines, Len(lines), ParseNVLink(lines))
        <5> HIDE DEF lines
        <5> QED BY <2>4, CountedAll
      <4>2. l = ParseNVLink(lines)
        BY <3>2 DEF NVLinkListOf
      <4> HIDE DEF l, lines
      <4> QED BY <4>1, <4>2 DEF Counted
    <3>5. <<"nvlink", m>> \in ParseLimits(q, l, t)
      <4> HIDE DEF q, l, t, lines
      <4> QED BY <3>3, <3>4 DEF ParseLimits
    <3> HIDE DEF q, l, t
    <3> QED BY <2>2, <3>5
  <2> QED BY <2>5, <2>6
<1> QED BY <1>1, SInvariance, PTL

\* An NVLink that is inactive fails the check of its GPU.
LEMMA InactiveFails ==
  ASSUME NEW lines, NEW n \in Nat, NEW k \in Nat, NEW m \in SectionTo(lines, n, k), ~(lines[m].gbps > 0), NEW entry
  PROVE  NVLink(Lanes(lines, n, k), entry) = "FAIL"
<1> DEFINE all == SectionTo(lines, n, k)
           up == UpTo(lines, n, k)
<1>1. IsFiniteSet(all)
  <2>1. IsFiniteSet((n + 1)..k) /\ all \subseteq (n + 1)..k
    BY FS_Interval DEF SectionTo
  <2> HIDE DEF all
  <2> QED BY <2>1, FS_Subset
<1>2. up \subseteq all /\ up # all
  BY DEF UpTo
<1>3. Cardinality(up) < Cardinality(all) /\ Cardinality(up) \in Nat /\ Cardinality(all) \in Nat
  <2> HIDE DEF up, all
  <2>1. IsFiniteSet(up)
    BY <1>1, <1>2, FS_Subset
  <2>2. Cardinality(up) <= Cardinality(all) /\ Cardinality(up) # Cardinality(all)
    BY <1>1, <1>2, FS_Subset
  <2>3. Cardinality(up) \in Nat /\ Cardinality(all) \in Nat
    BY <1>1, <2>1, FS_CardinalityType
  <2> QED BY <2>2, <2>3
<1>4. Lanes(lines, n, k).all = Cardinality(all) /\ Lanes(lines, n, k).up = Cardinality(up)
  BY DEF Lanes
<1> HIDE DEF up, all
<1> QED BY <1>3, <1>4 DEF NVLink

\* check of a whole host does not end with 0 over an NVLink that was printed as
\* inactive, whatever else was printed or failed (main.go:160-163,
\* checks.go:130-142).
THEOREM ExitZeroIsHonest == Spec => []ExitZeroHidesNoLink
<1>1. IInv /\ SInv => ExitZeroHidesNoLink
  <2> SUFFICES ASSUME IInv, SInv, NEW rep \in report, pc = "done", cmd = "check", key = NoKey, code = 0,
                      NEW g \in Gpus(Host.dev), NEW n \in LineNumbers("query"),
                      Fits(text["query"][n]), CanonicalBDF(text["query"][n].bus) = g,
                      NEW k \in Headers(text["query"][n].uuid), NEW m \in Section(k),
                      ~(text["nvlink"][m].gbps > 0)
               PROVE  FALSE
    BY DEF ExitZeroHidesNoLink
  <2> DEFINE lines == text["nvlink"]
             rows == text["query"]
             table == ByUUID(NVLinkListOf(res, text).gpus)
  <2>1. "nvlink" \in Cmd /\ "query" \in Cmd
    BY DEF Cmd
  <2>2. rep.smi[g].uuid = rows[n].uuid /\ g \in DOMAIN rep.smi
    <3> DEFINE last == Max(RowsAbout(g))
    <3>1. n \in RowsAbout(g) /\ g \in DOMAIN Host.dev
      BY DEF RowsAbout, Gpus
    <3>2. last \in RowsAbout(g)
      <4>1. RowsAbout(g) \in SUBSET (0..Len(rows)) /\ Len(rows) \in Nat
        <5>1. DOMAIN rows = 1..Len(rows) /\ Len(rows) \in Nat
          BY <2>1, TextIsList
        <5>2. \A j \in LineNumbers("query") : j \in DOMAIN rows
          BY <2>1, PrintedLines
        <5> QED BY <5>1, <5>2 DEF RowsAbout
      <4> QED BY <3>1, <4>1, MaxOf
    <3> HIDE DEF last
    <3>3. g \in DOMAIN rep.smi /\ rep.smi[g] = Entry(rows[last])
      BY <3>1, EntryIsLastRow DEF last
    <3>4. rows \in Texts["query"] /\ n \in DOMAIN rows /\ last \in DOMAIN rows
      BY <2>1, <3>2, PrintedLines DEF RowsAbout
    <3>5. rows[last].uuid = rows[n].uuid
      BY <3>2, <3>4, RowsAssumption DEF RowsAbout
    <3> QED BY <3>3, <3>5 DEF Entry
  <2>3. k \in LineNumbers("nvlink") /\ lines[k].kind = "gpu" /\ lines[k].uuid = rows[n].uuid
    BY DEF Headers
  <2>4. lines[k].uuid \in DOMAIN table /\ table[lines[k].uuid] = Lanes(lines, k, Len(lines))
    BY <2>3, HeaderInTable
  <2>5. /\ rep.lanes[g] = table[lines[k].uuid] /\ g \in DOMAIN rep.checks
        /\ \E entry : rep.checks[g]["nvlink"] = NVLink(rep.lanes[g], entry)
    <3>1. rep.smi[g].uuid = lines[k].uuid /\ rep.smi[g].uuid \in DOMAIN table
      BY <2>2, <2>3, <2>4
    <3> HIDE DEF lines, rows, table
    <3> QED BY <2>2, <3>1, LanesOfReport DEF table
  <2>6. m \in SectionTo(lines, k, Len(lines)) /\ k \in Nat /\ Len(lines) \in Nat
    <3>1. DOMAIN lines = 1..Len(lines) /\ Len(lines) \in Nat
      BY <2>1, TextIsList
    <3>2. k \in DOMAIN lines /\ res["nvlink"] = "output"
      BY <2>1, <2>3, PrintedLines
    <3> QED BY <3>1, <3>2, PrintedSection
  <2>7. rep.checks[g]["nvlink"] = "FAIL"
    <3> HIDE DEF lines, table
    <3> QED BY <2>4, <2>5, <2>6, InactiveFails DEF lines
  <2>8. code \in {1, ExitCode(cmd, Statuses(rep, DOMAIN rep.checks))}
    BY DEF SInv, Shows
  <2>9. "FAIL" \in Statuses(rep, DOMAIN rep.checks)
    BY <2>5, <2>7 DEF Statuses, CheckNames
  <2> QED BY <2>8, <2>9 DEF ExitCode
<1> QED BY <1>1, SInvariance, PTL

-----------------------------------------------------------------------------
(* ParseTopo. *)

\* The tables from part of A to B.
Maps(A, B) == UNION { [S -> B] : S \in SUBSET A }

\* The table of nothing is one.
LEMMA NoMap == ASSUME NEW A, NEW B PROVE <<>> \in Maps(A, B)
<1>1. <<>> \in Seq(B)
  OBVIOUS
<1>2. PICK n \in Nat : <<>> \in [1..n -> B]
  BY <1>1, SeqDef
<1>3. DOMAIN <<>> = {}
  OBVIOUS
<1>4. 1..n = {}
  BY <1>2, <1>3
<1>5. <<>> \in [{} -> B]
  BY <1>2, <1>4
<1> QED BY <1>5 DEF Maps

\* And so is one over another.
LEMMA OverMap ==
  ASSUME NEW A, NEW B, NEW f \in Maps(A, B), NEW g \in Maps(A, B)
  PROVE  Over(f, g) \in Maps(A, B)
<1>1. PICK S \in SUBSET A : f \in [S -> B]
  BY DEF Maps
<1>2. PICK R \in SUBSET A : g \in [R -> B]
  BY DEF Maps
<1>3. Over(f, g) \in [S \cup R -> B]
  BY <1>1, <1>2 DEF Over
<1> QED BY <1>3 DEF Maps

\* A matrix as nvidia-smi prints it, see MatrixAssumption.
IsMatrix(lines) ==
  /\ lines \in Seq(ToSet(lines))
  /\ \A n \in DOMAIN lines :
       LET first == \A m \in 1..(n - 1) : lines[m].kind \notin {"head", "row"}
       IN /\ lines[n].kind = "head" => first /\ lines[n].names = TopoColumns
          /\ lines[n].kind = "row" /\ first => lines[n].name = TopoColumns[1]

\* The cells and the devices of a matrix, and what ParseTopo makes of its lines.
Names(lines) == { lines[j].name : j \in DOMAIN lines } \cup ToSet(TopoColumns)
TopoDevices(lines) == {<<>>, TopoColumns} \cup { <<lines[j].name>> : j \in DOMAIN lines }
Pairs(lines) == { <<a, b>> : a \in Names(lines), b \in Names(lines) }
CellsOf(lines) == UNION { { lines[j].cells[i] : i \in DOMAIN TopoColumns } : j \in DOMAIN lines }
TopoType(lines) ==
  [ devices : TopoDevices(lines),
    rel : Maps(Pairs(lines), CellsOf(lines)),
    cols : Maps({ lines[j].col : j \in DOMAIN lines }, { lines[j].name : j \in DOMAIN lines }),
    legend : BOOLEAN, err : BOOLEAN ]

\* The value v is that of row x[1] and column x[2] in the matrix.
TrueCell(lines, x, v) ==
  \E n \in DOMAIN lines, i \in DOMAIN TopoColumns :
    /\ lines[n].kind = "row" /\ lines[n].name = x[1]
    /\ TopoColumns[i] = x[2] /\ v = lines[n].cells[i]

\* What ParseTopo made of the first k lines.
TopoSo(lines, k, acc) ==
  /\ acc.devices \in {<<>>, TopoColumns, <<TopoColumns[1]>>}
  /\ \/ acc.err \/ acc.legend \/ acc.devices # <<>>
     \/ \A m \in 1..k : lines[m].kind \notin {"head", "row"}
  /\ \A x \in DOMAIN acc.rel : TrueCell(lines, x, acc.rel[x])

\* The cells of a row are where they are in the matrix.
LEMMA CellsOfRow ==
  ASSUME NEW lines, NEW n \in DOMAIN lines,
         NEW devices \in TopoDevices(lines)
  PROVE  /\ Cells(lines[n], devices) \in Maps(Pairs(lines), CellsOf(lines))
         /\ devices \in {TopoColumns, <<TopoColumns[1]>>} /\ lines[n].kind = "row" =>
              \A x \in DOMAIN Cells(lines[n], devices) : TrueCell(lines, x, Cells(lines[n], devices)[x])
<1> DEFINE f == Cells(lines[n], devices)
           row == lines[n]
           At(x) == CHOOSE i \in DOMAIN devices : devices[i] = x[2]
           D == { <<row.name, d>> : d \in ToSet(devices) }
<1>1. DOMAIN f = D /\ f = [ x \in D |-> row.cells[At(x)] ]
  BY DEF Cells
<1> HIDE DEF f
<1>2. DOMAIN devices \subseteq DOMAIN TopoColumns /\ ToSet(devices) \subseteq Names(lines)
  <2>1. TopoColumns \in Seq(ToSet(TopoColumns)) /\ TopoColumns # <<>>
    BY MatrixAssumption
  <2>2. 1 \in DOMAIN TopoColumns
    BY <2>1
  <2>3. DOMAIN <<>> = {}
    OBVIOUS
  <2>4. ASSUME NEW j \in DOMAIN lines, devices = <<lines[j].name>>
        PROVE  DOMAIN devices = {1} /\ devices[1] = lines[j].name
    BY <2>4
  <2>5. CASE \E j \in DOMAIN lines : devices = <<lines[j].name>>
    BY <2>2, <2>4, <2>5 DEF ToSet, Names
  <2>6. CASE devices = <<>>
    BY <2>3, <2>6 DEF ToSet
  <2>7. CASE devices = TopoColumns
    BY <2>7 DEF Names
  <2> QED BY <2>5, <2>6, <2>7 DEF TopoDevices
<1>3. ASSUME NEW x \in D
      PROVE  x[1] = row.name /\ At(x) \in DOMAIN devices /\ devices[At(x)] = x[2] /\ x = <<x[1], x[2]>>
  <2>1. PICK d \in ToSet(devices) : x = <<row.name, d>>
    OBVIOUS
  <2>2. \E i \in DOMAIN devices : devices[i] = d
    BY DEF ToSet
  <2>3. x[1] = row.name /\ x[2] = d
    BY <2>1
  <2> HIDE DEF row, D
  <2> QED BY <2>1, <2>2, <2>3
<1>4. f \in Maps(Pairs(lines), CellsOf(lines))
  <2>1. D \subseteq Pairs(lines)
    <3>1. row.name \in Names(lines)
      BY DEF Names
    <3> HIDE DEF row
    <3> QED BY <1>2, <3>1 DEF Pairs
  <2>2. ASSUME NEW x \in D PROVE row.cells[At(x)] \in CellsOf(lines)
    <3>1. At(x) \in DOMAIN TopoColumns
      <4> HIDE DEF At, D
      <4> QED BY <1>2, <1>3
    <3> HIDE DEF At, D
    <3> QED BY <3>1 DEF CellsOf
  <2>3. f \in [D -> CellsOf(lines)]
    <3> HIDE DEF D, At, row
    <3> QED BY <1>1, <2>2
  <2> HIDE DEF D
  <2> QED BY <2>1, <2>3 DEF Maps
<1>5. ASSUME devices \in {TopoColumns, <<TopoColumns[1]>>}, row.kind = "row", NEW x \in D
      PROVE  TrueCell(lines, x, f[x])
  <2>1. At(x) \in DOMAIN TopoColumns /\ TopoColumns[At(x)] = x[2]
    <3>1. At(x) \in DOMAIN devices /\ devices[At(x)] = x[2]
      <4> HIDE DEF At, D, row
      <4> QED BY <1>3
    <3>2. CASE devices = <<TopoColumns[1]>>
      <4>1. DOMAIN devices = {1} /\ devices[1] = TopoColumns[1]
        BY <3>2
      <4> HIDE DEF At, D, row
      <4> QED BY <1>2, <3>1, <4>1
    <3> HIDE DEF At, D, row
    <3> QED BY <1>2, <1>5, <3>1, <3>2
  <2>2. f[x] = row.cells[At(x)] /\ x[1] = row.name
    <3> HIDE DEF At, D, row
    <3> QED BY <1>1, <1>3
  <2>3. f[x] = lines[n].cells[At(x)] /\ x[1] = lines[n].name /\ lines[n].kind = "row"
    <3> HIDE DEF At
    <3> QED BY <1>5, <2>2
  <2> HIDE DEF At, D, row
  <2> QED BY <2>1, <2>3 DEF TrueCell
<1> HIDE DEF D
<1> QED BY <1>1, <1>4, <1>5 DEF f

\* Its kind is kept.
LEMMA TopoTyped ==
  ASSUME NEW lines, IsMatrix(lines), NEW n \in DOMAIN lines, NEW acc \in TopoType(lines)
  PROVE  TopoLine(acc, lines[n]) \in TopoType(lines)
<1> DEFINE l == lines[n]
           new == TopoLine(acc, l)
           Rels == Maps(Pairs(lines), CellsOf(lines))
           Cols == Maps({ lines[j].col : j \in DOMAIN lines }, { lines[j].name : j \in DOMAIN lines })
           Devs == TopoDevices(lines)
           col == [ c \in {l.col} |-> l.name ]
<1>1. acc \in [devices : Devs, rel : Rels, cols : Cols, legend : BOOLEAN, err : BOOLEAN]
  BY DEF TopoType
<1>2. l.kind = "head" => l.names \in Devs
  BY DEF TopoDevices, IsMatrix
<1>3. <<l.name>> \in Devs
  BY DEF TopoDevices
<1>4. Cells(l, acc.devices) \in Rels
  <2>1. acc.devices \in TopoDevices(lines)
    BY DEF TopoType
  <2> HIDE DEF l
  <2> QED BY <2>1, CellsOfRow DEF l
<1>5. Over(Cells(l, acc.devices), acc.rel) \in Rels
  <2> HIDE DEF l, Devs, Cols
  <2>1. acc.rel \in Rels
    BY <1>1
  <2> QED BY <1>4, <2>1, OverMap
<1>6. Over(col, acc.cols) \in Cols
  <2>1. col \in [{l.col} -> {l.name}]
    OBVIOUS
  <2>2. col \in Cols
    <3> HIDE DEF col
    <3> QED BY <2>1 DEF Maps
  <2>3. acc.cols \in Cols
    <3> HIDE DEF Cols, Rels, Devs
    <3> QED BY <1>1
  <2> HIDE DEF col
  <2> QED BY <2>2, <2>3, OverMap
<1> DEFINE more == Over(Cells(l, acc.devices), acc.rel)
           wider == Over(col, acc.cols)
<1>7. \/ new = acc
      \/ new = [acc EXCEPT !.legend = TRUE] \/ new = [acc EXCEPT !.cols = wider]
      \/ l.kind = "head" /\ new = [acc EXCEPT !.devices = l.names]
      \/ new = [acc EXCEPT !.devices = <<l.name>>]
      \/ new = [acc EXCEPT !.err = TRUE] \/ new = [acc EXCEPT !.rel = more]
  <2> HIDE DEF l
  <2> QED BY DEF TopoLine
<1> HIDE DEF l, new, Rels, Cols, Devs, more, wider
<1>8. more \in Rels /\ wider \in Cols
  BY <1>5, <1>6 DEF more, wider
<1>9. new \in [devices : Devs, rel : Rels, cols : Cols, legend : BOOLEAN, err : BOOLEAN]
  BY <1>1, <1>2, <1>3, <1>7, <1>8
<1> QED BY <1>9 DEF TopoType, new, l, Rels, Cols, Devs

\* And so is what it says.
LEMMA TopoStep ==
  ASSUME NEW lines, IsMatrix(lines), NEW k \in Nat, k + 1 \in DOMAIN lines,
         NEW acc \in TopoType(lines), TopoSo(lines, k, acc)
  PROVE  TopoSo(lines, k + 1, TopoLine(acc, lines[k + 1]))
<1> DEFINE l == lines[k + 1]
           new == TopoLine(acc, l)
           first == \A m \in 1..k : lines[m].kind \notin {"head", "row"}
           cells == Cells(l, acc.devices)
<1> SUFFICES TopoSo(lines, k + 1, new)
  OBVIOUS
<1>1. acc = [devices |-> acc.devices, rel |-> acc.rel, cols |-> acc.cols, legend |-> acc.legend, err |-> acc.err]
  BY DEF TopoType
<1>2. 1..(k + 1) = 1..k \cup {k + 1} /\ (k + 1) - 1 = k
  OBVIOUS
<1>3. /\ l.kind = "head" => first /\ l.names = TopoColumns
      /\ l.kind = "row" /\ first => l.name = TopoColumns[1]
  BY <1>2 DEF IsMatrix
<1>4. TopoColumns # <<>> /\ <<TopoColumns[1]>> # <<>>
  BY MatrixAssumption
<1>5. CASE new = acc /\ (acc.err \/ acc.legend \/ acc.devices # <<>> \/ l.kind \notin {"head", "row"})
  <2> HIDE DEF new
  <2> QED BY <1>2, <1>5 DEF TopoSo
<1>6. CASE new = [acc EXCEPT !.legend = TRUE]
  <2>1. new.devices = acc.devices /\ new.rel = acc.rel /\ new.legend
    BY <1>1, <1>6
  <2> HIDE DEF new
  <2> QED BY <2>1 DEF TopoSo
<1>7. CASE acc.legend /\ new = [acc EXCEPT !.cols = Over([ c \in {l.col} |-> l.name ], @)]
  <2>1. new.devices = acc.devices /\ new.rel = acc.rel /\ new.legend
    BY <1>1, <1>7
  <2> HIDE DEF new
  <2> QED BY <2>1 DEF TopoSo
<1>8. CASE l.kind = "head" /\ new = [acc EXCEPT !.devices = l.names]
  <2>1. new.devices = TopoColumns /\ new.rel = acc.rel
    BY <1>1, <1>3, <1>8
  <2> HIDE DEF new
  <2> QED BY <1>4, <2>1 DEF TopoSo
<1>9. CASE /\ ~acc.err /\ ~acc.legend /\ acc.devices = <<>> /\ l.kind = "row"
           /\ new = [acc EXCEPT !.devices = <<l.name>>]
  <2>1. first
    BY <1>9 DEF TopoSo
  <2>2. new.devices = <<TopoColumns[1]>> /\ new.rel = acc.rel
    BY <1>1, <1>3, <1>9, <2>1
  <2> HIDE DEF new
  <2> QED BY <1>4, <2>2 DEF TopoSo
<1>10. CASE new = [acc EXCEPT !.err = TRUE]
  <2>1. new.devices = acc.devices /\ new.rel = acc.rel /\ new.err
    BY <1>1, <1>10
  <2> HIDE DEF new
  <2> QED BY <2>1 DEF TopoSo
<1>11. CASE acc.devices # <<>> /\ l.kind = "row" /\ new = [acc EXCEPT !.rel = Over(cells, @)]
  <2>1. new.devices = acc.devices /\ new.rel = Over(cells, acc.rel)
    <3> DEFINE more == Over(cells, acc.rel)
    <3> HIDE DEF more
    <3>1. new = [acc EXCEPT !.rel = more]
      BY <1>11 DEF more
    <3> HIDE DEF new
    <3> QED BY <1>1, <3>1 DEF more
  <2>2. acc.devices \in {TopoColumns, <<TopoColumns[1]>>} /\ acc.devices \in TopoDevices(lines)
    BY <1>11 DEF TopoSo, TopoType
  <2>3. \A x \in DOMAIN cells : TrueCell(lines, x, cells[x])
    <3>1. lines[k + 1].kind = "row" /\ cells = Cells(lines[k + 1], acc.devices) /\ k + 1 \in DOMAIN lines
      BY <1>11
    <3> HIDE DEF cells, l, new
    <3>2. \A x \in DOMAIN Cells(lines[k + 1], acc.devices) :
            TrueCell(lines, x, Cells(lines[k + 1], acc.devices)[x])
      BY <2>2, <3>1, CellsOfRow
    <3> QED BY <3>1, <3>2
  <2>4. \A x \in DOMAIN acc.rel : TrueCell(lines, x, acc.rel[x])
    BY DEF TopoSo
  <2> HIDE DEF cells, new
  <2>5. \A x \in DOMAIN new.rel : TrueCell(lines, x, new.rel[x])
    BY <2>1, <2>3, <2>4 DEF Over
  <2> QED BY <1>11, <2>1, <2>2, <2>5 DEF TopoSo
<1>12. \/ new = acc /\ (acc.err \/ acc.legend \/ acc.devices # <<>> \/ l.kind \notin {"head", "row"})
       \/ new = [acc EXCEPT !.legend = TRUE]
       \/ acc.legend /\ new = [acc EXCEPT !.cols = Over([ c \in {l.col} |-> l.name ], @)]
       \/ l.kind = "head" /\ new = [acc EXCEPT !.devices = l.names]
       \/ /\ ~acc.err /\ ~acc.legend /\ acc.devices = <<>> /\ l.kind = "row"
          /\ new = [acc EXCEPT !.devices = <<l.name>>]
       \/ new = [acc EXCEPT !.err = TRUE]
       \/ acc.devices # <<>> /\ l.kind = "row" /\ new = [acc EXCEPT !.rel = Over(cells, @)]
  BY DEF TopoLine
<1> HIDE DEF new, l, first, cells
<1> QED BY <1>5, <1>6, <1>7, <1>8, <1>9, <1>10, <1>11, <1>12 DEF new, l

\* ParseTopo, for a text of any length (nvidia.go:297-357).
LEMMA TopoAll ==
  ASSUME NEW lines, IsMatrix(lines)
  PROVE  \A x \in DOMAIN ParseTopo(lines).rel : TrueCell(lines, x, ParseTopo(lines).rel[x])
<1> DEFINE n == Len(lines)
           T == TopoType(lines)
           base == NoLines
           step == [ i \in 1..n |-> [ acc \in T |-> TopoLine(acc, lines[i]) ] ]
           IsFold(it) == it = [ s \in SUBSET (1..n) |->
                                  IF s = {} THEN base ELSE TopoLine(it[s \ {Max(s)}], lines[Max(s)]) ]
<1>1. n \in Nat /\ DOMAIN lines = 1..n
  <2>1. lines \in Seq(ToSet(lines))
    BY DEF IsMatrix
  <2> QED BY <2>1, LenProperties
<1>2. base \in T /\ step \in [1..n -> [T -> T]]
  <2>1. base \in T
    <3> DEFINE A == Pairs(lines)
               B == CellsOf(lines)
               C == { lines[j].col : j \in DOMAIN lines }
               D == { lines[j].name : j \in DOMAIN lines }
               E == TopoDevices(lines)
    <3>1. <<>> \in E
      BY DEF TopoDevices
    <3>2. T = [devices : E, rel : Maps(A, B), cols : Maps(C, D), legend : BOOLEAN, err : BOOLEAN]
      BY DEF TopoType
    <3> HIDE DEF A, B, C, D, E
    <3>3. <<>> \in Maps(A, B) /\ <<>> \in Maps(C, D)
      BY NoMap
    <3>4. base \in [devices : E, rel : Maps(A, B), cols : Maps(C, D), legend : BOOLEAN, err : BOOLEAN]
      BY <3>1, <3>3 DEF NoLines
    <3> QED BY <3>2, <3>4
  <2>2. ASSUME NEW i \in 1..n, NEW acc \in T PROVE TopoLine(acc, lines[i]) \in T
    BY <1>1, TopoTyped
  <2> HIDE DEF T, base
  <2> QED BY <2>1, <2>2
<1>3. ASSUME NEW s \in SUBSET (1..n), s # {} PROVE Max(s) \in 1..n
  <2>1. s \in SUBSET (0..n)
    OBVIOUS
  <2> QED BY <1>1, <1>3, <2>1, MaxOf
<1>4. \E it : IsFold(it)
  <2>1. PICK it : FoldDefines(n, T, base, step, it)
    <3> HIDE DEF n, T, step, base
    <3> QED BY <1>1, <1>2, FoldExists, Zenon
  <2>2. /\ it \in [SUBSET (1..n) -> T]
        /\ \A s \in SUBSET (1..n) : it[s] = IF s = {} THEN base ELSE step[Max(s)][it[s \ {Max(s)}]]
    <3> HIDE DEF n, T, step, base
    <3> QED BY <2>1 DEF FoldDefines
  <2>3. ASSUME NEW s \in SUBSET (1..n), s # {}
        PROVE  step[Max(s)][it[s \ {Max(s)}]] = TopoLine(it[s \ {Max(s)}], lines[Max(s)])
    <3>1. it[s \ {Max(s)}] \in T
      <4> HIDE DEF T, base
      <4> QED BY <2>2
    <3> HIDE DEF T
    <3> QED BY <1>3, <2>3, <3>1
  <2>4. it = [ s \in SUBSET (1..n) |->
                 IF s = {} THEN base ELSE TopoLine(it[s \ {Max(s)}], lines[Max(s)]) ]
    <3> HIDE DEF T, step, base
    <3> QED BY <2>2, <2>3
  <2> QED BY <2>4
<1>5. PICK g : IsFold(g) /\ ParseTopo(lines).rel = g[1..n].rel
  <2> DEFINE end == FoldLeft(TopoLine, NoLines, lines)
  <2>1. end = (CHOOSE g : IsFold(g))[1..n]
    BY <1>1 DEF FoldLeft, MapThenFoldSet
  <2>2. IsFold(CHOOSE g : IsFold(g))
    <3> HIDE DEF IsFold
    <3> QED BY <1>4
  <2>3. ParseTopo(lines).rel = end.rel
    BY DEF ParseTopo
  <2> HIDE DEF IsFold, end
  <2> QED BY <2>1, <2>2, <2>3
<1>6. PICK r : Iterates(n, T, base, step, r) /\ r[n] = g[1..n]
  <2>1. g[{}] = base
    BY <1>5
  <2>2. ASSUME NEW s \in SUBSET (1..n), s # {}, g[s \ {Max(s)}] \in T
        PROVE  g[s] = step[Max(s)][g[s \ {Max(s)}]]
    <3>1. g[s] = TopoLine(g[s \ {Max(s)}], lines[Max(s)])
      BY <1>5, <2>2
    <3> HIDE DEF T
    <3> QED BY <1>3, <2>2, <3>1
  <2> HIDE DEF T, step, n, base
  <2>3. FoldsBy(n, T, base, step, g)
    BY <2>1, <2>2 DEF FoldsBy
  <2> QED BY <1>1, <1>2, <2>3, FoldRuns
<1>7. /\ r \in [0..n -> T] /\ r[0] = base
      /\ \A k \in 0..(n - 1) : r[k + 1] = TopoLine(r[k], lines[k + 1])
  <2>1. r \in [0..n -> T] /\ r[0] = base /\ \A k \in 0..(n - 1) : r[k + 1] = step[k + 1][r[k]]
    <3> HIDE DEF T, step, n, base
    <3> QED BY <1>6 DEF Iterates
  <2>2. ASSUME NEW k \in 0..(n - 1) PROVE step[k + 1][r[k]] = TopoLine(r[k], lines[k + 1])
    <3>1. k + 1 \in 1..n /\ k \in 0..n
      BY <1>1
    <3>2. r[k] \in T
      <4> HIDE DEF T
      <4> QED BY <2>1, <3>1
    <3> HIDE DEF T
    <3> QED BY <3>1, <3>2
  <2> HIDE DEF T, step, base
  <2> QED BY <2>1, <2>2
<1> DEFINE S == { k \in 0..n : TopoSo(lines, k, r[k]) }
<1>8. 0 \in S
  <2>1. base.devices = <<>> /\ base.rel = <<>> /\ DOMAIN <<>> = {}
    BY DEF NoLines
  <2>2. TopoSo(lines, 0, base)
    <3> HIDE DEF base
    <3> QED BY <2>1 DEF TopoSo
  <2> HIDE DEF base, T
  <2> QED BY <1>1, <1>7, <2>2
<1>9. ASSUME NEW k \in 0..(n - 1), k \in S PROVE k + 1 \in S
  <2>1. k + 1 \in DOMAIN lines /\ k \in 0..n /\ k + 1 \in 0..n /\ k \in Nat
    BY <1>1
  <2>2. r[k] \in TopoType(lines)
    <3>1. r[k] \in T
      <4> HIDE DEF T
      <4> QED BY <1>7, <2>1
    <3> QED BY <3>1
  <2> HIDE DEF T, n
  <2>3. TopoSo(lines, k + 1, TopoLine(r[k], lines[k + 1]))
    BY <1>9, <2>1, <2>2, TopoStep
  <2> QED BY <1>7, <2>1, <2>3
<1>10. n \in S
  <2>1. n \in 0..n
    BY <1>1
  <2> HIDE DEF S, n, T, base
  <2>2. 0..n \subseteq S
    BY <1>1, <1>8, <1>9, InductionTo
  <2> QED BY <2>1, <2>2
<1>11. ParseTopo(lines).rel = r[n].rel /\ TopoSo(lines, n, r[n])
  <2> HIDE DEF T, step, base, n
  <2> QED BY <1>5, <1>6, <1>10
<1> HIDE DEF n
<1> QED BY <1>11 DEF TopoSo

\* Every relation of a report is the cell of its row and column, whatever lines
\* the matrix has (nvidia.go:297-357).
THEOREM CellsAreTrue == Spec => []TopoCellsTrue
<1>1. IInv /\ SInv => TopoCellsTrue
  <2> SUFFICES ASSUME IInv, SInv, NEW rep \in report, NEW x \in DOMAIN rep.topo.rel
               PROVE  \E n \in LineNumbers("topo"), i \in DOMAIN TopoColumns :
                        /\ text["topo"][n].kind = "row" /\ text["topo"][n].name = x[1]
                        /\ TopoColumns[i] = x[2] /\ rep.topo.rel[x] = text["topo"][n].cells[i]
    BY DEF TopoCellsTrue
  <2> DEFINE q == QueryOf(res, text)
             l == NVLinkListOf(res, text)
             t == TopoOf(res, text)
             lines == text["topo"]
  <2>1. rep = ReportFrom(q, l, t, Errors(res))
    BY DEF SInv, ReportOf
  <2>2. x \in DOMAIN t.rel /\ rep.topo.rel[x] = t.rel[x]
    <3> HIDE DEF q, l, t
    <3> QED BY <2>1, ReportTopo
  <2>3. res["topo"] = "output"
    <3>1. DOMAIN <<>> = {}
      OBVIOUS
    <3>2. res["topo"] # "output" => t.rel = <<>>
      BY DEF TopoOf, NoMatrix
    <3> HIDE DEF t
    <3> QED BY <2>2, <3>1, <3>2
  <2>4. t = ParseTopo(lines) /\ LineNumbers("topo") = DOMAIN lines
    BY <2>3 DEF TopoOf, LineNumbers, Printed
  <2>5. TrueCell(lines, x, t.rel[x])
    <3>1. "topo" \in Cmd
      BY DEF Cmd
    <3>2. IsMatrix(lines)
      <4>1. CASE lines \in Texts["topo"]
        BY <3>1, <4>1, MatrixAssumption, LinesAssumption DEF IsMatrix
      <4>2. CASE lines = <<>>
        <5>1. DOMAIN <<>> = {} /\ ToSet(<<>>) = {} /\ <<>> \in Seq({})
          BY DEF ToSet
        <5> HIDE DEF lines
        <5> QED BY <4>2, <5>1 DEF IsMatrix
      <4> QED BY <3>1, <4>1, <4>2 DEF SInv
    <3> HIDE DEF t, lines
    <3> QED BY <2>2, <2>4, <3>2, TopoAll
  <2> HIDE DEF t, lines
  <2> QED BY <2>2, <2>4, <2>5 DEF TrueCell, lines
<1> QED BY <1>1, SInvariance, PTL

=============================================================================
