------------------------------- MODULE Outputs -------------------------------
(***************************************************************************)
(* What Run of internal/nvidia promises its callers: every command ends    *)
(* once, with its whole output, with no output at all or with an error,    *)
(* and of the commands not finished when the program is told to stop at    *)
(* most one, the one that is running, may still have an output.            *)
(***************************************************************************)
CONSTANT Cmd \* the commands

VARIABLES
  res,       \* command -> "none" before it ended, "output", "empty" or "error"
  cancelled, \* the program was told to stop
  closed     \* the commands that had not begun by then
vars == <<res, cancelled, closed>>

Waiting == { c \in Cmd : res[c] = "none" }

Init ==
  /\ res = [c \in Cmd |-> "none"]
  /\ cancelled = FALSE /\ closed = {}

Delivers(c, r) ==
  /\ c \in Waiting \ closed
  /\ r \in {"output", "empty"} /\ res' = [res EXCEPT ![c] = r]
  /\ UNCHANGED <<cancelled, closed>>

\* One command fails, or all of them when there is no nvidia-smi.
Fails(S) ==
  /\ S # {} /\ S \subseteq Waiting
  /\ res' = [c \in Cmd |-> IF c \in S THEN "error" ELSE res[c]]
  /\ UNCHANGED <<cancelled, closed>>

Cancel(S) ==
  /\ ~cancelled /\ Waiting # {}
  /\ S \subseteq Waiting /\ \A c, d \in Waiting \ S : c = d
  /\ cancelled' = TRUE /\ closed' = S
  /\ UNCHANGED res

Next ==
  \/ \E c \in Cmd, r \in {"output", "empty"} : Delivers(c, r)
  \/ \E S \in SUBSET Cmd : Fails(S) \/ Cancel(S)

Spec == Init /\ [][Next]_vars
=============================================================================
