------------------------------- MODULE BurnIn -------------------------------
(***************************************************************************)
(* What `pathctl watch` promises to whoever leaves it running during a     *)
(* burn-in, whatever the loop looks like inside: every report read is      *)
(* published before the next one is read, what the log shows last about a  *)
(* check is the last thing read about it, and a run that ends normally     *)
(* says 3 exactly when some read saw a FAIL.                               *)
(***************************************************************************)

CONSTANTS
  Key,      \* a GPU address with a check name
  Check,    \* a judgement: [status, detail]
  NoCheck,  \* the GPU of the key is not in the report
  Running   \* the result while there is none

VARIABLES
  now,      \* the last report read
  failSeen, \* some report read so far held a FAIL
  view,     \* what the log shows last, per key
  result    \* the exit code

vars == <<now, failSeen, view, result>>

HasFail(r) == \E k \in Key : r[k] # NoCheck /\ r[k].status = "FAIL"

\* A reader of the log keeps what it knew of a GPU that is not in the report.
Overlay(old, r) == [k \in Key |-> IF r[k] = NoCheck THEN old[k] ELSE r[k]]

Published == view = Overlay(view, now)

Init ==
  /\ now = [k \in Key |-> NoCheck]
  /\ failSeen = FALSE
  /\ view = [k \in Key |-> NoCheck]
  /\ result = Running

Observe ==
  /\ result = Running /\ Published
  /\ now' \in [Key -> Check \cup {NoCheck}]
  /\ failSeen' = (failSeen \/ HasFail(now'))
  /\ UNCHANGED <<view, result>>

Publish ==
  /\ result = Running
  /\ view' = Overlay(view, now)
  /\ UNCHANGED <<now, failSeen, result>>

\* The last report may be published in the step that ends the run.
Finish ==
  /\ result = Running
  /\ view' = Overlay(view, now)
  /\ result' = IF failSeen THEN 3 ELSE 0
  /\ UNCHANGED <<now, failSeen>>

\* 1: the host could not be read; 4: the GPU asked for is not there.
Abort ==
  /\ result = Running
  /\ result' \in {1, 4}
  /\ UNCHANGED <<now, failSeen, view>>

Next == Observe \/ Publish \/ Finish \/ Abort

Spec == Init /\ [][Next]_vars
=============================================================================
