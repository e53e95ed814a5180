------------------------------ MODULE TaskLog ------------------------------
(***************************************************************************)
(* What the rows of task_logs (app/models.py, TaskLog) promise a reader,   *)
(* whichever thread writes them: a task is stored as running before it     *)
(* does anything, it ends at most once, and what it ended with never       *)
(* changes again.  Rows are kept here for ever; the clean-up of logs       *)
(* (app/services/log_service.py) deletes those of at least a week.         *)
(***************************************************************************)
CONSTANT Entries    \* the rows there may ever be

VARIABLE status     \* [Entries -> status of a row, "none" before it is inserted]

Ended == {"success", "partial", "failed"}

Init == status = [e \in Entries |-> "none"]

Open(e) ==
  /\ status[e] = "none"
  /\ status' = [status EXCEPT ![e] = "running"]

Close(e) ==
  /\ status[e] = "running"
  /\ \E end \in Ended : status' = [status EXCEPT ![e] = end]

Next == \E e \in Entries : Open(e) \/ Close(e)

Spec == Init /\ [][Next]_status
=============================================================================
