----------------------------- MODULE SyncRecord -----------------------------
(***************************************************************************)
(* What the history of synchronisation runs promises a reader of           *)
(* integration_sync_runs (app/models.py, IntegrationSyncRun): a run is     *)
(* tried a bounded number of times, ends at most once, and a run that      *)
(* ended never changes again.                                              *)
(***************************************************************************)
EXTENDS Integers

CONSTANTS Runs, None

VARIABLE record     \* [Runs -> row or None]

Open == {"running", "retrying"}
Init == record = [r \in Runs |-> None]

Start(r) ==
  /\ record[r] = None
  /\ record'[r] \in [status : {"running"}, attempt : {1}, max : Nat \ {0}]
  /\ record' = [record EXCEPT ![r] = record'[r]]

\* An attempt begins.
Try(r) ==
  /\ record[r] # None
  /\ record[r].status \in Open
  /\ \E n \in record[r].attempt .. record[r].max :
       record' = [record EXCEPT ![r].status = "running", ![r].attempt = n]

\* An attempt fails: the last one ends the run.
Fail(r) ==
  /\ record[r] # None
  /\ record[r].status \in Open
  /\ \E n \in record[r].attempt .. record[r].max :
       record' = [record EXCEPT ![r].status = IF n = record[r].max THEN "failed" ELSE "retrying",
                                ![r].attempt = n]

Succeed(r) ==
  /\ record[r] # None
  /\ record[r].status = "running"
  /\ record' = [record EXCEPT ![r].status = "success"]

Next == \E r \in Runs : Start(r) \/ Try(r) \/ Fail(r) \/ Succeed(r)

Spec == Init /\ [][Next]_record
=============================================================================
