---------------------------- MODULE ConfigBackup ----------------------------
(***************************************************************************)
(* Configuration captures of network devices, their retention, their       *)
(* review and their baseline: app/services/backup_service.py,              *)
(* app/services/backup_retention.py and app/routers/backups.py.            *)
(*                                                                         *)
(* A worker is a thread that runs backup_device_config (a batch thread of  *)
(* run_backup, run_backup_all or the scheduled task); an operator is a     *)
(* request thread of the baseline endpoint.  Between two steps of one      *)
(* thread any other thread may run: no lock guards these tables.           *)
(*                                                                         *)
(* Abstractions.  A configuration text is its hash.  A row's id stands for *)
(* (backup_time, id), the order every query uses.  A file name is (safe    *)
(* device name, second).  last_backup, last_seen, notes and sizes, which   *)
(* nothing here reads back, are left out.                                  *)
(***************************************************************************)
EXTENDS Integers, FiniteSets

CONSTANTS Devices,      \* device rows
          Workers,      \* capture threads
          Operators,    \* request threads that mark a baseline
          Hashes,       \* configuration contents
          Names,        \* file-safe device names
          NameOf,       \* [Devices -> Names]: Device.name is not unique
          Policies,     \* "keep" values an administrator may save
          Verdicts,     \* review results an operator may give
          None,         \* no row, no policy, no file
          MaxCaptures,  \* bound: files written in a behaviour
          MaxSecond     \* bound: seconds of the clock that names files

ASSUME NameOfAssumption == NameOf \in [Devices -> Names]
ASSUME PolicyAssumption == Policies \subseteq Nat
ASSUME VerdictAssumption == Verdicts \subseteq {"pending", "expected", "unexpected", "ignored"}
ASSUME NoneAssumption == None \notin Nat /\ None \notin Hashes /\ None \notin Devices
ASSUME BoundAssumption == MaxCaptures \in Nat /\ MaxSecond \in Nat

VARIABLES alive,     \* devices whose row exists
          status,    \* Device.status
          backups,   \* rows of config_backups
          keep,      \* SystemSetting backup_retention:<id>; None = no row
          files,     \* BACKUP_DIR: path -> hash, None = no file
          worker,    \* capture threads
          operator,  \* baseline requests
          tick,      \* captures written so far: the order of backup_time
          second,    \* wall-clock second of the last file name
          seen,      \* history: per device, what captures ever stored
          writes,    \* history: how often each path was written (0, 1, 2+)
          raced      \* history: paths unlinked while a capture held them

history == <<seen, writes, raced>>
vars == <<alive, status, backups, keep, files, worker, operator, tick, second, history>>

Paths == Names \X (0 .. MaxSecond)
Ids == 1 .. MaxCaptures
Reviews == {"pending", "expected", "unexpected", "ignored"}
Backup == [id : Ids, device : Devices, hash : Hashes, path : Paths,
           changed : BOOLEAN, baseline : BOOLEAN, review : Reviews]

(***************************************************************************)
(* Queries                                                                 *)
(***************************************************************************)
Rows(d) == {r \in backups : r.device = d}

\* History is ordered newest first: the rows before r are the newer ones.
Newer(r) == {s \in Rows(r.device) : s.id > r.id}
IsNewest(r) == Newer(r) = {}
Baselines(d) == {r \in Rows(d) : r.baseline}

\* rows[n:] without baselines
Beyond(d, n) == {r \in Rows(d) : Cardinality(Newer(r)) >= n /\ ~r.baseline}
\* Mutant: the slice starts one row too early.
ExcessMutant(d, n) == IF n = 0 THEN {} ELSE Beyond(d, n - 1)

Excess(d, n) == IF n = 0 THEN {} ELSE Beyond(d, n)

\* The global BACKUP_RETENTION_DAYS rule; cutoff 0 is the disabled rule.
Expired(d, cutoff) == {r \in Beyond(d, 1) : r.id < cutoff}

\* Mutant: the policy keeps one row too many.
CondemnedMutant(d, cutoff) ==
  IF keep[d] # None THEN Excess(d, keep[d] + 1) ELSE Expired(d, cutoff)

\* Rows that the device's policy condemns.
Condemned(d, cutoff) == IF keep[d] # None THEN Excess(d, keep[d]) ELSE Expired(d, cutoff)

(***************************************************************************)
(* Capture threads                                                         *)
(***************************************************************************)
Idle == [pc |-> "idle", device |-> None, hash |-> None, first |-> FALSE, changed |-> FALSE,
         id |-> 0, path |-> None, victims |-> {}, paths |-> {}, doomed |-> None]
IdleOperator == [pc |-> "idle", id |-> 0, device |-> None, baseline |-> FALSE]

Goto(w, state) == worker' = [worker EXCEPT ![w] = state]

\* Lines 52-59: connected, but no usable configuration came back.
EmptyConfig(w, d) ==
  /\ worker[w].pc = "idle"
  /\ d \in alive
  /\ status' = [status EXCEPT ![d] = "online"]
  /\ UNCHANGED <<alive, backups, keep, files, worker, operator, tick, second, history>>

\* Mutant: a capture that follows the baseline is never a change.
DiffersMutant(d, h) == \E r \in Rows(d) : IsNewest(r) /\ ~r.baseline /\ r.hash # h

\* Whether h is a change with respect to the newest stored row.
Differs(d, h) == \E r \in Rows(d) : IsNewest(r) /\ r.hash # h

\* Lines 61-95: the text has been read; compare it with the newest row.
Compare(w, d, h) ==
  /\ worker[w].pc = "idle"
  /\ d \in alive
  /\ Goto(w, [Idle EXCEPT !.pc = "compared", !.device = d, !.hash = h,
                          !.first = (Rows(d) = {}), !.changed = Differs(d, h)])
  /\ UNCHANGED <<alive, status, backups, keep, files, operator, tick, second, history>>

\* Lines 97-111: the file is written, and backup_time taken, before any row
\* exists.  The clock may have moved on since the previous file was named.
WriteFile(w) ==
  /\ worker[w].pc = "compared"
  /\ tick < MaxCaptures
  /\ tick' = tick + 1
  /\ second' \in {second, second + 1} \cap (0 .. MaxSecond)
  /\ LET path == <<NameOf[worker[w].device], second'>>
     IN  /\ files' = [files EXCEPT ![path] = worker[w].hash]
         /\ writes' = [writes EXCEPT ![path] = IF @ = 0 THEN 1 ELSE 2]
         /\ Goto(w, [worker[w] EXCEPT !.pc = "written", !.path = path, !.id = tick + 1])
  /\ UNCHANGED <<alive, status, backups, keep, operator, seen, raced>>

\* Mutant: the file name is not recorded in the row.
NewRowMutant(w) == [id |-> worker[w].id, device |-> worker[w].device, hash |-> worker[w].hash,
                    path |-> None, changed |-> worker[w].changed,
                    baseline |-> worker[w].first,
                    review |-> IF worker[w].changed THEN "pending" ELSE "ignored"]

NewRow(w) == [id |-> worker[w].id, device |-> worker[w].device, hash |-> worker[w].hash,
              path |-> worker[w].path, changed |-> worker[w].changed,
              baseline |-> worker[w].first,
              review |-> IF worker[w].changed THEN "pending" ELSE "ignored"]

\* What a device's history says once row r is stored.
Extended(old, r) ==
  [old EXCEPT !.newest = IF r.id > @ THEN r.id ELSE @,
              !.hashes = @ \cup {r.hash},
              !.changed = @ \/ r.changed,
              !.initials = IF r.baseline /\ @ < 2 THEN @ + 1 ELSE @]
Remember(r) == seen' = [seen EXCEPT ![r.device] = Extended(@, r)]

\* History: whether a clean-up looked at d's rows since the policy or the
\* baseline last moved, or a clean-up of d was cut short.
Settle(d, settled) == seen' = [seen EXCEPT ![d].settled = settled]

\* Lines 106-125: one commit adds the row and updates the device.
CommitBackup(w) ==
  LET d == worker[w].device
      row == NewRow(w)
  IN  /\ worker[w].pc = "written"
      /\ d \in alive
      /\ backups' = backups \cup {row}
      /\ status' = [status EXCEPT ![d] = "online"]
      /\ Goto(w, [Idle EXCEPT !.pc = "prune", !.device = d])
      /\ Remember(row)
      /\ raced' = IF \E v \in Workers : worker[v].doomed = row.path
                  THEN raced \cup {row.path} ELSE raced
      /\ UNCHANGED <<alive, keep, files, operator, tick, second, writes>>

\* Lines 137-140: any failure after the comparison (the file cannot be
\* written, the device row is gone, the commit fails) rolls the session back.
\* A file already written stays on disk.
CaptureFails(w) ==
  /\ worker[w].pc \in {"compared", "written"}
  /\ Goto(w, Idle)
  /\ UNCHANGED <<alive, status, backups, keep, files, operator, tick, second, history>>

(***************************************************************************)
(* prune_old_backups, run by the capture thread after its commit           *)
(***************************************************************************)
\* Lines 270-283: read the policy and the history.
SelectVictims(w) ==
  /\ worker[w].pc = "prune"
  /\ \E cutoff \in 0 .. tick :
       LET victims == Condemned(worker[w].device, cutoff)
       IN  Goto(w, IF victims = {} THEN Idle
                   ELSE [worker[w] EXCEPT !.pc = "delete",
                                          !.victims = {r.id : r \in victims},
                                          !.paths = {r.path : r \in victims}])
  /\ Settle(worker[w].device, TRUE)
  /\ UNCHANGED <<alive, status, backups, keep, files, operator, tick, second, writes, raced>>

\* Lines 284-286: delete the rows chosen above, by primary key, and commit.
DeleteVictims(w) ==
  /\ worker[w].pc = "delete"
  /\ backups' = {r \in backups : r.id \notin worker[w].victims}
  /\ Goto(w, [worker[w] EXCEPT !.pc = "unlink", !.victims = {}])
  /\ UNCHANGED <<alive, status, keep, files, operator, tick, second, history>>

\* Mutant: the clean-up does not ask whether another row names the file.
ReferencedMutant(path) == FALSE

Referenced(path) == \E r \in backups : r.path = path

\* Line 290: a file another row still names is not a candidate.
CheckPath(w, path) ==
  /\ worker[w].pc = "unlink"
  /\ worker[w].doomed = None
  /\ path \in worker[w].paths
  /\ LET rest == worker[w].paths \ {path}
         next == IF rest = {} THEN Idle ELSE [worker[w] EXCEPT !.paths = rest]
     IN  Goto(w, IF Referenced(path) THEN next
                 ELSE [worker[w] EXCEPT !.paths = rest, !.doomed = path])
  /\ UNCHANGED <<alive, status, backups, keep, files, operator, tick, second, history>>

\* Lines 291-294: unlink; an OSError is logged and the loop goes on.
Unlink(w) ==
  LET path == worker[w].doomed
  IN  /\ worker[w].pc = "unlink"
      /\ path # None
      /\ files' \in {files, [files EXCEPT ![path] = None]}
      /\ Goto(w, IF worker[w].paths = {} THEN Idle ELSE [worker[w] EXCEPT !.doomed = None])
      /\ raced' = IF \E v \in Workers : worker[v].pc = "written" /\ worker[v].path = path
                  THEN raced \cup {path} ELSE raced
      /\ UNCHANGED <<alive, status, backups, keep, operator, tick, second, seen, writes>>

\* Lines 130-132: a failing clean-up is rolled back and the capture stands.
PruneFails(w) ==
  /\ worker[w].pc \in {"prune", "delete", "unlink"}
  /\ Goto(w, Idle)
  /\ Settle(worker[w].device, FALSE)
  /\ UNCHANGED <<alive, status, backups, keep, files, operator, tick, second, writes, raced>>

(***************************************************************************)
(* Requests                                                                *)
(***************************************************************************)
\* mark_configuration_baseline reads the row ...
ReadBaseline(o) ==
  /\ operator[o].pc = "idle"
  /\ \E r \in backups :
       operator' = [operator EXCEPT ![o] = [pc |-> "read", id |-> r.id, device |-> r.device,
                                            baseline |-> r.baseline]]
  /\ UNCHANGED <<alive, status, backups, keep, files, worker, tick, second, history>>

\* Mutant: the flag is set and the old baseline is not cleared.
SetBaselineMutant(o) ==
  LET row == operator[o]
  IN  /\ operator[o].pc = "read"
      /\ backups' = {[r EXCEPT !.baseline = @ \/ r.id = row.id] : r \in backups}
      /\ operator' = [operator EXCEPT ![o] = IdleOperator]
      /\ Settle(row.device, FALSE)
      /\ UNCHANGED <<alive, status, keep, files, worker, tick, second, writes, raced>>

\* ... clears the device's baselines and sets the row's flag in one commit.
\* The session writes only a flag that differs from the value it read, so a
\* row read as a baseline is cleared with the others and not set again.
\* Setting the flag of a row deleted meanwhile fails the whole transaction.
SetBaseline(o) ==
  LET row == operator[o]
      marked == ~row.baseline
      gone == \A r \in backups : r.id # row.id
  IN  /\ operator[o].pc = "read"
      /\ backups' = IF marked /\ gone THEN backups
                    ELSE {IF r.device = row.device
                          THEN [r EXCEPT !.baseline = marked /\ r.id = row.id]
                          ELSE r : r \in backups}
      /\ operator' = [operator EXCEPT ![o] = IdleOperator]
      /\ Settle(row.device, FALSE)
      /\ UNCHANGED <<alive, status, keep, files, worker, tick, second, writes, raced>>

\* review_configuration_change: an unchanged capture is pending or ignored.
Review(id, verdict) ==
  /\ \E r \in backups :
       /\ r.id = id
       /\ r.changed \/ verdict \in {"pending", "ignored"}
       /\ backups' = (backups \ {r}) \cup {[r EXCEPT !.review = verdict]}
  /\ UNCHANGED <<alive, status, keep, files, worker, operator, tick, second, history>>

\* set_retention: saved now, applied by the next successful capture.
SetRetention(d, n) ==
  /\ d \in alive
  /\ keep' = [keep EXCEPT ![d] = n]
  /\ Settle(d, FALSE)
  /\ UNCHANGED <<alive, status, backups, files, worker, operator, tick, second, writes, raced>>

\* delete_device: the rows and the policy go, the files stay.
DeleteDevice(d) ==
  /\ d \in alive
  /\ alive' = alive \ {d}
  /\ backups' = backups \ Rows(d)
  /\ keep' = [keep EXCEPT ![d] = None]
  /\ UNCHANGED <<status, files, worker, operator, tick, second, history>>

\* The process stops: committed rows and written files survive.
Crash ==
  /\ worker' = [w \in Workers |-> Idle]
  /\ operator' = [o \in Operators |-> IdleOperator]
  /\ seen' = [d \in Devices |-> [seen[d] EXCEPT !.settled = FALSE]]
  /\ UNCHANGED <<alive, status, backups, keep, files, tick, second, writes, raced>>

(***************************************************************************)
(* Specification                                                           *)
(***************************************************************************)
Init ==
  /\ alive = Devices
  /\ status = [d \in Devices |-> "unknown"]
  /\ backups = {}
  /\ keep = [d \in Devices |-> None]
  /\ files = [p \in Paths |-> None]
  /\ worker = [w \in Workers |-> Idle]
  /\ operator = [o \in Operators |-> IdleOperator]
  /\ tick = 0
  /\ second = 0
  /\ seen = [d \in Devices |-> [newest |-> 0, hashes |-> {}, changed |-> FALSE, initials |-> 0,
                               settled |-> TRUE]]
  /\ writes = [p \in Paths |-> 0]
  /\ raced = {}

Capture(w) ==
  \/ \E d \in Devices : EmptyConfig(w, d)
  \/ \E d \in Devices, h \in Hashes : Compare(w, d, h)
  \/ WriteFile(w)
  \/ CommitBackup(w)
  \/ CaptureFails(w)

Prune(w) ==
  \/ SelectVictims(w)
  \/ DeleteVictims(w)
  \/ \E path \in Paths : CheckPath(w, path)
  \/ Unlink(w)
  \/ PruneFails(w)

Request ==
  \/ \E o \in Operators : ReadBaseline(o) \/ SetBaseline(o)
  \/ \E id \in Ids, verdict \in Verdicts : Review(id, verdict)
  \/ \E d \in Devices, n \in Policies \cup {None} : SetRetention(d, n)
  \/ \E d \in Devices : DeleteDevice(d)

Next ==
  \/ \E w \in Workers : Capture(w) \/ Prune(w)
  \/ Request
  \/ Crash

Spec == Init /\ [][Next]_vars

(***************************************************************************)
(* Properties                                                              *)
(***************************************************************************)
WorkerRecord ==
  [pc : {"idle", "compared", "written", "prune", "delete", "unlink"},
   device : Devices \cup {None}, hash : Hashes \cup {None}, first : BOOLEAN, changed : BOOLEAN,
   id : 0 .. MaxCaptures, path : Paths \cup {None},
   victims : SUBSET Ids, paths : SUBSET Paths, doomed : Paths \cup {None}]

\* A busy thread has its device; a capture its text, a written one its
\* file; only a clean-up about to delete holds victims.
WorkerState ==
  {s \in WorkerRecord :
     /\ s.pc # "idle" => s.device \in Devices
     /\ s.pc \in {"compared", "written"} => s.hash \in Hashes
     /\ s.pc = "written" => s.id \in Ids /\ s.path \in Paths
     /\ s.pc # "delete" => s.victims = {}}

OperatorState ==
  [pc : {"idle"}, id : {0}, device : {None}, baseline : {FALSE}]
    \cup [pc : {"read"}, id : Ids, device : Devices, baseline : BOOLEAN]

\* Every variable keeps its type.
TypeOK ==
  /\ alive \subseteq Devices
  /\ status \in [Devices -> {"unknown", "online"}]
  /\ backups \subseteq Backup
  /\ keep \in [Devices -> Policies \cup {None}]
  /\ files \in [Paths -> Hashes \cup {None}]
  /\ worker \in [Workers -> WorkerState]
  /\ operator \in [Operators -> OperatorState]
  /\ tick \in 0 .. MaxCaptures
  /\ second \in 0 .. MaxSecond
  /\ seen \in [Devices -> [newest : 0 .. MaxCaptures, hashes : SUBSET Hashes,
                           changed : BOOLEAN, initials : 0 .. 2, settled : BOOLEAN]]
  /\ writes \in [Paths -> 0 .. 2]
  /\ raced \subseteq Paths

\* Whatever prunes overlap whatever captures, and however the policy changes
\* between them, the newest capture ever stored of a device that still exists
\* is never lost (excess and prune_old_backups keep the head of the history).
NewestCaptureKept ==
  \A d \in alive : seen[d].newest # 0 => \E r \in Rows(d) : r.id = seen[d].newest

\* Once every capture of a device has finished its clean-up, its history obeys
\* a count policy, whatever the order in which the captures stored their rows,
\* counted from the last clean-up that the policy, the baseline or a failure
\* did not overtake.
RetentionObeyed ==
  \A d \in alive :
    /\ keep[d] # None
    /\ seen[d].settled
    /\ \A w \in Workers : worker[w].device = d => worker[w].pc \notin {"prune", "delete"}
    => Excess(d, keep[d]) = {}

\* Once two different configurations of a device were stored, at least one
\* capture was reported as a change, unless two first captures overlapped
\* (is_changed in backup_device_config, computed from an earlier read).
ChangeIsReported ==
  \A d \in Devices :
    seen[d].initials <= 1 /\ Cardinality(seen[d].hashes) > 1 => seen[d].changed

\* The file of a stored row is on disk, with the row's text when no other
\* capture wrote the same name, unless a clean-up unlinked that name while a
\* capture with it was between its write and its commit.
StoredFileKept ==
  \A r \in backups : r.path \notin raced =>
    /\ files[r.path] # None
    /\ writes[r.path] = 1 => files[r.path] = r.hash

\* A device has at most one baseline row unless its first captures overlapped:
\* marking replaces the old baseline in one transaction.
AtMostOneBaseline ==
  \A d \in Devices : seen[d].initials <= 1 => Cardinality(Baselines(d)) <= 1

\* What the model comment of ConfigBackup promises of a device with captures.
ExactlyOneBaseline ==
  \A d \in Devices : Rows(d) # {} => Cardinality(Baselines(d)) = 1

\* "baselines are kept in addition": a clean-up step removes no baseline row.
PrunePreservesBaselines ==
  [][\A w \in Workers : DeleteVictims(w) => \A d \in Devices : Baselines(d) \subseteq backups']_vars

Baselined(d) == Rows(d) # {} => Baselines(d) # {}

\* A device with captures has a baseline from its first capture on, and loses it
\* in two ways only: the baseline is marked again, or it was chosen by a clean-up
\* before it became the baseline (mark_configuration_baseline, prune_old_backups).
LostOnlyAsKnown ==
  [][\A d \in Devices : Baselined(d) =>
       \/ Baselined(d)'
       \/ \E o \in Operators :
            SetBaseline(o) /\ operator[o].device = d /\ operator[o].baseline
       \/ \E w \in Workers :
            DeleteVictims(w) /\ \E r \in Baselines(d) : r.id \in worker[w].victims]_vars
=============================================================================
