------------------------------ MODULE AppData ------------------------------
(***************************************************************************)
(* The files the application keeps its own data in: the database with its  *)
(* write-ahead log and commands.json, the copies that a restore and a      *)
(* start take of them, and what crashes and failing file operations leave  *)
(* (app/services/data_backup.py, init_db and _backup_database of           *)
(* app/database.py, the order of app/main.py; run.py admits one process).  *)
(*                                                                         *)
(* A restore is one thread under _DATA_LOCK, a file operation at a time;   *)
(* requests hold sessions meanwhile, and engine.dispose() does not close   *)
(* those.  On POSIX a session survives the renaming of its file; where a   *)
(* file in use cannot be moved the operation fails, as any may.            *)
(*                                                                         *)
(* Abstractions.  A database is the set of commits in it, its schema and   *)
(* the installation it came from.  The log is what was committed since the *)
(* last checkpoint.  A session whose file was moved away is "cut": its     *)
(* commits are counted as lost, although SQLite may still write them to    *)
(* the moved file.  A migration is two statements that commit on their own *)
(* (DDL under sqlite3).  Staged copies, the status file, disk space and    *)
(* the texts of errors are left out.                                       *)
(***************************************************************************)
EXTENDS Integers, Sequences

CONSTANTS Commits,      \* what requests commit
          Writers,      \* requests that hold a session
          Imported,     \* archives made by another release or installation
          Keep,         \* snapshots _backup_database keeps (5)
          MaxStarts,    \* bound on starts of the process
          MaxRestores,  \* bound on restores
          Missing       \* no such file

ASSUME BoundsAssumption ==
  Keep \in Nat \ {0} /\ MaxStarts \in Nat /\ MaxRestores \in Nat

VARIABLES proc,         \* the process: down, checked, migrating or serving
          live,         \* netmgr.db
          log,          \* netmgr.db-wal
          cmd,          \* commands.json
          previous,     \* both .restore-previous files
          snaps,        \* data_backups/: never pruned
          kept,         \* db_backups/: before each start, oldest first
          sess,         \* sessions of requests
          restore,      \* the restore under way
          acked,        \* history: commits that were acknowledged
          late,         \* history: those acknowledged while a restore ran
          upgraded,     \* history: the last upgrade that began
          starts, restores, \* bounded counters
          fouled        \* history: a roll-back failed, or met the log of another file

disk == <<live, log, cmd, previous>>
history == <<acked, late, upgraded>>
vars == <<proc, disk, snaps, kept, sess, restore, history, starts, restores, fouled>>

Schema == {"none", "old", "half", "head"}
Database == [data : SUBSET Commits, schema : Schema, origin : {"here", "elsewhere"}]
Files == [db : Database \cup {Missing}, cmd : {"here", "elsewhere", Missing}]
Broken == [data |-> {}, schema |-> "none", origin |-> "elsewhere"]
Empty == [data |-> {}, schema |-> "none", origin |-> "here"]

ASSUME MissingAssumption == Missing \notin Database \cup {"here", "elsewhere"}
ASSUME ImportedAssumption ==
  Imported \subseteq {f \in Files : f.db # Missing /\ f.db.schema \in {"old", "head"}}

NoFiles == [db |-> Missing, cmd |-> Missing]
NoRestore == [at |-> "idle", from |-> NoFiles, was |-> NoFiles, busy |-> FALSE, ok |-> FALSE]
Locations == {"idle", "staged", "unlogged", "vacant", "placed", "aside", "swapped",
              "undo", "undoing", "undone", "answered"}

\* What a connection to the database reads.
Read(l) == IF live = Missing THEN {} ELSE live.data \cup l

Init ==
  /\ proc = "down"
  /\ live \in {[data |-> {}, schema |-> s, origin |-> "here"] : s \in {"old", "head"}} \cup {Missing}
  /\ log = {}
  /\ cmd = IF live = Missing THEN Missing ELSE "here"
  /\ previous = NoFiles
  /\ snaps = {}
  /\ kept = <<>>
  /\ sess = [w \in Writers |-> "closed"]
  /\ restore = NoRestore
  /\ acked = {} /\ late = {}
  /\ upgraded = [start |-> 0, was |-> Empty]
  /\ starts = 0 /\ restores = 0
  /\ fouled = FALSE

-----------------------------------------------------------------------------
(* Starts: init_db, and what the process does before it serves *)

\* Mutant: a missing file is not created.
ConnectedMutant == live

\* Looking for the revision connects, and connecting creates a missing file; a
\* log beside a file without content is discarded.
Connected == IF live = Missing THEN Empty ELSE live

Start ==
  /\ proc = "down"
  /\ starts < MaxStarts
  /\ starts' = starts + 1
  /\ proc' = "checked"
  /\ live' = Connected
  /\ log' = IF live \in {Missing, Empty} THEN {} ELSE log
  /\ UNCHANGED <<cmd, previous, snaps, kept, sess, restore, history, restores, fouled>>

\* The integrity check, the snapshot or a migration raises; a snapshot that
\* fails may leave a file that is none, and nothing is pruned.
FailStart ==
  /\ proc \in {"checked", "migrating"}
  /\ proc' = "down"
  /\ \/ UNCHANGED kept
     \/ proc = "checked" /\ kept' = Append(kept, Broken)
  /\ UNCHANGED <<disk, snaps, sess, restore, history, starts, restores, fouled>>

\* Mutant: the oldest snapshots are kept.
NewestMutant(files) == SubSeq(files, 1, IF Len(files) > Keep THEN Keep ELSE Len(files))

Newest(files) == SubSeq(files, IF Len(files) > Keep THEN Len(files) - Keep + 1 ELSE 1, Len(files))

\* The online backup API includes the log.
Snapshot ==
  /\ proc = "checked"
  /\ kept' = Newest(Append(kept, [live EXCEPT !.data = @ \cup log]))
  /\ proc' = "migrating"
  /\ UNCHANGED <<disk, snaps, sess, restore, history, starts, restores, fouled>>

\* A statement of a revision commits; the last one with the revision itself.
Migrate ==
  /\ proc = "migrating"
  /\ live.schema # "head"
  /\ live' = [live EXCEPT !.schema = IF @ = "half" THEN "head" ELSE "half"]
  /\ upgraded' = IF live.schema = "half" THEN upgraded
                 ELSE [start |-> starts, was |-> [live EXCEPT !.data = @ \cup log]]
  /\ UNCHANGED <<proc, log, cmd, previous, snaps, kept, sess, restore, acked, late,
                 starts, restores, fouled>>

\* ensure_commands_file writes the defaults only where there is no file.
Serve ==
  /\ proc = "migrating"
  /\ live.schema = "head"
  /\ proc' = "serving"
  /\ cmd' = IF cmd = Missing THEN "here" ELSE cmd
  /\ UNCHANGED <<live, log, previous, snaps, kept, sess, restore, history, starts, restores, fouled>>

\* The process stops between two steps of anything; committed data survives
\* in the log, and the files stay where they are.
Crash ==
  /\ proc # "down"
  /\ proc' = "down"
  /\ sess' = [w \in Writers |-> "closed"]
  /\ restore' = NoRestore
  /\ UNCHANGED <<disk, snaps, kept, history, starts, restores, fouled>>

-----------------------------------------------------------------------------
(* Requests *)

Open(w) ==
  /\ proc = "serving"
  /\ sess[w] = "closed"
  /\ sess' = [sess EXCEPT ![w] = "open"]
  /\ live' = Connected
  /\ UNCHANGED <<proc, log, cmd, previous, snaps, kept, restore, history, starts, restores, fouled>>

\* A database without tables accepts nothing.
Commit(w) ==
  /\ sess[w] # "closed"
  /\ sess[w] = "open" => live # Missing /\ live.schema # "none"
  /\ \E c \in Commits \ acked :
       /\ acked' = acked \cup {c}
       /\ log' = IF sess[w] = "open" THEN log \cup {c} ELSE log
       /\ late' = IF sess[w] = "cut" \/ restore.at # "idle" THEN late \cup {c} ELSE late
  /\ UNCHANGED <<proc, live, cmd, previous, snaps, kept, sess, restore, upgraded,
                 starts, restores, fouled>>

\* The last connection to close copies the log into the file.
Checkpointed == [live EXCEPT !.data = @ \cup log]

Close(w) ==
  /\ sess[w] # "closed"
  /\ sess' = [sess EXCEPT ![w] = "closed"]
  /\ IF sess[w] = "open" /\ live # Missing /\ \A v \in Writers \ {w} : sess[v] # "open"
       THEN live' = Checkpointed /\ log' = {}
       ELSE UNCHANGED <<live, log>>
  /\ UNCHANGED <<proc, cmd, previous, snaps, kept, restore, history, starts, restores, fouled>>

-----------------------------------------------------------------------------
(* Snapshots and restores of the application data *)

Current == [db |-> IF live = Missing THEN Missing ELSE Checkpointed, cmd |-> cmd]

\* create_data_backup; one that fails leaves nothing a restore would accept.
CreateBackup ==
  /\ proc = "serving"
  /\ restore.at = "idle"
  /\ snaps' = snaps \cup {Current}
  /\ UNCHANGED <<proc, disk, kept, sess, restore, history, starts, restores, fouled>>

\* An archive is a snapshot that was downloaded, or comes from elsewhere; one
\* without a database that has a devices table is refused.
Archives == Imported \cup {f \in snaps : f.db # Missing /\ f.db.schema # "none"}

Cut == [w \in Writers |-> IF sess[w] = "open" THEN "cut" ELSE sess[w]]

\* Mutant: a snapshot that failed does not cancel the restore.
SnapshotTakenMutant == snaps' \in {snaps, snaps \cup {Current}}

SnapshotTaken == snaps' = snaps \cup {Current}

\* Everything up to the staged copies; a failure on the way cancels the
\* restore without a trace but for the snapshot.
BeginRestore ==
  /\ proc = "serving"
  /\ restore.at = "idle"
  /\ restores < MaxRestores
  /\ restores' = restores + 1
  /\ SnapshotTaken
  /\ \E archive \in Archives :
       restore' = [at |-> "staged", from |-> archive, was |-> Current, busy |-> FALSE, ok |-> FALSE]
  /\ UNCHANGED <<proc, disk, kept, sess, history, starts, fouled>>

To(location) == restore' = [restore EXCEPT !.at = location]

\* Disposing of the engine closes the connections no request holds: the last
\* one copies the log.  Leftovers of an earlier restore are removed, and the
\* database is moved away with the sessions that hold it; its log stays.
MoveAway ==
  /\ restore.at = "staged"
  /\ LET idle == \A w \in Writers : sess[w] # "open"
         now == IF idle /\ live # Missing THEN Checkpointed ELSE live IN
       /\ previous' = [db |-> now, cmd |-> Missing]
       /\ log' = IF idle THEN {} ELSE log
       /\ restore' = [restore EXCEPT !.at = "unlogged", !.busy = ~idle]
  /\ live' = Missing
  /\ sess' = Cut
  /\ UNCHANGED <<proc, cmd, snaps, kept, history, starts, restores, fouled>>

DropLog ==
  /\ restore.at = "unlogged"
  /\ log' = {}
  /\ To("vacant")
  /\ UNCHANGED <<proc, live, cmd, previous, snaps, kept, sess, history, starts, restores, fouled>>

\* A request that connected in the gap made an empty file, which is replaced.
Place ==
  /\ restore.at = "vacant"
  /\ live' = restore.from.db
  /\ sess' = Cut
  /\ To(IF restore.from.cmd = Missing THEN "swapped" ELSE "placed")
  /\ UNCHANGED <<proc, log, cmd, previous, snaps, kept, history, starts, restores, fouled>>

MoveCommands ==
  /\ restore.at = "placed"
  /\ previous' = [previous EXCEPT !.cmd = cmd]
  /\ cmd' = Missing
  /\ To("aside")
  /\ UNCHANGED <<proc, live, log, snaps, kept, sess, history, starts, restores, fouled>>

PlaceCommands ==
  /\ restore.at = "aside"
  /\ cmd' = restore.from.cmd
  /\ To("swapped")
  /\ UNCHANGED <<proc, live, log, previous, snaps, kept, sess, history, starts, restores, fouled>>

\* Removing what was moved away may fail: the answer is an error then, and the
\* archive is in place all the same.
CleanUp ==
  /\ restore.at = "swapped"
  /\ \/ previous' = NoFiles /\ restore' = [restore EXCEPT !.at = "answered", !.ok = TRUE]
     \/ UNCHANGED previous /\ To("answered")
  /\ UNCHANGED <<proc, live, log, cmd, snaps, kept, sess, history, starts, restores, fouled>>

\* Any file operation may fail; before the first has moved something there is
\* nothing to undo.
OperationFails ==
  /\ restore.at \in {"staged", "unlogged", "vacant", "placed", "aside"}
  /\ To(IF restore.at = "staged" THEN "answered" ELSE "undo")
  /\ UNCHANGED <<proc, disk, snaps, kept, sess, history, starts, restores, fouled>>

\* What is in the database's place is removed, but not the log that requests
\* may have begun beside it.
RemovePlaced ==
  /\ restore.at = "undo"
  /\ live' = IF previous.db = Missing THEN live ELSE Missing
  /\ sess' = IF previous.db = Missing THEN sess ELSE Cut
  /\ fouled' = (fouled \/ log # {})
  /\ To("undoing")
  /\ UNCHANGED <<proc, log, cmd, previous, snaps, kept, history, starts, restores>>

\* A request may have connected once more: its empty file is replaced.
PutBack ==
  /\ restore.at = "undoing"
  /\ live' = IF previous.db = Missing THEN live ELSE previous.db
  /\ sess' = IF previous.db = Missing THEN sess ELSE Cut
  /\ previous' = [previous EXCEPT !.db = Missing]
  /\ To("undone")
  /\ UNCHANGED <<proc, log, cmd, snaps, kept, history, starts, restores, fouled>>

\* Mutant: the roll-back forgets commands.json.
OldCommandsMutant == cmd

OldCommands == IF previous.cmd = Missing THEN cmd ELSE previous.cmd

PutCommandsBack ==
  /\ restore.at = "undone"
  /\ cmd' = OldCommands
  /\ previous' = [previous EXCEPT !.cmd = Missing]
  /\ To("answered")
  /\ UNCHANGED <<proc, live, log, snaps, kept, sess, history, starts, restores, fouled>>

UndoFails ==
  /\ restore.at \in {"undo", "undoing", "undone"}
  /\ fouled' = TRUE
  /\ To("answered")
  /\ UNCHANGED <<proc, disk, snaps, kept, sess, history, starts, restores>>

Answer ==
  /\ restore.at = "answered"
  /\ restore' = NoRestore
  /\ UNCHANGED <<proc, disk, snaps, kept, sess, history, starts, restores, fouled>>

Swap == MoveAway \/ DropLog \/ Place \/ MoveCommands \/ PlaceCommands \/ CleanUp

Undo == OperationFails \/ RemovePlaced \/ PutBack \/ PutCommandsBack \/ UndoFails

Next ==
  \/ Start \/ FailStart \/ Snapshot \/ Migrate \/ Serve \/ Crash
  \/ \E w \in Writers : Open(w) \/ Commit(w) \/ Close(w)
  \/ CreateBackup \/ BeginRestore \/ Swap \/ Undo \/ Answer

Spec == Init /\ [][Next]_vars

-----------------------------------------------------------------------------
(* Properties *)

\* Every variable has its type; a process that is not serving has neither
\* requests nor a restore, and one that starts has connected to a file.
TypeOK ==
  /\ proc \in {"down", "checked", "migrating", "serving"}
  /\ live \in Database \cup {Missing}
  /\ log \subseteq Commits
  /\ cmd \in {"here", "elsewhere", Missing}
  /\ previous \in Files
  /\ snaps \subseteq Files
  /\ kept \in Seq(Database)
  /\ sess \in [Writers -> {"closed", "open", "cut"}]
  /\ restore \in [at : Locations, from : Files, was : Files, busy : BOOLEAN, ok : BOOLEAN]
  /\ acked \subseteq Commits /\ late \subseteq acked
  /\ upgraded \in [start : 0..MaxStarts, was : Database]
  /\ starts \in 0..MaxStarts /\ restores \in 0..MaxRestores
  /\ fouled \in BOOLEAN
  /\ proc # "serving" => restore = NoRestore /\ \A w \in Writers : sess[w] = "closed"
  /\ proc \in {"checked", "migrating"} => live # Missing

SnapshotData == UNION {f.db.data : f \in {g \in snaps : g.db # Missing}}

\* What was acknowledged before a restore took its snapshot can be recovered,
\* whatever is restored, fails, crashes or restarts afterwards: it is in the
\* database or in a snapshot of the data.  Commits made while a restore runs,
\* or in a session older than it, are not promised anything.
Recoverable == acked \ late \subseteq Read(log) \cup SnapshotData

Present(f) ==
  /\ live # Missing
  /\ live.origin = f.db.origin /\ live.schema = f.db.schema
  /\ f.db.data \subseteq Read(log)
  /\ cmd = f.cmd

\* A restore that answers has put the database and commands.json of the archive
\* in place, or left both as they were, never one of each; after a success it is
\* the archive's.  Excepted: a request held a session while the database was
\* moved (its log is gone after a roll-back), and a roll-back that failed.
RestoreIsWhole ==
  restore.at = "answered" /\ ~restore.busy /\ ~fouled =>
    LET archive == IF restore.from.cmd = Missing
                   THEN [restore.from EXCEPT !.cmd = restore.was.cmd] ELSE restore.from
    IN Present(archive) \/ (~restore.ok /\ Present(restore.was))

\* The copy of the database as it was before an upgrade began survives the
\* failing restarts that follow it, as long as they are fewer than Keep.
PreUpgradeCopyKept ==
  upgraded.start > 0 /\ starts - upgraded.start < Keep =>
    \E i \in DOMAIN kept : kept[i] = upgraded.was
=============================================================================
