--------------------------- MODULE AppData_proofs ---------------------------
(***************************************************************************)
(* What the restores and the starts of AppData keep, for any commits,      *)
(* requests, archives and bounds: types, the data of acknowledged commits, *)
(* whole restores, and the copy of the database from before an upgrade.    *)
(***************************************************************************)
EXTENDS AppData, SequenceTheorems, TLAPS

-----------------------------------------------------------------------------
(* Types *)

LEMMA CurrentTyped ==
  ASSUME TypeOK
  PROVE  /\ live # Missing => Checkpointed \in Database
         /\ Current \in Files
<1>1. live # Missing => Checkpointed \in Database
  BY DEF TypeOK, Checkpointed, Database
<1> QED
  BY <1>1 DEF TypeOK, Current, Files

LEMMA ConnectedTyped ==
  ASSUME TypeOK
  PROVE  Connected \in Database /\ Connected # Missing
<1>1. Empty \in Database
  BY DEF Empty, Database, Schema
<1> QED
  BY <1>1, MissingAssumption DEF TypeOK, Connected

LEMMA ArchivesTyped ==
  ASSUME TypeOK, NEW f \in Archives
  PROVE  f \in Files /\ f.db \in Database /\ f.db # Missing
  BY ImportedAssumption, MissingAssumption DEF TypeOK, Archives, Files

LEMMA NewestTyped ==
  ASSUME NEW files \in Seq(Database)
  PROVE  Newest(files) \in Seq(Database)
<1>1. Keep \in Nat \ {0} /\ Len(files) \in Nat
  BY BoundsAssumption
<1>2. \A i \in 1..Len(files) : files[i] \in Database
  BY ElementOfSeq
<1>3. CASE Len(files) > Keep
  <2> DEFINE m == Len(files) - Keep + 1
  <2>1. m \in 1 .. Len(files) + 1 /\ Newest(files) = SubSeq(files, m, Len(files))
    BY <1>1, <1>3 DEF Newest
  <2> HIDE DEF m
  <2> QED
    BY <1>1, <1>2, <2>1, SubSeqProperties
<1>4. CASE ~(Len(files) > Keep)
  <2>1. Newest(files) = SubSeq(files, 1, Len(files)) /\ 1 \in 1 .. Len(files) + 1
    BY <1>1, <1>4 DEF Newest
  <2> QED
    BY <1>1, <1>2, <2>1, SubSeqProperties
<1> QED
  BY <1>3, <1>4

\* The steps of the process, of the requests and of a restore keep the types.
LEMMA ProcessTyped ==
  ASSUME TypeOK, Start \/ FailStart \/ Snapshot \/ Migrate \/ Serve \/ Crash
  PROVE  TypeOK'
<1>1. CASE Start
  <2>1. proc = "down" /\ proc' = "checked" /\ starts' = starts + 1 /\ starts < MaxStarts
    BY <1>1 DEF Start
  <2>2. starts' \in 0..MaxStarts
    BY <2>1, BoundsAssumption DEF TypeOK
  <2>3. live' \in Database /\ live' # Missing
    BY <1>1, ConnectedTyped DEF Start
  <2>4. log' \subseteq Commits
    BY <1>1 DEF Start, TypeOK
  <2> QED
    BY <1>1, <2>1, <2>2, <2>3, <2>4 DEF TypeOK, Start, history
<1>2. CASE FailStart
  <2>1. Broken \in Database
    BY DEF Broken, Database, Schema
  <2>2. kept' \in Seq(Database)
    BY <1>2, <2>1 DEF FailStart, TypeOK
  <2> QED
    BY <1>2, <2>2 DEF TypeOK, FailStart, disk, history
<1>3. CASE Snapshot
  <2>1. [live EXCEPT !.data = @ \cup log] \in Database
    BY <1>3 DEF TypeOK, Snapshot, Database
  <2>2. Append(kept, [live EXCEPT !.data = @ \cup log]) \in Seq(Database)
    BY <2>1 DEF TypeOK
  <2>3. kept' \in Seq(Database)
    BY <1>3, <2>2, NewestTyped DEF Snapshot
  <2> QED
    BY <1>3, <2>3 DEF TypeOK, Snapshot, disk, history
<1>4. CASE Migrate
  <2>1. live \in Database
    BY <1>4 DEF TypeOK, Migrate
  <2>2. live' \in Database
    BY <1>4, <2>1 DEF Migrate, Database, Schema
  <2>3. upgraded' \in [start : 0..MaxStarts, was : Database]
    BY <1>4, <2>1 DEF Migrate, TypeOK, Database
  <2> QED
    BY <1>4, <2>2, <2>3, MissingAssumption DEF TypeOK, Migrate
<1>5. CASE Serve
  BY <1>5 DEF TypeOK, Serve, history
<1>6. CASE Crash
  <2>1. NoRestore \in [at : Locations, from : Files, was : Files, busy : BOOLEAN, ok : BOOLEAN]
    BY DEF NoRestore, NoFiles, Files, Locations
  <2> QED
    BY <1>6, <2>1 DEF TypeOK, Crash, disk, history
<1> QED
  BY <1>1, <1>2, <1>3, <1>4, <1>5, <1>6

LEMMA RequestTyped ==
  ASSUME TypeOK, NEW w \in Writers, Open(w) \/ Commit(w) \/ Close(w)
  PROVE  TypeOK'
<1>1. CASE Open(w)
  BY <1>1, ConnectedTyped DEF TypeOK, Open, history
<1>2. CASE Commit(w)
  BY <1>2 DEF TypeOK, Commit
<1>3. CASE Close(w)
  BY <1>3, CurrentTyped DEF TypeOK, Close, history
<1> QED
  BY <1>1, <1>2, <1>3

LEMMA CutTyped ==
  ASSUME TypeOK
  PROVE  Cut \in [Writers -> {"closed", "open", "cut"}]
  BY DEF TypeOK, Cut

LEMMA RestoreTyped ==
  ASSUME TypeOK, CreateBackup \/ BeginRestore \/ Swap \/ Undo \/ Answer
  PROVE  TypeOK'
<1>1. CASE CreateBackup
  BY <1>1, CurrentTyped DEF TypeOK, CreateBackup, disk, history
<1>2. CASE BeginRestore
  <2>1. PICK archive \in Archives :
          restore' = [at |-> "staged", from |-> archive, was |-> Current, busy |-> FALSE, ok |-> FALSE]
    BY <1>2 DEF BeginRestore
  <2>2. restore' \in [at : Locations, from : Files, was : Files, busy : BOOLEAN, ok : BOOLEAN]
    BY <2>1, ArchivesTyped, CurrentTyped DEF Locations
  <2> QED
    BY <1>2, <2>2, CurrentTyped, BoundsAssumption
    DEF TypeOK, BeginRestore, SnapshotTaken, disk, history
<1>3. ASSUME restore.at # "idle" PROVE proc = "serving"
  BY <1>3 DEF TypeOK, NoRestore
<1>4. CASE Swap
  <2>1. CASE MoveAway
    <3>1. previous' \in Files
      BY <2>1, CurrentTyped DEF TypeOK, MoveAway, Files
    <3> QED
      BY <1>3, <2>1, <3>1, CutTyped DEF TypeOK, MoveAway, Locations, history
  <2>2. CASE DropLog
    BY <1>3, <2>2 DEF TypeOK, DropLog, To, Locations, history
  <2>3. CASE Place
    <3>1. restore.from \in Files /\ restore.from.db \in Database \cup {Missing}
      BY DEF TypeOK, Files
    <3> QED
      BY <1>3, <2>3, <3>1, CutTyped DEF TypeOK, Place, To, Locations, history
  <2>4. CASE MoveCommands
    BY <1>3, <2>4 DEF TypeOK, MoveCommands, To, Locations, Files, history
  <2>5. CASE PlaceCommands
    <3>1. restore.from.cmd \in {"here", "elsewhere", Missing}
      BY DEF TypeOK, Files
    <3> QED
      BY <1>3, <2>5, <3>1 DEF TypeOK, PlaceCommands, To, Locations, history
  <2>6. CASE CleanUp
    <3>1. previous' \in Files
      BY <2>6 DEF TypeOK, CleanUp, NoFiles, Files
    <3>2. restore' \in [at : Locations, from : Files, was : Files, busy : BOOLEAN, ok : BOOLEAN]
      BY <2>6 DEF TypeOK, CleanUp, To, Locations
    <3> QED
      BY <1>3, <2>6, <3>1, <3>2 DEF TypeOK, CleanUp, history
  <2> QED
    BY <1>4, <2>1, <2>2, <2>3, <2>4, <2>5, <2>6 DEF Swap
<1>5. CASE Undo
  <2>1. CASE OperationFails
    BY <1>3, <2>1 DEF TypeOK, OperationFails, To, Locations, disk, history
  <2>2. CASE RemovePlaced
    BY <1>3, <2>2, CutTyped DEF TypeOK, RemovePlaced, To, Locations, history
  <2>3. CASE PutBack
    <3>1. previous.db \in Database \cup {Missing} /\ previous' \in Files
      BY <2>3 DEF TypeOK, PutBack, Files
    <3>2. live' \in Database \cup {Missing} /\ sess' \in [Writers -> {"closed", "open", "cut"}]
      BY <2>3, <3>1, CutTyped DEF TypeOK, PutBack
    <3>3. restore' \in [at : Locations, from : Files, was : Files, busy : BOOLEAN, ok : BOOLEAN]
      BY <2>3 DEF TypeOK, PutBack, To, Locations
    <3> QED
      BY <1>3, <2>3, <3>1, <3>2, <3>3 DEF TypeOK, PutBack, history
  <2>4. CASE PutCommandsBack
    <3>1. OldCommands \in {"here", "elsewhere", Missing} /\ previous' \in Files
      BY <2>4 DEF TypeOK, PutCommandsBack, OldCommands, Files
    <3> QED
      BY <1>3, <2>4, <3>1 DEF TypeOK, PutCommandsBack, To, Locations, history
  <2>5. CASE UndoFails
    BY <1>3, <2>5 DEF TypeOK, UndoFails, To, Locations, disk, history
  <2> QED
    BY <1>5, <2>1, <2>2, <2>3, <2>4, <2>5 DEF Undo
<1>6. CASE Answer
  <2>1. NoRestore \in [at : Locations, from : Files, was : Files, busy : BOOLEAN, ok : BOOLEAN]
    BY DEF NoRestore, NoFiles, Files, Locations
  <2> QED
    BY <1>6, <2>1 DEF TypeOK, Answer, disk, history
<1> QED
  BY <1>1, <1>2, <1>4, <1>5, <1>6

LEMMA TypeInitially == Init => TypeOK
<1> SUFFICES ASSUME Init PROVE TypeOK
  OBVIOUS
<1>1. NoFiles \in Files /\ NoRestore \in
        [at : Locations, from : Files, was : Files, busy : BOOLEAN, ok : BOOLEAN]
  BY DEF NoRestore, NoFiles, Files, Locations
<1>2. live \in Database \cup {Missing} /\ Empty \in Database
  BY DEF Init, Empty, Database, Schema
<1>3. <<>> \in Seq(Database)
  OBVIOUS
<1>4. upgraded \in [start : 0..MaxStarts, was : Database]
  BY <1>2, BoundsAssumption DEF Init
<1>5. previous \in Files /\ cmd \in {"here", "elsewhere", Missing}
  BY <1>1 DEF Init
<1>6. starts \in 0..MaxStarts /\ restores \in 0..MaxRestores
  BY BoundsAssumption DEF Init
<1> QED
  BY <1>1, <1>2, <1>3, <1>4, <1>5, <1>6 DEF Init, TypeOK

LEMMA TypeStep == TypeOK /\ [Next]_vars => TypeOK'
<1>1. ASSUME TypeOK, UNCHANGED vars PROVE TypeOK'
  BY <1>1 DEF vars, disk, history, TypeOK
<1> QED
  BY <1>1, ProcessTyped, RequestTyped, RestoreTyped DEF Next

\* Every reachable state is well typed; no restore or session outlives the
\* process that serves it.
THEOREM TypeCorrect == Spec => []TypeOK
  BY TypeInitially, TypeStep, PTL DEF Spec

-----------------------------------------------------------------------------
(* The data of acknowledged commits *)

\* While a restore runs, and when there is no database or an empty one, the
\* snapshots have everything that is promised.
Covered ==
  restore.at # "idle" \/ live = Missing \/ live.schema = "none"
    => acked \ late \subseteq SnapshotData

DataInv == TypeOK /\ Recoverable /\ Covered

LEMMA SnapshotsGrow ==
  ASSUME TypeOK, snaps' = snaps \cup {Current}
  PROVE  Read(log) \cup SnapshotData \subseteq SnapshotData'
<1>1. SnapshotData \subseteq SnapshotData'
  BY DEF SnapshotData
<1>2. Read(log) \subseteq SnapshotData'
  <2>1. CASE live = Missing
    BY <2>1 DEF Read
  <2>2. CASE live # Missing
    <3>1. Current \in snaps' /\ Current.db = Checkpointed /\ Current.db # Missing
      BY <2>2, CurrentTyped, MissingAssumption DEF Current
    <3>2. Checkpointed.data = live.data \cup log
      BY <2>2 DEF TypeOK, Checkpointed, Database
    <3> QED
      BY <2>2, <3>1, <3>2 DEF Read, SnapshotData
  <2> QED
    BY <2>1, <2>2
<1> QED
  BY <1>1, <1>2

LEMMA DataProcess ==
  ASSUME DataInv, Start \/ FailStart \/ Snapshot \/ Migrate \/ Serve \/ Crash
  PROVE  Recoverable' /\ Covered'
<1>1. UNCHANGED SnapshotData /\ UNCHANGED acked /\ UNCHANGED late
  BY DEF SnapshotData, Start, FailStart, Snapshot, Migrate, Serve, Crash, history
<1>2. CASE Start
  <2>1. CASE live = Missing
    BY <1>1, <1>2, <2>1 DEF DataInv, Recoverable, Covered, Start
  <2>2. CASE live # Missing
    <3>1. live' = live /\ (live = Empty => Empty.schema = "none")
      BY <1>2, <2>2 DEF Start, Connected, Empty
    <3> QED
      BY <1>1, <1>2, <2>2, <3>1 DEF DataInv, Recoverable, Covered, Start, Read
  <2> QED
    BY <2>1, <2>2
<1>3. CASE Migrate
  <2>1. live \in Database /\ live # Missing
    BY <1>3, MissingAssumption DEF DataInv, TypeOK, Migrate
  <2>2. live' # Missing /\ live'.data = live.data /\ live'.schema # "none" /\ live' \in Database
    BY <1>3, <2>1, MissingAssumption DEF Migrate, Database, Schema
  <2>3. restore.at = "idle" /\ restore' = restore /\ log' = log
    BY <1>3 DEF DataInv, TypeOK, Migrate, NoRestore
  <2> QED
    BY <1>1, <2>1, <2>2, <2>3 DEF DataInv, Recoverable, Covered, Read
<1>4. CASE Crash
  BY <1>1, <1>4 DEF DataInv, Recoverable, Covered, Crash, Read, disk, NoRestore
<1>5. CASE FailStart \/ Snapshot \/ Serve
  BY <1>1, <1>5 DEF DataInv, Recoverable, Covered, FailStart, Snapshot, Serve, Read, disk
<1> QED
  BY <1>2, <1>3, <1>4, <1>5

LEMMA DataRequest ==
  ASSUME DataInv, NEW w \in Writers, Open(w) \/ Commit(w) \/ Close(w)
  PROVE  Recoverable' /\ Covered'
<1>1. UNCHANGED SnapshotData /\ UNCHANGED restore
  BY DEF SnapshotData, Open, Commit, Close
<1>2. CASE Open(w)
  BY <1>1, <1>2 DEF DataInv, Recoverable, Covered, Open, Connected, Empty, Read, history
<1>3. CASE Commit(w)
  <2>1. PICK c : /\ acked' = acked \cup {c}
                 /\ log' = IF sess[w] = "open" THEN log \cup {c} ELSE log
                 /\ late' = IF sess[w] = "cut" \/ restore.at # "idle" THEN late \cup {c} ELSE late
    BY <1>3 DEF Commit
  <2>2. live' = live /\ (sess[w] = "open" => live # Missing /\ live.schema # "none")
    BY <1>3 DEF Commit
  <2>3. sess[w] \in {"open", "cut"}
    BY <1>3 DEF Commit, DataInv, TypeOK
  <2>4. CASE sess[w] = "cut" \/ restore.at # "idle"
    BY <1>1, <2>1, <2>2, <2>3, <2>4 DEF DataInv, Recoverable, Covered, Read
  <2>5. CASE sess[w] = "open" /\ restore.at = "idle"
    BY <1>1, <2>1, <2>2, <2>5 DEF DataInv, Recoverable, Covered, Read
  <2> QED
    BY <2>3, <2>4, <2>5
<1>4. CASE Close(w)
  <2>1. UNCHANGED acked /\ UNCHANGED late
    BY <1>4 DEF Close, history
  <2>2. CASE UNCHANGED <<live, log>>
    BY <1>1, <2>1, <2>2 DEF DataInv, Recoverable, Covered, Read
  <2>3. CASE live # Missing /\ live' = Checkpointed /\ log' = {}
    <3>1. live \in Database /\ live' # Missing
      BY <2>3, CurrentTyped, MissingAssumption DEF DataInv, TypeOK
    <3>2. live'.data = live.data \cup log /\ live'.schema = live.schema
      BY <2>3, <3>1 DEF Checkpointed, Database
    <3> QED
      BY <1>1, <2>1, <2>3, <3>1, <3>2 DEF DataInv, Recoverable, Covered, Read
  <2> QED
    BY <1>4, <2>2, <2>3 DEF Close
<1> QED
  BY <1>2, <1>3, <1>4

LEMMA DataRestore ==
  ASSUME DataInv, CreateBackup \/ BeginRestore \/ Swap \/ Undo \/ Answer
  PROVE  Recoverable' /\ Covered'
<1>1. UNCHANGED acked /\ UNCHANGED late
  BY DEF CreateBackup, BeginRestore, Swap, MoveAway, DropLog, Place, MoveCommands,
         PlaceCommands, CleanUp, Undo, OperationFails, RemovePlaced, PutBack,
         PutCommandsBack, UndoFails, Answer, history
<1>2. ASSUME acked \ late \subseteq SnapshotData' PROVE Recoverable' /\ Covered'
  BY <1>1, <1>2 DEF Recoverable, Covered
<1>3. CASE CreateBackup \/ BeginRestore
  <2>1. snaps' = snaps \cup {Current}
    BY <1>3 DEF CreateBackup, BeginRestore, SnapshotTaken
  <2> QED
    BY <1>2, <2>1, SnapshotsGrow DEF DataInv, Recoverable
<1>4. CASE Swap \/ Undo \/ Answer
  <2>1. restore.at # "idle"
    BY <1>4 DEF Swap, MoveAway, DropLog, Place, MoveCommands, PlaceCommands, CleanUp, Undo,
                OperationFails, RemovePlaced, PutBack, PutCommandsBack, UndoFails, Answer
  <2>2. UNCHANGED SnapshotData
    BY <1>4 DEF Swap, MoveAway, DropLog, Place, MoveCommands, PlaceCommands, CleanUp, Undo,
                OperationFails, RemovePlaced, PutBack, PutCommandsBack, UndoFails, Answer,
                SnapshotData
  <2> QED
    BY <1>2, <2>1, <2>2 DEF DataInv, Covered
<1> QED
  BY <1>3, <1>4

\* What was acknowledged outside of restores is never lost from both the
\* database and the snapshots, for any order of starts, requests, restores,
\* failures and crashes.
THEOREM StaysRecoverable == Spec => []Recoverable
<1>1. Init => DataInv
  <2> SUFFICES ASSUME Init PROVE DataInv
    OBVIOUS
  <2> QED
    BY TypeInitially DEF Init, DataInv, Recoverable, Covered
<1>2. DataInv /\ [Next]_vars => DataInv'
  <2>1. ASSUME DataInv, UNCHANGED vars PROVE DataInv'
    <3>1. TypeOK'
      BY <2>1, TypeStep DEF DataInv
    <3> QED
      BY <2>1, <3>1 DEF DataInv, Recoverable, Covered, SnapshotData, Read, vars, disk, history
  <2>2. ASSUME DataInv, Next PROVE DataInv'
    BY <2>2, TypeStep, DataProcess, DataRequest, DataRestore DEF DataInv, Next
  <2> QED
    BY <2>1, <2>2
<1>3. DataInv => Recoverable
  BY DEF DataInv
<1> QED
  BY <1>1, <1>2, <1>3, PTL DEF Spec

-----------------------------------------------------------------------------
(* Whole restores *)

Like(db, f) == db # Missing /\ db.origin = f.db.origin /\ db.schema = f.db.schema
Matches(f) == Like(live, f) /\ f.db.data \subseteq Read(log)

\* Nothing but an empty file was made where the database was.
Gap == live \in {Missing, Empty} /\ log = {}

\* What a roll-back puts back is what there was.
Saved ==
  /\ Like(previous.db, restore.was)
  /\ restore.was.db.data \subseteq previous.db.data
  /\ OldCommands = restore.was.cmd

Archive == IF restore.from.cmd = Missing
           THEN [restore.from EXCEPT !.cmd = restore.was.cmd] ELSE restore.from

\* The database is in its place, or will be put back there.
InPlace ==
  /\ restore.at = "idle" /\ proc = "serving" => live # Missing
  /\ restore.at \in {"staged", "placed", "aside", "swapped", "undone", "answered"}
       => live # Missing
  /\ restore.at \in {"unlogged", "vacant", "placed", "aside", "undo", "undoing"}
       => previous.db # Missing
  /\ restore.at # "idle" => restore.from.db # Missing
  /\ restore.at = "staged" => ~restore.busy

\* What holds at each point of a restore that no session overlapped.
Progress ==
  /\ restore.at = "staged" => Present(restore.was)
  /\ restore.at \in {"unlogged", "vacant"} => Gap /\ Saved /\ cmd = restore.was.cmd
  /\ restore.at = "placed" => Matches(restore.from) /\ Saved /\ cmd = restore.was.cmd
  /\ restore.at = "aside" => Matches(restore.from) /\ Saved
  /\ restore.at \in {"placed", "aside"} => restore.from.cmd # Missing
  /\ restore.at = "swapped" => Present(Archive)
  /\ restore.at = "undo" => Saved
  /\ restore.at = "undoing" => Gap /\ Saved
  /\ restore.at = "undone" => Matches(restore.was) /\ OldCommands = restore.was.cmd
  /\ restore.at = "answered" => Present(Archive) \/ (~restore.ok /\ Present(restore.was))
  /\ restore.at # "answered" => ~restore.ok

RestoreInv == ~fouled => InPlace /\ (~restore.busy => Progress)

LEMMA PresentMatches ==
  ASSUME NEW f PROVE Present(f) <=> Matches(f) /\ cmd = f.cmd
  BY DEF Present, Matches, Like

ArchiveFits ==
  /\ Matches(restore.from)
  /\ cmd = IF restore.from.cmd = Missing THEN restore.was.cmd ELSE restore.from.cmd

LEMMA ArchiveMatches == TypeOK => (Present(Archive) <=> ArchiveFits)
<1> SUFFICES ASSUME TypeOK PROVE Present(Archive) <=> ArchiveFits
  OBVIOUS
<1>1. restore.from \in Files
  BY DEF TypeOK
<1>2. /\ Archive.db = restore.from.db
      /\ Archive.cmd = IF restore.from.cmd = Missing THEN restore.was.cmd ELSE restore.from.cmd
  BY <1>1 DEF Archive, Files
<1> QED
  BY <1>2, PresentMatches DEF Matches, Like, ArchiveFits

\* Requests that come and go beside a restore disturb none of it.
LEMMA RequestsDisturbNothing ==
  ASSUME TypeOK, NEW w \in Writers, Open(w) \/ Commit(w) \/ Close(w), NEW f
  PROVE  /\ Matches(f) => Matches(f)'
         /\ Gap => Gap'
         /\ live # Missing => live' # Missing
         /\ UNCHANGED <<previous, cmd, restore, fouled, proc>>
<1>1. UNCHANGED <<previous, cmd, restore, fouled, proc>>
  BY DEF Open, Commit, Close
<1>2. CASE Open(w)
  BY <1>1, <1>2 DEF Open, Connected, Matches, Like, Gap, Read, Empty
<1>3. CASE Commit(w)
  BY <1>1, <1>3 DEF Commit, Matches, Like, Gap, Read, Empty, TypeOK
<1>4. CASE Close(w)
  <2>1. CASE UNCHANGED <<live, log>>
    BY <1>1, <2>1 DEF Matches, Like, Gap, Read
  <2>2. CASE live # Missing /\ live' = Checkpointed /\ log' = {}
    <3>1. live \in Database /\ live' # Missing
      BY <2>2, CurrentTyped, MissingAssumption DEF TypeOK
    <3>2. /\ live'.data = live.data \cup log /\ live'.schema = live.schema
          /\ live'.origin = live.origin
      BY <2>2, <3>1 DEF Checkpointed, Database
    <3>3. Matches(f) => Matches(f)'
      BY <2>2, <3>1, <3>2 DEF Matches, Like, Read
    <3>4. Gap => Gap'
      <4>1. SUFFICES ASSUME live = Empty, log = {} PROVE live' = Empty
        BY <2>2 DEF Gap
      <4> QED
        BY <2>2, <4>1 DEF Checkpointed, Empty
    <3> QED
      BY <1>1, <2>2, <3>1, <3>3, <3>4
  <2> QED
    BY <1>4, <2>1, <2>2 DEF Close
<1> QED
  BY <1>2, <1>3, <1>4

LEMMA RestoreRequest ==
  ASSUME TypeOK, RestoreInv, NEW w \in Writers, Open(w) \/ Commit(w) \/ Close(w)
  PROVE  RestoreInv'
<1>1. TypeOK'
  BY RequestTyped
<1>2. UNCHANGED <<previous, cmd, restore, fouled, proc>> /\ (live # Missing => live' # Missing)
      /\ (Gap => Gap')
  BY RequestsDisturbNothing
<1>3. ASSUME NEW f PROVE Matches(f) => Matches(f)'
  BY RequestsDisturbNothing
<1>4. PICK was, from : was = restore.was /\ from = restore.from
  OBVIOUS
<1>5. (Matches(was) => Matches(was)') /\ (Matches(from) => Matches(from)')
  BY <1>3
<1>6. /\ Matches(restore.was) => Matches(restore.was)'
      /\ Matches(restore.from) => Matches(restore.from)'
  BY <1>2, <1>4, <1>5 DEF Matches, Like, Read
<1>7. Saved => Saved'
  BY <1>2 DEF Saved, Like, OldCommands
<1>8. /\ Present(restore.was) => Present(restore.was)'
      /\ Present(Archive) => Present(Archive)'
  <2>1. Present(restore.was) <=> Matches(restore.was) /\ cmd = restore.was.cmd
    BY PresentMatches
  <2>2. Matches(restore.was)' /\ cmd' = restore'.was.cmd => Present(restore.was)'
    BY DEF Present, Matches, Like
  <2>3. Present(Archive)' <=> ArchiveFits'
    BY <1>1, ArchiveMatches, PTL
  <2> QED
    BY <1>2, <1>6, <2>1, <2>2, <2>3, ArchiveMatches DEF ArchiveFits
<1>9. OldCommands' = OldCommands
  BY <1>2 DEF OldCommands
<1>10. InPlace => InPlace'
  BY <1>2 DEF InPlace
<1>11. Progress => Progress'
  BY <1>2, <1>6, <1>7, <1>8, <1>9 DEF Progress
<1> QED
  BY <1>2, <1>10, <1>11 DEF RestoreInv

\* Between restores only the file itself matters.
LEMMA IdleProgress ==
  ASSUME restore' = NoRestore, proc' = "serving" => live' # Missing
  PROVE  RestoreInv'
  BY DEF RestoreInv, InPlace, Progress, NoRestore

LEMMA RestoreProcess ==
  ASSUME TypeOK, RestoreInv,
         Start \/ FailStart \/ Snapshot \/ Migrate \/ Serve \/ Crash \/ CreateBackup
  PROVE  RestoreInv'
<1>1. CASE Start \/ FailStart \/ Snapshot \/ Migrate
  <2>1. restore' = NoRestore /\ proc' # "serving"
    BY <1>1 DEF TypeOK, Start, FailStart, Snapshot, Migrate
  <2> QED
    BY <2>1, IdleProgress
<1>2. CASE Serve
  <2>1. restore' = NoRestore /\ live' # Missing
    BY <1>2 DEF TypeOK, Serve
  <2> QED
    BY <2>1, IdleProgress
<1>3. CASE Crash
  <2>1. restore' = NoRestore /\ proc' # "serving"
    BY <1>3 DEF Crash
  <2> QED
    BY <2>1, IdleProgress
<1>4. CASE CreateBackup
  BY <1>4 DEF CreateBackup, disk, RestoreInv, InPlace, Progress, Present, Matches, Like, Gap,
              Saved, OldCommands, Archive, Read
<1> QED
  BY <1>1, <1>2, <1>3, <1>4

LEMMA RestoreBegins ==
  ASSUME TypeOK, RestoreInv, BeginRestore
  PROVE  RestoreInv'
<1>1. PICK archive \in Archives :
        restore' = [at |-> "staged", from |-> archive, was |-> Current, busy |-> FALSE, ok |-> FALSE]
  BY DEF BeginRestore
<1>2. UNCHANGED <<live, log, cmd, previous, fouled, proc>> /\ restore.at = "idle" /\ proc = "serving"
  BY DEF BeginRestore, disk
<1>3. archive.db # Missing
  BY ArchivesTyped
<1>4. SUFFICES ASSUME ~fouled PROVE InPlace' /\ Progress'
  BY <1>2 DEF RestoreInv
<1>5. live # Missing /\ live \in Database
  BY <1>2, <1>4 DEF RestoreInv, InPlace, TypeOK
<1>6. /\ Current.db = Checkpointed /\ Current.cmd = cmd
      /\ Checkpointed.data = live.data \cup log /\ Checkpointed.origin = live.origin
      /\ Checkpointed.schema = live.schema
  BY <1>5 DEF Current, Checkpointed, Database
<1>7. Present(restore.was)'
  BY <1>1, <1>2, <1>5, <1>6 DEF Present, Read
<1> QED
  BY <1>1, <1>2, <1>3, <1>5, <1>7 DEF InPlace, Progress

LEMMA RestoreSwaps ==
  ASSUME TypeOK, RestoreInv, Swap
  PROVE  RestoreInv'
<1>1. SUFFICES ASSUME ~fouled PROVE InPlace' /\ (~restore'.busy => Progress')
  BY DEF RestoreInv, Swap, MoveAway, DropLog, Place, MoveCommands, PlaceCommands, CleanUp
<1>2. TypeOK' /\ InPlace /\ (~restore.busy => Progress)
  BY <1>1, RestoreTyped DEF RestoreInv
<1>3. Present(Archive)' <=> ArchiveFits'
  BY <1>2, ArchiveMatches, PTL
<1>4. restore \in [at : Locations, from : Files, was : Files, busy : BOOLEAN, ok : BOOLEAN]
  BY DEF TypeOK
<1>5. CASE MoveAway
  <2> DEFINE idle == \A w \in Writers : sess[w] # "open"
             now == IF idle /\ live # Missing THEN Checkpointed ELSE live
  <2>1. /\ previous' = [db |-> now, cmd |-> Missing] /\ log' = IF idle THEN {} ELSE log
        /\ restore' = [restore EXCEPT !.at = "unlogged", !.busy = ~idle]
        /\ live' = Missing /\ cmd' = cmd /\ restore.at = "staged"
    BY <1>5 DEF MoveAway
  <2>2. live # Missing /\ live \in Database /\ restore.from.db # Missing
    BY <1>2, <2>1 DEF InPlace, TypeOK
  <2>3. /\ Checkpointed \in Database /\ Checkpointed.data = live.data \cup log
        /\ Checkpointed.origin = live.origin /\ Checkpointed.schema = live.schema
    BY <2>2, CurrentTyped DEF Checkpointed, Database
  <2>4. idle \in BOOLEAN
    OBVIOUS
  <2> HIDE DEF idle
  <2>5. now # Missing /\ (idle => now = Checkpointed)
    BY <2>2, <2>3, MissingAssumption
  <2> HIDE DEF now
  <2>6. /\ restore'.at = "unlogged" /\ restore'.busy = ~idle /\ restore'.from = restore.from
        /\ restore'.was = restore.was /\ restore'.ok = restore.ok
    BY <1>4, <2>1
  <2>7. InPlace'
    BY <2>1, <2>2, <2>5, <2>6 DEF InPlace
  <2>8. ASSUME idle PROVE Progress'
    <3>1. Present(restore.was) /\ ~restore.ok
      BY <1>2, <2>1 DEF InPlace, Progress
    <3>2. /\ previous'.db = Checkpointed /\ previous'.cmd = Missing
          /\ Checkpointed # Missing /\ log' = {}
      BY <2>1, <2>3, <2>5, <2>8, MissingAssumption
    <3>3. OldCommands' = cmd
      BY <2>1, <3>2 DEF OldCommands
    <3>4. Saved' /\ Gap' /\ cmd' = restore'.was.cmd
      BY <2>1, <2>2, <2>3, <2>6, <3>1, <3>2, <3>3 DEF Saved, Gap, Like, Present, Read
    <3> QED
      BY <2>6, <3>1, <3>4 DEF Progress
  <2> QED
    BY <2>6, <2>7, <2>8, <2>4
<1>6. CASE DropLog
  <2>1. /\ restore'.at = "vacant" /\ restore'.busy = restore.busy /\ restore'.from = restore.from
        /\ restore'.was = restore.was /\ restore'.ok = restore.ok /\ restore.at = "unlogged"
        /\ log' = {} /\ UNCHANGED <<live, cmd, previous>>
    BY <1>4, <1>6 DEF DropLog, To
  <2> QED
    BY <1>2, <2>1 DEF InPlace, Progress, Gap, Saved, Like, OldCommands
<1>7. CASE Place
  <2>1. /\ restore'.at = IF restore.from.cmd = Missing THEN "swapped" ELSE "placed"
        /\ restore'.busy = restore.busy /\ restore'.from = restore.from
        /\ restore'.was = restore.was /\ restore'.ok = restore.ok /\ restore.at = "vacant"
        /\ live' = restore.from.db /\ UNCHANGED <<log, cmd, previous>>
    BY <1>4, <1>7 DEF Place, To
  <2>2. restore.from.db # Missing /\ previous.db # Missing
    BY <1>2, <2>1 DEF InPlace
  <2>3. InPlace'
    BY <2>1, <2>2 DEF InPlace
  <2>4. Matches(restore.from)'
    BY <2>1, <2>2 DEF Matches, Like, Read
  <2>5. ASSUME ~restore.busy PROVE Progress'
    <3>1. Saved /\ cmd = restore.was.cmd /\ ~restore.ok
      BY <1>2, <2>1, <2>5 DEF Progress
    <3>2. Saved' /\ cmd' = restore'.was.cmd
      BY <2>1, <3>1 DEF Saved, Like, OldCommands
    <3>3. CASE restore.from.cmd = Missing
      BY <1>3, <2>1, <2>4, <3>1, <3>2, <3>3 DEF Progress, ArchiveFits
    <3>4. CASE restore.from.cmd # Missing
      BY <2>1, <2>4, <3>1, <3>2, <3>4 DEF Progress
    <3> QED
      BY <3>3, <3>4
  <2> QED
    BY <2>1, <2>3, <2>5
<1>8. CASE MoveCommands
  <2>1. /\ restore'.at = "aside" /\ restore'.busy = restore.busy /\ restore'.from = restore.from
        /\ restore'.was = restore.was /\ restore'.ok = restore.ok /\ restore.at = "placed"
        /\ previous'.db = previous.db /\ previous'.cmd = cmd /\ cmd' = Missing
        /\ UNCHANGED <<live, log>>
    BY <1>4, <1>8 DEF MoveCommands, To, TypeOK, Files
  <2>2. OldCommands' = cmd
    BY <2>1 DEF OldCommands
  <2> QED
    BY <1>2, <2>1, <2>2 DEF InPlace, Progress, Saved, Like, Matches, Read
<1>9. CASE PlaceCommands
  <2>1. /\ restore'.at = "swapped" /\ restore'.busy = restore.busy /\ restore'.from = restore.from
        /\ restore'.was = restore.was /\ restore'.ok = restore.ok /\ restore.at = "aside"
        /\ cmd' = restore.from.cmd /\ UNCHANGED <<live, log, previous>>
    BY <1>4, <1>9 DEF PlaceCommands, To
  <2>2. InPlace'
    BY <1>2, <2>1 DEF InPlace
  <2>3. ASSUME ~restore.busy PROVE Progress'
    <3>1. Matches(restore.from) /\ restore.from.cmd # Missing /\ ~restore.ok
      BY <1>2, <2>1, <2>3 DEF Progress
    <3>2. ArchiveFits'
      BY <2>1, <3>1 DEF ArchiveFits, Matches, Like, Read
    <3> QED
      BY <1>3, <2>1, <3>1, <3>2 DEF Progress
  <2> QED
    BY <2>1, <2>2, <2>3
<1>10. CASE CleanUp
  <2>1. /\ restore'.at = "answered" /\ restore'.busy = restore.busy /\ restore'.from = restore.from
        /\ restore'.was = restore.was /\ restore.at = "swapped"
        /\ UNCHANGED <<live, log, cmd>>
    BY <1>4, <1>10 DEF CleanUp, To
  <2>2. InPlace'
    BY <1>2, <2>1 DEF InPlace
  <2>3. ASSUME ~restore.busy PROVE Progress'
    <3>1. Present(Archive)
      BY <1>2, <2>1, <2>3 DEF Progress
    <3>2. Present(Archive)'
      BY <2>1, <3>1 DEF Present, Archive, Read
    <3> QED
      BY <2>1, <3>2 DEF Progress
  <2> QED
    BY <2>1, <2>2, <2>3
<1> QED
  BY <1>5, <1>6, <1>7, <1>8, <1>9, <1>10 DEF Swap

LEMMA RestoreEnds ==
  ASSUME TypeOK, RestoreInv, Undo \/ Answer
  PROVE  RestoreInv'
<1>a. fouled => fouled'
  <2>1. ASSUME fouled, RemovePlaced PROVE fouled'
    BY <2>1 DEF RemovePlaced
  <2>2. ASSUME fouled, UndoFails PROVE fouled'
    BY <2>2 DEF UndoFails
  <2>3. ASSUME fouled, OperationFails \/ PutBack \/ PutCommandsBack \/ Answer PROVE fouled'
    BY <2>3 DEF OperationFails, PutBack, PutCommandsBack, Answer
  <2> QED
    BY <2>1, <2>2, <2>3 DEF Undo
<1>1. SUFFICES ASSUME ~fouled, ~fouled' PROVE InPlace' /\ (~restore'.busy => Progress')
  BY <1>a DEF RestoreInv
<1>2. TypeOK' /\ InPlace /\ (~restore.busy => Progress)
  BY <1>1, RestoreTyped DEF RestoreInv
<1>3. restore \in [at : Locations, from : Files, was : Files, busy : BOOLEAN, ok : BOOLEAN]
  BY DEF TypeOK
<1>4. ASSUME NEW at, restore' = [restore EXCEPT !.at = at]
      PROVE  /\ restore'.at = at /\ restore'.busy = restore.busy /\ restore'.from = restore.from
             /\ restore'.was = restore.was /\ restore'.ok = restore.ok
  BY <1>3, <1>4
<1>5. CASE OperationFails
  <2>1. UNCHANGED <<live, log, cmd, previous>>
    BY <1>5 DEF OperationFails, disk
  <2>2. CASE restore.at = "staged"
    <3>1. restore' = [restore EXCEPT !.at = "answered"]
      BY <1>5, <2>2 DEF OperationFails, To
    <3> QED
      BY <1>2, <1>4, <2>1, <2>2, <3>1 DEF InPlace, Progress, Present, Read
  <2>3. CASE restore.at \in {"unlogged", "vacant", "placed", "aside"}
    <3>1. restore' = [restore EXCEPT !.at = "undo"]
      BY <1>5, <2>3 DEF OperationFails, To
    <3> QED
      BY <1>2, <1>4, <2>1, <2>3, <3>1 DEF InPlace, Progress, Saved, Like, OldCommands
  <2> QED
    BY <1>5, <2>2, <2>3 DEF OperationFails
<1>6. CASE RemovePlaced
  <2>1. /\ restore' = [restore EXCEPT !.at = "undoing"] /\ restore.at = "undo" /\ log = {}
        /\ live' = IF previous.db = Missing THEN live ELSE Missing
        /\ UNCHANGED <<log, cmd, previous>>
    BY <1>1, <1>6 DEF RemovePlaced, To
  <2> QED
    BY <1>2, <1>4, <2>1 DEF InPlace, Progress, Saved, Gap, Like, OldCommands
<1>7. CASE PutBack
  <2>1. /\ restore' = [restore EXCEPT !.at = "undone"] /\ restore.at = "undoing"
        /\ live' = IF previous.db = Missing THEN live ELSE previous.db
        /\ previous'.cmd = previous.cmd /\ UNCHANGED <<log, cmd>>
    BY <1>7 DEF PutBack, To, TypeOK, Files
  <2>2. previous.db # Missing /\ live' = previous.db
    BY <1>2, <2>1 DEF InPlace
  <2> QED
    BY <1>2, <1>4, <2>1, <2>2 DEF InPlace, Progress, Saved, Matches, Like, Read, OldCommands
<1>8. CASE PutCommandsBack
  <2>1. /\ restore' = [restore EXCEPT !.at = "answered"] /\ restore.at = "undone"
        /\ cmd' = OldCommands /\ UNCHANGED <<live, log>>
    BY <1>8 DEF PutCommandsBack, To
  <2> QED
    BY <1>2, <1>4, <2>1 DEF InPlace, Progress, Matches, Like, Present, Read
<1>9. CASE UndoFails
  BY <1>1, <1>9 DEF UndoFails
<1>10. CASE Answer
  <2>1. restore' = NoRestore /\ live' = live /\ restore.at = "answered"
    BY <1>10 DEF Answer, disk
  <2> QED
    BY <1>1, <1>2, <2>1, IdleProgress DEF InPlace, RestoreInv
<1> QED
  BY <1>5, <1>6, <1>7, <1>8, <1>9, <1>10 DEF Undo

\* A restore that no session overlapped and whose roll-back did not fail ends
\* with both files of the archive, or with both of those there were.
THEOREM RestoresAreWhole == Spec => []RestoreIsWhole
<1>1. Init => TypeOK /\ RestoreInv
  <2> SUFFICES ASSUME Init PROVE TypeOK /\ RestoreInv
    OBVIOUS
  <2> QED
    BY TypeInitially DEF Init, RestoreInv, InPlace, Progress, NoRestore
<1>2. TypeOK /\ RestoreInv /\ [Next]_vars => TypeOK' /\ RestoreInv'
  <2>1. ASSUME TypeOK, RestoreInv, UNCHANGED vars PROVE RestoreInv'
    BY <2>1 DEF vars, disk, RestoreInv, InPlace, Progress, Present, Matches, Like, Gap,
                Saved, OldCommands, Archive, Read
  <2>2. ASSUME TypeOK, RestoreInv, Next PROVE RestoreInv'
    BY <2>2, RestoreProcess, RestoreRequest, RestoreBegins, RestoreSwaps, RestoreEnds DEF Next
  <2> QED
    BY <2>1, <2>2, TypeStep
<1>3. TypeOK /\ RestoreInv => RestoreIsWhole
  BY DEF RestoreInv, Progress, RestoreIsWhole, Archive
<1> QED
  BY <1>1, <1>2, <1>3, PTL DEF Spec

-----------------------------------------------------------------------------
(* The copy from before an upgrade *)

\* An element that is among the last Keep stays, as far from the end.
LEMMA NewestKeeps ==
  ASSUME NEW files \in Seq(Database), NEW i \in 1..Len(files), Len(files) - i < Keep
  PROVE  \E j \in 1..Len(Newest(files)) :
           /\ Newest(files)[j] = files[i]
           /\ Len(Newest(files)) - j = Len(files) - i
<1>1. Keep \in Nat \ {0} /\ Len(files) \in Nat
  BY BoundsAssumption
<1>2. \A n \in 1..Len(files) : files[n] \in Database
  BY ElementOfSeq
<1>3. CASE Len(files) > Keep
  <2> DEFINE m == Len(files) - Keep + 1
  <2>1. m \in 1 .. Len(files) + 1 /\ Newest(files) = SubSeq(files, m, Len(files)) /\ m <= i
    BY <1>1, <1>3 DEF Newest
  <2> HIDE DEF m
  <2>2. /\ Len(Newest(files)) = Len(files) - m + 1
        /\ \A n \in 1 .. Len(files) - m + 1 : Newest(files)[n] = files[m + n - 1]
    BY <1>1, <1>2, <2>1, SubSeqProperties
  <2>3. i - m + 1 \in 1 .. Len(files) - m + 1 /\ m + (i - m + 1) - 1 = i
    BY <1>1, <2>1
  <2>4. /\ Newest(files)[i - m + 1] = files[i] /\ i - m + 1 \in 1..Len(Newest(files))
        /\ Len(Newest(files)) - (i - m + 1) = Len(files) - i
    BY <1>1, <2>1, <2>2, <2>3
  <2> QED
    BY <2>4
<1>4. CASE ~(Len(files) > Keep)
  <2>1. Newest(files) = SubSeq(files, 1, Len(files))
    BY <1>1, <1>4 DEF Newest
  <2>2. /\ Len(Newest(files)) = Len(files)
        /\ \A n \in 1..Len(files) : Newest(files)[n] = files[n]
    BY <1>1, <1>2, <2>1, SubSeqProperties
  <2> QED
    BY <2>2
<1> QED
  BY <1>3, <1>4

\* The snapshot a start takes.
Copy == [live EXCEPT !.data = @ \cup log]

\* Each start after the upgrade began put at most one file behind its copy.
CopyNear ==
  upgraded.start > 0 /\ starts - upgraded.start < Keep =>
    \E i \in 1..Len(kept) :
      /\ kept[i] = upgraded.was
      /\ Len(kept) - i <= starts - upgraded.start
      /\ proc = "checked" => Len(kept) - i < starts - upgraded.start

\* The start whose snapshot is taken has it last until the upgrade begins.
CopyLast ==
  /\ upgraded.start <= starts
  /\ proc = "checked" => upgraded.start < starts
  /\ proc = "migrating" /\ live.schema \in {"none", "old"} =>
       Len(kept) > 0 /\ kept[Len(kept)] = Copy
  /\ proc = "migrating" => starts > 0

UpgradeInv == TypeOK /\ CopyNear /\ CopyLast

\* A file put at the end, with or without the others beyond Keep going.
LEMMA CopyMoves ==
  ASSUME TypeOK, CopyNear, proc = "checked", NEW file \in Database,
         kept' = Append(kept, file) \/ kept' = Newest(Append(kept, file)),
         UNCHANGED <<upgraded, starts>>, proc' # "checked"
  PROVE  CopyNear'
<1>1. SUFFICES ASSUME upgraded.start > 0, starts - upgraded.start < Keep
               PROVE  \E i \in 1..Len(kept') :
                        kept'[i] = upgraded.was /\ Len(kept') - i <= starts - upgraded.start
  BY DEF CopyNear
<1>2. PICK i \in 1..Len(kept) : kept[i] = upgraded.was /\ Len(kept) - i < starts - upgraded.start
  BY <1>1 DEF CopyNear
<1> DEFINE files == Append(kept, file)
<1>3. /\ kept \in Seq(Database) /\ files \in Seq(Database) /\ Len(files) = Len(kept) + 1
      /\ i \in 1..Len(files) /\ files[i] = upgraded.was
  BY <1>2 DEF TypeOK
<1>4. starts \in Nat /\ upgraded.start \in Nat /\ Len(kept) \in Nat /\ Keep \in Nat
  BY <1>3, BoundsAssumption DEF TypeOK
<1>5. Len(files) - i <= starts - upgraded.start
  BY <1>2, <1>3, <1>4
<1> HIDE DEF files
<1>6. CASE kept' = files
  BY <1>3, <1>5, <1>6
<1>7. CASE kept' = Newest(files)
  <2>1. Len(files) - i < Keep
    BY <1>1, <1>3, <1>4, <1>5
  <2> QED
    BY <1>3, <1>5, <1>7, <2>1, NewestKeeps
<1> QED
  BY <1>6, <1>7 DEF files

LEMMA UpgradeSteps ==
  ASSUME UpgradeInv, Start \/ FailStart \/ Snapshot \/ Migrate \/ Serve \/ Crash
  PROVE  CopyNear' /\ CopyLast'
<1>1. /\ TypeOK /\ CopyNear /\ CopyLast /\ kept \in Seq(Database) /\ Len(kept) \in Nat
      /\ starts \in Nat /\ upgraded.start \in Nat
  BY BoundsAssumption DEF UpgradeInv, TypeOK
<1>2. CASE Start
  <2>1. /\ starts' = starts + 1 /\ proc' = "checked" /\ proc = "down"
        /\ UNCHANGED <<kept, upgraded>>
    BY <1>2 DEF Start, history
  <2>2. CopyNear'
    <3>1. ASSUME upgraded.start > 0, starts + 1 - upgraded.start < Keep
          PROVE  \E i \in 1..Len(kept) :
                   /\ kept[i] = upgraded.was
                   /\ Len(kept) - i <= starts + 1 - upgraded.start
                   /\ Len(kept) - i < starts + 1 - upgraded.start
      <4>1. PICK i \in 1..Len(kept) :
              kept[i] = upgraded.was /\ Len(kept) - i <= starts - upgraded.start
        BY <1>1, <3>1, BoundsAssumption DEF CopyNear
      <4> QED
        BY <1>1, <4>1
    <3>2. starts' = starts + 1 /\ kept' = kept /\ upgraded' = upgraded
      BY <2>1
    <3>3. SUFFICES ASSUME upgraded'.start > 0, starts' - upgraded'.start < Keep
                   PROVE  \E i \in 1..Len(kept') :
                            /\ kept'[i] = upgraded'.was
                            /\ Len(kept') - i <= starts' - upgraded'.start
                            /\ proc' = "checked" => Len(kept') - i < starts' - upgraded'.start
      BY DEF CopyNear
    <3>4. PICK i \in 1..Len(kept) :
            /\ kept[i] = upgraded.was
            /\ Len(kept) - i <= starts + 1 - upgraded.start
            /\ Len(kept) - i < starts + 1 - upgraded.start
      BY <1>1, <3>1, <3>2, <3>3
    <3> QED
      BY <1>1, <3>2, <3>4
  <2> QED
    BY <1>1, <2>1, <2>2 DEF CopyLast
<1>3. CASE FailStart
  <2>1. proc \in {"checked", "migrating"} /\ proc' = "down" /\ UNCHANGED <<starts, upgraded>>
    BY <1>3 DEF FailStart, history
  <2>2. CASE UNCHANGED kept
    BY <1>1, <2>1, <2>2 DEF CopyNear, CopyLast
  <2>3. CASE proc = "checked" /\ kept' = Append(kept, Broken)
    <3>1. Broken \in Database
      BY DEF Broken, Database, Schema
    <3>2. UNCHANGED <<upgraded, starts>> /\ proc' # "checked" /\ proc = "checked"
      BY <2>1, <2>3
    <3>3. kept' = Append(kept, Broken) \/ kept' = Newest(Append(kept, Broken))
      BY <2>3
    <3>4. CopyNear'
      BY <1>1, <3>1, <3>2, <3>3, CopyMoves
    <3> QED
      BY <1>1, <2>1, <3>4 DEF CopyLast
  <2> QED
    BY <1>3, <2>2, <2>3 DEF FailStart
<1>4. CASE Snapshot
  <2>1. /\ proc = "checked" /\ proc' = "migrating" /\ UNCHANGED <<starts, upgraded, live, log>>
        /\ kept' = Newest(Append(kept, Copy))
    BY <1>4 DEF Snapshot, history, disk, Copy
  <2>2. Copy \in Database
    BY <1>1, <2>1 DEF TypeOK, Database, Copy
  <2>3. CopyNear'
    BY <1>1, <2>1, <2>2, CopyMoves
  <2> DEFINE files == Append(kept, Copy)
  <2>4. /\ files \in Seq(Database) /\ Len(files) = Len(kept) + 1
        /\ files[Len(files)] = Copy /\ Len(files) \in 1..Len(files)
    BY <1>1, <2>2
  <2>5. Keep > Len(files) - Len(files)
    BY <1>1, <2>4, BoundsAssumption
  <2>6. kept' = Newest(files)
    BY <2>1
  <2> HIDE DEF files
  <2>7. PICK j \in 1..Len(kept') :
          kept'[j] = files[Len(files)] /\ Len(kept') - j = Len(files) - Len(files)
    BY <2>4, <2>5, <2>6, NewestKeeps
  <2>8. kept' \in Seq(Database) /\ Len(kept') \in Nat
    BY <2>4, <2>6, NewestTyped
  <2>9. Len(kept') > 0 /\ kept'[Len(kept')] = Copy
    BY <1>1, <2>4, <2>7, <2>8
  <2>10. Copy' = Copy
    BY <2>1 DEF Copy
  <2> QED
    BY <1>1, <2>1, <2>3, <2>9, <2>10 DEF CopyLast
<1>5. CASE Migrate
  <2>1. /\ proc = "migrating" /\ proc' = proc /\ live.schema # "head"
        /\ UNCHANGED <<starts, kept, log>>
        /\ upgraded' = IF live.schema = "half" THEN upgraded ELSE [start |-> starts, was |-> Copy]
    BY <1>5 DEF Migrate, Copy
  <2>2. live \in Database /\ live.schema \in Schema
    BY <1>1, <2>1, <1>5 DEF TypeOK, Database
  <2>3. live'.schema \in {"half", "head"}
    BY <1>5, <2>2 DEF Migrate, Database
  <2>4. CASE live.schema = "half"
    BY <1>1, <2>1, <2>3, <2>4 DEF CopyNear, CopyLast
  <2>5. CASE live.schema # "half"
    <3>1. upgraded'.start = starts /\ upgraded'.was = Copy
      BY <2>1, <2>5
    <3>2. Len(kept) > 0 /\ kept[Len(kept)] = Copy
      BY <1>1, <2>1, <2>2, <2>5 DEF CopyLast, Schema
    <3>3. CopyNear'
      <4>1. Len(kept) \in 1..Len(kept) /\ Len(kept) - Len(kept) <= starts - starts
        BY <1>1, <3>2
      <4> QED
        BY <2>1, <3>1, <3>2, <4>1 DEF CopyNear
    <3> QED
      BY <1>1, <2>1, <2>3, <3>1, <3>3 DEF CopyLast
  <2> QED
    BY <2>4, <2>5
<1>6. CASE Serve \/ Crash
  <2>1. proc' \in {"serving", "down"} /\ UNCHANGED <<starts, kept, upgraded>>
    BY <1>6 DEF Serve, Crash, history
  <2> QED
    BY <1>1, <2>1 DEF CopyNear, CopyLast
<1> QED
  BY <1>2, <1>3, <1>4, <1>5, <1>6

LEMMA UpgradeStays ==
  ASSUME UpgradeInv,
         \/ \E w \in Writers : Open(w) \/ Commit(w) \/ Close(w)
         \/ CreateBackup \/ BeginRestore \/ Swap \/ Undo \/ Answer
  PROVE  CopyNear' /\ CopyLast'
<1>1. UNCHANGED <<proc, kept, upgraded, starts>>
  BY DEF Open, Commit, Close, CreateBackup, BeginRestore, Swap, MoveAway, DropLog, Place,
         MoveCommands, PlaceCommands, CleanUp, Undo, OperationFails, RemovePlaced, PutBack,
         PutCommandsBack, UndoFails, Answer, history
<1>2. proc = "serving"
  <2>1. ASSUME NEW w \in Writers, Open(w) \/ Commit(w) \/ Close(w) PROVE proc = "serving"
    BY <2>1 DEF Open, Commit, Close, UpgradeInv, TypeOK
  <2>2. CASE CreateBackup \/ BeginRestore
    BY <2>2 DEF CreateBackup, BeginRestore
  <2>3. CASE Swap \/ Undo \/ Answer
    <3>1. restore.at # "idle"
      BY <2>3 DEF Swap, MoveAway, DropLog, Place, MoveCommands, PlaceCommands, CleanUp, Undo,
                  OperationFails, RemovePlaced, PutBack, PutCommandsBack, UndoFails, Answer
    <3> QED
      BY <3>1 DEF UpgradeInv, TypeOK, NoRestore
  <2> QED
    BY <2>1, <2>2, <2>3
<1> QED
  BY <1>1, <1>2 DEF UpgradeInv, CopyNear, CopyLast

\* A start that keeps failing does not push the copy from before the upgrade
\* out, for any Keep and any number of starts below it.
THEOREM CopySurvives == Spec => []PreUpgradeCopyKept
<1>1. Init => UpgradeInv
  <2> SUFFICES ASSUME Init PROVE UpgradeInv
    OBVIOUS
  <2> QED
    BY TypeInitially DEF Init, UpgradeInv, CopyNear, CopyLast
<1>2. UpgradeInv /\ [Next]_vars => UpgradeInv'
  <2>1. ASSUME UpgradeInv, UNCHANGED vars PROVE CopyNear' /\ CopyLast'
    BY <2>1 DEF vars, disk, history, UpgradeInv, CopyNear, CopyLast, Copy
  <2>2. ASSUME UpgradeInv, Next PROVE CopyNear' /\ CopyLast'
    BY <2>2, UpgradeSteps, UpgradeStays DEF Next
  <2> QED
    BY <2>1, <2>2, TypeStep DEF UpgradeInv
<1>3. UpgradeInv => PreUpgradeCopyKept
  <2>1. TypeOK => DOMAIN kept = 1..Len(kept)
    BY DEF TypeOK
  <2> QED
    BY <2>1 DEF UpgradeInv, CopyNear, PreUpgradeCopyKept
<1> QED
  BY <1>1, <1>2, <1>3, PTL DEF Spec

=============================================================================
