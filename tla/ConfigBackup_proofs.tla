------------------------ MODULE ConfigBackup_proofs ------------------------
(***************************************************************************)
(* Proofs about ConfigBackup, for any devices, threads, policies, bounds.  *)
(***************************************************************************)
EXTENDS ConfigBackup, FiniteSetTheorems, FunctionTheorems, TLAPS

(***************************************************************************)
(* Type correctness                                                        *)
(***************************************************************************)
LEMMA IdleType == Idle \in WorkerState
<1>1. 0 \in 0 .. MaxCaptures
  BY BoundAssumption
<1>2. Idle \in WorkerRecord
  BY <1>1 DEF Idle, WorkerRecord
<1> QED
  BY <1>2 DEF Idle, WorkerState

LEMMA IdleOperatorType == IdleOperator \in OperatorState
  BY DEF IdleOperator, OperatorState

LEMMA InitTypeOK == Init => TypeOK
<1> SUFFICES ASSUME Init PROVE TypeOK
  OBVIOUS
<1>1. worker \in [Workers -> WorkerState] /\ operator \in [Operators -> OperatorState]
  BY IdleType, IdleOperatorType DEF Init
<1>2. 0 \in 0 .. MaxCaptures /\ 0 \in 0 .. MaxSecond
  BY BoundAssumption
<1> QED
  BY <1>1, <1>2 DEF Init, TypeOK

(* A busy thread's record, put back with some of its fields changed. *)
LEMMA ComparedType ==
  ASSUME NEW d \in Devices, NEW h \in Hashes, NEW first \in BOOLEAN, NEW changed \in BOOLEAN
  PROVE  [Idle EXCEPT !.pc = "compared", !.device = d, !.hash = h,
                      !.first = first, !.changed = changed] \in WorkerState
<1>1. Idle \in WorkerRecord
  BY IdleType DEF WorkerState
<1>2. [Idle EXCEPT !.pc = "compared", !.device = d, !.hash = h,
                   !.first = first, !.changed = changed] \in WorkerRecord
  BY <1>1 DEF WorkerRecord
<1> QED
  BY <1>2 DEF WorkerState, Idle

LEMMA WrittenType ==
  ASSUME NEW s \in WorkerState, s.pc \in {"compared", "written"},
         NEW path \in Paths, NEW id \in Ids
  PROVE  [s EXCEPT !.pc = "written", !.path = path, !.id = id] \in WorkerState
<1>1. s \in WorkerRecord /\ id \in 0 .. MaxCaptures
  BY DEF WorkerState, Ids
<1>2. [s EXCEPT !.pc = "written", !.path = path, !.id = id] \in WorkerRecord
  BY <1>1 DEF WorkerRecord
<1>3. s.device \in Devices /\ s.hash \in Hashes
  BY DEF WorkerState
<1> QED
  BY <1>1, <1>2, <1>3 DEF WorkerState, WorkerRecord

LEMMA NewRowType ==
  ASSUME NEW w \in Workers, worker[w] \in WorkerState, worker[w].pc = "written"
  PROVE  /\ NewRow(w) \in Backup
         /\ NewRow(w).id = worker[w].id
         /\ NewRow(w).device = worker[w].device
  BY DEF NewRow, Backup, WorkerState, WorkerRecord, Reviews

(* The rows a clean-up condemns are rows of the device. *)
LEMMA CondemnedAreRows ==
  ASSUME NEW d, NEW cutoff
  PROVE  Condemned(d, cutoff) \subseteq Rows(d)
  BY DEF Condemned, Excess, Expired, Beyond

SeenRecord == [newest : 0 .. MaxCaptures, hashes : SUBSET Hashes, changed : BOOLEAN,
               initials : 0 .. 2, settled : BOOLEAN]

LEMMA SettleType ==
  ASSUME TypeOK, NEW d \in Devices, NEW settled \in BOOLEAN, Settle(d, settled)
  PROVE  /\ seen' \in [Devices -> SeenRecord]
         /\ \A e \in Devices : seen'[e].newest = seen[e].newest
  BY DEF Settle, TypeOK, SeenRecord

LEMMA RememberType ==
  ASSUME TypeOK, NEW r \in Backup, Remember(r)
  PROVE  /\ seen' \in [Devices -> SeenRecord]
         /\ \A e \in Devices :
              seen'[e].newest = IF e = r.device /\ r.id > seen[e].newest
                                THEN r.id ELSE seen[e].newest
<1> DEFINE old == seen[r.device]
           new == Extended(old, r)
<1>1. old \in SeenRecord /\ r.device \in Devices /\ r.id \in 1 .. MaxCaptures
        /\ r.hash \in Hashes
  BY DEF TypeOK, Backup, Ids, SeenRecord
<1>2. (old.changed \/ r.changed) \in BOOLEAN
  OBVIOUS
<1>3. new \in SeenRecord
  <2>1. (IF r.id > old.newest THEN r.id ELSE old.newest) \in 0 .. MaxCaptures
    BY <1>1, BoundAssumption DEF SeenRecord
  <2>2. (IF r.baseline /\ old.initials < 2 THEN old.initials + 1 ELSE old.initials) \in 0 .. 2
    BY <1>1 DEF SeenRecord
  <2>3. old.hashes \cup {r.hash} \in SUBSET Hashes
    BY <1>1 DEF SeenRecord
  <2> DEFINE n == IF r.id > old.newest THEN r.id ELSE old.newest
             i == IF r.baseline /\ old.initials < 2 THEN old.initials + 1 ELSE old.initials
             hs == old.hashes \cup {r.hash}
             c == old.changed \/ r.changed
  <2>4. new = [old EXCEPT !.newest = n, !.hashes = hs, !.changed = c, !.initials = i]
    BY DEF Extended
  <2> HIDE DEF new, old, n, i, hs, c
  <2>5. n \in 0 .. MaxCaptures /\ i \in 0 .. 2 /\ hs \in SUBSET Hashes /\ c \in BOOLEAN
    BY <2>1, <2>2, <2>3, <1>2 DEF n, i, hs, c
  <2> QED
    BY <1>1, <2>4, <2>5 DEF SeenRecord
<1>4. new.newest = IF r.id > old.newest THEN r.id ELSE old.newest
  BY <1>1 DEF SeenRecord, Extended
<1>5. seen' = [seen EXCEPT ![r.device] = new]
  BY DEF Remember
<1>6. seen \in [Devices -> SeenRecord]
  BY DEF TypeOK, SeenRecord
<1>7. seen'[r.device].newest = IF r.id > old.newest THEN r.id ELSE old.newest
  BY <1>1, <1>4, <1>5, <1>6
<1> HIDE DEF new
<1>8. seen' \in [Devices -> SeenRecord]
  BY <1>1, <1>3, <1>5, <1>6
<1>9. \A e \in Devices \ {r.device} : seen'[e] = seen[e]
  BY <1>5, <1>6
<1> QED
  BY <1>7, <1>8, <1>9

LEMMA CaptureTypeOK ==
  ASSUME TypeOK, NEW w \in Workers, Capture(w)
  PROVE  TypeOK'
<1>0. worker[w] \in WorkerState
  BY DEF TypeOK
<1>1. ASSUME NEW d \in Devices, EmptyConfig(w, d) PROVE TypeOK'
  BY <1>1 DEF EmptyConfig, TypeOK, history
<1>2. ASSUME NEW d \in Devices, NEW h \in Hashes, Compare(w, d, h) PROVE TypeOK'
  <2>1. (Rows(d) = {}) \in BOOLEAN /\ Differs(d, h) \in BOOLEAN
    BY DEF Differs
  <2>2. worker' \in [Workers -> WorkerState]
    BY <1>2, <2>1, ComparedType DEF Compare, Goto, TypeOK
  <2> QED
    BY <1>2, <2>2 DEF Compare, TypeOK, history
<1>3. CASE WriteFile(w)
  <2> DEFINE path == <<NameOf[worker[w].device], second'>>
  <2>1. second' \in 0 .. MaxSecond /\ tick + 1 \in Ids /\ tick' \in 0 .. MaxCaptures
    BY <1>3, BoundAssumption DEF WriteFile, TypeOK, Ids
  <2>2. worker[w].device \in Devices /\ worker[w].hash \in Hashes
    BY <1>0, <1>3 DEF WriteFile, WorkerState
  <2>3. path \in Paths
    BY <2>1, <2>2, NameOfAssumption DEF Paths
  <2>4. worker' \in [Workers -> WorkerState]
    BY <1>0, <1>3, <2>1, <2>3, WrittenType DEF WriteFile, Goto, TypeOK
  <2>5. files' \in [Paths -> Hashes \cup {None}] /\ writes' \in [Paths -> 0 .. 2]
    BY <1>3, <2>2, <2>3 DEF WriteFile, TypeOK
  <2> QED
    BY <1>3, <2>1, <2>4, <2>5 DEF WriteFile, TypeOK
<1>4. CASE CommitBackup(w)
  <2> DEFINE d == worker[w].device
  <2>1. d \in Devices /\ NewRow(w) \in Backup
    BY <1>0, <1>4, NewRowType DEF CommitBackup, WorkerState
  <2>2. [Idle EXCEPT !.pc = "prune", !.device = d] \in WorkerState
    <3>1. Idle \in WorkerRecord
      BY IdleType DEF WorkerState
    <3> QED
      BY <2>1, <3>1 DEF WorkerState, WorkerRecord, Idle
  <2>3. worker' \in [Workers -> WorkerState]
    BY <1>4, <2>2 DEF CommitBackup, Goto, TypeOK
  <2>4. seen' \in [Devices -> SeenRecord]
    BY <1>4, <2>1, RememberType DEF CommitBackup
  <2>5. raced' \subseteq Paths
    BY <1>4, <2>1 DEF CommitBackup, TypeOK, Backup
  <2> QED
    BY <1>4, <2>1, <2>3, <2>4, <2>5 DEF CommitBackup, TypeOK, SeenRecord
<1>5. CASE CaptureFails(w)
  BY <1>5, IdleType DEF CaptureFails, Goto, TypeOK, history
<1> QED
  BY <1>1, <1>2, <1>3, <1>4, <1>5 DEF Capture

LEMMA PruneTypeOK ==
  ASSUME TypeOK, NEW w \in Workers, Prune(w)
  PROVE  TypeOK'
<1>0. worker[w] \in WorkerState /\ worker[w] \in WorkerRecord
  BY DEF TypeOK, WorkerState
<1>1. CASE SelectVictims(w)
  <2>1. PICK cutoff \in 0 .. tick :
          LET victims == Condemned(worker[w].device, cutoff)
          IN  Goto(w, IF victims = {} THEN Idle
                      ELSE [worker[w] EXCEPT !.pc = "delete",
                                             !.victims = {r.id : r \in victims},
                                             !.paths = {r.path : r \in victims}])
    BY <1>1 DEF SelectVictims
  <2> DEFINE victims == Condemned(worker[w].device, cutoff)
             ids == {r.id : r \in victims}
             paths == {r.path : r \in victims}
             next == [worker[w] EXCEPT !.pc = "delete", !.victims = ids, !.paths = paths]
  <2>2. victims \subseteq Backup
    BY CondemnedAreRows DEF Rows, TypeOK
  <2>3. ids \in SUBSET Ids /\ paths \in SUBSET Paths
    BY <2>2 DEF Backup
  <2>4. worker[w].pc # "idle" /\ worker[w].device \in Devices
    BY <1>0, <1>1 DEF WorkerState, SelectVictims
  <2>5. worker' = [worker EXCEPT ![w] = IF victims = {} THEN Idle ELSE next]
    BY <2>1 DEF Goto
  <2> HIDE DEF victims, ids, paths
  <2>6. next \in WorkerState
    BY <1>0, <2>3, <2>4 DEF WorkerState, WorkerRecord
  <2>7. worker' \in [Workers -> WorkerState]
    BY <2>5, <2>6, IdleType DEF TypeOK
  <2>8. seen' \in [Devices -> SeenRecord]
    BY <1>1, <2>4, SettleType DEF SelectVictims
  <2> QED
    BY <1>1, <2>7, <2>8 DEF SelectVictims, TypeOK, SeenRecord
<1>2. CASE DeleteVictims(w)
  <2> DEFINE next == [worker[w] EXCEPT !.pc = "unlink", !.victims = {}]
  <2>1. next \in WorkerState
    BY <1>0, <1>2 DEF DeleteVictims, WorkerState, WorkerRecord
  <2>2. worker' \in [Workers -> WorkerState]
    BY <1>2, <2>1 DEF DeleteVictims, Goto, TypeOK
  <2> QED
    BY <1>2, <2>2 DEF DeleteVictims, TypeOK, history
<1>3. ASSUME NEW path \in Paths, CheckPath(w, path) PROVE TypeOK'
  <2> DEFINE rest == worker[w].paths \ {path}
  <2>1. rest \in SUBSET Paths
    BY <1>0 DEF WorkerRecord
  <2>2. [worker[w] EXCEPT !.paths = rest] \in WorkerState
    BY <1>0, <1>3, <2>1 DEF WorkerState, WorkerRecord, CheckPath
  <2>3. [worker[w] EXCEPT !.paths = rest, !.doomed = path] \in WorkerState
    BY <1>0, <1>3, <2>1 DEF WorkerState, WorkerRecord, CheckPath
  <2>4. worker' \in [Workers -> WorkerState]
    BY <1>3, <2>2, <2>3, IdleType DEF CheckPath, Goto, TypeOK
  <2> QED
    BY <1>3, <2>4 DEF CheckPath, TypeOK, history
<1>4. CASE Unlink(w)
  <2>1. worker[w].doomed \in Paths
    BY <1>0, <1>4 DEF Unlink, WorkerRecord
  <2>2. [worker[w] EXCEPT !.doomed = None] \in WorkerState
    BY <1>0, <1>4 DEF Unlink, WorkerState, WorkerRecord
  <2>3. worker' \in [Workers -> WorkerState]
    BY <1>4, <2>2, IdleType DEF Unlink, Goto, TypeOK
  <2>4. files' \in [Paths -> Hashes \cup {None}] /\ raced' \subseteq Paths
    BY <1>4, <2>1 DEF Unlink, TypeOK
  <2> QED
    BY <1>4, <2>3, <2>4 DEF Unlink, TypeOK
<1>5. CASE PruneFails(w)
  <2>1. worker[w].device \in Devices
    BY <1>0, <1>5 DEF WorkerState, PruneFails
  <2>2. seen' \in [Devices -> SeenRecord]
    BY <1>5, <2>1, SettleType DEF PruneFails
  <2>3. worker' \in [Workers -> WorkerState]
    BY <1>5, IdleType DEF PruneFails, Goto, TypeOK
  <2> QED
    BY <1>5, <2>2, <2>3 DEF PruneFails, TypeOK, SeenRecord
<1> QED
  BY <1>1, <1>2, <1>3, <1>4, <1>5 DEF Prune

LEMMA RequestTypeOK ==
  ASSUME TypeOK, Request
  PROVE  TypeOK'
<1>1. ASSUME NEW o \in Operators, ReadBaseline(o) PROVE TypeOK'
  <2>1. PICK r \in backups :
          operator' = [operator EXCEPT ![o] = [pc |-> "read", id |-> r.id, device |-> r.device,
                                               baseline |-> r.baseline]]
    BY <1>1 DEF ReadBaseline
  <2>2. r.id \in Ids /\ r.device \in Devices /\ r.baseline \in BOOLEAN
    BY DEF TypeOK, Backup
  <2>3. [pc |-> "read", id |-> r.id, device |-> r.device, baseline |-> r.baseline]
          \in OperatorState
    BY <2>2 DEF OperatorState
  <2>4. operator' \in [Operators -> OperatorState]
    BY <2>1, <2>3 DEF TypeOK
  <2> QED
    BY <1>1, <2>4 DEF ReadBaseline, TypeOK, history
<1>2. ASSUME NEW o \in Operators, SetBaseline(o) PROVE TypeOK'
  <2>1. operator[o].device \in Devices
    BY <1>2 DEF SetBaseline, TypeOK, OperatorState
  <2>2. seen' \in [Devices -> SeenRecord]
    BY <1>2, <2>1, SettleType DEF SetBaseline
  <2>3. backups' \subseteq Backup
    <3> SUFFICES ASSUME NEW q \in backups' PROVE q \in Backup
      OBVIOUS
    <3>1. CASE q \in backups
      BY <3>1 DEF TypeOK
    <3>2. CASE q \notin backups
      <4> DEFINE flag(r) == ~operator[o].baseline /\ r.id = operator[o].id
      <4>1. PICK r \in backups : q = [r EXCEPT !.baseline = flag(r)]
        BY <1>2, <3>2 DEF SetBaseline
      <4>2. r \in Backup /\ flag(r) \in BOOLEAN
        BY DEF TypeOK
      <4> HIDE DEF flag
      <4> QED
        BY <4>1, <4>2 DEF Backup
    <3> QED
      BY <3>1, <3>2
  <2>4. operator' \in [Operators -> OperatorState]
    BY <1>2, IdleOperatorType DEF SetBaseline, TypeOK
  <2> QED
    BY <1>2, <2>2, <2>3, <2>4 DEF SetBaseline, TypeOK, SeenRecord
<1>3. ASSUME NEW id \in Ids, NEW verdict \in Verdicts, Review(id, verdict) PROVE TypeOK'
  <2>1. backups' \subseteq Backup
    BY <1>3, VerdictAssumption DEF Review, TypeOK, Backup, Reviews
  <2> QED
    BY <1>3, <2>1 DEF Review, TypeOK, history
<1>4. ASSUME NEW d \in Devices, NEW n \in Policies \cup {None}, SetRetention(d, n) PROVE TypeOK'
  <2>1. seen' \in [Devices -> SeenRecord]
    BY <1>4, SettleType DEF SetRetention
  <2> QED
    BY <1>4, <2>1 DEF SetRetention, TypeOK, SeenRecord
<1>5. ASSUME NEW d \in Devices, DeleteDevice(d) PROVE TypeOK'
  BY <1>5 DEF DeleteDevice, TypeOK, history
<1> QED
  BY <1>1, <1>2, <1>3, <1>4, <1>5 DEF Request

LEMMA CrashTypeOK ==
  ASSUME TypeOK, Crash
  PROVE  TypeOK'
<1>1. worker' \in [Workers -> WorkerState] /\ operator' \in [Operators -> OperatorState]
  BY IdleType, IdleOperatorType DEF Crash
<1>2. seen' \in [Devices -> SeenRecord]
  BY DEF Crash, TypeOK, SeenRecord
<1> QED
  BY <1>1, <1>2 DEF Crash, TypeOK, SeenRecord

LEMMA StepTypeOK == TypeOK /\ [Next]_vars => TypeOK'
<1>1. ASSUME TypeOK, UNCHANGED vars PROVE TypeOK'
  BY <1>1 DEF vars, history, TypeOK
<1> QED
  BY <1>1, CaptureTypeOK, PruneTypeOK, RequestTypeOK, CrashTypeOK DEF Next

(* Every variable keeps its type, in every behaviour.                      *)
THEOREM TypeCorrect == Spec => []TypeOK
  BY InitTypeOK, StepTypeOK, PTL DEF Spec

(***************************************************************************)
(* The newest capture is kept                                              *)
(*                                                                         *)
(* NewestCaptureKept is not inductive: a clean-up deletes by the ids it    *)
(* chose earlier.  It is preserved because those ids are older than the    *)
(* newest capture ever stored, because no stored row of another device     *)
(* has one of them, and because a capture that has yet to commit has an    *)
(* id of its own.                                                          *)
(***************************************************************************)
NoneNewerThanNewest == \A r \in backups : r.id <= seen[r.device].newest

VictimsAreOlder ==
  \A w \in Workers : \A v \in worker[w].victims :
    /\ v < seen[worker[w].device].newest
    /\ \A r \in backups : r.id = v => r.device = worker[w].device

IdsDistinct == \A q, r \in backups : q.id = r.id => q.device = r.device

IdsTaken ==
  /\ \A r \in backups : r.id <= tick
  /\ \A w \in Workers : \A v \in worker[w].victims : v <= tick

PendingIdsFresh ==
  \A w \in Workers : worker[w].pc = "written" =>
    /\ worker[w].id <= tick
    /\ \A r \in backups : r.id # worker[w].id
    /\ \A u \in Workers : worker[w].id \notin worker[u].victims
    /\ \A u \in Workers \ {w} : worker[u].pc = "written" => worker[u].id # worker[w].id

IInv ==
  /\ TypeOK
  /\ NewestCaptureKept
  /\ NoneNewerThanNewest
  /\ VictimsAreOlder
  /\ IdsDistinct
  /\ IdsTaken
  /\ PendingIdsFresh

LEMMA InitIInv == Init => IInv
<1> SUFFICES ASSUME Init PROVE IInv
  OBVIOUS
<1>1. TypeOK
  BY InitTypeOK
<1>2. \A w \in Workers : worker[w].pc = "idle" /\ worker[w].victims = {}
  BY DEF Init, Idle
<1>3. NewestCaptureKept
  BY DEF Init, NewestCaptureKept
<1> QED
  BY <1>1, <1>2, <1>3 DEF IInv, Init, IdsDistinct, NoneNewerThanNewest, VictimsAreOlder, IdsTaken, PendingIdsFresh

(* A step that stores no new row, chooses no new victim and names no new
   file keeps the invariant if it keeps the newest row of each device.     *)
LEMMA QuietStep ==
  ASSUME IInv, TypeOK', alive' \subseteq alive, tick' = tick,
         \A d \in Devices : seen'[d].newest = seen[d].newest,
         \A q \in backups' : \E r \in backups : r.id = q.id /\ r.device = q.device,
         \A r \in backups : r.device \in alive' /\ r.id = seen[r.device].newest =>
           \E q \in backups' : q.id = r.id /\ q.device = r.device,
         \A w \in Workers :
           /\ worker'[w].victims \subseteq worker[w].victims
           /\ worker'[w].victims # {} => worker'[w].device = worker[w].device
           /\ worker'[w].pc = "written" => worker[w].pc = "written" /\ worker'[w].id = worker[w].id
  PROVE  IInv'
<1>0. \A q \in backups' : q.device \in Devices
  BY DEF TypeOK, Backup
<1>1. NewestCaptureKept'
  <2> SUFFICES ASSUME NEW d \in alive', seen'[d].newest # 0
               PROVE  \E q \in backups' : q.device = d /\ q.id = seen'[d].newest
    BY DEF NewestCaptureKept, Rows
  <2>1. d \in alive /\ d \in Devices
    BY DEF IInv, TypeOK
  <2>2. PICK r \in backups : r.device = d /\ r.id = seen[d].newest
    BY <2>1 DEF IInv, NewestCaptureKept, Rows
  <2> QED
    BY <2>1, <2>2
<1>2. NoneNewerThanNewest'
  BY <1>0 DEF IInv, NoneNewerThanNewest
<1>3. VictimsAreOlder'
  <2> SUFFICES ASSUME NEW w \in Workers, NEW v \in worker'[w].victims
               PROVE  /\ v < seen'[worker'[w].device].newest
                      /\ \A q \in backups' : q.id = v => q.device = worker'[w].device
    BY DEF VictimsAreOlder
  <2>1. v \in worker[w].victims /\ worker'[w].device = worker[w].device
    OBVIOUS
  <2>2. v < seen[worker[w].device].newest
    BY <2>1 DEF IInv, VictimsAreOlder
  <2>3. worker'[w] \in WorkerRecord /\ worker'[w] \in WorkerState
    BY DEF TypeOK, WorkerState
  <2>4. CASE worker'[w].device \in Devices
    BY <2>1, <2>2, <2>4 DEF IInv, VictimsAreOlder
  <2>5. CASE worker'[w].device \notin Devices
    <3>1. worker'[w].victims = {}
      BY <2>3, <2>5 DEF WorkerState
    <3> QED
      BY <3>1
  <2> QED
    BY <2>4, <2>5
<1>4. IdsTaken'
  BY DEF IInv, IdsTaken
<1>5. PendingIdsFresh'
  BY DEF IInv, PendingIdsFresh
<1>6. IdsDistinct'
  BY DEF IInv, IdsDistinct
<1> QED
  BY <1>1, <1>2, <1>3, <1>4, <1>5, <1>6 DEF IInv

LEMMA WriteFileIInv ==
  ASSUME IInv, TypeOK', NEW w \in Workers, WriteFile(w)
  PROVE  IInv'
<1>0. worker \in [Workers -> WorkerState] /\ tick \in Nat /\ tick' = tick + 1
  BY BoundAssumption DEF IInv, TypeOK, WriteFile
<1>1. /\ worker'[w].pc = "written" /\ worker'[w].id = tick + 1
      /\ worker'[w].victims = worker[w].victims /\ worker'[w].device = worker[w].device
      /\ \A u \in Workers \ {w} : worker'[u] = worker[u]
  BY <1>0 DEF WriteFile, Goto, WorkerState, WorkerRecord
<1>2. \A r \in backups : r.id \in Nat /\ r.id <= tick
  BY DEF IInv, TypeOK, IdsTaken, Backup, Ids
<1>3. \A u \in Workers : \A v \in worker[u].victims : v \in Nat /\ v <= tick
  BY <1>0 DEF IInv, IdsTaken, WorkerState, WorkerRecord, Ids
<1>4. backups' = backups /\ alive' = alive /\ seen' = seen
  BY DEF WriteFile
<1>5. NewestCaptureKept' /\ NoneNewerThanNewest'
  BY <1>4 DEF IInv, NewestCaptureKept, NoneNewerThanNewest, Rows
<1>6. VictimsAreOlder'
  BY <1>1, <1>4 DEF IInv, VictimsAreOlder
<1>7. IdsTaken'
  BY <1>0, <1>1, <1>2, <1>3, <1>4 DEF IdsTaken
<1>8. PendingIdsFresh'
  <2>1. \A u \in Workers : worker'[u].victims = worker[u].victims
    BY <1>1
  <2>2. \A u \in Workers \ {w} : worker[u].pc = "written" =>
          worker[u].id \in Nat /\ worker[u].id <= tick
    BY <1>0 DEF IInv, PendingIdsFresh, WorkerState, Ids
  <2> QED
    BY <1>0, <1>1, <1>2, <1>3, <1>4, <2>1, <2>2 DEF IInv, PendingIdsFresh
<1> QED
  BY <1>4, <1>5, <1>6, <1>7, <1>8 DEF IInv, IdsDistinct

LEMMA CommitBackupIInv ==
  ASSUME IInv, TypeOK', NEW w \in Workers, CommitBackup(w)
  PROVE  IInv'
<1> DEFINE row == NewRow(w)
<1>0. worker \in [Workers -> WorkerState] /\ worker[w].pc = "written" /\ TypeOK
  BY DEF IInv, TypeOK, CommitBackup
<1>1. row \in Backup /\ row.id = worker[w].id /\ row.device = worker[w].device
  BY <1>0, NewRowType
<1>2. \A e \in Devices :
        seen'[e].newest = IF e = row.device /\ row.id > seen[e].newest
                          THEN row.id ELSE seen[e].newest
  BY <1>0, <1>1, RememberType DEF CommitBackup
<1>3. backups' = backups \cup {row} /\ alive' = alive /\ tick' = tick
  BY DEF CommitBackup
<1> HIDE DEF row
<1>4. /\ worker'[w].pc = "prune" /\ worker'[w].victims = {}
      /\ \A u \in Workers \ {w} : worker'[u] = worker[u]
  BY <1>0 DEF CommitBackup, Goto, Idle
<1>5. \A e \in Devices : seen[e].newest \in Nat
  BY <1>0 DEF TypeOK
<1>6. \A r \in backups : r.device \in Devices /\ r.id \in Nat
  BY <1>0 DEF TypeOK, Backup, Ids
<1>7. row.device \in Devices /\ row.id \in Nat
  BY <1>1 DEF Backup, Ids
<1>8. NewestCaptureKept'
  <2> SUFFICES ASSUME NEW d \in alive, seen'[d].newest # 0
               PROVE  \E q \in backups' : q.device = d /\ q.id = seen'[d].newest
    BY <1>3 DEF NewestCaptureKept, Rows
  <2>1. d \in Devices
    BY <1>0 DEF TypeOK
  <2>2. CASE d = row.device /\ row.id > seen[d].newest
    BY <1>2, <1>3, <2>1, <2>2
  <2>3. CASE ~(d = row.device /\ row.id > seen[d].newest)
    <3>1. seen'[d].newest = seen[d].newest
      BY <1>2, <2>1, <2>3
    <3> QED
      BY <1>3, <3>1 DEF IInv, NewestCaptureKept, Rows
  <2> QED
    BY <2>2, <2>3
<1>9. NoneNewerThanNewest'
  BY <1>2, <1>3, <1>5, <1>6, <1>7 DEF IInv, NoneNewerThanNewest
<1>10. VictimsAreOlder'
  <2> SUFFICES ASSUME NEW u \in Workers, NEW v \in worker'[u].victims
               PROVE  /\ v < seen'[worker'[u].device].newest
                      /\ \A q \in backups' : q.id = v => q.device = worker'[u].device
    BY DEF VictimsAreOlder
  <2>1. worker'[u] = worker[u]
    BY <1>4
  <2>2. worker[u].device \in Devices /\ v \in Nat
    BY <1>0, <2>1 DEF WorkerState, WorkerRecord, Ids
  <2>3. v < seen[worker[u].device].newest
    BY <2>1 DEF IInv, VictimsAreOlder
  <2>4. v # row.id
    BY <1>0, <1>1, <2>1 DEF IInv, PendingIdsFresh
  <2>5. v < seen'[worker[u].device].newest
    BY <1>2, <1>5, <1>7, <2>2, <2>3
  <2> QED
    BY <1>3, <2>1, <2>4, <2>5 DEF IInv, VictimsAreOlder
<1>11. IdsTaken'
  BY <1>0, <1>1, <1>3, <1>4 DEF IInv, IdsTaken, PendingIdsFresh
<1>12. PendingIdsFresh'
  BY <1>0, <1>1, <1>3, <1>4 DEF IInv, PendingIdsFresh
<1>13. IdsDistinct'
  BY <1>0, <1>1, <1>3 DEF IInv, IdsDistinct, PendingIdsFresh
<1> QED
  BY <1>8, <1>9, <1>10, <1>11, <1>12, <1>13 DEF IInv

(* What a policy condemns has a newer row, whatever the policy.            *)
LEMMA CondemnedHaveNewer ==
  ASSUME TypeOK, NEW d \in Devices, NEW cutoff, NEW r \in Condemned(d, cutoff)
  PROVE  r \in Rows(d) /\ \E s \in Rows(d) : s.id > r.id
<1>1. r \in Rows(d) /\ r.device = d
  BY CondemnedAreRows DEF Rows
<1>2. PICK n \in Nat \ {0} : Cardinality(Newer(r)) >= n
  <2>1. keep[d] # None => keep[d] \in Nat
    BY PolicyAssumption DEF TypeOK
  <2> QED
    BY <2>1 DEF Condemned, Excess, Expired, Beyond
<1>3. Newer(r) # {}
  BY <1>2, FS_EmptySet
<1> QED
  BY <1>1, <1>3 DEF Newer

LEMMA SelectVictimsIInv ==
  ASSUME IInv, TypeOK', NEW w \in Workers, SelectVictims(w)
  PROVE  IInv'
<1> DEFINE d == worker[w].device
<1>0. worker \in [Workers -> WorkerState] /\ TypeOK /\ worker[w].pc = "prune" /\ d \in Devices
  BY SMTT(30) DEF IInv, TypeOK, SelectVictims, WorkerState
<1>1. PICK cutoff \in 0 .. tick :
        worker' = [worker EXCEPT ![w] =
          IF Condemned(d, cutoff) = {} THEN Idle
          ELSE [worker[w] EXCEPT !.pc = "delete",
                                 !.victims = {r.id : r \in Condemned(d, cutoff)},
                                 !.paths = {r.path : r \in Condemned(d, cutoff)}]]
  BY DEF SelectVictims, Goto
<1>2. \A e \in Devices : seen'[e].newest = seen[e].newest
  BY <1>0, SettleType DEF SelectVictims
<1>3. backups' = backups /\ alive' = alive /\ tick' = tick
  BY DEF SelectVictims
<1>4. /\ worker'[w].pc # "written"
      /\ worker'[w].victims \subseteq {r.id : r \in Condemned(d, cutoff)}
      /\ worker'[w].victims # {} => worker'[w].device = d
      /\ \A u \in Workers \ {w} : worker'[u] = worker[u]
  BY <1>0, <1>1 DEF Idle, WorkerState, WorkerRecord
<1>5. \A r \in Condemned(d, cutoff) :
        r \in backups /\ r.device = d /\ \E s \in backups : s.device = d /\ s.id > r.id
  BY <1>0, CondemnedHaveNewer DEF Rows
<1>6. \A r \in backups : r.id \in Nat /\ r.id <= seen[r.device].newest /\ r.id <= tick
                         /\ seen[r.device].newest \in Nat
  BY <1>0 DEF IInv, NoneNewerThanNewest, IdsTaken, TypeOK, Backup, Ids
<1>7. NewestCaptureKept' /\ NoneNewerThanNewest'
  <2>1. \A e \in alive : e \in Devices
    BY <1>0 DEF TypeOK
  <2>2. \A r \in backups : r.device \in Devices
    BY <1>0 DEF TypeOK, Backup
  <2>3. NewestCaptureKept'
    BY <1>2, <1>3, <2>1 DEF IInv, NewestCaptureKept, Rows
  <2>4. NoneNewerThanNewest'
    BY <1>2, <1>3, <2>2 DEF IInv, NoneNewerThanNewest
  <2> QED
    BY <2>3, <2>4
<1>8. VictimsAreOlder'
  <2> SUFFICES ASSUME NEW u \in Workers, NEW v \in worker'[u].victims
               PROVE  /\ v < seen'[worker'[u].device].newest
                      /\ \A q \in backups : q.id = v => q.device = worker'[u].device
    BY <1>3 DEF VictimsAreOlder
  <2>1. CASE u = w
    <3>1. PICK r \in Condemned(d, cutoff) : r.id = v
      BY <1>4, <2>1
    <3>2. PICK s \in backups : s.device = d /\ s.id > v
      BY <1>5, <3>1
    <3>3. v < seen[d].newest
      BY <1>5, <1>6, <3>1, <3>2
    <3>4. \A q \in backups : q.id = v => q.device = d
      BY <1>5, <3>1 DEF IInv, IdsDistinct
    <3> QED
      BY <1>0, <1>2, <1>4, <2>1, <3>3, <3>4
  <2>2. CASE u # w
    <3>1. worker'[u] = worker[u] /\ worker[u].device \in Devices
      BY <1>0, <1>4, <2>2 DEF WorkerState
    <3> QED
      BY <1>2, <3>1 DEF IInv, VictimsAreOlder
  <2> QED
    BY <2>1, <2>2
<1>9. IdsTaken'
  BY <1>3, <1>4, <1>5, <1>6 DEF IInv, IdsTaken
<1>10. PendingIdsFresh'
  BY <1>3, <1>4, <1>5 DEF IInv, PendingIdsFresh
<1> QED
  BY <1>3, <1>7, <1>8, <1>9, <1>10 DEF IInv, IdsDistinct

LEMMA CaptureIInv ==
  ASSUME IInv, NEW w \in Workers, Capture(w)
  PROVE  IInv'
<1>0. TypeOK /\ TypeOK' /\ worker \in [Workers -> WorkerState]
  BY CaptureTypeOK DEF IInv, TypeOK
<1>1. ASSUME NEW d \in Devices, EmptyConfig(w, d) PROVE IInv'
  BY <1>0, <1>1, QuietStep DEF EmptyConfig, history
<1>2. ASSUME NEW d \in Devices, NEW h \in Hashes, Compare(w, d, h) PROVE IInv'
  <2>1. /\ worker'[w].pc = "compared" /\ worker'[w].victims = {}
        /\ \A u \in Workers \ {w} : worker'[u] = worker[u]
    BY <1>0, <1>2 DEF Compare, Goto, Idle
  <2> QED
    BY <1>0, <1>2, <2>1, QuietStep DEF Compare, history
<1>3. CASE WriteFile(w)
  BY <1>0, <1>3, WriteFileIInv
<1>4. CASE CommitBackup(w)
  BY <1>0, <1>4, CommitBackupIInv
<1>5. CASE CaptureFails(w)
  <2>1. /\ worker'[w].pc = "idle" /\ worker'[w].victims = {}
        /\ \A u \in Workers \ {w} : worker'[u] = worker[u]
    BY <1>0, <1>5 DEF CaptureFails, Goto, Idle
  <2> QED
    BY <1>0, <1>5, <2>1, QuietStep DEF CaptureFails, history
<1> QED
  BY <1>1, <1>2, <1>3, <1>4, <1>5 DEF Capture

LEMMA PruneIInv ==
  ASSUME IInv, NEW w \in Workers, Prune(w)
  PROVE  IInv'
<1>0. TypeOK /\ TypeOK' /\ worker \in [Workers -> WorkerState]
  BY PruneTypeOK DEF IInv, TypeOK
<1>1. CASE SelectVictims(w)
  BY <1>0, <1>1, SelectVictimsIInv
<1>2. CASE DeleteVictims(w)
  <2>1. /\ worker'[w].pc = "unlink" /\ worker'[w].victims = {}
        /\ \A u \in Workers \ {w} : worker'[u] = worker[u]
    BY <1>0, <1>2 DEF DeleteVictims, Goto, WorkerState, WorkerRecord
  <2>2. ASSUME NEW r \in backups, r.id = seen[r.device].newest
        PROVE  r.id \notin worker[w].victims
    <3> SUFFICES ASSUME r.id \in worker[w].victims PROVE FALSE
      OBVIOUS
    <3>1. r.id < seen[worker[w].device].newest /\ r.device = worker[w].device
      BY DEF IInv, VictimsAreOlder
    <3>2. r.id \in Nat
      BY <1>0 DEF TypeOK, Backup, Ids
    <3> QED
      BY <2>2, <3>1, <3>2
  <2> QED
    BY <1>0, <1>2, <2>1, <2>2, QuietStep DEF DeleteVictims, history
<1>3. ASSUME NEW path \in Paths, CheckPath(w, path) PROVE IInv'
  <2>1. /\ worker'[w].pc # "written" /\ worker'[w].victims \subseteq worker[w].victims
        /\ worker'[w].victims # {} => worker'[w].device = worker[w].device
        /\ \A u \in Workers \ {w} : worker'[u] = worker[u]
    BY <1>0, <1>3 DEF CheckPath, Goto, Idle, WorkerState, WorkerRecord
  <2> QED
    BY <1>0, <1>3, <2>1, QuietStep DEF CheckPath, history
<1>4. CASE Unlink(w)
  <2>1. /\ worker'[w].pc # "written" /\ worker'[w].victims \subseteq worker[w].victims
        /\ worker'[w].victims # {} => worker'[w].device = worker[w].device
        /\ \A u \in Workers \ {w} : worker'[u] = worker[u]
    BY <1>0, <1>4 DEF Unlink, Goto, Idle, WorkerState, WorkerRecord
  <2> QED
    BY <1>0, <1>4, <2>1, QuietStep DEF Unlink
<1>5. CASE PruneFails(w)
  <2>1. /\ worker'[w].pc = "idle" /\ worker'[w].victims = {}
        /\ \A u \in Workers \ {w} : worker'[u] = worker[u]
    BY <1>0, <1>5 DEF PruneFails, Goto, Idle
  <2>2. \A d \in Devices : seen'[d].newest = seen[d].newest
    BY <1>0, <1>5, SettleType DEF PruneFails, WorkerState
  <2> QED
    BY <1>0, <1>5, <2>1, <2>2, QuietStep DEF PruneFails
<1> QED
  BY <1>1, <1>2, <1>3, <1>4, <1>5 DEF Prune

LEMMA RequestIInv ==
  ASSUME IInv, Request
  PROVE  IInv'
<1>0. TypeOK /\ TypeOK'
  BY RequestTypeOK DEF IInv
<1>1. ASSUME NEW o \in Operators, ReadBaseline(o) PROVE IInv'
  BY <1>0, <1>1, QuietStep DEF ReadBaseline, history
<1>2. ASSUME NEW o \in Operators, SetBaseline(o) PROVE IInv'
  <2>1. operator[o].device \in Devices
    BY <1>0, <1>2 DEF SetBaseline, TypeOK, OperatorState
  <2>2. \A d \in Devices : seen'[d].newest = seen[d].newest
    BY <1>0, <1>2, <2>1, SettleType DEF SetBaseline
  <2> DEFINE flag(r) == ~operator[o].baseline /\ r.id = operator[o].id
             moved(r) == IF r.device = operator[o].device
                         THEN [r EXCEPT !.baseline = flag(r)] ELSE r
  <2>3. \A r \in backups : moved(r).id = r.id /\ moved(r).device = r.device
    BY <1>0 DEF TypeOK, Backup
  <2>4. backups' = backups \/ backups' = {moved(r) : r \in backups}
    BY <1>2 DEF SetBaseline
  <2> HIDE DEF moved
  <2>5. /\ \A q \in backups' : \E r \in backups : r.id = q.id /\ r.device = q.device
        /\ \A r \in backups : \E q \in backups' : q.id = r.id /\ q.device = r.device
    BY <2>3, <2>4
  <2> QED
    BY <1>0, <1>2, <2>2, <2>5, QuietStep DEF SetBaseline
<1>3. ASSUME NEW id \in Ids, NEW verdict \in Verdicts, Review(id, verdict) PROVE IInv'
  <2>1. PICK r \in backups : backups' = (backups \ {r}) \cup {[r EXCEPT !.review = verdict]}
    BY <1>3 DEF Review
  <2>2. [r EXCEPT !.review = verdict].id = r.id /\ [r EXCEPT !.review = verdict].device = r.device
    BY <1>0 DEF TypeOK, Backup
  <2>3. /\ \A q \in backups' : \E s \in backups : s.id = q.id /\ s.device = q.device
        /\ \A s \in backups : \E q \in backups' : q.id = s.id /\ q.device = s.device
    BY <2>1, <2>2
  <2> QED
    BY <1>0, <1>3, <2>3, QuietStep DEF Review, history
<1>4. ASSUME NEW d \in Devices, NEW n \in Policies \cup {None}, SetRetention(d, n) PROVE IInv'
  <2>1. \A e \in Devices : seen'[e].newest = seen[e].newest
    BY <1>0, <1>4, SettleType DEF SetRetention
  <2> QED
    BY <1>0, <1>4, <2>1, QuietStep DEF SetRetention
<1>5. ASSUME NEW d \in Devices, DeleteDevice(d) PROVE IInv'
  <2>1. \A r \in backups : r.device \in alive' => r \in backups'
    BY <1>5 DEF DeleteDevice, Rows
  <2> QED
    BY <1>0, <1>5, <2>1, QuietStep DEF DeleteDevice, history
<1> QED
  BY <1>1, <1>2, <1>3, <1>4, <1>5 DEF Request

LEMMA CrashIInv ==
  ASSUME IInv, Crash
  PROVE  IInv'
<1>1. TypeOK /\ TypeOK'
  BY CrashTypeOK DEF IInv
<1>2. \A d \in Devices : seen'[d].newest = seen[d].newest
  BY <1>1 DEF Crash, TypeOK
<1>3. \A w \in Workers : worker'[w].pc = "idle" /\ worker'[w].victims = {}
  BY DEF Crash, Idle
<1> QED
  BY <1>1, <1>2, <1>3, QuietStep DEF Crash

LEMMA StepIInv == IInv /\ [Next]_vars => IInv'
<1>1. ASSUME IInv, UNCHANGED vars PROVE IInv'
  <2>1. TypeOK'
    BY <1>1, StepTypeOK DEF IInv
  <2> QED
    BY <1>1, <2>1, QuietStep DEF vars, history
<1> QED
  BY <1>1, CaptureIInv, PruneIInv, RequestIInv, CrashIInv DEF Next

(* Whatever captures, clean-ups, policies, failures and crashes interleave,
   the newest capture ever stored of an existing device is still stored.   *)
THEOREM NewestKept == Spec => []NewestCaptureKept
<1>1. IInv => NewestCaptureKept
  BY DEF IInv
<1> QED
  BY <1>1, InitIInv, StepIInv, PTL DEF Spec

(***************************************************************************)
(* Rows and threads                                                        *)
(***************************************************************************)
Alone(w) == \A u \in Workers \ {w} : worker'[u] = worker[u]

\* Capturing or clean-up ends.
Ends(w) == worker'[w] = Idle /\ Alone(w)

LEMMA ThreadGoes ==
  ASSUME TypeOK, NEW w \in Workers, NEW s, Goto(w, s)
  PROVE  worker'[w] = s /\ Alone(w)
BY DEF TypeOK, Goto, Alone

LEMMA CompareThread ==
  ASSUME TypeOK, NEW w \in Workers, NEW d, NEW h, Compare(w, d, h)
  PROVE  /\ worker'[w].pc = "compared" /\ worker'[w].device = d /\ worker'[w].hash = h
         /\ worker'[w].first = (Rows(d) = {}) /\ worker'[w].changed = Differs(d, h)
         /\ worker'[w].doomed = None /\ worker'[w].victims = {} /\ Alone(w)
<1> DEFINE first == (Rows(d) = {})
           changed == Differs(d, h)
           new == [Idle EXCEPT !.pc = "compared", !.device = d, !.hash = h,
                               !.first = first, !.changed = changed]
<1>1. Goto(w, new)
  BY DEF Compare
<1> HIDE DEF first, changed
<1>2. /\ new.pc = "compared" /\ new.device = d /\ new.hash = h
      /\ new.first = first /\ new.changed = changed /\ new.doomed = None /\ new.victims = {}
  BY DEF Idle
<1> HIDE DEF new
<1> QED
  BY <1>1, <1>2, ThreadGoes DEF first, changed

LEMMA WriteThread ==
  ASSUME TypeOK, NEW w \in Workers, WriteFile(w)
  PROVE  /\ worker'[w].pc = "written" /\ worker'[w].path = <<NameOf[worker[w].device], second'>>
         /\ worker'[w].device = worker[w].device /\ worker'[w].hash = worker[w].hash
         /\ worker'[w].first = worker[w].first /\ worker'[w].changed = worker[w].changed
         /\ worker'[w].doomed = worker[w].doomed /\ Alone(w)
<1> DEFINE path == <<NameOf[worker[w].device], second'>>
           id == tick + 1
           new == [worker[w] EXCEPT !.pc = "written", !.path = path, !.id = id]
<1>1. Goto(w, new)
  BY DEF WriteFile
<1> HIDE DEF path, id
<1>2. worker[w] \in WorkerRecord
  BY DEF TypeOK, WorkerState
<1>3. /\ new.pc = "written" /\ new.path = path
      /\ new.device = worker[w].device /\ new.hash = worker[w].hash
      /\ new.first = worker[w].first /\ new.changed = worker[w].changed
      /\ new.doomed = worker[w].doomed
  BY <1>2 DEF WorkerRecord
<1> HIDE DEF new
<1> QED
  BY <1>1, <1>3, ThreadGoes DEF path

LEMMA CommitThread ==
  ASSUME TypeOK, NEW w \in Workers, CommitBackup(w)
  PROVE  worker'[w].pc = "prune" /\ worker'[w].device = worker[w].device
         /\ worker'[w].doomed = None /\ Alone(w)
<1> DEFINE d == worker[w].device
           new == [Idle EXCEPT !.pc = "prune", !.device = d]
<1>1. Goto(w, new)
  BY DEF CommitBackup
<1> HIDE DEF d
<1>2. new.pc = "prune" /\ new.device = d /\ new.doomed = None
  BY DEF Idle
<1> HIDE DEF new
<1> QED
  BY <1>1, <1>2, ThreadGoes DEF d

LEMMA SelectThread ==
  ASSUME TypeOK, NEW w \in Workers, SelectVictims(w)
  PROVE  \E cutoff \in 0 .. tick :
           /\ \/ Condemned(worker[w].device, cutoff) = {} /\ worker'[w] = Idle
              \/ /\ worker'[w].pc = "delete" /\ worker'[w].device = worker[w].device
                 /\ worker'[w].victims = {r.id : r \in Condemned(worker[w].device, cutoff)}
                 /\ worker'[w].doomed = worker[w].doomed
           /\ Alone(w)
<1>1. PICK cutoff \in 0 .. tick :
        LET victims == Condemned(worker[w].device, cutoff)
        IN  Goto(w, IF victims = {} THEN Idle
                    ELSE [worker[w] EXCEPT !.pc = "delete",
                                           !.victims = {r.id : r \in victims},
                                           !.paths = {r.path : r \in victims}])
  BY DEF SelectVictims
<1> DEFINE victims == Condemned(worker[w].device, cutoff)
           ids == {r.id : r \in victims}
           paths == {r.path : r \in victims}
           new == [worker[w] EXCEPT !.pc = "delete", !.victims = ids, !.paths = paths]
<1>2. Goto(w, IF victims = {} THEN Idle ELSE new)
  BY <1>1
<1>3. ids = {r.id : r \in Condemned(worker[w].device, cutoff)}
  OBVIOUS
<1> HIDE DEF ids, paths
<1>4. worker[w] \in WorkerRecord
  BY DEF TypeOK, WorkerState
<1>5. /\ new.pc = "delete" /\ new.device = worker[w].device /\ new.victims = ids
      /\ new.doomed = worker[w].doomed
  BY <1>4 DEF WorkerRecord
<1> HIDE DEF new
<1>6. worker'[w] = (IF victims = {} THEN Idle ELSE new) /\ Alone(w)
  BY <1>2, ThreadGoes
<1> QED
  BY <1>3, <1>5, <1>6

LEMMA DeleteThread ==
  ASSUME TypeOK, NEW w \in Workers, DeleteVictims(w)
  PROVE  /\ worker'[w].pc = "unlink" /\ worker'[w].device = worker[w].device
         /\ worker'[w].doomed = worker[w].doomed /\ Alone(w)
<1> DEFINE new == [worker[w] EXCEPT !.pc = "unlink", !.victims = {}]
<1>1. Goto(w, new)
  BY DEF DeleteVictims
<1>2. worker[w] \in WorkerRecord
  BY DEF TypeOK, WorkerState
<1>3. new.pc = "unlink" /\ new.device = worker[w].device /\ new.doomed = worker[w].doomed
  BY <1>2 DEF WorkerRecord
<1> HIDE DEF new
<1> QED
  BY <1>1, <1>3, ThreadGoes

LEMMA CheckThread ==
  ASSUME TypeOK, NEW w \in Workers, NEW path, CheckPath(w, path)
  PROVE  /\ worker[w].pc = "unlink" /\ worker[w].doomed = None /\ Alone(w)
         /\ \/ worker'[w] = Idle
            \/ /\ worker'[w].pc = "unlink" /\ worker'[w].device = worker[w].device
               /\ worker'[w].doomed # None => worker'[w].doomed = path /\ ~Referenced(path)
<1> DEFINE rest == worker[w].paths \ {path}
           less == [worker[w] EXCEPT !.paths = rest]
           doomed == [worker[w] EXCEPT !.paths = rest, !.doomed = path]
<1>1. worker[w] \in WorkerRecord /\ worker[w].pc = "unlink" /\ worker[w].doomed = None
  BY DEF TypeOK, WorkerState, CheckPath
<1>2. Goto(w, IF Referenced(path) THEN IF rest = {} THEN Idle ELSE less ELSE doomed)
  BY DEF CheckPath
<1> HIDE DEF rest
<1>3. /\ less.pc = "unlink" /\ less.device = worker[w].device /\ less.doomed = None
      /\ doomed.pc = "unlink" /\ doomed.device = worker[w].device /\ doomed.doomed = path
  BY <1>1 DEF WorkerRecord
<1> HIDE DEF less, doomed
<1>4. /\ worker'[w] = (IF Referenced(path) THEN IF rest = {} THEN Idle ELSE less ELSE doomed)
      /\ Alone(w)
  BY <1>2, ThreadGoes
<1> QED
  BY <1>1, <1>3, <1>4

LEMMA UnlinkThread ==
  ASSUME TypeOK, NEW w \in Workers, Unlink(w)
  PROVE  /\ worker[w].pc = "unlink" /\ worker[w].doomed \in Paths /\ Alone(w)
         /\ \/ worker'[w] = Idle
            \/ worker'[w].pc = "unlink" /\ worker'[w].device = worker[w].device /\ worker'[w].doomed = None
<1> DEFINE new == [worker[w] EXCEPT !.doomed = None]
<1>1. worker[w] \in WorkerRecord /\ worker[w].pc = "unlink" /\ worker[w].doomed # None
  BY DEF TypeOK, WorkerState, Unlink
<1>2. Goto(w, IF worker[w].paths = {} THEN Idle ELSE new)
  BY DEF Unlink
<1>3. new.pc = "unlink" /\ new.device = worker[w].device /\ new.doomed = None
  BY <1>1 DEF WorkerRecord
<1> HIDE DEF new
<1>4. worker'[w] = (IF worker[w].paths = {} THEN Idle ELSE new) /\ Alone(w)
  BY <1>2, ThreadGoes
<1> QED
  BY <1>1, <1>3, <1>4 DEF WorkerRecord

LEMMA FailThread ==
  ASSUME TypeOK, NEW w \in Workers, CaptureFails(w) \/ PruneFails(w)
  PROVE  Ends(w)
BY ThreadGoes DEF CaptureFails, PruneFails, Ends

LEMMA ThreadRecord ==
  ASSUME TypeOK, NEW w \in Workers
  PROVE  worker[w] \in WorkerRecord /\ worker[w] \in WorkerState
BY DEF TypeOK, WorkerState

\* What a mark of a baseline or a review leaves of a row.
Like(q, r) == q.id = r.id /\ q.device = r.device /\ q.hash = r.hash /\ q.path = r.path

LEMMA MarkedRows ==
  ASSUME TypeOK, NEW o \in Operators, SetBaseline(o)
  PROVE  \/ backups' = backups
         \/ /\ \A q \in backups' : \E r \in backups :
                 /\ Like(q, r)
                 /\ q = IF r.device = operator[o].device
                        THEN [r EXCEPT !.baseline = ~operator[o].baseline /\ r.id = operator[o].id]
                        ELSE r
            /\ \A q \in backups' : q.device = operator[o].device /\ q.baseline => q.id = operator[o].id
            /\ \A r \in backups : r.device # operator[o].device => r \in backups'
<1> DEFINE flag(r) == ~operator[o].baseline /\ r.id = operator[o].id
           moved(r) == IF r.device = operator[o].device THEN [r EXCEPT !.baseline = flag(r)] ELSE r
<1>1. backups' = backups \/ backups' = {moved(r) : r \in backups}
  BY DEF SetBaseline
<1>2. \A r \in backups : r \in Backup
  BY DEF TypeOK
<1>3. ASSUME NEW r \in backups
      PROVE  Like(moved(r), r) /\ (moved(r).device = operator[o].device /\ moved(r).baseline => flag(r))
  BY <1>2 DEF Like, Backup
<1>4. \A r \in backups : r.device # operator[o].device => moved(r) = r
  OBVIOUS
<1>5. CASE backups' = {moved(r) : r \in backups}
  <2>1. \A q \in backups' : \E r \in backups : q = moved(r)
    BY <1>5
  <2>2. \A r \in backups : flag(r) => r.id = operator[o].id
    OBVIOUS
  <2> HIDE DEF flag, moved
  <2>3. \A q \in backups' : \E r \in backups : Like(q, r) /\ q = moved(r)
    BY <1>3, <2>1
  <2>4. \A q \in backups' : q.device = operator[o].device /\ q.baseline => q.id = operator[o].id
    BY <1>3, <2>1, <2>2 DEF Like
  <2>5. \A r \in backups : r.device # operator[o].device => r \in backups'
    BY <1>4, <1>5
  <2> USE DEF flag, moved
  <2> QED
    BY <2>3, <2>4, <2>5
<1> QED
  BY <1>1, <1>5

LEMMA ReviewedRows ==
  ASSUME TypeOK, NEW id, NEW verdict, Review(id, verdict)
  PROVE  \E r \in backups, q \in backups' :
           /\ q = [r EXCEPT !.review = verdict] /\ Like(q, r) /\ q.baseline = r.baseline
           /\ backups' = (backups \ {r}) \cup {q}
<1>1. PICK r \in backups : backups' = (backups \ {r}) \cup {[r EXCEPT !.review = verdict]}
  BY DEF Review
<1>2. r \in Backup
  BY DEF TypeOK
<1>3. Like([r EXCEPT !.review = verdict], r) /\ [r EXCEPT !.review = verdict].baseline = r.baseline
  BY <1>2 DEF Like, Backup
<1> QED
  BY <1>1, <1>3

(***************************************************************************)
(* A row is identified by its id: the threads draw theirs from one clock   *)
(* and each stores it once.                                                *)
(***************************************************************************)
RowsUnique == \A q, r \in backups : q.id = r.id => q = r

LEMMA UniqueSubset == ASSUME RowsUnique, backups' \subseteq backups PROVE RowsUnique'
BY DEF RowsUnique

LEMMA UniqueRequest == ASSUME IInv, RowsUnique, Request PROVE RowsUnique'
<1>0. TypeOK
  BY DEF IInv
<1>1. ASSUME NEW o \in Operators, ReadBaseline(o) \/ SetBaseline(o) PROVE RowsUnique'
  <2>1. CASE backups' = backups
    BY <2>1, UniqueSubset
  <2>2. CASE SetBaseline(o) /\ backups' # backups
    <3> DEFINE moved(r) == IF r.device = operator[o].device
                           THEN [r EXCEPT !.baseline = ~operator[o].baseline /\ r.id = operator[o].id]
                           ELSE r
    <3>1. \A q \in backups' : \E r \in backups : q.id = r.id /\ q = moved(r)
      BY <1>0, <2>2, MarkedRows DEF Like
    <3> HIDE DEF moved
    <3> QED
      BY <3>1 DEF RowsUnique
  <2> QED
    BY <1>1, <2>1, <2>2 DEF ReadBaseline
<1>2. ASSUME NEW id \in Ids, NEW verdict \in Verdicts, Review(id, verdict) PROVE RowsUnique'
  <2>1. PICK r \in backups, q \in backups' : Like(q, r) /\ backups' = (backups \ {r}) \cup {q}
    BY <1>0, <1>2, ReviewedRows
  <2> QED
    BY <2>1 DEF RowsUnique, Like
<1>3. ASSUME NEW d \in Devices, NEW n \in Policies \cup {None}, SetRetention(d, n) PROVE RowsUnique'
  BY <1>3, UniqueSubset DEF SetRetention
<1>4. ASSUME NEW d \in Devices, DeleteDevice(d) PROVE RowsUnique'
  BY <1>4, UniqueSubset DEF DeleteDevice
<1> QED
  BY <1>1, <1>2, <1>3, <1>4 DEF Request

LEMMA UniqueStep == IInv /\ RowsUnique /\ [Next]_vars => RowsUnique'
<1> SUFFICES ASSUME IInv, RowsUnique, [Next]_vars PROVE RowsUnique'
  OBVIOUS
<1>1. ASSUME NEW w \in Workers, Capture(w) PROVE RowsUnique'
  <2>1. CASE CommitBackup(w)
    <3>1. worker[w].pc = "written" /\ NewRow(w).id = worker[w].id /\ backups' = backups \cup {NewRow(w)}
      BY <2>1 DEF CommitBackup, NewRow
    <3>2. \A r \in backups : r.id # NewRow(w).id
      BY <3>1 DEF IInv, PendingIdsFresh
    <3> QED
      BY <3>1, <3>2 DEF RowsUnique
  <2>2. CASE ~CommitBackup(w)
    BY ZenonT(40), <1>1, <2>2, UniqueSubset DEF Capture, EmptyConfig, Compare, WriteFile, CaptureFails
  <2> QED
    BY <2>1, <2>2
<1>2. ASSUME NEW w \in Workers, Prune(w) PROVE RowsUnique'
  BY <1>2, UniqueSubset DEF Prune, SelectVictims, DeleteVictims, CheckPath, Unlink, PruneFails
<1>3. CASE Crash \/ UNCHANGED vars
  BY <1>3, UniqueSubset DEF Crash, vars
<1> QED
  BY <1>1, <1>2, <1>3, UniqueRequest DEF Next

(***************************************************************************)
(* The file of a stored row is kept                                        *)
(*                                                                         *)
(* A capture has its file from the write on, and what a clean-up is about  *)
(* to unlink is named by no row, or has met a capture on its way.          *)
(***************************************************************************)
Stored(path, hash) ==
  /\ writes[path] >= 1
  /\ path \notin raced => files[path] # None /\ (writes[path] = 1 => files[path] = hash)

StoredNext(path, hash) ==
  /\ writes'[path] >= 1
  /\ path \notin raced' => files'[path] # None /\ (writes'[path] = 1 => files'[path] = hash)

FileInv ==
  /\ \A r \in backups : Stored(r.path, r.hash)
  /\ \A w \in Workers : worker[w].pc = "written" => Stored(worker[w].path, worker[w].hash)
  /\ \A w \in Workers, r \in backups : worker[w].doomed # None /\ worker[w].doomed = r.path => r.path \in raced

LEMMA NextFiles ==
  ASSUME \A r \in backups' : StoredNext(r.path, r.hash),
         \A w \in Workers : worker'[w].pc = "written" => StoredNext(worker'[w].path, worker'[w].hash),
         \A w \in Workers, r \in backups' :
           worker'[w].doomed # None /\ worker'[w].doomed = r.path => r.path \in raced'
  PROVE  FileInv'
BY DEF FileInv, Stored, StoredNext

LEMMA QuietFiles ==
  ASSUME TypeOK, FileInv, UNCHANGED <<files, writes, raced>>,
         \A q \in backups' : \E r \in backups : r.path = q.path /\ r.hash = q.hash,
         \A w \in Workers :
           /\ worker'[w].pc = "written" =>
                worker[w].pc = "written" /\ worker'[w].path = worker[w].path /\ worker'[w].hash = worker[w].hash
           /\ worker'[w].doomed \in {None, worker[w].doomed}
  PROVE  FileInv'
<1>1. \A path, hash : Stored(path, hash) => StoredNext(path, hash)
  BY DEF Stored, StoredNext
<1>2. \A r \in backups' : StoredNext(r.path, r.hash)
  BY <1>1 DEF FileInv
<1>3. \A w \in Workers : worker'[w].pc = "written" => StoredNext(worker'[w].path, worker'[w].hash)
  BY <1>1 DEF FileInv
<1>4. \A w \in Workers, r \in backups' :
        worker'[w].doomed # None /\ worker'[w].doomed = r.path => r.path \in raced'
  BY DEF FileInv
<1> QED
  BY <1>2, <1>3, <1>4, NextFiles

LEMMA FilesCapture == ASSUME TypeOK, FileInv, NEW w \in Workers, Capture(w) PROVE FileInv'
<1>0. worker[w] \in WorkerRecord /\ worker[w] \in WorkerState
  BY ThreadRecord
<1>1. ASSUME NEW d \in Devices, EmptyConfig(w, d) PROVE FileInv'
  BY <1>1, QuietFiles DEF EmptyConfig, history
<1>2. ASSUME NEW d \in Devices, NEW h \in Hashes, Compare(w, d, h) PROVE FileInv'
  <2>1. worker'[w].pc = "compared" /\ worker'[w].doomed = None /\ Alone(w)
    BY <1>2, CompareThread
  <2> QED
    BY <1>2, <2>1, QuietFiles DEF Compare, history, Alone
<1>3. CASE WriteFile(w)
  <2> DEFINE path == <<NameOf[worker[w].device], second'>>
             hash == worker[w].hash
  <2>1. hash \in Hashes /\ hash # None
    BY <1>0, <1>3, NoneAssumption DEF WriteFile, WorkerState
  <2>2. path \in Paths
    BY <1>0, <1>3, NameOfAssumption DEF WriteFile, TypeOK, WorkerState, Paths
  <2>3. /\ worker'[w].path = path /\ worker'[w].hash = hash /\ worker'[w].doomed = worker[w].doomed
        /\ Alone(w)
    BY <1>3, WriteThread
  <2>4. /\ backups' = backups /\ raced' = raced
        /\ files' = [files EXCEPT ![path] = hash]
        /\ writes' = [writes EXCEPT ![path] = IF @ = 0 THEN 1 ELSE 2]
    BY <1>3 DEF WriteFile
  <2> HIDE DEF path, hash
  <2>5. /\ files'[path] = hash /\ writes'[path] \in {1, 2}
        /\ writes[path] >= 1 => writes'[path] = 2
        /\ \A p \in Paths : p # path => files'[p] = files[p] /\ writes'[p] = writes[p]
    BY <2>2, <2>4 DEF TypeOK
  <2>6. StoredNext(path, hash)
    BY <2>1, <2>5 DEF StoredNext
  <2>7. ASSUME NEW p \in Paths, NEW h, Stored(p, h) PROVE StoredNext(p, h)
    <3>1. CASE p # path
      BY <2>4, <2>5, <2>7, <3>1 DEF Stored, StoredNext
    <3>2. CASE p = path
      BY <2>1, <2>4, <2>5, <2>7, <3>2 DEF Stored, StoredNext
    <3> QED
      BY <3>1, <3>2
  <2>8. \A r \in backups' : StoredNext(r.path, r.hash)
    BY <2>4, <2>7 DEF TypeOK, Backup, FileInv
  <2>9. ASSUME NEW u \in Workers, worker'[u].pc = "written"
        PROVE  StoredNext(worker'[u].path, worker'[u].hash)
    <3>1. CASE u = w
      BY <2>3, <2>6, <3>1
    <3>2. CASE u # w
      BY <2>3, <2>7, <2>9, <3>2 DEF TypeOK, WorkerState, FileInv, Alone
    <3> QED
      BY <3>1, <3>2
  <2>10. \A u \in Workers : worker'[u].doomed = worker[u].doomed
    BY <2>3 DEF Alone
  <2>11. \A u \in Workers, r \in backups' :
           worker'[u].doomed # None /\ worker'[u].doomed = r.path => r.path \in raced'
    BY <2>4, <2>10 DEF FileInv
  <2> QED
    BY <2>8, <2>9, <2>11, NextFiles
<1>4. CASE CommitBackup(w)
  <2> DEFINE row == NewRow(w)
  <2>1. worker[w].pc = "written" /\ row.path = worker[w].path /\ row.hash = worker[w].hash
    BY <1>4 DEF CommitBackup, NewRow
  <2>2. /\ backups' = backups \cup {row} /\ files' = files /\ writes' = writes
        /\ raced \subseteq raced'
        /\ \A v \in Workers : worker[v].doomed = row.path => row.path \in raced'
    BY <1>4 DEF CommitBackup
  <2>3. worker'[w].pc = "prune" /\ worker'[w].doomed = None /\ Alone(w)
    BY <1>4, CommitThread
  <2> HIDE DEF row
  <2>4. \A path, hash : Stored(path, hash) => StoredNext(path, hash)
    BY <2>2 DEF Stored, StoredNext
  <2>5. \A r \in backups' : StoredNext(r.path, r.hash)
    BY <2>1, <2>2, <2>4 DEF FileInv
  <2>6. \A u \in Workers : worker'[u].pc = "written" => StoredNext(worker'[u].path, worker'[u].hash)
    BY <2>3, <2>4 DEF FileInv, Alone
  <2>7. \A u \in Workers, r \in backups' :
          worker'[u].doomed # None /\ worker'[u].doomed = r.path => r.path \in raced'
    BY <2>2, <2>3 DEF FileInv, Alone
  <2> QED
    BY <2>5, <2>6, <2>7, NextFiles
<1>5. CASE CaptureFails(w)
  <2>1. worker'[w].pc = "idle" /\ worker'[w].doomed = None /\ Alone(w)
    BY <1>5, FailThread DEF Ends, Idle
  <2> QED
    BY <1>5, <2>1, QuietFiles DEF CaptureFails, history, Alone
<1> QED
  BY <1>1, <1>2, <1>3, <1>4, <1>5 DEF Capture

LEMMA FilesPrune == ASSUME TypeOK, FileInv, NEW w \in Workers, Prune(w) PROVE FileInv'
<1>1. CASE SelectVictims(w)
  <2>1. worker'[w].pc # "written" /\ worker'[w].doomed \in {None, worker[w].doomed} /\ Alone(w)
    BY <1>1, SelectThread DEF Idle
  <2> QED
    BY <1>1, <2>1, QuietFiles DEF SelectVictims, Alone
<1>2. CASE DeleteVictims(w)
  BY <1>2, DeleteThread, QuietFiles DEF DeleteVictims, history, Alone
<1>3. ASSUME NEW path \in Paths, CheckPath(w, path) PROVE FileInv'
  <2>1. UNCHANGED <<backups, files, writes, raced>>
    BY <1>3 DEF CheckPath, history
  <2>2. /\ worker'[w].pc # "written" /\ Alone(w)
        /\ worker'[w].doomed # None => worker'[w].doomed = path /\ ~Referenced(path)
    BY <1>3, CheckThread DEF Idle
  <2>3. \A p, hash : Stored(p, hash) => StoredNext(p, hash)
    BY <2>1 DEF Stored, StoredNext
  <2>4. \A r \in backups' : StoredNext(r.path, r.hash)
    BY <2>1, <2>3 DEF FileInv
  <2>5. \A u \in Workers : worker'[u].pc = "written" => StoredNext(worker'[u].path, worker'[u].hash)
    BY <2>2, <2>3 DEF FileInv, Alone
  <2>6. \A u \in Workers, r \in backups' :
          worker'[u].doomed # None /\ worker'[u].doomed = r.path => r.path \in raced'
    BY <2>1, <2>2 DEF FileInv, Alone, Referenced
  <2> QED
    BY <2>4, <2>5, <2>6, NextFiles
<1>4. CASE Unlink(w)
  <2> DEFINE path == worker[w].doomed
  <2>1. path \in Paths /\ path # None
    BY <1>4, UnlinkThread DEF Unlink
  <2>2. /\ backups' = backups /\ writes' = writes
        /\ files' \in {files, [files EXCEPT ![path] = None]}
        /\ raced \subseteq raced'
        /\ \A v \in Workers : worker[v].pc = "written" /\ worker[v].path = path => path \in raced'
    BY <1>4 DEF Unlink
  <2>3. worker'[w].pc # "written" /\ worker'[w].doomed = None /\ Alone(w)
    BY <1>4, UnlinkThread DEF Idle
  <2>4. \A r \in backups : r.path \in Paths /\ (r.path = path => r.path \in raced')
    BY <2>1, <2>2 DEF TypeOK, Backup, FileInv
  <2>5. \A u \in Workers : worker[u].pc = "written" => worker[u].path \in Paths
    BY DEF TypeOK, WorkerState
  <2> HIDE DEF path
  <2>6. \A p \in Paths : p # path => files'[p] = files[p]
    BY <2>2 DEF TypeOK
  <2>7. ASSUME NEW p \in Paths, NEW h, Stored(p, h), p = path => p \in raced' PROVE StoredNext(p, h)
    BY <2>2, <2>6, <2>7 DEF Stored, StoredNext
  <2>8. ASSUME NEW u \in Workers, worker'[u].pc = "written"
        PROVE  StoredNext(worker'[u].path, worker'[u].hash)
    BY <2>2, <2>3, <2>5, <2>7, <2>8 DEF FileInv, Alone
  <2>9. \A r \in backups' : StoredNext(r.path, r.hash)
    BY <2>2, <2>4, <2>7 DEF FileInv
  <2>10. \A u \in Workers, r \in backups' :
           worker'[u].doomed # None /\ worker'[u].doomed = r.path => r.path \in raced'
    BY <2>2, <2>3 DEF FileInv, Alone
  <2> QED
    BY <2>8, <2>9, <2>10, NextFiles
<1>5. CASE PruneFails(w)
  <2>1. worker'[w].pc = "idle" /\ worker'[w].doomed = None /\ Alone(w)
    BY <1>5, FailThread DEF Ends, Idle
  <2> QED
    BY <1>5, <2>1, QuietFiles DEF PruneFails, Alone
<1> QED
  BY <1>1, <1>2, <1>3, <1>4, <1>5 DEF Prune

LEMMA FilesRows ==
  ASSUME TypeOK, Request
  PROVE  \A q \in backups' : \E r \in backups : r.path = q.path /\ r.hash = q.hash
<1>1. ASSUME NEW o \in Operators, SetBaseline(o), NEW q \in backups'
      PROVE  \E r \in backups : r.path = q.path /\ r.hash = q.hash
  BY <1>1, MarkedRows DEF Like
<1>2. ASSUME NEW id \in Ids, NEW verdict \in Verdicts, Review(id, verdict), NEW q \in backups'
      PROVE  \E r \in backups : r.path = q.path /\ r.hash = q.hash
  <2>1. PICK r \in backups, s \in backups' : Like(s, r) /\ backups' = (backups \ {r}) \cup {s}
    BY <1>2, ReviewedRows
  <2> QED
    BY <2>1 DEF Like
<1>3. CASE backups' \subseteq backups
  BY <1>3
<1>4. ASSUME NEW d \in Devices, DeleteDevice(d) PROVE backups' \subseteq backups
  BY <1>4 DEF DeleteDevice
<1>5. ASSUME NEW o \in Operators, ReadBaseline(o) PROVE backups' \subseteq backups
  BY <1>5 DEF ReadBaseline
<1>6. ASSUME NEW d \in Devices, NEW n, SetRetention(d, n) PROVE backups' \subseteq backups
  BY <1>6 DEF SetRetention
<1> QED
  BY <1>1, <1>2, <1>3, <1>4, <1>5, <1>6 DEF Request

LEMMA FilesStep == TypeOK /\ FileInv /\ [Next]_vars => FileInv'
<1> SUFFICES ASSUME TypeOK, FileInv, [Next]_vars PROVE FileInv'
  OBVIOUS
<1>1. CASE Request
  <2>1. UNCHANGED <<files, worker, writes, raced>>
    BY <1>1 DEF Request, ReadBaseline, SetBaseline, Review, SetRetention, DeleteDevice, history
  <2> QED
    BY <1>1, <2>1, FilesRows, QuietFiles
<1>2. CASE Crash
  BY <1>2, QuietFiles DEF Crash, Idle
<1>3. CASE UNCHANGED vars
  BY <1>3, QuietFiles DEF vars, history
<1> QED
  BY <1>1, <1>2, <1>3, FilesCapture, FilesPrune DEF Next

\* The file of a stored row is on disk, and with the text of its row unless
\* another capture wrote it too, however captures, clean-ups and crashes meet
\* (backup_device_config, prune_old_backups).
THEOREM FilesAreKept == Spec => []StoredFileKept
<1>1. Init => FileInv
  BY DEF Init, FileInv, Idle
<1>2. FileInv => StoredFileKept
  BY DEF FileInv, StoredFileKept, Stored
<1> QED
  BY <1>1, <1>2, TypeCorrect, FilesStep, PTL DEF Spec

(***************************************************************************)
(* Changes are reported and the baseline is one                            *)
(*                                                                         *)
(* A capture that is not the first was compared with a text the device     *)
(* has had; a device without a first capture has no row.                   *)
(***************************************************************************)
Pending(w) == worker[w].pc \in {"compared", "written"}

\* What a capture that waits has seen.
Compared(w) ==
  LET past == seen[worker[w].device]
  IN  Pending(w) /\ ~worker[w].first =>
        past.initials >= 1 /\ (~worker[w].changed => worker[w].hash \in past.hashes)

OneText(d) ==
  seen[d].initials <= 1 /\ ~seen[d].changed =>
    \A g, h \in seen[d].hashes : g = h

OneBaseline(d) == seen[d].initials <= 1 => \A q, r \in Baselines(d) : q = r

FirstInv ==
  /\ \A d \in Devices : seen[d].initials = 0 => seen[d].hashes = {} /\ Rows(d) = {}
  /\ \A r \in backups : r.hash \in seen[r.device].hashes
  /\ \A d \in Devices : OneText(d) /\ OneBaseline(d)
  /\ \A w \in Workers : Compared(w)

\* What a device's history says of its captures.
SamePast(d) ==
  /\ seen'[d].initials = seen[d].initials /\ seen'[d].hashes = seen[d].hashes
  /\ seen'[d].changed = seen[d].changed

LEMMA SettlePast ==
  ASSUME TypeOK, NEW d \in Devices, NEW settled \in BOOLEAN, Settle(d, settled)
  PROVE  /\ \A e \in Devices : SamePast(e)
         /\ \A e \in Devices : e # d => seen'[e] = seen[e]
         /\ seen'[d].settled = settled
BY DEF Settle, TypeOK, SamePast

LEMMA RememberPast ==
  ASSUME TypeOK, NEW r \in Backup, Remember(r)
  PROVE  /\ \A e \in Devices : e # r.device => seen'[e] = seen[e]
         /\ seen'[r.device].hashes = seen[r.device].hashes \cup {r.hash}
         /\ seen'[r.device].changed = (seen[r.device].changed \/ r.changed)
         /\ seen'[r.device].initials = IF r.baseline /\ seen[r.device].initials < 2
                                       THEN seen[r.device].initials + 1 ELSE seen[r.device].initials
<1> DEFINE old == seen[r.device]
           new == Extended(old, r)
<1>1. seen \in [Devices -> SeenRecord] /\ r.device \in Devices
  BY DEF TypeOK, SeenRecord, Backup
<1>2. old \in SeenRecord
  BY <1>1
<1>3. seen' = [seen EXCEPT ![r.device] = new]
  BY DEF Remember
<1> HIDE DEF old
<1>4. /\ new.hashes = old.hashes \cup {r.hash}
      /\ new.changed = (old.changed \/ r.changed)
      /\ new.initials = IF r.baseline /\ old.initials < 2 THEN old.initials + 1 ELSE old.initials
  BY <1>2 DEF Extended, SeenRecord
<1> HIDE DEF new
<1> QED
  BY <1>1, <1>3, <1>4 DEF old

\* A step that stores no row and compares nothing.
LEMMA QuietPast ==
  ASSUME TypeOK, TypeOK', FirstInv,
         \A d \in Devices : SamePast(d),
         \A q \in backups' : \E r \in backups : r.device = q.device /\ r.hash = q.hash,
         \A d \in Devices : OneBaseline(d) => OneBaseline(d)',
         \A w \in Workers : Pending(w)' =>
           /\ Pending(w) /\ worker'[w].device = worker[w].device /\ worker'[w].hash = worker[w].hash
           /\ worker'[w].first = worker[w].first /\ worker'[w].changed = worker[w].changed
  PROVE  FirstInv'
<1>1. ASSUME NEW d \in Devices, seen'[d].initials = 0
      PROVE  seen'[d].hashes = {} /\ Rows(d)' = {}
  BY <1>1 DEF FirstInv, SamePast, Rows
<1>2. \A r \in backups' : r.device \in Devices
  BY DEF TypeOK, Backup
<1>3. \A r \in backups' : r.hash \in seen'[r.device].hashes
  BY <1>2 DEF FirstInv, SamePast
<1>4. \A d \in Devices : OneText(d)' /\ OneBaseline(d)'
  BY DEF FirstInv, OneText, SamePast
<1>5. ASSUME NEW w \in Workers PROVE Compared(w)'
  <2>1. Pending(w)' => worker'[w].device \in Devices
    BY DEF TypeOK, WorkerState, Pending
  <2> QED
    BY <2>1 DEF FirstInv, Compared, SamePast
<1> QED
  BY <1>1, <1>3, <1>4, <1>5 DEF FirstInv

\* Fewer rows have no more baselines.
LEMMA FewerBaselines ==
  ASSUME NEW d \in Devices, SamePast(d), backups' \subseteq backups
  PROVE  OneBaseline(d) => OneBaseline(d)'
BY DEF OneBaseline, SamePast, Baselines, Rows

LEMMA ComparePast ==
  ASSUME IInv, TypeOK', FirstInv, NEW w \in Workers, NEW d \in Devices, NEW h \in Hashes, Compare(w, d, h)
  PROVE  FirstInv'
<1>1. TypeOK
  BY DEF IInv
<1>2. UNCHANGED <<backups, seen>> /\ d \in alive
  BY DEF Compare, history
<1>3. /\ worker'[w].device = d /\ worker'[w].hash = h /\ Alone(w)
      /\ worker'[w].first <=> Rows(d) = {}
      /\ worker'[w].changed <=> Differs(d, h)
  BY ZenonT(40), <1>1, CompareThread
<1>4. ASSUME Rows(d) # {}, ~Differs(d, h)
      PROVE  h \in seen[d].hashes
  <2>1. PICK s \in Rows(d) : s.id \in Ids /\ s.id <= seen[d].newest
    BY <1>1, <1>2, <1>4 DEF Rows, IInv, NoneNewerThanNewest, TypeOK, Backup
  <2>2. seen[d].newest # 0
    BY <1>1, <1>2, <2>1, BoundAssumption DEF Ids, TypeOK
  <2>3. PICK r \in Rows(d) : r.id = seen[d].newest
    BY <1>2, <2>2 DEF IInv, NewestCaptureKept
  <2>4. IsNewest(r)
    <3>1. \A q \in Rows(r.device) : ~(q.id > r.id)
      BY <1>1, <1>2, <2>3 DEF Rows, IInv, NoneNewerThanNewest, TypeOK, Backup, Ids
    <3> QED
      BY <3>1 DEF IsNewest, Newer
  <2>5. r.hash = h
    BY <1>4, <2>3, <2>4 DEF Differs
  <2> QED
    BY <2>3, <2>5 DEF Rows, FirstInv
<1>5. Rows(d) # {} => seen[d].initials >= 1
  BY <1>1, <1>2 DEF FirstInv, TypeOK
<1>6. Compared(w)'
  BY <1>2, <1>4, <1>5, <1>3 DEF Compared
<1>7. \A u \in Workers : u # w => Compared(u)'
  BY <1>2, <1>3 DEF FirstInv, Compared, Pending, Alone
<1>8. /\ \A e \in Devices : OneText(e)' /\ OneBaseline(e)'
      /\ \A e \in Devices : seen'[e].initials = 0 => seen'[e].hashes = {} /\ Rows(e)' = {}
      /\ \A r \in backups' : r.hash \in seen'[r.device].hashes
  BY <1>2 DEF FirstInv, OneText, OneBaseline, Baselines, Rows
<1> QED
  BY <1>6, <1>7, <1>8 DEF FirstInv

LEMMA CommitPast ==
  ASSUME TypeOK, TypeOK', FirstInv, NEW w \in Workers, CommitBackup(w)
  PROVE  FirstInv'
<1>1. worker[w].pc = "written" /\ worker[w] \in WorkerState
  BY ThreadRecord DEF CommitBackup
<1> PICK row, d : row = NewRow(w) /\ d = worker[w].device
  OBVIOUS
<1>2. /\ row \in Backup /\ row.device = d /\ row.hash = worker[w].hash
      /\ row.baseline = worker[w].first /\ row.changed = worker[w].changed
  BY <1>1, NewRowType DEF NewRow
<1>3. backups' = backups \cup {row} /\ Remember(row)
  BY DEF CommitBackup
<1>4. worker'[w].pc = "prune" /\ Alone(w)
  BY CommitThread
<1>5. d \in Devices
  BY <1>1 DEF WorkerState
<1>6. Pending(w) /\ Compared(w)
  BY <1>1 DEF Pending, FirstInv
<1>7. Compared(w) => (~worker[w].first => seen[d].initials >= 1
                       /\ (~worker[w].changed => worker[w].hash \in seen[d].hashes))
  BY <1>6 DEF Compared
<1>8. /\ \A e \in Devices : e # d => seen'[e] = seen[e]
      /\ seen'[d].hashes = seen[d].hashes \cup {row.hash}
      /\ seen'[d].changed = (seen[d].changed \/ row.changed)
      /\ seen'[d].initials = IF row.baseline /\ seen[d].initials < 2
                             THEN seen[d].initials + 1 ELSE seen[d].initials
  BY <1>2, <1>3, RememberPast
<1>9. seen[d].initials \in 0 .. 2 /\ seen'[d].initials >= 1
  <2>1. seen[d].initials \in 0 .. 2
    BY <1>5 DEF TypeOK
  <2> QED
    BY <1>2, <1>6, <1>7, <1>8, <2>1
<1>10. Rows(d)' = Rows(d) \cup {row} /\ \A e \in Devices : e # d => Rows(e)' = Rows(e)
  BY <1>2, <1>3 DEF Rows
<1>11. ASSUME NEW e \in Devices
       PROVE  seen'[e].initials = 0 => seen'[e].hashes = {} /\ Rows(e)' = {}
  BY <1>8, <1>9, <1>10 DEF FirstInv
<1>12. \A r \in backups' : r.hash \in seen'[r.device].hashes
  <2>1. \A r \in backups : r.device \in Devices /\ r.hash \in seen[r.device].hashes
    BY DEF TypeOK, Backup, FirstInv
  <2> QED
    BY <1>2, <1>3, <1>8, <2>1
<1>13. OneText(d)'
  <2>1. CASE worker[w].first /\ seen[d].initials = 0
    BY <1>5, <1>8, <2>1 DEF OneText, FirstInv
  <2>2. CASE worker[w].first /\ seen[d].initials # 0
    BY <1>2, <1>8, <1>9, <2>2 DEF OneText
  <2>3. CASE ~worker[w].first
    BY <1>2, <1>5, <1>6, <1>7, <1>8, <2>3 DEF OneText, FirstInv
  <2> QED
    BY <2>1, <2>2, <2>3
<1>14. OneBaseline(d)'
  <2>1. CASE worker[w].first /\ seen[d].initials = 0
    BY <1>5, <1>10, <2>1 DEF OneBaseline, Baselines, FirstInv
  <2>2. CASE worker[w].first /\ seen[d].initials # 0
    BY <1>2, <1>8, <1>9, <2>2 DEF OneBaseline
  <2>3. CASE ~worker[w].first
    <3>1. Baselines(d)' = Baselines(d)
      BY <1>2, <1>10, <2>3 DEF Baselines
    <3>2. seen'[d].initials = seen[d].initials
      BY <1>2, <1>8, <2>3
    <3> QED
      BY <1>5, <3>1, <3>2 DEF OneBaseline, FirstInv
  <2> QED
    BY <2>1, <2>2, <2>3
<1>15. ASSUME NEW e \in Devices, e # d PROVE OneText(e)' /\ OneBaseline(e)'
  BY <1>8, <1>10, <1>15 DEF OneText, OneBaseline, Baselines, FirstInv
<1>16. ASSUME NEW u \in Workers PROVE Compared(u)'
  <2>1. CASE u = w
    BY <1>4, <2>1 DEF Compared, Pending
  <2>2. CASE u # w
    <3>1. worker'[u] = worker[u] /\ Compared(u) /\ (Pending(u) => worker[u].device \in Devices)
      BY <1>4, <2>2 DEF Alone, FirstInv, Pending, TypeOK, WorkerState
    <3>2. CASE worker[u].device = d
      BY <1>8, <1>9, <3>1, <3>2 DEF Compared, Pending
    <3>3. CASE worker[u].device # d
      BY <1>8, <3>1, <3>3 DEF Compared, Pending
    <3> QED
      BY <3>2, <3>3
  <2> QED
    BY <2>1, <2>2
<1> QED
  BY <1>11, <1>12, <1>13, <1>14, <1>15, <1>16 DEF FirstInv

\* The rest of the steps leave the past alone.
LEMMA PrunePast ==
  ASSUME TypeOK, TypeOK', FirstInv, NEW w \in Workers, Prune(w)
  PROVE  FirstInv'
<1>0. worker[w].device \in Devices /\ worker[w] \in WorkerRecord
  BY DEF TypeOK, WorkerState, Prune, SelectVictims, DeleteVictims, CheckPath, Unlink, PruneFails
<1>1. worker'[w].pc \notin {"compared", "written"} /\ Alone(w)
  <2>1. ASSUME NEW path \in Paths, CheckPath(w, path) PROVE <1>1
    BY <2>1, CheckThread DEF Idle
  <2>2. CASE SelectVictims(w)
    BY <2>2, SelectThread DEF Idle
  <2>3. CASE DeleteVictims(w)
    BY <2>3, DeleteThread
  <2>4. CASE Unlink(w)
    BY <2>4, UnlinkThread DEF Idle
  <2>5. CASE PruneFails(w)
    BY SMTT(30), <2>5, FailThread DEF Ends, Idle
  <2> QED
    BY <2>1, <2>2, <2>3, <2>4, <2>5 DEF Prune
<1>2. backups' \subseteq backups
  BY DEF Prune, SelectVictims, DeleteVictims, CheckPath, Unlink, PruneFails
<1>3. \A d \in Devices : SamePast(d)
  <2>1. CASE SelectVictims(w) \/ PruneFails(w)
    BY <1>0, <2>1, SettlePast DEF SelectVictims, PruneFails
  <2>2. CASE seen' = seen
    BY <2>2 DEF SamePast
  <2> QED
    BY <2>1, <2>2 DEF Prune, DeleteVictims, CheckPath, Unlink, history
<1>4. \A d \in Devices : OneBaseline(d) => OneBaseline(d)'
  BY <1>2, <1>3, FewerBaselines
<1>5. \A u \in Workers : Pending(u)' => Pending(u) /\ worker'[u] = worker[u]
  BY <1>1 DEF Pending, Alone
<1> QED
  BY <1>2, <1>3, <1>4, <1>5, QuietPast

LEMMA CapturePast ==
  ASSUME IInv, TypeOK', FirstInv, NEW w \in Workers, Capture(w)
  PROVE  FirstInv'
<1>0. TypeOK
  BY DEF IInv
<1>1. CASE \E d \in Devices, h \in Hashes : Compare(w, d, h)
  BY <1>1, ComparePast
<1>2. CASE CommitBackup(w)
  BY <1>0, <1>2, CommitPast
<1>3. CASE (\E d \in Devices : EmptyConfig(w, d)) \/ WriteFile(w) \/ CaptureFails(w)
  <2>1. backups' = backups /\ seen' = seen
    BY <1>3 DEF EmptyConfig, WriteFile, CaptureFails, history
  <2>2. \A d \in Devices : SamePast(d) /\ (OneBaseline(d) => OneBaseline(d)')
    BY <2>1, FewerBaselines DEF SamePast
  <2>3. ASSUME NEW u \in Workers, Pending(u)'
        PROVE  /\ Pending(u) /\ worker'[u].device = worker[u].device /\ worker'[u].hash = worker[u].hash
               /\ worker'[u].first = worker[u].first /\ worker'[u].changed = worker[u].changed
    <3>1. CASE WriteFile(w)
      BY <1>0, <2>3, <3>1, WriteThread DEF Alone, Pending, WriteFile
    <3>2. CASE CaptureFails(w)
      BY <1>0, <2>3, <3>2, FailThread DEF Ends, Alone, Pending, Idle
    <3>3. CASE \E d \in Devices : EmptyConfig(w, d)
      BY <2>3, <3>3 DEF EmptyConfig, Pending
    <3> QED
      BY <1>3, <3>1, <3>2, <3>3
  <2> QED
    BY <1>0, <2>1, <2>2, <2>3, QuietPast
<1> QED
  BY <1>1, <1>2, <1>3 DEF Capture

LEMMA RequestPast ==
  ASSUME TypeOK, TypeOK', RowsUnique, RowsUnique', FirstInv, Request
  PROVE  FirstInv'
<1>1. worker' = worker
  BY DEF Request, ReadBaseline, SetBaseline, Review, SetRetention, DeleteDevice
<1>2. \A u \in Workers : Pending(u)' => Pending(u) /\ worker'[u] = worker[u]
  BY <1>1 DEF Pending
<1>3. ASSUME backups' \subseteq backups, \A d \in Devices : SamePast(d) PROVE FirstInv'
  <2>1. \A d \in Devices : OneBaseline(d) => OneBaseline(d)'
    BY <1>3, FewerBaselines
  <2> QED
    BY <1>2, <1>3, <2>1, QuietPast
<1>4. ASSUME NEW o \in Operators, ReadBaseline(o) PROVE FirstInv'
  BY <1>3, <1>4 DEF ReadBaseline, history, SamePast
<1>5. ASSUME NEW d \in Devices, NEW n \in Policies \cup {None}, SetRetention(d, n) PROVE FirstInv'
  BY <1>3, <1>5, SettlePast DEF SetRetention
<1>6. ASSUME NEW d \in Devices, DeleteDevice(d) PROVE FirstInv'
  BY <1>3, <1>6 DEF DeleteDevice, history, SamePast
<1>7. ASSUME NEW o \in Operators, SetBaseline(o) PROVE FirstInv'
  <2>1. operator[o].device \in Devices
    BY <1>7 DEF SetBaseline, TypeOK, OperatorState
  <2>2. \A d \in Devices : SamePast(d)
    BY <1>7, <2>1, SettlePast DEF SetBaseline
  <2>3. CASE backups' = backups
    BY <1>3, <2>2, <2>3
  <2>4. CASE backups' # backups
    <3>1. \A q \in backups' : \E r \in backups :
            /\ Like(q, r)
            /\ q = IF r.device = operator[o].device
                   THEN [r EXCEPT !.baseline = ~operator[o].baseline /\ r.id = operator[o].id]
                   ELSE r
      BY <1>7, <2>4, MarkedRows
    <3>2. \A q \in backups' : q.device = operator[o].device /\ q.baseline => q.id = operator[o].id
      BY <1>7, <2>4, MarkedRows
    <3>3. \A q \in backups' : q.device # operator[o].device => q \in backups
      BY <3>1 DEF Like
    <3>4. ASSUME NEW d \in Devices, OneBaseline(d) PROVE OneBaseline(d)'
      <4>1. CASE d = operator[o].device
        <5>1. \A q, r \in backups' :
                q.device = d /\ q.baseline /\ r.device = d /\ r.baseline => q = r
          BY <3>2, <4>1 DEF RowsUnique
        <5> QED
          BY <5>1 DEF OneBaseline, Baselines, Rows
      <4>2. CASE d # operator[o].device
        <5>1. \A q \in backups' : q.device = d => q \in backups
          BY <3>3, <4>2
        <5> QED
          BY <2>2, <3>4, <5>1 DEF OneBaseline, SamePast, Baselines, Rows
      <4> QED
        BY <4>1, <4>2
    <3>5. \A q \in backups' : \E r \in backups : r.device = q.device /\ r.hash = q.hash
      BY <3>1 DEF Like
    <3> QED
      BY <1>2, <2>2, <3>4, <3>5, QuietPast
  <2> QED
    BY <2>3, <2>4
<1>8. ASSUME NEW id \in Ids, NEW verdict \in Verdicts, Review(id, verdict) PROVE FirstInv'
  <2>1. PICK r \in backups, q \in backups' :
          /\ Like(q, r) /\ q.baseline = r.baseline
          /\ backups' = (backups \ {r}) \cup {q}
    BY <1>8, ReviewedRows
  <2>2. \A d \in Devices : SamePast(d)
    BY <1>8 DEF Review, history, SamePast
  <2>3. \A s \in backups' : \E y \in backups :
          Like(s, y) /\ s.baseline = y.baseline /\ (s = y \/ (y = r /\ s = q))
    BY <2>1 DEF Like
  <2>4. ASSUME NEW d \in Devices, OneBaseline(d) PROVE OneBaseline(d)'
    <3>1. ASSUME NEW s \in backups', NEW y \in backups', seen[d].initials <= 1,
                 s.device = d, s.baseline, y.device = d, y.baseline
          PROVE  s = y
      <4>1. PICK a \in backups : a.id = s.id /\ a.device = d /\ a.baseline
        BY <2>3, <3>1 DEF Like
      <4>2. PICK c \in backups : c.id = y.id /\ c.device = d /\ c.baseline
        BY <2>3, <3>1 DEF Like
      <4>3. a = c
        BY <2>4, <3>1, <4>1, <4>2 DEF OneBaseline, Baselines, Rows
      <4> QED
        BY <4>1, <4>2, <4>3 DEF RowsUnique
    <3> QED
      BY <2>2, <3>1 DEF OneBaseline, SamePast, Baselines, Rows
  <2>5. \A s \in backups' : \E y \in backups : y.device = s.device /\ y.hash = s.hash
    BY <2>3 DEF Like
  <2> QED
    BY <1>2, <2>2, <2>4, <2>5, QuietPast
<1> QED
  BY <1>4, <1>5, <1>6, <1>7, <1>8 DEF Request

LEMMA PastStep ==
  IInv /\ RowsUnique /\ FirstInv /\ [Next]_vars => FirstInv'
<1> SUFFICES ASSUME IInv, RowsUnique, FirstInv, [Next]_vars PROVE FirstInv'
  OBVIOUS
<1>1. TypeOK /\ TypeOK' /\ RowsUnique'
  BY StepTypeOK, UniqueStep DEF IInv
<1>2. CASE Crash
  <2>1. backups' = backups /\ \A d \in Devices : SamePast(d)
    BY <1>1, <1>2 DEF Crash, TypeOK, SamePast
  <2>2. \A d \in Devices : OneBaseline(d) => OneBaseline(d)'
    BY <2>1, FewerBaselines
  <2>3. \A u \in Workers : ~Pending(u)'
    BY <1>2 DEF Crash, Idle, Pending
  <2> QED
    BY <1>1, <2>1, <2>2, <2>3, QuietPast
<1>3. CASE UNCHANGED vars
  <2>1. UNCHANGED <<backups, seen, worker>>
    BY <1>3 DEF vars, history
  <2>2. \A d \in Devices : SamePast(d) /\ (OneBaseline(d) => OneBaseline(d)')
    BY <2>1, FewerBaselines DEF SamePast
  <2>3. \A u \in Workers : Pending(u)' => Pending(u)
    BY <2>1 DEF Pending
  <2> QED
    BY <1>1, <2>1, <2>2, <2>3, QuietPast
<1> QED
  BY <1>1, <1>2, <1>3, CapturePast, PrunePast, RequestPast DEF Next

LEMMA FewAlike ==
  ASSUME NEW S, \A x, y \in S : x = y
  PROVE  Cardinality(S) <= 1
<1>1. CASE S = {}
  BY <1>1, FS_EmptySet
<1>2. CASE S # {}
  <2>1. PICK x : S = {x}
    BY <1>2
  <2> QED
    BY <2>1, FS_Singleton
<1> QED
  BY <1>1, <1>2

LEMMA PastInvariant == Spec => [](IInv /\ RowsUnique /\ FirstInv)
<1>1. Init => RowsUnique /\ FirstInv
  BY DEF Init, RowsUnique, FirstInv, Rows, OneText, OneBaseline, Baselines, Compared, Pending, Idle
<1> QED
  BY <1>1, InitIInv, StepIInv, UniqueStep, PastStep, PTL DEF Spec

\* Two texts of a device are never stored without a change being reported,
\* unless first captures overlapped, whatever was deleted or cleaned up between
\* a comparison and its commit (backup_device_config).
THEOREM ChangesAreReported == Spec => []ChangeIsReported
<1>1. ASSUME FirstInv, TypeOK, NEW d \in Devices, seen[d].initials <= 1, ~seen[d].changed
      PROVE  ~(Cardinality(seen[d].hashes) > 1)
  <2>1. \A g, h \in seen[d].hashes : g = h
    BY <1>1 DEF FirstInv, OneText
  <2>2. Cardinality(seen[d].hashes) <= 1
    BY <2>1, FewAlike
  <2>3. CASE seen[d].hashes = {}
    BY <2>3, FS_EmptySet
  <2>4. CASE seen[d].hashes # {}
    <3>1. PICK x : seen[d].hashes = {x}
      BY <2>1, <2>4
    <3>2. Cardinality(seen[d].hashes) = 1
      BY <3>1, FS_Singleton
    <3> QED
      BY <3>2
  <2> QED
    BY <2>3, <2>4
<1>2. IInv /\ FirstInv => ChangeIsReported
  BY <1>1 DEF IInv, ChangeIsReported
<1> QED
  BY <1>2, PastInvariant, PTL

\* Marking and first captures leave at most one baseline of a device, unless
\* its first captures overlapped (mark_configuration_baseline).
THEOREM BaselineStaysOne == Spec => []AtMostOneBaseline
<1>1. ASSUME FirstInv, NEW d \in Devices, seen[d].initials <= 1
      PROVE  Cardinality(Baselines(d)) <= 1
  <2>1. \A q, r \in Baselines(d) : q = r
    BY <1>1 DEF FirstInv, OneBaseline
  <2> QED
    BY <2>1, FewAlike
<1>2. FirstInv => AtMostOneBaseline
  BY <1>1 DEF AtMostOneBaseline
<1> QED
  BY <1>2, PastInvariant, PTL

(***************************************************************************)
(* A baseline is lost only as known                                        *)
(*                                                                         *)
(* A request still means the row it has read, and a device whose first     *)
(* capture is stored has a row as long as it exists: so a capture that     *)
(* finds no row at its commit is a first one.                              *)
(***************************************************************************)
Means(o) ==
  operator[o].pc = "read" =>
    /\ operator[o].id <= tick
    /\ \A r \in backups : r.id = operator[o].id => r.device = operator[o].device
    /\ \A w \in Workers : worker[w].pc = "written" => worker[w].id # operator[o].id

Stamped(d) == seen[d].initials >= 1 => seen[d].newest # 0

MarkInv == (\A o \in Operators : Means(o)) /\ (\A d \in Devices : Stamped(d))

\* A step that stores no row and names no file.
LEMMA QuietMarks ==
  ASSUME MarkInv, tick' = tick,
         \A d \in Devices : seen'[d].initials = seen[d].initials /\ seen'[d].newest = seen[d].newest,
         \A q \in backups' : \E r \in backups : r.id = q.id /\ r.device = q.device,
         \A o \in Operators : operator'[o].pc = "read" => operator'[o] = operator[o],
         \A w \in Workers :
           worker'[w].pc = "written" => worker[w].pc = "written" /\ worker'[w].id = worker[w].id
  PROVE  MarkInv'
<1>1. ASSUME NEW o \in Operators PROVE Means(o)'
  BY DEF MarkInv, Means
<1>2. ASSUME NEW d \in Devices PROVE Stamped(d)'
  BY DEF MarkInv, Stamped
<1> QED
  BY <1>1, <1>2 DEF MarkInv

LEMMA WriteMarks ==
  ASSUME IInv, MarkInv, NEW w \in Workers, WriteFile(w)
  PROVE  MarkInv'
<1>1. /\ worker'[w].id = tick + 1 /\ tick' = tick + 1 /\ tick \in Nat
      /\ \A u \in Workers \ {w} : worker'[u] = worker[u]
  <2>1. worker \in [Workers -> WorkerState] /\ worker[w] \in WorkerRecord /\ tick \in Nat
    BY BoundAssumption DEF IInv, TypeOK, WorkerState
  <2> QED
    BY <2>1 DEF WriteFile, Goto, WorkerRecord
<1>2. UNCHANGED <<backups, operator, seen>>
  BY DEF WriteFile
<1>3. ASSUME NEW o \in Operators, operator[o].pc = "read"
      PROVE  operator[o].id \in Nat /\ operator[o].id <= tick
  <2>1. operator[o] \in OperatorState
    BY DEF IInv, TypeOK
  <2>2. operator[o].id \in Ids
    BY <1>3, <2>1 DEF OperatorState
  <2> QED
    BY <1>3, <2>2 DEF MarkInv, Means, Ids
<1>4. ASSUME NEW o \in Operators PROVE Means(o)'
  BY <1>1, <1>2, <1>3 DEF MarkInv, Means
<1>5. \A d \in Devices : Stamped(d)'
  BY <1>2 DEF MarkInv, Stamped
<1> QED
  BY <1>4, <1>5 DEF MarkInv

LEMMA CommitMarks ==
  ASSUME IInv, MarkInv, NEW w \in Workers, CommitBackup(w)
  PROVE  MarkInv'
<1>0. TypeOK /\ worker[w].pc = "written" /\ worker[w] \in WorkerState
  BY ThreadRecord DEF IInv, CommitBackup
<1> PICK row : row = NewRow(w)
  OBVIOUS
<1>1. row \in Backup /\ row.id = worker[w].id
  BY <1>0, NewRowType DEF NewRow
<1>2. backups' = backups \cup {row} /\ Remember(row) /\ UNCHANGED <<operator, tick>>
  BY DEF CommitBackup
<1>3. worker'[w].pc = "prune" /\ \A u \in Workers \ {w} : worker'[u] = worker[u]
  BY <1>0, CommitThread DEF Alone
<1>4. ASSUME NEW o \in Operators PROVE Means(o)'
  BY <1>0, <1>1, <1>2, <1>3 DEF MarkInv, Means
<1>5. ASSUME NEW d \in Devices PROVE Stamped(d)'
  <2>1. CASE d # row.device
    BY <1>0, <1>1, <1>2, <2>1, RememberPast DEF MarkInv, Stamped
  <2>2. CASE d = row.device
    <3> DEFINE old == seen[d]
               new == Extended(old, row)
    <3>1. old \in SeenRecord /\ seen'[d] = new
      BY <1>0, <1>2, <2>2 DEF TypeOK, Remember, SeenRecord
    <3> HIDE DEF old
    <3>2. new.newest = IF row.id > old.newest THEN row.id ELSE old.newest
      BY <3>1 DEF Extended, SeenRecord
    <3>3. row.id \in Nat \ {0} /\ old.newest \in Nat
      BY <1>1, <3>1, BoundAssumption DEF Backup, Ids, SeenRecord
    <3> HIDE DEF new
    <3>4. new.newest # 0
      BY <3>2, <3>3
    <3> QED
      BY <3>1, <3>4 DEF Stamped
  <2> QED
    BY <2>1, <2>2
<1> QED
  BY <1>4, <1>5 DEF MarkInv

LEMMA RequestMarks ==
  ASSUME IInv, MarkInv, Request
  PROVE  MarkInv'
<1>0. TypeOK /\ UNCHANGED <<worker, tick>>
  BY DEF IInv, Request, ReadBaseline, SetBaseline, Review, SetRetention, DeleteDevice
<1>1. ASSUME NEW o \in Operators, ReadBaseline(o) PROVE MarkInv'
  <2>1. PICK r \in backups :
          operator' = [operator EXCEPT ![o] = [pc |-> "read", id |-> r.id, device |-> r.device,
                                               baseline |-> r.baseline]]
    BY <1>1 DEF ReadBaseline
  <2>2. /\ operator'[o].id = r.id /\ operator'[o].device = r.device
        /\ \A p \in Operators \ {o} : operator'[p] = operator[p]
    BY <1>0, <2>1 DEF TypeOK
  <2>3. backups' = backups /\ seen' = seen
    BY <1>1 DEF ReadBaseline, history
  <2>4. Means(o)'
    BY <1>0, <2>2, <2>3 DEF IInv, IdsTaken, IdsDistinct, PendingIdsFresh, Means
  <2>5. ASSUME NEW p \in Operators \ {o} PROVE Means(p)'
    BY <1>0, <2>2, <2>3 DEF MarkInv, Means
  <2> QED
    BY <2>3, <2>4, <2>5 DEF MarkInv, Stamped
<1>2. ASSUME NEW o \in Operators, SetBaseline(o) PROVE MarkInv'
  <2>1. \A q \in backups' : \E r \in backups : r.id = q.id /\ r.device = q.device
    BY <1>0, <1>2, MarkedRows DEF Like
  <2>2. operator[o].device \in Devices
    BY <1>0, <1>2 DEF SetBaseline, TypeOK, OperatorState
  <2>3. \A d \in Devices : seen'[d].initials = seen[d].initials /\ seen'[d].newest = seen[d].newest
    BY <1>0, <1>2, <2>2, SettleType, SettlePast DEF SetBaseline, SamePast
  <2>4. \A p \in Operators : operator'[p].pc = "read" => operator'[p] = operator[p]
    BY <1>0, <1>2 DEF SetBaseline, IdleOperator, TypeOK
  <2> QED
    BY <1>0, <2>1, <2>3, <2>4, QuietMarks
<1>3. ASSUME NEW id \in Ids, NEW verdict \in Verdicts, Review(id, verdict) PROVE MarkInv'
  <2>1. \A q \in backups' : \E r \in backups : r.id = q.id /\ r.device = q.device
    BY <1>0, <1>3, ReviewedRows DEF Like
  <2> QED
    BY <1>0, <1>3, <2>1, QuietMarks DEF Review, history
<1>4. ASSUME NEW d \in Devices, NEW n \in Policies \cup {None}, SetRetention(d, n) PROVE MarkInv'
  <2>1. \A e \in Devices : seen'[e].initials = seen[e].initials /\ seen'[e].newest = seen[e].newest
    BY <1>0, <1>4, SettleType, SettlePast DEF SetRetention, SamePast
  <2> QED
    BY <1>0, <1>4, <2>1, QuietMarks DEF SetRetention
<1>5. ASSUME NEW d \in Devices, DeleteDevice(d) PROVE MarkInv'
  BY <1>0, <1>5, QuietMarks DEF DeleteDevice, history
<1> QED
  BY <1>1, <1>2, <1>3, <1>4, <1>5 DEF Request

LEMMA ThreadMarks ==
  ASSUME IInv, MarkInv, NEW w \in Workers, Capture(w) \/ Prune(w)
  PROVE  MarkInv'
<1>0. TypeOK /\ worker[w] \in WorkerState
  BY ThreadRecord DEF IInv
<1>1. ASSUME worker'[w].pc # "written", Alone(w), tick' = tick, operator' = operator,
             backups' \subseteq backups,
             \A d \in Devices : seen'[d].initials = seen[d].initials /\ seen'[d].newest = seen[d].newest
      PROVE  MarkInv'
  BY <1>1, QuietMarks DEF Alone
<1>2. ASSUME NEW d \in Devices, EmptyConfig(w, d) PROVE MarkInv'
  BY <1>2, QuietMarks DEF EmptyConfig, history
<1>3. ASSUME NEW d \in Devices, NEW h \in Hashes, Compare(w, d, h) PROVE MarkInv'
  BY <1>0, <1>1, <1>3, CompareThread DEF Compare, history
<1>4. CASE CaptureFails(w)
  <2>1. worker'[w].pc # "written" /\ Alone(w)
    BY <1>0, <1>4, FailThread DEF Ends, Idle
  <2> QED
    BY <1>1, <1>4, <2>1 DEF CaptureFails, history
<1>5. CASE SelectVictims(w) \/ PruneFails(w)
  <2>1. worker[w].device \in Devices
    BY <1>0, <1>5 DEF WorkerState, SelectVictims, PruneFails
  <2>2. \A d \in Devices : seen'[d].initials = seen[d].initials /\ seen'[d].newest = seen[d].newest
    BY <1>0, <1>5, <2>1, SettleType, SettlePast DEF SelectVictims, PruneFails, SamePast
  <2>3. worker'[w].pc # "written" /\ Alone(w)
    BY <1>0, <1>5, SelectThread, FailThread DEF Ends, Idle
  <2> QED
    BY <1>1, <1>5, <2>2, <2>3 DEF SelectVictims, PruneFails
<1>6. CASE DeleteVictims(w)
  BY <1>0, <1>1, <1>6, DeleteThread DEF DeleteVictims, history
<1>7. ASSUME NEW path \in Paths, CheckPath(w, path) PROVE MarkInv'
  <2>1. worker'[w].pc # "written" /\ Alone(w)
    BY <1>0, <1>7, CheckThread DEF Idle
  <2>2. UNCHANGED <<tick, operator, backups, seen>>
    BY <1>7 DEF CheckPath, history
  <2> QED
    BY <1>1, <2>1, <2>2
<1>8. CASE Unlink(w)
  <2>1. worker'[w].pc # "written" /\ Alone(w)
    BY <1>0, <1>8, UnlinkThread DEF Idle
  <2>2. UNCHANGED <<tick, operator, backups, seen>>
    BY <1>8 DEF Unlink
  <2> QED
    BY <1>1, <2>1, <2>2
<1> QED
  BY <1>2, <1>3, <1>4, <1>5, <1>6, <1>7, <1>8, WriteMarks, CommitMarks DEF Capture, Prune

LEMMA MarkStep == IInv /\ MarkInv /\ [Next]_vars => MarkInv'
<1> SUFFICES ASSUME IInv, MarkInv, [Next]_vars PROVE MarkInv'
  OBVIOUS
<1>1. CASE Crash
  <2>1. \A d \in Devices : seen'[d].initials = seen[d].initials /\ seen'[d].newest = seen[d].newest
    BY <1>1 DEF Crash, IInv, TypeOK
  <2>2. /\ \A o \in Operators : operator'[o].pc # "read"
        /\ \A w \in Workers : worker'[w].pc # "written"
    BY <1>1 DEF Crash, Idle, IdleOperator
  <2> QED
    BY <1>1, <2>1, <2>2, QuietMarks DEF Crash
<1>2. CASE UNCHANGED vars
  BY <1>2, QuietMarks DEF vars, history
<1> QED
  BY <1>1, <1>2, ThreadMarks, RequestMarks DEF Next

\* What a step that stores or removes rows does to a device with a baseline.
LEMMA CommitBaselines ==
  ASSUME IInv, FirstInv, MarkInv, NEW w \in Workers, CommitBackup(w),
         NEW d \in Devices, Baselined(d)
  PROVE  Baselined(d)'
<1>0. TypeOK /\ worker[w].pc = "written" /\ worker[w] \in WorkerState
  BY ThreadRecord DEF IInv, CommitBackup
<1> PICK row : row = NewRow(w)
  OBVIOUS
<1>1. row.device = worker[w].device /\ row.baseline = worker[w].first
  BY DEF NewRow
<1>2. backups' = backups \cup {row} /\ worker[w].device \in alive
  BY DEF CommitBackup
<1>3. CASE d # worker[w].device
  <2>1. Rows(d)' = Rows(d)
    BY <1>1, <1>2, <1>3 DEF Rows
  <2> QED
    BY <2>1 DEF Baselined, Baselines
<1>4. CASE d = worker[w].device /\ Rows(d) # {}
  <2>1. Baselines(d) \subseteq Baselines(d)'
    BY <1>2 DEF Baselines, Rows
  <2> QED
    BY <1>4, <2>1 DEF Baselined
<1>5. CASE d = worker[w].device /\ Rows(d) = {}
  <2>1. seen[d].newest = 0
    BY <1>2, <1>5 DEF IInv, NewestCaptureKept
  <2>2. ~(seen[d].initials >= 1)
    BY <2>1 DEF MarkInv, Stamped
  <2>3. worker[w].first
    BY <1>0, <1>5, <2>2 DEF FirstInv, Compared, Pending
  <2>4. row \in Baselines(d)'
    BY <1>1, <1>2, <1>5, <2>3 DEF Baselines, Rows
  <2> QED
    BY <2>4 DEF Baselined
<1> QED
  BY <1>3, <1>4, <1>5

LEMMA MarkBaselines ==
  ASSUME TypeOK, MarkInv, NEW o \in Operators, SetBaseline(o),
         NEW d \in Devices, Baselined(d), ~(operator[o].device = d /\ operator[o].baseline)
  PROVE  Baselined(d)'
<1> DEFINE flag(r) == ~operator[o].baseline /\ r.id = operator[o].id
           moved(r) == IF r.device = operator[o].device THEN [r EXCEPT !.baseline = flag(r)] ELSE r
<1>1. operator[o].pc = "read" /\ operator[o].baseline \in BOOLEAN
  BY DEF SetBaseline, TypeOK, OperatorState
<1>2. CASE backups' = backups
  BY <1>2 DEF Baselined, Baselines, Rows
<1>3. CASE backups' # backups
  <2>1. /\ backups' = {moved(r) : r \in backups}
        /\ operator[o].baseline \/ \E r \in backups : r.id = operator[o].id
    BY <1>3 DEF SetBaseline
  <2>2. CASE operator[o].device # d
    <3>1. \A r \in backups : moved(r).device = d <=> r.device = d
      BY DEF TypeOK, Backup
    <3>2. \A r \in backups : r.device = d => moved(r) = r
      BY <2>2
    <3> HIDE DEF moved
    <3>3. Rows(d)' = Rows(d)
      BY <2>1, <3>1, <3>2 DEF Rows
    <3> QED
      BY <3>3 DEF Baselined, Baselines
  <2>3. CASE operator[o].device = d /\ ~operator[o].baseline
    <3>1. PICK r \in backups : r.id = operator[o].id
      BY <2>1, <2>3
    <3>2. r.device = d /\ r \in Backup
      BY <1>1, <2>3, <3>1 DEF MarkInv, Means, TypeOK
    <3>3. moved(r).device = d /\ moved(r).baseline
      BY <2>3, <3>1, <3>2 DEF Backup
    <3> HIDE DEF moved
    <3>4. moved(r) \in backups'
      BY <2>1
    <3> QED
      BY <3>3, <3>4 DEF Baselined, Baselines, Rows
  <2> QED
    BY <1>1, <2>2, <2>3
<1> QED
  BY <1>2, <1>3

LEMMA OtherBaselines ==
  ASSUME TypeOK, NEW d \in Devices, Baselined(d)
  PROVE  /\ backups' = backups => Baselined(d)'
         /\ \A w \in Workers :
              DeleteVictims(w) /\ (\A r \in Baselines(d) : r.id \notin worker[w].victims) => Baselined(d)'
         /\ \A id \in Ids, verdict \in Verdicts : Review(id, verdict) => Baselined(d)'
         /\ \A e \in Devices : DeleteDevice(e) => Baselined(d)'
<1>1. ASSUME backups' = backups PROVE Baselined(d)'
  BY <1>1 DEF Baselined, Baselines, Rows
<1>2. ASSUME NEW w \in Workers, DeleteVictims(w), \A r \in Baselines(d) : r.id \notin worker[w].victims
      PROVE  Baselined(d)'
  BY <1>2 DEF DeleteVictims, Baselined, Baselines, Rows
<1>3. ASSUME NEW id \in Ids, NEW verdict \in Verdicts, Review(id, verdict) PROVE Baselined(d)'
  <2>1. PICK r \in backups, q \in backups' :
          /\ Like(q, r) /\ q.baseline = r.baseline
          /\ backups' = (backups \ {r}) \cup {q}
    BY <1>3, ReviewedRows
  <2> QED
    BY <2>1 DEF Like, Baselined, Baselines, Rows
<1>4. ASSUME NEW e \in Devices, DeleteDevice(e) PROVE Baselined(d)'
  BY <1>4 DEF DeleteDevice, Baselined, Baselines, Rows
<1> QED
  BY <1>1, <1>2, <1>3, <1>4

\* A device with captures keeps a baseline except in the two ways that the runs
\* of the baseline show: whatever captures, clean-ups, policies, marks, reviews,
\* deletions, failures and crashes interleave, there is no third one
\* (backup_device_config, prune_old_backups, mark_configuration_baseline).
THEOREM BaselineLostOnlyAsKnown == Spec => LostOnlyAsKnown
<1>1. ASSUME IInv, FirstInv, MarkInv, [Next]_vars, NEW d \in Devices, Baselined(d),
             ~ \E o \in Operators :
                 SetBaseline(o) /\ operator[o].device = d /\ operator[o].baseline,
             ~ \E w \in Workers :
                 DeleteVictims(w) /\ \E r \in Baselines(d) : r.id \in worker[w].victims
      PROVE  Baselined(d)'
  <2>0. TypeOK
    BY <1>1 DEF IInv
  <2>1. ASSUME NEW w \in Workers, Capture(w) PROVE Baselined(d)'
    BY ZenonT(40), <1>1, <2>0, <2>1, CommitBaselines, OtherBaselines
    DEF Capture, EmptyConfig, Compare, WriteFile, CaptureFails
  <2>2. ASSUME NEW w \in Workers, Prune(w) PROVE Baselined(d)'
    BY <1>1, <2>0, <2>2, OtherBaselines DEF Prune, SelectVictims, CheckPath, Unlink, PruneFails
  <2>3. CASE Request
    <3>1. ASSUME NEW o \in Operators, SetBaseline(o) PROVE Baselined(d)'
      BY <1>1, <2>0, <3>1, MarkBaselines
    <3> QED
      BY <1>1, <2>0, <2>3, <3>1, OtherBaselines DEF Request, ReadBaseline, SetRetention
  <2>4. CASE Crash \/ UNCHANGED vars
    BY <1>1, <2>0, <2>4, OtherBaselines DEF Crash, vars
  <2> QED
    BY <1>1, <2>1, <2>2, <2>3, <2>4 DEF Next
<1>2. IInv /\ FirstInv /\ MarkInv /\ [Next]_vars =>
        [\A d \in Devices : Baselined(d) =>
           \/ Baselined(d)'
           \/ \E o \in Operators :
                SetBaseline(o) /\ operator[o].device = d /\ operator[o].baseline
           \/ \E w \in Workers :
                DeleteVictims(w) /\ \E r \in Baselines(d) : r.id \in worker[w].victims]_vars
  BY <1>1
<1>3. Init => MarkInv
  BY DEF Init, MarkInv, Means, Stamped, IdleOperator
<1> QED
  BY <1>2, <1>3, MarkStep, PastInvariant, PTL DEF Spec, LostOnlyAsKnown

(***************************************************************************)
(* Retention is obeyed                                                     *)
(*                                                                         *)
(* Once every capture of a device has looked at its history, each row the  *)
(* policy condemns is a victim of a clean-up about to delete it.  Rows     *)
(* that go away condemn no other row.                                      *)
(***************************************************************************)
\* A clean-up of d is about to delete the row.
Covered(d, id) ==
  \E w \in Workers : worker[w].pc = "delete" /\ worker[w].device = d /\ id \in worker[w].victims

\* A capture of d has yet to look at the history.
Waits(d) == \E w \in Workers : worker[w].pc = "prune" /\ worker[w].device = d

Kept(d) ==
  d \in alive /\ keep[d] # None /\ seen[d].settled /\ ~Waits(d) =>
    \A r \in Excess(d, keep[d]) : Covered(d, r.id)

RetentionInv == \A d \in Devices : Kept(d)

(* Rows with distinct ids: at most as many as the rows that have those ids. *)
LEMMA FewerRows ==
  ASSUME NEW S, IsFiniteSet(S), NEW T,
         \A t \in T : \E s \in S : s.id = t.id,
         \A t, u \in T : t.id = u.id => t = u
  PROVE  IsFiniteSet(T) /\ Cardinality(T) <= Cardinality(S)
<1> DEFINE f == [t \in T |-> CHOOSE s \in S : s.id = t.id]
<1>1. \A t \in T : f[t] \in S /\ f[t].id = t.id
  OBVIOUS
<1>2. f \in [T -> S]
  BY <1>1
<1> HIDE DEF f
<1>3. f \in Injection(T, S)
  BY <1>1, <1>2, Fun_IsInj
<1> QED
  BY <1>3, FS_Injection

LEMMA RowsFinite ==
  ASSUME TypeOK, RowsUnique, NEW T \in SUBSET backups
  PROVE  IsFiniteSet(T)
<1> DEFINE f == [t \in T |-> t.id]
<1>1. \A t \in T : t.id \in Ids
  BY DEF TypeOK, Backup
<1>2. f \in [T -> Ids] /\ \A t, u \in T : f[t] = f[u] => t = u
  BY <1>1 DEF RowsUnique
<1>3. IsFiniteSet(Ids)
  BY BoundAssumption, FS_Interval DEF Ids
<1> HIDE DEF f
<1>4. f \in Injection(T, Ids)
  BY <1>2, Fun_IsInj
<1> QED
  BY <1>3, <1>4, FS_Injection

\* A row that a policy condemns after rows went away was condemned before.
LEMMA ExcessShrinks ==
  ASSUME TypeOK, RowsUnique, RowsUnique', NEW d \in Devices, NEW n \in Nat,
         \A q \in backups' : q.device = d =>
           \E r \in backups : r.device = d /\ r.id = q.id /\ r.baseline = q.baseline,
         NEW q \in Excess(d, n)'
  PROVE  \E r \in Excess(d, n) : r.id = q.id
<1>1. q \in backups' /\ q.device = d /\ ~q.baseline /\ n # 0 /\ Cardinality(Newer(q)') >= n
  BY DEF Excess, Beyond, Rows
<1>2. PICK r \in backups : r.device = d /\ r.id = q.id /\ r.baseline = q.baseline
  BY <1>1
<1>3. Newer(r) \in SUBSET backups
  BY DEF Newer, Rows
<1>4. IsFiniteSet(Newer(r))
  BY <1>3, RowsFinite
<1>5. PICK T : T = Newer(q)'
  OBVIOUS
<1>6. \A t \in T : t \in backups' /\ t.device = d /\ t.id > q.id
  BY <1>1, <1>5 DEF Newer, Rows
<1>7. \A t \in T : \E s \in Newer(r) : s.id = t.id
  BY <1>2, <1>6 DEF Newer, Rows
<1>8. \A t, u \in T : t.id = u.id => t = u
  BY <1>6 DEF RowsUnique
<1>9. IsFiniteSet(T) /\ Cardinality(T) <= Cardinality(Newer(r))
  BY <1>4, <1>7, <1>8, FewerRows
<1>10. Cardinality(T) \in Nat /\ Cardinality(Newer(r)) \in Nat
  BY <1>4, <1>9, FS_CardinalityType
<1>11. Cardinality(Newer(r)) >= n
  BY <1>1, <1>5, <1>9, <1>10
<1> QED
  BY <1>1, <1>2, <1>11 DEF Excess, Beyond, Rows

LEMMA KeptStep ==
  ASSUME TypeOK, RowsUnique, RowsUnique', NEW d \in Devices, Kept(d),
         d \in alive' => d \in alive, keep'[d] = keep[d], seen'[d].settled = seen[d].settled,
         Waits(d) => Waits(d)',
         \A q \in backups' : q.device = d =>
           \E r \in backups : r.device = d /\ r.id = q.id /\ r.baseline = q.baseline,
         \A q \in backups' : Covered(d, q.id) => Covered(d, q.id)'
  PROVE  Kept(d)'
<1> SUFFICES ASSUME d \in alive', keep'[d] # None, seen'[d].settled, ~Waits(d)',
                    NEW q \in Excess(d, keep[d])'
             PROVE  Covered(d, q.id)'
  BY DEF Kept
<1>1. PICK n \in Nat : n = keep[d]
  BY PolicyAssumption DEF TypeOK
<1>2. q \in Excess(d, n)'
  BY <1>1
<1>3. PICK r \in Excess(d, n) : r.id = q.id
  BY <1>2, ExcessShrinks
<1>4. Covered(d, q.id)
  BY <1>1, <1>3 DEF Kept
<1>5. q \in backups'
  BY <1>2 DEF Excess, Beyond, Rows
<1> QED
  BY <1>4, <1>5

\* A step that leaves the clean-ups of d alone.
LEMMA CleanupsStay ==
  ASSUME NEW d,
         \A u \in Workers : worker[u].device = d /\ worker[u].pc \in {"prune", "delete"} =>
           worker'[u] = worker[u]
  PROVE  /\ Waits(d) => Waits(d)'
         /\ \A id : Covered(d, id) => Covered(d, id)'
BY DEF Waits, Covered

\* A device whose clean-up was overtaken or cut short.
LEMMA Unsettled == ASSUME NEW d, ~seen'[d].settled PROVE Kept(d)'
BY DEF Kept

LEMMA KeptCapture ==
  ASSUME IInv, RowsUnique, RowsUnique', RetentionInv, NEW w \in Workers, Capture(w)
  PROVE  RetentionInv'
<1> SUFFICES ASSUME NEW d \in Devices PROVE Kept(d)'
  BY DEF RetentionInv
<1>1. TypeOK /\ Kept(d)
  BY DEF IInv, RetentionInv
<1>2. CASE CommitBackup(w) /\ worker[w].device = d
  <2>1. Waits(d)'
    BY <1>1, <1>2, CommitThread DEF Waits
  <2> QED
    BY <2>1 DEF Kept
<1>3. CASE CommitBackup(w) /\ worker[w].device # d
  <2>1. /\ worker[w].pc = "written" /\ alive' = alive /\ keep' = keep /\ Remember(NewRow(w))
        /\ backups' = backups \cup {NewRow(w)} /\ NewRow(w).device # d
    BY <1>3 DEF CommitBackup, NewRow
  <2>2. NewRow(w) \in Backup
    BY <1>1, <2>1, NewRowType DEF TypeOK
  <2>3. seen'[d] = seen[d]
    BY <1>1, <2>1, <2>2, RememberPast
  <2>4. Alone(w)
    BY <1>1, <1>3, CommitThread
  <2>5. (Waits(d) => Waits(d)') /\ \A id : Covered(d, id) => Covered(d, id)'
    BY <2>1, <2>4, CleanupsStay DEF Alone
  <2> QED
    BY <1>1, <2>1, <2>3, <2>5, KeptStep
<1>4. CASE ~CommitBackup(w)
  <2>1. UNCHANGED <<alive, keep, seen, backups>>
    BY <1>4 DEF Capture, EmptyConfig, Compare, WriteFile, CaptureFails, history
  <2>2. \A u \in Workers : worker[u].pc \in {"prune", "delete"} => worker'[u] = worker[u]
    BY ZenonT(40), <1>1, <1>4, CompareThread, WriteThread, FailThread
    DEF Capture, EmptyConfig, Compare, WriteFile, CaptureFails, Alone, Ends
  <2>3. (Waits(d) => Waits(d)') /\ \A id : Covered(d, id) => Covered(d, id)'
    BY <2>2, CleanupsStay
  <2> QED
    BY <1>1, <2>1, <2>3, KeptStep
<1> QED
  BY <1>2, <1>3, <1>4

LEMMA KeptPrune ==
  ASSUME IInv, RowsUnique, RowsUnique', RetentionInv, NEW w \in Workers, Prune(w)
  PROVE  RetentionInv'
<1> SUFFICES ASSUME NEW d \in Devices PROVE Kept(d)'
  BY DEF RetentionInv
<1>1. TypeOK /\ Kept(d)
  BY DEF IInv, RetentionInv
<1>2. worker[w] \in WorkerState
  BY <1>1, ThreadRecord
<1>3. CASE SelectVictims(w)
  <2>1. PICK cutoff \in 0 .. tick :
          /\ \/ Condemned(worker[w].device, cutoff) = {} /\ worker'[w] = Idle
             \/ /\ worker'[w].pc = "delete" /\ worker'[w].device = worker[w].device
                /\ worker'[w].victims = {r.id : r \in Condemned(worker[w].device, cutoff)}
          /\ Alone(w)
    BY <1>1, <1>3, SelectThread
  <2>2. /\ worker[w].pc = "prune" /\ UNCHANGED <<alive, keep, backups>>
        /\ Settle(worker[w].device, TRUE) /\ worker[w].device \in Devices
    BY <1>2, <1>3 DEF SelectVictims, WorkerState
  <2>3. CASE worker[w].device = d
    <3> SUFFICES ASSUME keep'[d] # None, NEW q \in Excess(d, keep[d])' PROVE Covered(d, q.id)'
      BY <2>2 DEF Kept
    <3>1. PICK n \in Nat : n = keep[d]
      BY <1>1, <2>2, PolicyAssumption DEF TypeOK
    <3>2. q \in Excess(d, n)'
      BY <2>2, <3>1
    <3>3. PICK r \in Excess(d, n) : r.id = q.id
      BY <1>1, <2>2, <3>2, ExcessShrinks
    <3>4. Condemned(d, cutoff) = Excess(d, n)
      BY <2>2, <3>1 DEF Condemned
    <3> QED
      BY <2>1, <2>3, <3>3, <3>4 DEF Covered
  <2>4. CASE worker[w].device # d
    <3>1. seen'[d] = seen[d]
      BY <1>1, <2>2, <2>4, SettlePast
    <3>2. (Waits(d) => Waits(d)') /\ \A id : Covered(d, id) => Covered(d, id)'
      BY <2>1, <2>4, CleanupsStay DEF Alone
    <3> QED
      BY <1>1, <2>2, <3>1, <3>2, KeptStep
  <2> QED
    BY <2>3, <2>4
<1>4. CASE DeleteVictims(w)
  <2>1. /\ worker[w].pc = "delete" /\ UNCHANGED <<alive, keep, seen>>
        /\ backups' = {r \in backups : r.id \notin worker[w].victims}
    BY <1>4 DEF DeleteVictims, history
  <2>2. Alone(w)
    BY <1>1, <1>4, DeleteThread
  <2>3. Waits(d) => Waits(d)'
    BY <2>1, <2>2 DEF Waits, Alone
  <2>4. \A q \in backups' : Covered(d, q.id) => Covered(d, q.id)'
    BY <2>1, <2>2 DEF Covered, Alone
  <2> QED
    BY <1>1, <2>1, <2>3, <2>4, KeptStep
<1>5. ASSUME NEW path \in Paths, CheckPath(w, path) \/ Unlink(w) PROVE Kept(d)'
  <2>1. worker[w].pc = "unlink" /\ UNCHANGED <<alive, keep, seen, backups>>
    BY <1>5 DEF CheckPath, Unlink, history
  <2>2. Alone(w)
    BY <1>1, <1>5, CheckThread, UnlinkThread
  <2>3. (Waits(d) => Waits(d)') /\ \A id : Covered(d, id) => Covered(d, id)'
    BY <2>1, <2>2, CleanupsStay DEF Alone
  <2> QED
    BY <1>1, <2>1, <2>3, KeptStep
<1>6. CASE Unlink(w)
  BY <1>1, <1>5, <1>6, UnlinkThread
<1>7. CASE PruneFails(w)
  <2>1. /\ UNCHANGED <<alive, keep, backups>> /\ Settle(worker[w].device, FALSE)
        /\ worker[w].device \in Devices
    BY <1>2, <1>7 DEF PruneFails, WorkerState
  <2>2. Alone(w)
    BY <1>1, <1>7, FailThread DEF Ends
  <2>3. CASE worker[w].device = d
    BY <1>1, <2>1, <2>3, SettlePast, Unsettled
  <2>4. CASE worker[w].device # d
    <3>1. seen'[d] = seen[d]
      BY <1>1, <2>1, <2>4, SettlePast
    <3>2. (Waits(d) => Waits(d)') /\ \A id : Covered(d, id) => Covered(d, id)'
      BY <2>2, <2>4, CleanupsStay DEF Alone
    <3> QED
      BY <1>1, <2>1, <3>1, <3>2, KeptStep
  <2> QED
    BY <2>3, <2>4
<1> QED
  BY <1>3, <1>4, <1>5, <1>6, <1>7 DEF Prune

LEMMA KeptRequest ==
  ASSUME IInv, RowsUnique, RowsUnique', RetentionInv, Request
  PROVE  RetentionInv'
<1> SUFFICES ASSUME NEW d \in Devices PROVE Kept(d)'
  BY DEF RetentionInv
<1>1. TypeOK /\ Kept(d)
  BY DEF IInv, RetentionInv
<1>2. worker' = worker
  BY DEF Request, ReadBaseline, SetBaseline, Review, SetRetention, DeleteDevice
<1>3. (Waits(d) => Waits(d)') /\ \A id : Covered(d, id) => Covered(d, id)'
  BY <1>2, CleanupsStay
<1>4. ASSUME NEW o \in Operators, ReadBaseline(o) PROVE Kept(d)'
  BY <1>1, <1>3, <1>4, KeptStep DEF ReadBaseline, history
<1>5. ASSUME NEW o \in Operators, SetBaseline(o) PROVE Kept(d)'
  <2>1. /\ UNCHANGED <<alive, keep>> /\ Settle(operator[o].device, FALSE)
        /\ operator[o].device \in Devices
    BY <1>1, <1>5 DEF SetBaseline, TypeOK, OperatorState
  <2>2. CASE operator[o].device = d
    BY <1>1, <2>1, <2>2, SettlePast, Unsettled
  <2>3. CASE operator[o].device # d
    <3>1. seen'[d] = seen[d]
      BY <1>1, <2>1, <2>3, SettlePast
    <3>2. \A q \in backups' : q.device = d => q \in backups
      BY <1>1, <1>5, <2>3, MarkedRows DEF Like
    <3> QED
      BY <1>1, <1>3, <2>1, <3>1, <3>2, KeptStep
  <2> QED
    BY <2>2, <2>3
<1>6. ASSUME NEW id \in Ids, NEW verdict \in Verdicts, Review(id, verdict) PROVE Kept(d)'
  <2>1. PICK r \in backups, q \in backups' :
          Like(q, r) /\ q.baseline = r.baseline /\ backups' = (backups \ {r}) \cup {q}
    BY <1>1, <1>6, ReviewedRows
  <2>2. \A p \in backups' : p.device = d =>
          \E s \in backups : s.device = d /\ s.id = p.id /\ s.baseline = p.baseline
    BY <2>1 DEF Like
  <2> QED
    BY <1>1, <1>3, <1>6, <2>2, KeptStep DEF Review, history
<1>7. ASSUME NEW e \in Devices, NEW n \in Policies \cup {None}, SetRetention(e, n) PROVE Kept(d)'
  <2>1. UNCHANGED <<alive, backups>> /\ keep' = [keep EXCEPT ![e] = n] /\ Settle(e, FALSE)
    BY <1>7 DEF SetRetention
  <2>2. CASE e = d
    BY <1>1, <2>1, <2>2, SettlePast, Unsettled
  <2>3. CASE e # d
    <3>1. seen'[d] = seen[d] /\ keep'[d] = keep[d]
      BY <1>1, <2>1, <2>3, SettlePast DEF TypeOK
    <3> QED
      BY <1>1, <1>3, <2>1, <3>1, KeptStep
  <2> QED
    BY <2>2, <2>3
<1>8. ASSUME NEW e \in Devices, DeleteDevice(e) PROVE Kept(d)'
  <2>1. CASE e = d
    BY <1>8, <2>1 DEF DeleteDevice, Kept
  <2>2. CASE e # d
    BY <1>1, <1>3, <1>8, <2>2, KeptStep DEF DeleteDevice, TypeOK, history
  <2> QED
    BY <2>1, <2>2
<1> QED
  BY <1>4, <1>5, <1>6, <1>7, <1>8 DEF Request

LEMMA KeptInvariant == IInv /\ RowsUnique /\ RetentionInv /\ [Next]_vars => RetentionInv'
<1> SUFFICES ASSUME IInv, RowsUnique, RetentionInv, [Next]_vars PROVE RetentionInv'
  OBVIOUS
<1>1. RowsUnique' /\ TypeOK
  BY UniqueStep DEF IInv
<1>2. CASE Crash
  <2>1. \A d \in Devices : ~seen'[d].settled
    BY <1>1, <1>2 DEF Crash, TypeOK
  <2> QED
    BY <2>1, Unsettled DEF RetentionInv
<1>3. CASE UNCHANGED vars
  <2>1. UNCHANGED <<alive, keep, seen, backups, worker>>
    BY <1>3 DEF vars, history
  <2>2. \A d \in Devices :
          (Waits(d) => Waits(d)') /\ \A id : Covered(d, id) => Covered(d, id)'
    BY <2>1, CleanupsStay
  <2> QED
    BY <1>1, <2>1, <2>2, KeptStep DEF RetentionInv
<1> QED
  BY <1>1, <1>2, <1>3, KeptCapture, KeptPrune, KeptRequest DEF Next

\* Once the captures of a device have cleaned up, its history obeys the count
\* policy whatever the order in which overlapping captures stored their rows and
\* chose their victims, counted from the last clean-up that the policy, the
\* baseline or a failure did not overtake (prune_old_backups).
THEOREM RetentionIsObeyed == Spec => []RetentionObeyed
<1>1. Init => RetentionInv
  <2> SUFFICES ASSUME Init, NEW d \in Devices PROVE Kept(d)
    BY DEF RetentionInv
  <2>1. Excess(d, keep[d]) = {}
    BY DEF Init, Excess, Beyond, Rows
  <2> QED
    BY <2>1 DEF Kept
<1>2. Init => RowsUnique
  BY DEF Init, RowsUnique
<1>3. TypeOK /\ RetentionInv => RetentionObeyed
  <2> SUFFICES ASSUME TypeOK, RetentionInv, NEW d \in alive, keep[d] # None, seen[d].settled,
                      \A w \in Workers : worker[w].device = d => worker[w].pc \notin {"prune", "delete"}
               PROVE  Excess(d, keep[d]) = {}
    BY DEF RetentionObeyed
  <2>1. Kept(d)
    BY DEF TypeOK, RetentionInv
  <2> QED
    BY <2>1 DEF Kept, Waits, Covered
<1>4. IInv => TypeOK
  BY DEF IInv
<1> QED
  BY <1>1, <1>2, <1>3, <1>4, InitIInv, StepIInv, UniqueStep, KeptInvariant, PTL DEF Spec

=============================================================================
