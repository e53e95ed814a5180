----------------------- MODULE IntegrationSync_proofs -----------------------
(***************************************************************************)
(* What IntegrationSync keeps for any threads, machines, contents, numbers *)
(* of attempts and runs, and that its stored runs implement SyncRecord.    *)
(***************************************************************************)
EXTENDS IntegrationSync, FiniteSetTheorems, TLAPS

Busy(w) == worker[w].pc \in {"attempt", "fetch", "apply", "loaded"}

\* The lock is held exactly by the thread that is past it.
Held == \A w \in Workers : Busy(w) <=> lock = w

\* Runs are numbered as they start.
Numbered == \E n \in 0 .. MaxRuns : Started = 1 .. n

\* The run of a thread that is past the lock is open, and its attempt counts on
\* from the one stored.
Attended(w) ==
  Busy(w) =>
    /\ worker[w].run \in Started
    /\ runs[worker[w].run].status \in {"running", "retrying"}
    /\ worker[w].pc # "attempt" => runs[worker[w].run].status = "running"
    /\ worker[w].attempt \in runs[worker[w].run].attempt .. runs[worker[w].run].max

\* What a thread has fetched was true when it was fetched; under the lock
\* nothing newer is applied meanwhile.
Fetched(w) ==
  /\ worker[w].pc \in {"fetched", "apply", "loaded"} <=> worker[w].inventory # None
  /\ worker[w].inventory # None =>
       /\ worker[w].inventory.at <= version
       /\ worker[w].inventory.complete => Vms \ worker[w].inventory.seen \subseteq gone
       /\ worker[w].scheduled => Busy(w) /\ worker[w].inventory.at >= applied

\* No bound row appears between a load and its commit.
LoadedAll(w) ==
  worker[w].pc = "loaded" =>
    /\ worker[w].loaded \in [Vms -> Row \cup {None}]
    /\ \A v \in Vms : vms[v] # None => worker[w].loaded[v] # None

Absences ==
  /\ \A v \in Vms : source[v] = Absent => v \in gone
  /\ applied <= version

LockInv == Held /\ Numbered /\ RunsAreAttended /\ \A w \in Workers : Attended(w)

DataInv == Absences /\ StaleWasMissing /\ \A w \in Workers : Fetched(w) /\ LoadedAll(w)

IInv == TypeOK /\ LockInv /\ DataInv

-----------------------------------------------------------------------------
(* Threads and runs                                                         *)

LEMMA Becomes ==
  ASSUME TypeOK, NEW w \in Workers, NEW s, Become(w, s)
  PROVE  /\ worker'[w] = s
         /\ \A u \in Workers : u # w => worker'[u] = worker[u]
         /\ s \in WorkerState => worker' \in [Workers -> WorkerState]
BY DEF Become, TypeOK

LEMMA IdleTyped == Idle \in WorkerState /\ Idle.pc = "idle" /\ Idle.inventory = None /\ Idle.run = 0
BY BoundAssumption, TriesAssumption DEF Idle, WorkerState

\* A new run is the one after those there are.
LEMMA Counted ==
  ASSUME Numbered
  PROVE  /\ Cardinality(Started) \in 0 .. MaxRuns
         /\ Started = 1 .. Cardinality(Started)
<1>1. PICK n \in 0 .. MaxRuns : Started = 1 .. n
  BY DEF Numbered
<1>2. Cardinality(1 .. n) = n
  BY <1>1, BoundAssumption, FS_Interval
<1> QED
  BY <1>1, <1>2

LEMMA NewRunStarts ==
  ASSUME TypeOK, Numbered, NEW w \in Workers, NEW max \in 1 .. Tries, NewRun(w, max)
  PROVE  \E i \in RunIds :
           /\ i = Cardinality(Started) + 1 /\ i \notin Started /\ i \in 0 .. MaxRuns
           /\ runs' \in [RunIds -> RunRow \cup {None}]
           /\ runs'[i] = [status |-> "running", attempt |-> 1, max |-> max]
           /\ runs'[i] \in RunRow
           /\ \A j \in RunIds : j # i => runs'[j] = runs[j]
           /\ Started' = 1 .. i
           /\ lock' = w
<1> DEFINE i == Cardinality(Started) + 1
<1>1. i \in RunIds /\ i \notin Started /\ Started = 1 .. (i - 1) /\ i \in 0 .. MaxRuns
  BY Counted, BoundAssumption DEF NewRun, RunIds
<1> DEFINE new == [status |-> "running", attempt |-> 1, max |-> max]
<1>2. new \in RunRow /\ new # None
  BY TriesAssumption, RowAssumption DEF RunRow
<1>3. runs' = [runs EXCEPT ![i] = new] /\ lock' = w
  BY DEF NewRun
<1> HIDE DEF new
<1>4. /\ runs' \in [RunIds -> RunRow \cup {None}]
      /\ runs'[i] = new
      /\ \A j \in RunIds : j # i => runs'[j] = runs[j]
  BY <1>1, <1>2, <1>3 DEF TypeOK
<1>5. Started' = Started \cup {i}
  BY <1>1, <1>2, <1>4 DEF Started
<1>6. Started' = 1 .. i
  <2>1. ASSUME NEW n \in Nat, n >= 1 PROVE (1 .. (n - 1)) \cup {n} = 1 .. n
    <3>1. \A x : x \in 1 .. n <=> x \in 1 .. (n - 1) \/ x = n
      BY <2>1, SMT
    <3> QED
      BY <3>1
  <2>2. Started' = (1 .. (i - 1)) \cup {i}
    BY <1>1, <1>5
  <2>3. i >= 1 /\ i \in Nat
    BY <1>1 DEF RunIds
  <2> HIDE DEF i
  <2> QED
    BY <2>1, <2>2, <2>3
<1> QED
  BY <1>1, <1>2, <1>3, <1>4, <1>6 DEF new

-----------------------------------------------------------------------------
(* What a fetch returns and what a commit stores                            *)

LEMMA InventoryTrue ==
  ASSUME TypeOK, Absences, NEW inventory \in Inventories
  PROVE  /\ inventory \in Inventory /\ inventory.at = version
         /\ inventory.complete => Vms \ inventory.seen \subseteq gone
<1> DEFINE present == {v \in Vms : source[v] # Absent}
           listing(seen, complete) ==
             [value |-> [v \in Vms |-> IF v \in seen /\ source[v] # Off THEN source[v] ELSE None],
              seen |-> seen, complete |-> complete, at |-> version]
<1>1. PICK seen \in SUBSET present, complete \in BOOLEAN :
        inventory = listing(seen, complete) /\ (complete => seen = present)
  BY DEF Inventories
<1>2. [v \in Vms |-> IF v \in seen /\ source[v] # Off THEN source[v] ELSE None]
        \in [Vms -> Values \cup {None}]
  BY <1>1 DEF TypeOK
<1>3. inventory \in Inventory
  BY <1>1, <1>2 DEF Inventory, TypeOK
<1>4. Vms \ present \subseteq gone
  BY DEF Absences
<1> QED
  BY <1>1, <1>3, <1>4

\* A row whose columns are replaced is a row.
LEMMA RowColumns ==
  ASSUME NEW row \in Row, NEW value \in Values \cup Edits,
         NEW state \in {"active", "stale", "stale_confirmed"}, NEW since \in 0 .. MaxRuns
  PROVE  /\ [row EXCEPT !.value = value, !.state = state, !.since = since] \in Row
         /\ [row EXCEPT !.value = value, !.state = state, !.since = since].state = state
BY DEF Row

LEMMA ListedRow ==
  ASSUME TypeOK, NEW w \in Workers, LoadedAll(w), worker[w].pc = "loaded",
         worker[w].inventory \in Inventory,
         NEW v \in Vms, worker[w].inventory.value[v] # None
  PROVE  /\ Listed(w, v) \in Row \cup {None}
         /\ Listed(w, v) # None /\ Listed(w, v).state = "stale" =>
              vms[v] # None /\ vms[v].state = "stale"
<1> DEFINE now == vms[v]
           loaded == worker[w].loaded[v]
           wanted == worker[w].inventory.value[v]
           fresh == [value |-> wanted, locked |-> FALSE, state |-> "active", since |-> 0]
           value == Changed(now.value, loaded.value, Effective(loaded, wanted))
           state == Changed(now.state, loaded.state, "active")
           since == Changed(now.since, loaded.since, 0)
           updated == [now EXCEPT !.value = value, !.state = state, !.since = since]
<1>1. wanted \in Values
  BY DEF Inventory
<1>2. fresh \in Row /\ fresh.state = "active"
  BY <1>1, BoundAssumption DEF Row
<1>3. ASSUME now # None PROVE updated \in Row /\ (updated.state = "stale" => now.state = "stale")
  <2>1. now \in Row /\ loaded \in Row
    BY <1>3 DEF TypeOK, LoadedAll
  <2>2. value \in Values \cup Edits
    BY <1>1, <2>1 DEF Changed, Effective, Row
  <2>3. state \in {"active", "stale", "stale_confirmed"} /\ (state = "stale" => now.state = "stale")
    BY <2>1 DEF Changed, Row
  <2>4. since \in 0 .. MaxRuns
    BY <2>1, BoundAssumption DEF Changed, Row
  <2> HIDE DEF now, loaded, value, state, since
  <2> QED
    BY <2>1, <2>2, <2>3, <2>4, RowColumns
<1>4. Listed(w, v) = IF now # None THEN IF worker[w].mode.update THEN updated ELSE now
                     ELSE IF loaded = None /\ v \in worker[w].conflicts THEN None
                     ELSE fresh
  BY DEF Listed
<1>5. now \in Row \cup {None}
  BY DEF TypeOK
<1> HIDE DEF now, loaded, fresh, updated
<1>6. Listed(w, v) \in Row \cup {None} /\
        (Listed(w, v) # None /\ Listed(w, v).state = "stale" => now # None /\ now.state = "stale")
  BY <1>2, <1>3, <1>4, <1>5
<1> QED
  BY <1>6 DEF now

LEMMA MissingRow ==
  ASSUME TypeOK, NEW w \in Workers, NEW v \in Vms, vms[v] # None,
         worker[w].pc = "loaded", LoadedAll(w)
  PROVE  Missing(w, v) \in Row
<1> DEFINE now == vms[v]
           loaded == worker[w].loaded[v]
           state == IF loaded.state = "stale_confirmed" THEN now.state
                    ELSE Changed(now.state, loaded.state, "stale")
           since == IF loaded.since = 0 THEN worker[w].run ELSE now.since
<1>1. now \in Row /\ loaded \in Row
  BY DEF TypeOK, LoadedAll
<1>2. state \in {"active", "stale", "stale_confirmed"}
  BY <1>1 DEF Changed, Row
<1>3. since \in 0 .. MaxRuns
  BY <1>1 DEF Row, TypeOK, WorkerState
<1>4. now.value \in Values \cup Edits
  BY <1>1 DEF Row
<1>5. Missing(w, v) = [now EXCEPT !.value = now.value, !.state = state, !.since = since]
  BY <1>1 DEF Missing, Row
<1> HIDE DEF now, state, since
<1>6. [now EXCEPT !.value = now.value, !.state = state, !.since = since] \in Row
  BY <1>1, <1>2, <1>3, <1>4 DEF Row
<1> QED
  BY <1>5, <1>6

LEMMA ResultTyped ==
  ASSUME TypeOK, NEW w \in Workers, worker[w].pc = "loaded", LoadedAll(w), Fetched(w),
         StaleWasMissing
  PROVE  /\ Result(w) \in [Vms -> Row \cup {None}]
         /\ \A v \in Vms : Result(w)[v] # None /\ Result(w)[v].state = "stale" => v \in gone
<1>1. worker[w].inventory \in Inventory
  BY DEF Fetched, TypeOK, WorkerState
<1>2. ASSUME NEW v \in Vms
      PROVE  /\ Result(w)[v] \in Row \cup {None}
             /\ Result(w)[v] # None /\ Result(w)[v].state = "stale" => v \in gone
  <2>1. CASE v \in worker[w].mode.chosen /\ worker[w].inventory.value[v] # None
    <3>1. Result(w)[v] = Listed(w, v)
      BY <2>1 DEF Result
    <3> QED
      BY <1>1, <2>1, <3>1, ListedRow DEF StaleWasMissing
  <2>2. CASE ~(v \in worker[w].mode.chosen /\ worker[w].inventory.value[v] # None)
             /\ vms[v] # None /\ Lacks(w, v)
    <3>1. Result(w)[v] = Missing(w, v)
      BY <2>2 DEF Result
    <3>2. v \in gone
      BY <2>2 DEF Lacks, Fetched
    <3> QED
      BY <2>2, <3>1, <3>2, MissingRow
  <2>3. CASE ~(v \in worker[w].mode.chosen /\ worker[w].inventory.value[v] # None)
             /\ ~(vms[v] # None /\ Lacks(w, v))
    <3>1. Result(w)[v] = vms[v]
      BY <2>3 DEF Result
    <3> QED
      BY <3>1 DEF StaleWasMissing, TypeOK
  <2> QED
    BY <2>1, <2>2, <2>3
<1>3. Result(w) = [v \in Vms |-> Result(w)[v]]
  BY DEF Result
<1> QED
  BY <1>2, <1>3

\* What an operator does leaves threads, runs and the source alone.
LEMMA OperatorsLeave ==
  ASSUME NEW v \in Vms, Operate(v)
  PROVE  UNCHANGED <<external, runs, lock, worker, history>>
<1>1. (\E value \in Edits, locked \in BOOLEAN : Edit(v, value, locked)) => NotSynchronising
  BY DEF Edit
<1>2. Confirm(v) \/ Restore(v) => NotSynchronising
  BY DEF Confirm, Restore
<1>3. Detach(v) \/ Delete(v) => NotSynchronising
  BY DEF Detach, Delete
<1> QED
  BY <1>1, <1>2, <1>3 DEF Operate, NotSynchronising

\* It touches the row of one machine, and binds none.
LEMMA OperatorsTouch ==
  ASSUME TypeOK, NEW v \in Vms, Operate(v)
  PROVE  /\ \A u \in Vms : u # v => vms'[u] = vms[u]
         /\ vms'[v] # None => vms[v] # None
<1>1. (\E value \in Edits, locked \in BOOLEAN : Edit(v, value, locked)) \/ Confirm(v) \/ Restore(v)
        => vms[v] # None /\ \E row : Write(v, row)
  BY DEF Edit, Confirm, Restore
<1>2. Detach(v) \/ Delete(v) => Write(v, None) \/ UNCHANGED vms
  BY DEF Detach, Delete
<1>3. \A row : Write(v, row) => vms'[v] = row /\ \A u \in Vms : u # v => vms'[u] = vms[u]
  BY DEF Write, TypeOK
<1> QED
  BY <1>1, <1>2, <1>3 DEF Operate

-----------------------------------------------------------------------------
(* Types                                                                    *)

LEMMA TypeInitially == Init => TypeOK
<1> SUFFICES ASSUME Init PROVE TypeOK
  OBVIOUS
<1>1. vms \in [Vms -> Row \cup {None}]
  <2>1. [value : Values, locked : {FALSE}, state : {"active"}, since : {0}] \subseteq Row
    <3>1. 0 \in 0 .. MaxRuns
      BY BoundAssumption
    <3>2. ASSUME NEW row \in [value : Values, locked : {FALSE}, state : {"active"}, since : {0}]
          PROVE  row \in Row
      BY <3>1 DEF Row
    <3> QED
      BY <3>2
  <2> QED
    BY <2>1 DEF Init
<1>2. worker \in [Workers -> WorkerState]
  BY IdleTyped DEF Init
<1> QED
  BY <1>1, <1>2, BoundAssumption DEF Init, TypeOK

\* The columns of a run that a step of its thread writes.
Updates(i, status, attempt) ==
  \/ runs' = [runs EXCEPT ![i].status = status, ![i].attempt = attempt]
  \/ runs' = [runs EXCEPT ![i].status = status] /\ attempt = runs[i].attempt

LEMMA RunColumns ==
  ASSUME TypeOK, NEW i \in Started, NEW attempt \in 1 .. Tries,
         NEW status \in {"running", "retrying", "success", "failed"},
         Updates(i, status, attempt)
  PROVE  /\ runs' \in [RunIds -> RunRow \cup {None}]
         /\ i \in RunIds /\ runs'[i].status = status /\ runs'[i].attempt = attempt
         /\ runs'[i].max = runs[i].max
         /\ \A j \in RunIds : j # i => runs'[j] = runs[j]
         /\ runs[i] \in RunRow
         /\ Started' = Started
<1>1. i \in RunIds /\ runs[i] \in RunRow
  BY DEF Started, TypeOK
<1> DEFINE new == [runs[i] EXCEPT !.status = status, !.attempt = attempt]
<1>2. new \in RunRow /\ new.status = status /\ new.attempt = attempt /\ new.max = runs[i].max
  BY <1>1 DEF RunRow
<1>3. runs' = [runs EXCEPT ![i] = new]
  BY <1>1 DEF RunRow, TypeOK, Updates
<1> HIDE DEF new
<1>4. /\ runs' \in [RunIds -> RunRow \cup {None}]
      /\ runs'[i] = new
      /\ \A j \in RunIds : j # i => runs'[j] = runs[j]
  BY <1>1, <1>2, <1>3 DEF TypeOK
<1>5. Started' = Started
  BY <1>1, <1>2, <1>4, RowAssumption DEF Started
<1> QED
  BY <1>1, <1>2, <1>4, <1>5

\* The counts of a thread past the lock, which are in range.
LEMMA Counts ==
  ASSUME TypeOK, LockInv, NEW w \in Workers, Busy(w)
  PROVE  /\ worker[w].run \in Started /\ worker[w].run \in RunIds
         /\ runs[worker[w].run] \in RunRow
         /\ worker[w].attempt \in 1 .. Tries
         /\ ~Last(w) => worker[w].attempt + 1 \in 1 .. Tries
                        /\ worker[w].attempt + 1 <= runs[worker[w].run].max
         /\ Last(w) <=> worker[w].attempt = runs[worker[w].run].max
         /\ lock = w
<1>1. /\ worker[w].run \in Started /\ worker[w].run \in RunIds
      /\ worker[w].attempt \in runs[worker[w].run].attempt .. runs[worker[w].run].max
      /\ lock = w
  BY DEF LockInv, Attended, Held, Started
<1>2. runs[worker[w].run] \in RunRow
  BY <1>1 DEF TypeOK, Started
<1>3. runs[worker[w].run].attempt \in 1 .. Tries /\ runs[worker[w].run].max \in 1 .. Tries
  BY <1>2 DEF RunRow
<1> QED
  BY <1>1, <1>2, <1>3, TriesAssumption DEF Last

LEMMA FreshTyped ==
  ASSUME TypeOK, NEW mode \in Modes \cup {Full}, NEW inventory \in Inventory \cup {None},
         NEW pc \in {"fetched", "attempt"}, NEW scheduled \in BOOLEAN,
         NEW run \in 0 .. MaxRuns, NEW attempt \in 0 .. Tries
  PROVE  [Idle EXCEPT !.pc = pc, !.scheduled = scheduled, !.mode = mode, !.inventory = inventory,
                      !.run = run, !.attempt = attempt] \in WorkerState
BY DEF Idle, WorkerState

LEMMA TypeStep ==
  ASSUME IInv, NEW w \in Workers, Step(w) \/ RunScheduledSync(w) \/ \E m \in Modes : FetchFirst(w, m)
  PROVE  TypeOK'
<1>1. TypeOK /\ LockInv /\ Absences /\ worker[w] \in WorkerState /\ Numbered
  BY DEF IInv, DataInv, LockInv, TypeOK
<1>2. ASSUME NEW m \in Modes, FetchFirst(w, m) PROVE TypeOK'
  <2>1. PICK inventory \in Inventories :
          Become(w, [Idle EXCEPT !.pc = "fetched", !.mode = m, !.inventory = inventory])
    BY <1>2 DEF FetchFirst
  <2>2. [Idle EXCEPT !.pc = "fetched", !.mode = m, !.inventory = inventory] \in WorkerState
    BY <1>1, InventoryTrue, IdleTyped DEF WorkerState, Idle
  <2> QED
    BY <1>1, <1>2, <2>1, <2>2, Becomes DEF FetchFirst, TypeOK, external, history
<1>3. CASE RunScheduledSync(w)
  <2>1. Tries \in 1 .. Tries /\ NewRun(w, Tries)
    BY <1>3, TriesAssumption DEF RunScheduledSync
  <2>2. /\ runs' \in [RunIds -> RunRow \cup {None}] /\ lock' = w
        /\ Cardinality(Started) + 1 \in 0 .. MaxRuns
    BY <1>1, <2>1, NewRunStarts
  <2>3. 1 \in 0 .. Tries
    BY TriesAssumption
  <2> DEFINE new == [Idle EXCEPT !.pc = "attempt", !.scheduled = TRUE, !.mode = Full, !.attempt = 1,
                                 !.run = Cardinality(Started) + 1]
  <2>4. new \in WorkerState
    BY <2>2, <2>3, IdleTyped DEF WorkerState, Idle
  <2>5. Become(w, new)
    BY <1>3 DEF RunScheduledSync
  <2> HIDE DEF new
  <2> QED
    BY <1>1, <1>3, <2>2, <2>4, <2>5, Becomes DEF RunScheduledSync, TypeOK, external, history
<1>4. CASE ApplyInventory(w)
  <2>1. CASE NewRun(w, 1) /\ Become(w, [worker[w] EXCEPT !.pc = "apply", !.attempt = 1,
                                                        !.run = Cardinality(Started) + 1])
    <3>1. 1 \in 1 .. Tries
      BY TriesAssumption
    <3>2. /\ runs' \in [RunIds -> RunRow \cup {None}] /\ lock' = w
          /\ Cardinality(Started) + 1 \in 0 .. MaxRuns
      BY <1>1, <2>1, <3>1, NewRunStarts
    <3>3. 1 \in 0 .. Tries
      BY TriesAssumption
    <3>4. [worker[w] EXCEPT !.pc = "apply", !.attempt = 1, !.run = Cardinality(Started) + 1]
            \in WorkerState
      BY <1>1, <3>2, <3>3 DEF WorkerState
    <3> QED
      BY <1>1, <1>4, <2>1, <3>2, <3>4, Becomes DEF ApplyInventory, TypeOK, external, history
  <2>2. CASE Become(w, Idle) /\ UNCHANGED <<runs, lock>>
    BY <1>1, <1>4, <2>2, IdleTyped, Becomes DEF ApplyInventory, TypeOK, external, history
  <2> QED
    BY <1>4, <2>1, <2>2 DEF ApplyInventory
<1>5. CASE BeginAttempt(w)
  <2>1. Busy(w)
    BY <1>5 DEF BeginAttempt, Busy
  <2>2. runs' \in [RunIds -> RunRow \cup {None}]
    <3>1. Updates(worker[w].run, "running", worker[w].attempt)
      BY <1>5 DEF BeginAttempt, Updates
    <3>2. worker[w].run \in Started /\ worker[w].attempt \in 1 .. Tries
      BY <1>1, <2>1, Counts
    <3> QED
      BY <1>1, <3>1, <3>2, RunColumns
  <2>3. [worker[w] EXCEPT !.pc = "fetch"] \in WorkerState
    BY <1>1 DEF WorkerState
  <2> QED
    BY <1>1, <1>5, <2>2, <2>3, Becomes DEF BeginAttempt, TypeOK, external, history
<1>6. CASE Fetch(w)
  <2>1. PICK inventory \in Inventories :
          Become(w, [worker[w] EXCEPT !.pc = "apply", !.inventory = inventory])
    BY <1>6 DEF Fetch
  <2>2. [worker[w] EXCEPT !.pc = "apply", !.inventory = inventory] \in WorkerState
    BY <1>1, InventoryTrue DEF WorkerState
  <2> QED
    BY <1>1, <1>6, <2>1, <2>2, Becomes DEF Fetch, TypeOK, external, history
<1>7. CASE Load(w)
  <2>1. [worker[w] EXCEPT !.pc = "loaded", !.loaded = vms, !.conflicts = manual] \in WorkerState
    BY <1>1 DEF WorkerState, TypeOK
  <2> QED
    BY <1>1, <1>7, <2>1, Becomes DEF Load, TypeOK, external, history
<1>8. CASE ApplyCore(w)
  <2>1. Busy(w) /\ LoadedAll(w) /\ Fetched(w) /\ StaleWasMissing
    BY <1>8 DEF ApplyCore, Busy, IInv, DataInv
  <2>2. vms' \in [Vms -> Row \cup {None}]
    BY <1>1, <1>8, <2>1, ResultTyped DEF ApplyCore
  <2>3. runs[worker[w].run].attempt \in 1 .. Tries
    BY <1>1, <2>1, Counts DEF RunRow
  <2>4. runs' \in [RunIds -> RunRow \cup {None}]
    <3>1. Updates(worker[w].run, "success", runs[worker[w].run].attempt)
      BY <1>8 DEF ApplyCore, Updates
    <3>2. worker[w].run \in Started
      BY <1>1, <2>1, Counts
    <3> QED
      BY <1>1, <2>3, <3>1, <3>2, RunColumns
  <2>5. worker[w].inventory \in Inventory
    BY <1>1, <1>8, <2>1 DEF ApplyCore, Fetched, WorkerState
  <2>6. applied' \in 0 .. MaxVersions
    BY <1>1, <1>8, <2>5 DEF ApplyCore, TypeOK, Inventory
  <2> QED
    BY <1>1, <1>8, <2>2, <2>4, <2>6, IdleTyped, Becomes DEF ApplyCore, TypeOK, external
<1>9. CASE RecordFailure(w)
  <2>1. Busy(w)
    BY <1>9 DEF RecordFailure, Busy
  <2>2. worker[w].run \in Started /\ worker[w].attempt \in 1 .. Tries
    BY <1>1, <2>1, Counts
  <2>3. runs' \in [RunIds -> RunRow \cup {None}]
    <3>1. CASE Last(w)
      <4>1. Updates(worker[w].run, "failed", worker[w].attempt)
        BY <1>9, <3>1 DEF RecordFailure, Updates
      <4> QED
        BY <1>1, <2>2, <4>1, RunColumns
    <3>2. CASE ~Last(w)
      <4>1. Updates(worker[w].run, "retrying", worker[w].attempt)
        BY <1>9, <3>2 DEF RecordFailure, Updates
      <4> QED
        BY <1>1, <2>2, <4>1, RunColumns
    <3> QED
      BY <3>1, <3>2
  <2>4. CASE Last(w)
    BY <1>1, <1>9, <2>3, <2>4, IdleTyped, Becomes DEF RecordFailure, TypeOK, external, history
  <2>5. CASE ~Last(w)
    <3> DEFINE new == [worker[w] EXCEPT !.pc = "attempt", !.inventory = None, !.loaded = None,
                                        !.conflicts = {}, !.attempt = @ + 1]
    <3>1. new \in WorkerState
      <4>1. worker[w].attempt + 1 \in 0 .. Tries
        BY <1>1, <2>1, <2>5, Counts
      <4> QED
        BY <1>1, <4>1 DEF WorkerState
    <3>2. Become(w, new)
      BY <1>9, <2>5 DEF RecordFailure
    <3> HIDE DEF new
    <3> QED
      BY <1>1, <1>9, <2>3, <2>5, <3>1, <3>2, Becomes DEF RecordFailure, TypeOK, external, history
  <2> QED
    BY <2>4, <2>5
<1>10. CASE FailureIsLost(w)
  <2>1. Busy(w)
    BY <1>10 DEF FailureIsLost, Busy
  <2> QED
    <3>1. worker' \in [Workers -> WorkerState]
      BY <1>1, <1>10, IdleTyped, Becomes DEF FailureIsLost
    <3>2. worker[w].run \in RunIds
      BY <1>1, <2>1, Counts
    <3> QED
      BY <1>1, <1>10, <3>1, <3>2 DEF FailureIsLost, TypeOK, external
<1> QED
  BY <1>2, <1>3, <1>4, <1>5, <1>6, <1>7, <1>8, <1>9, <1>10 DEF Step

LEMMA TypeOthers ==
  ASSUME IInv,
         \/ \E v \in Vms : Operate(v)
         \/ \E v \in Vms, state \in Values \cup {Absent, Off} : SourceChanges(v, state)
         \/ Crash
  PROVE  TypeOK'
<1>1. TypeOK
  BY DEF IInv
<1>2. ASSUME NEW v \in Vms, Operate(v) PROVE TypeOK'
  <2>1. ASSUME NEW value \in Edits, NEW locked \in BOOLEAN, Edit(v, value, locked)
        PROVE  TypeOK'
    <3>1. vms[v] \in Row
      BY <1>1, <2>1 DEF Edit, TypeOK
    <3>2. [vms[v] EXCEPT !.value = value, !.locked = locked] \in Row
      BY <3>1 DEF Row
    <3> QED
      BY <1>1, <2>1, <3>2 DEF Edit, Write, NotSynchronising, TypeOK, external, history
  <2>2. CASE Confirm(v)
    BY <1>1, <2>2 DEF Confirm, Write, NotSynchronising, TypeOK, Row, external, history
  <2>3. CASE Restore(v)
    <3>1. 0 \in 0 .. MaxRuns
      BY BoundAssumption
    <3>2. vms[v] \in Row
      BY <1>1, <2>3 DEF Restore, TypeOK
    <3>3. [vms[v] EXCEPT !.state = "active", !.since = 0] \in Row
      BY <3>1, <3>2 DEF Row
    <3> QED
      BY <1>1, <2>3, <3>3 DEF Restore, Write, NotSynchronising, TypeOK, external, history
  <2>4. CASE Detach(v) \/ Delete(v)
    BY <1>1, <1>2, <2>4 DEF Detach, Delete, Write, NotSynchronising, TypeOK, external, history
  <2> QED
    BY <1>2, <2>1, <2>2, <2>3, <2>4 DEF Operate
<1>3. ASSUME NEW v \in Vms, NEW state \in Values \cup {Absent, Off}, SourceChanges(v, state)
      PROVE  TypeOK'
  BY <1>1, <1>3, BoundAssumption DEF SourceChanges, TypeOK
<1>4. CASE Crash
  <2>1. orphans' \subseteq RunIds
    <3>1. ASSUME NEW w \in Workers, worker[w].run # 0 PROVE worker[w].run \in RunIds
      <4>1. worker[w].run \in 0 .. MaxRuns
        BY <1>1 DEF TypeOK, WorkerState
      <4> QED
        BY <3>1, <4>1, BoundAssumption DEF RunIds
    <3>2. orphans \subseteq RunIds
      BY <1>1 DEF TypeOK
    <3> QED
      BY <1>4, <3>1, <3>2 DEF Crash
  <2> QED
    BY <1>1, <1>4, <2>1, IdleTyped DEF Crash, TypeOK, external
<1> QED
  BY <1>2, <1>3, <1>4

-----------------------------------------------------------------------------
(* The lock and the runs                                                    *)

OpenIsHeld ==
  \A i \in Started \ orphans : runs[i].status \in {"running", "retrying"} =>
    \E w \in Workers : lock = w /\ worker[w].run = i

LEMMA LockParts ==
  TypeOK /\ Held => (RunsAreAttended <=> OpenIsHeld)
BY DEF TypeOK, Held, Busy, RunsAreAttended, OpenIsHeld

LEMMA LockPartsNext ==
  TypeOK' /\ Held' => (RunsAreAttended' <=> OpenIsHeld')
BY LockParts, PTL

LEMMA LockInitially == Init => LockInv
<1> SUFFICES ASSUME Init PROVE LockInv
  OBVIOUS
<1>1. Started = {}
  BY DEF Init, Started
<1>2. \A w \in Workers : ~Busy(w) /\ lock # w
  BY IdleTyped, NoneAssumption DEF Init, Busy
<1>3. Numbered
  <2>1. 1 .. 0 = {} /\ 0 \in 0 .. MaxRuns
    BY BoundAssumption
  <2> QED
    BY <1>1, <2>1 DEF Numbered
<1> QED
  BY <1>1, <1>2, <1>3 DEF Init, LockInv, Held, RunsAreAttended, Attended

\* Steps of which the runs know nothing.
LEMMA LockQuiet ==
  ASSUME LockInv, UNCHANGED <<runs, lock, worker, orphans>>
  PROVE  LockInv'
BY DEF LockInv, Held, Numbered, Started, RunsAreAttended, Attended, Busy

\* A run begins while nobody holds the lock.
LEMMA LockTaken ==
  ASSUME TypeOK, TypeOK', LockInv, NEW w \in Workers, lock = None,
         NEW max \in 1 .. Tries, NewRun(w, max), NEW s, Become(w, s),
         s.pc \in {"attempt", "apply"}, s.run = Cardinality(Started) + 1, s.attempt = 1,
         orphans' = orphans
  PROVE  LockInv'
<1>1. PICK i \in RunIds :
        /\ i = Cardinality(Started) + 1 /\ i \notin Started /\ i \in 0 .. MaxRuns
        /\ runs'[i] = [status |-> "running", attempt |-> 1, max |-> max]
        /\ \A j \in RunIds : j # i => runs'[j] = runs[j]
        /\ Started' = 1 .. i
        /\ lock' = w
  BY NewRunStarts DEF LockInv
<1>2. worker'[w] = s /\ \A u \in Workers : u # w => worker'[u] = worker[u]
  BY Becomes
<1>3. \A u \in Workers : ~Busy(u)
  BY NoneAssumption DEF LockInv, Held
<1>4. Held'
  BY <1>1, <1>2, <1>3 DEF Held, Busy
<1>5. Numbered'
  BY <1>1 DEF Numbered
<1>6. i \in Started'
  BY <1>1, BoundAssumption DEF RunIds
<1>7. Attended(w)'
  BY <1>1, <1>2, <1>6 DEF Attended
<1>8. ASSUME NEW u \in Workers, u # w PROVE Attended(u)'
  BY <1>2, <1>3, <1>8 DEF Attended, Busy
<1>9. ASSUME NEW j \in Started' \ orphans', j # i PROVE runs'[j].status \notin {"running", "retrying"}
  <2>1. j \in Started \ orphans
    <3>1. j \in RunIds /\ runs[j] # None
      BY <1>1, <1>9 DEF Started
    <3> QED
      BY <1>9, <3>1 DEF Started
  <2>2. runs'[j] = runs[j]
    BY <1>1, <1>9, <2>1 DEF Started
  <2> QED
    BY <2>1, <2>2, NoneAssumption DEF LockInv, RunsAreAttended
<1>10. OpenIsHeld'
  BY <1>1, <1>2, <1>9 DEF OpenIsHeld
<1> QED
  BY <1>4, <1>5, <1>7, <1>8, <1>10, LockPartsNext DEF LockInv

\* The thread that holds the lock goes on with its run.
LEMMA LockGoesOn ==
  ASSUME TypeOK, TypeOK', LockInv, NEW w \in Workers, Busy(w), UNCHANGED <<lock, orphans>>,
         NEW s, Become(w, s), s.pc \in {"attempt", "fetch", "apply", "loaded"},
         s.run = worker[w].run,
         Started' = Started,
         \A j \in Started : j # s.run => runs'[j] = runs[j],
         runs'[s.run].status \in {"running", "retrying"},
         s.pc # "attempt" => runs'[s.run].status = "running",
         s.attempt \in runs'[s.run].attempt .. runs'[s.run].max
  PROVE  LockInv'
<1>1. worker'[w] = s /\ \A u \in Workers : u # w => worker'[u] = worker[u]
  BY Becomes
<1>2. lock = w /\ s.run \in Started /\ \A u \in Workers : u # w => ~Busy(u)
  BY DEF LockInv, Held, Attended
<1>3. Held'
  BY <1>1, <1>2 DEF LockInv, Held, Busy
<1>4. Numbered'
  BY DEF LockInv, Numbered
<1>5. Attended(w)'
  BY <1>1, <1>2 DEF Attended
<1>6. ASSUME NEW u \in Workers, u # w PROVE Attended(u)'
  BY <1>1, <1>2, <1>6 DEF Attended, Busy
<1>7. OpenIsHeld'
  BY <1>1, <1>2 DEF LockInv, RunsAreAttended, OpenIsHeld
<1> QED
  BY <1>3, <1>4, <1>5, <1>6, <1>7, LockPartsNext DEF LockInv

\* It gives the lock back, with its run over or lost.
LEMMA LockReleased ==
  ASSUME TypeOK, TypeOK', LockInv, NEW w \in Workers, Busy(w), lock' = None, Become(w, Idle),
         Started' = Started,
         \A j \in Started : j # worker[w].run => runs'[j] = runs[j],
         orphans \subseteq orphans',
         \/ worker[w].run \in orphans'
         \/ runs'[worker[w].run].status \notin {"running", "retrying"}
  PROVE  LockInv'
<1>1. worker'[w] = Idle /\ \A u \in Workers : u # w => worker'[u] = worker[u]
  BY Becomes
<1>2. lock = w /\ \A u \in Workers : u # w => ~Busy(u)
  BY DEF LockInv, Held
<1>3. \A u \in Workers : ~Busy(u)'
  BY <1>1, <1>2, IdleTyped DEF Busy
<1>4. Held'
  BY <1>3, NoneAssumption DEF Held
<1>5. Numbered'
  BY DEF LockInv, Numbered
<1>6. \A u \in Workers : Attended(u)'
  BY <1>3 DEF Attended, Busy
<1>7. OpenIsHeld'
  BY <1>2 DEF LockInv, RunsAreAttended, OpenIsHeld
<1> QED
  BY <1>4, <1>5, <1>6, <1>7, LockPartsNext DEF LockInv

LEMMA LockStep ==
  ASSUME IInv, TypeOK', NEW w \in Workers,
         Step(w) \/ RunScheduledSync(w) \/ \E m \in Modes : FetchFirst(w, m)
  PROVE  LockInv'
<1>1. TypeOK /\ LockInv /\ Held /\ worker[w] \in WorkerState /\ orphans \subseteq RunIds
  BY DEF IInv, LockInv, TypeOK
<1>2. ASSUME NEW m \in Modes, FetchFirst(w, m) PROVE LockInv'
  <2>1. PICK inventory \in Inventories :
          Become(w, [Idle EXCEPT !.pc = "fetched", !.mode = m, !.inventory = inventory])
    BY <1>2 DEF FetchFirst
  <2>2. worker'[w].pc = "fetched" /\ \A u \in Workers : u # w => worker'[u] = worker[u]
    <3> DEFINE new == [Idle EXCEPT !.pc = "fetched", !.mode = m, !.inventory = inventory]
    <3>1. new.pc = "fetched"
      BY DEF Idle
    <3>2. Become(w, new)
      BY <2>1
    <3> HIDE DEF new
    <3> QED
      BY <1>1, <3>1, <3>2, Becomes
  <2>3. UNCHANGED <<runs, lock, orphans>> /\ ~Busy(w) /\ ~Busy(w)'
    BY <1>2, <2>2 DEF FetchFirst, history, Busy
  <2>4. \A u \in Workers : Busy(u)' <=> Busy(u)
    BY <2>2, <2>3 DEF Busy
  <2>5. Held' /\ Numbered' /\ \A u \in Workers : Attended(u)'
    BY <1>1, <2>2, <2>3, <2>4 DEF LockInv, Held, Numbered, Attended, Started
  <2>6. OpenIsHeld'
    <3>1. \A u \in Workers : lock = u => u # w
      BY <1>1, <2>3 DEF Held
    <3> QED
      BY <1>1, <2>2, <2>3, <3>1 DEF LockInv, RunsAreAttended, OpenIsHeld, Started
  <2> QED
    BY <2>5, <2>6, LockPartsNext DEF LockInv
<1>3. CASE RunScheduledSync(w)
  <2>1. Tries \in 1 .. Tries /\ lock = None /\ NewRun(w, Tries) /\ orphans' = orphans
    BY <1>3, TriesAssumption DEF RunScheduledSync, CanAcquire, history
  <2> DEFINE new == [Idle EXCEPT !.pc = "attempt", !.scheduled = TRUE, !.mode = Full, !.attempt = 1,
                                 !.run = Cardinality(Started) + 1]
  <2>2. new.pc = "attempt" /\ new.run = Cardinality(Started) + 1 /\ new.attempt = 1
    BY DEF Idle
  <2>3. Become(w, new)
    BY <1>3 DEF RunScheduledSync
  <2> HIDE DEF new
  <2> QED
    BY <1>1, <2>1, <2>2, <2>3, LockTaken
<1>4. CASE ApplyInventory(w)
  <2>1. CASE CanAcquire(w) /\ NewRun(w, 1)
             /\ Become(w, [worker[w] EXCEPT !.pc = "apply", !.attempt = 1,
                                            !.run = Cardinality(Started) + 1])
    <3>1. 1 \in 1 .. Tries /\ lock = None /\ orphans' = orphans
      BY <1>4, <2>1, TriesAssumption DEF ApplyInventory, CanAcquire, history
    <3> DEFINE new == [worker[w] EXCEPT !.pc = "apply", !.attempt = 1,
                                        !.run = Cardinality(Started) + 1]
    <3>2. new.pc = "apply" /\ new.run = Cardinality(Started) + 1 /\ new.attempt = 1
      BY <1>1 DEF WorkerState
    <3>3. Become(w, new)
      BY <2>1
    <3> HIDE DEF new
    <3> QED
      BY <1>1, <2>1, <3>1, <3>2, <3>3, LockTaken
  <2>2. CASE Become(w, Idle) /\ UNCHANGED <<runs, lock>>
    <3>1. worker'[w] = Idle /\ \A u \in Workers : u # w => worker'[u] = worker[u]
      BY <1>1, <2>2, Becomes
    <3>2. UNCHANGED <<runs, lock, orphans>> /\ ~Busy(w) /\ ~Busy(w)'
      BY <1>4, <2>2, <3>1, IdleTyped DEF ApplyInventory, history, Busy
    <3>3. \A u \in Workers : Busy(u)' <=> Busy(u)
      BY <3>1, <3>2 DEF Busy
    <3>4. Held' /\ Numbered' /\ \A u \in Workers : Attended(u)'
      BY <1>1, <3>1, <3>2, <3>3 DEF LockInv, Held, Numbered, Attended, Started
    <3>5. OpenIsHeld'
      <4>1. \A u \in Workers : lock = u => u # w
        BY <1>1, <3>2 DEF Held
      <4> QED
        BY <1>1, <3>1, <3>2, <4>1 DEF LockInv, RunsAreAttended, OpenIsHeld, Started
    <3> QED
      BY <3>4, <3>5, LockPartsNext DEF LockInv
  <2> QED
    BY <1>4, <2>1, <2>2 DEF ApplyInventory
<1>5. ASSUME Busy(w)
      PROVE  /\ worker[w].run \in Started /\ runs[worker[w].run] \in RunRow
             /\ worker[w].attempt \in 1 .. Tries /\ lock = w
             /\ runs[worker[w].run].status \in {"running", "retrying"}
             /\ worker[w].pc # "attempt" => runs[worker[w].run].status = "running"
             /\ worker[w].attempt \in runs[worker[w].run].attempt .. runs[worker[w].run].max
  BY <1>1, <1>5, Counts DEF LockInv, Attended
<1>6. CASE BeginAttempt(w)
  <2>1. Busy(w)
    BY <1>6 DEF BeginAttempt, Busy
  <2>2. Updates(worker[w].run, "running", worker[w].attempt)
    BY <1>6 DEF BeginAttempt, Updates
  <2>3. /\ runs'[worker[w].run].status = "running"
        /\ runs'[worker[w].run].attempt = worker[w].attempt
        /\ runs'[worker[w].run].max = runs[worker[w].run].max
        /\ \A j \in RunIds : j # worker[w].run => runs'[j] = runs[j]
        /\ Started' = Started
    <3>1. TypeOK /\ worker[w].run \in Started /\ worker[w].attempt \in 1 .. Tries
      BY <1>1, <1>5, <2>1
    <3> QED
      BY <2>2, <3>1, RunColumns
  <2> DEFINE new == [worker[w] EXCEPT !.pc = "fetch"]
  <2>4. new.pc = "fetch" /\ new.run = worker[w].run /\ new.attempt = worker[w].attempt
    BY <1>1 DEF WorkerState
  <2>5. Become(w, new) /\ UNCHANGED <<lock, orphans>>
    BY <1>6 DEF BeginAttempt, history
  <2>6. new.attempt \in runs'[new.run].attempt .. runs'[new.run].max
    BY <1>5, <2>1, <2>3, <2>4
  <2>7. \A j \in Started : j # new.run => runs'[j] = runs[j]
    BY <2>3, <2>4 DEF Started
  <2> HIDE DEF new
  <2> QED
    BY <1>1, <2>1, <2>3, <2>4, <2>5, <2>6, <2>7, LockGoesOn
<1>7. CASE Fetch(w) \/ Load(w)
  <2>1. PICK s : /\ Become(w, s) /\ s.pc \in {"apply", "loaded"}
                 /\ s.run = worker[w].run /\ s.attempt = worker[w].attempt
    <3>1. CASE Fetch(w)
      <4>1. PICK inventory \in Inventories :
              Become(w, [worker[w] EXCEPT !.pc = "apply", !.inventory = inventory])
        BY <3>1 DEF Fetch
      <4> DEFINE new == [worker[w] EXCEPT !.pc = "apply", !.inventory = inventory]
      <4>2. new.pc = "apply" /\ new.run = worker[w].run /\ new.attempt = worker[w].attempt
        BY <1>1 DEF WorkerState
      <4>3. Become(w, new)
        BY <4>1
      <4> HIDE DEF new
      <4> QED
        BY <4>2, <4>3
    <3>2. CASE Load(w)
      <4> DEFINE new == [worker[w] EXCEPT !.pc = "loaded", !.loaded = vms, !.conflicts = manual]
      <4>1. new.pc = "loaded" /\ new.run = worker[w].run /\ new.attempt = worker[w].attempt
        BY <1>1 DEF WorkerState
      <4>2. Become(w, new)
        BY <3>2 DEF Load
      <4> HIDE DEF new
      <4> QED
        BY <4>1, <4>2
    <3> QED
      BY <1>7, <3>1, <3>2
  <2>2. Busy(w) /\ worker[w].pc # "attempt" /\ UNCHANGED <<runs, lock, orphans>>
    BY <1>7 DEF Fetch, Load, Busy, history
  <2>3. Started' = Started
    BY <2>2 DEF Started
  <2> QED
    BY <1>1, <1>5, <2>1, <2>2, <2>3, LockGoesOn
<1>8. CASE ApplyCore(w)
  <2>1. Busy(w)
    BY <1>8 DEF ApplyCore, Busy
  <2>2. Updates(worker[w].run, "success", runs[worker[w].run].attempt)
    BY <1>8 DEF ApplyCore, Updates
  <2>3. runs[worker[w].run].attempt \in 1 .. Tries
    BY <1>5, <2>1 DEF RunRow
  <2>4. /\ runs'[worker[w].run].status = "success"
        /\ \A j \in RunIds : j # worker[w].run => runs'[j] = runs[j]
        /\ Started' = Started
    <3>1. TypeOK /\ worker[w].run \in Started
      BY <1>1, <1>5, <2>1
    <3> QED
      BY <2>2, <2>3, <3>1, RunColumns
  <2> QED
    BY <1>1, <1>8, <2>1, <2>4, LockReleased DEF ApplyCore, Started
<1>9. CASE RecordFailure(w)
  <2>1. Busy(w)
    BY <1>9 DEF RecordFailure, Busy
  <2>2. CASE Last(w)
    <3>1. Updates(worker[w].run, "failed", worker[w].attempt)
      BY <1>9, <2>2 DEF RecordFailure, Updates
    <3>2. /\ runs'[worker[w].run].status = "failed"
          /\ \A j \in RunIds : j # worker[w].run => runs'[j] = runs[j]
          /\ Started' = Started
      <4>1. TypeOK /\ worker[w].run \in Started /\ worker[w].attempt \in 1 .. Tries
        BY <1>1, <1>5, <2>1
      <4> QED
        BY <3>1, <4>1, RunColumns
    <3> QED
      BY <1>1, <1>9, <2>1, <2>2, <3>2, LockReleased DEF RecordFailure, Started, history
  <2>3. CASE ~Last(w)
    <3>1. Updates(worker[w].run, "retrying", worker[w].attempt)
      BY <1>9, <2>3 DEF RecordFailure, Updates
    <3>2. /\ runs'[worker[w].run].status = "retrying"
          /\ runs'[worker[w].run].attempt = worker[w].attempt
          /\ runs'[worker[w].run].max = runs[worker[w].run].max
          /\ \A j \in RunIds : j # worker[w].run => runs'[j] = runs[j]
          /\ Started' = Started
      <4>1. TypeOK /\ worker[w].run \in Started /\ worker[w].attempt \in 1 .. Tries
        BY <1>1, <1>5, <2>1
      <4> QED
        BY <3>1, <4>1, RunColumns
    <3> DEFINE new == [worker[w] EXCEPT !.pc = "attempt", !.inventory = None, !.loaded = None,
                                        !.conflicts = {}, !.attempt = @ + 1]
    <3>3. new.pc = "attempt" /\ new.run = worker[w].run /\ new.attempt = worker[w].attempt + 1
      BY <1>1 DEF WorkerState
    <3>4. Become(w, new) /\ UNCHANGED <<lock, orphans>>
      BY <1>9, <2>3 DEF RecordFailure, history
    <3>5. new.attempt \in runs'[new.run].attempt .. runs'[new.run].max
      <4>1. /\ worker[w].attempt \in Nat /\ runs[worker[w].run].max \in Nat
            /\ worker[w].attempt + 1 <= runs[worker[w].run].max
        BY <1>1, <1>5, <2>1, <2>3, Counts, TriesAssumption DEF RunRow
      <4> QED
        BY <3>2, <3>3, <4>1
    <3>6. \A j \in Started : j # new.run => runs'[j] = runs[j]
      BY <3>2, <3>3 DEF Started
    <3> HIDE DEF new
    <3> QED
      BY <1>1, <2>1, <3>2, <3>3, <3>4, <3>5, <3>6, LockGoesOn
  <2> QED
    BY <2>2, <2>3
<1>10. CASE FailureIsLost(w)
  <2>1. Busy(w)
    BY <1>10 DEF FailureIsLost, Busy
  <2> QED
    BY <1>1, <1>10, <2>1, LockReleased DEF FailureIsLost, Started
<1> QED
  BY <1>2, <1>3, <1>4, <1>6, <1>7, <1>8, <1>9, <1>10 DEF Step

LEMMA LockOthers ==
  ASSUME IInv, TypeOK',
         \/ \E v \in Vms : Operate(v)
         \/ \E v \in Vms, state \in Values \cup {Absent, Off} : SourceChanges(v, state)
         \/ Crash
  PROVE  LockInv'
<1>1. TypeOK /\ LockInv
  BY DEF IInv
<1>2. ASSUME NEW v \in Vms, Operate(v) PROVE LockInv'
  <2>1. UNCHANGED <<runs, lock, worker, orphans>>
    BY <1>2, OperatorsLeave DEF history
  <2> QED
    BY <1>1, <2>1, LockQuiet
<1>3. ASSUME NEW v \in Vms, NEW state \in Values \cup {Absent, Off}, SourceChanges(v, state)
      PROVE  LockInv'
  BY <1>1, <1>3, LockQuiet DEF SourceChanges
<1>4. CASE Crash
  <2>1. \A w \in Workers : ~Busy(w)' /\ lock' # w
    BY <1>4, IdleTyped, NoneAssumption DEF Crash, Busy
  <2>2. Started' = Started /\ runs' = runs
    BY <1>4 DEF Crash, Started
  <2>3. OpenIsHeld'
    <3>1. SUFFICES ASSUME NEW i \in Started \ orphans', runs[i].status \in {"running", "retrying"}
                   PROVE  FALSE
      BY <2>2 DEF OpenIsHeld
    <3>2. orphans' = orphans \cup {worker[w].run : w \in {u \in Workers : worker[u].run # 0}}
      BY <1>4 DEF Crash
    <3>3. PICK w \in Workers : lock = w /\ worker[w].run = i
      BY <1>1, <3>1, <3>2 DEF LockInv, RunsAreAttended
    <3>4. i # 0
      BY <3>1, BoundAssumption DEF Started, RunIds
    <3> QED
      BY <3>1, <3>2, <3>3, <3>4
  <2> QED
    BY <1>1, <2>1, <2>2, <2>3, LockPartsNext DEF LockInv, Held, Numbered, Attended, Busy
<1> QED
  BY <1>2, <1>3, <1>4

-----------------------------------------------------------------------------
(* Inventories, machines and what is missing                                *)

LEMMA DataInitially == Init => DataInv
<1> SUFFICES ASSUME Init PROVE DataInv
  OBVIOUS
<1>1. Absences
  BY DEF Init, Absences
<1>2. StaleWasMissing
  BY DEF Init, StaleWasMissing
<1>3. \A w \in Workers : Fetched(w) /\ LoadedAll(w)
  BY IdleTyped DEF Init, Fetched, LoadedAll
<1> QED
  BY <1>1, <1>2, <1>3 DEF DataInv

\* A thread whose state changes while the machines and the source do not.
LEMMA DataThread ==
  ASSUME TypeOK, DataInv, NEW w \in Workers, UNCHANGED <<external, vms, applied, gone>>,
         NEW s, Become(w, s),
         \/ s.pc \in {"idle", "attempt", "fetch"} /\ s.inventory = None
         \/ /\ s.pc \in {"fetched", "apply", "loaded"} /\ s.inventory # None
            /\ \/ s.inventory = worker[w].inventory /\ s.scheduled = worker[w].scheduled
               \/ /\ s.inventory.at = version
                  /\ s.inventory.complete => Vms \ s.inventory.seen \subseteq gone
            /\ s.scheduled => s.pc \in {"apply", "loaded"},
         s.pc = "loaded" => s.loaded = vms
  PROVE  DataInv'
<1>1. worker'[w] = s /\ \A u \in Workers : u # w => worker'[u] = worker[u]
  BY Becomes
<1>2. Absences' /\ StaleWasMissing'
  BY DEF DataInv, Absences, StaleWasMissing, external
<1>3. ASSUME NEW u \in Workers, u # w PROVE Fetched(u)' /\ LoadedAll(u)'
  BY <1>1, <1>3 DEF DataInv, Fetched, LoadedAll, Busy, external
<1>4. LoadedAll(w)'
  BY <1>1 DEF LoadedAll, TypeOK
<1>5. applied <= version /\ version \in Nat
  BY BoundAssumption DEF DataInv, Absences, TypeOK
<1>6. Fetched(w)'
  BY <1>1, <1>5 DEF DataInv, Fetched, external, Busy
<1> QED
  BY <1>2, <1>3, <1>4, <1>6 DEF DataInv
LEMMA DataStep ==
  ASSUME IInv, TypeOK', NEW w \in Workers,
         Step(w) \/ RunScheduledSync(w) \/ \E m \in Modes : FetchFirst(w, m)
  PROVE  DataInv'
<1>1. TypeOK /\ DataInv /\ Absences /\ Held /\ worker[w] \in WorkerState /\ Fetched(w) /\ LoadedAll(w)
  BY DEF IInv, LockInv, DataInv, TypeOK
<1>2. ASSUME NEW m \in Modes, FetchFirst(w, m) PROVE DataInv'
  <2>1. PICK inventory \in Inventories :
          Become(w, [Idle EXCEPT !.pc = "fetched", !.mode = m, !.inventory = inventory])
    BY <1>2 DEF FetchFirst
  <2> DEFINE new == [Idle EXCEPT !.pc = "fetched", !.mode = m, !.inventory = inventory]
  <2>2. new.pc = "fetched" /\ new.inventory = inventory /\ new.scheduled = FALSE
    BY DEF Idle
  <2>3. Become(w, new) /\ new \in WorkerState
    BY <1>1, <2>1, InventoryTrue, IdleTyped DEF WorkerState, Idle
  <2>4. UNCHANGED <<external, vms, applied, gone>>
    BY <1>2 DEF FetchFirst, history
  <2>5. worker'[w] = new
    BY <1>1, <2>3, Becomes
  <2> HIDE DEF new
  <2>6. inventory # None
    BY <1>1, InventoryTrue, InventoryAssumption
  <2> QED
    BY <1>1, <2>2, <2>3, <2>4, <2>6, InventoryTrue, DataThread
<1>3. CASE RunScheduledSync(w)
  <2> DEFINE new == [Idle EXCEPT !.pc = "attempt", !.scheduled = TRUE, !.mode = Full, !.attempt = 1,
                                 !.run = Cardinality(Started) + 1]
  <2>1. new.pc = "attempt" /\ new.inventory = None
    BY DEF Idle
  <2>2. Become(w, new) /\ UNCHANGED <<external, vms, applied, gone>>
    BY <1>3 DEF RunScheduledSync, history
  <2> HIDE DEF new
  <2> QED
    BY <1>1, <2>1, <2>2, DataThread
<1>4. CASE ApplyInventory(w)
  <2>1. UNCHANGED <<external, vms, applied, gone>>
    BY <1>4 DEF ApplyInventory, history
  <2>2. CASE Become(w, Idle)
    BY <1>1, <2>1, <2>2, IdleTyped, DataThread
  <2>3. CASE Become(w, [worker[w] EXCEPT !.pc = "apply", !.attempt = 1,
                                         !.run = Cardinality(Started) + 1])
    <3> DEFINE new == [worker[w] EXCEPT !.pc = "apply", !.attempt = 1,
                                        !.run = Cardinality(Started) + 1]
    <3>1. /\ new.pc = "apply" /\ new.inventory = worker[w].inventory
          /\ new.scheduled = worker[w].scheduled
      BY <1>1 DEF WorkerState
    <3>2. worker[w].inventory # None
      BY <1>1, <1>4 DEF ApplyInventory, Fetched
    <3>3. Become(w, new)
      BY <2>3
    <3> HIDE DEF new
    <3> QED
      BY <1>1, <2>1, <3>1, <3>2, <3>3, DataThread
  <2> QED
    BY <1>4, <2>2, <2>3 DEF ApplyInventory
<1>5. CASE BeginAttempt(w)
  <2> DEFINE new == [worker[w] EXCEPT !.pc = "fetch"]
  <2>1. new.pc = "fetch" /\ new.inventory = worker[w].inventory
    BY <1>1 DEF WorkerState
  <2>2. worker[w].inventory = None
    BY <1>1, <1>5 DEF BeginAttempt, Fetched
  <2>3. Become(w, new) /\ UNCHANGED <<external, vms, applied, gone>>
    BY <1>5 DEF BeginAttempt, history
  <2> HIDE DEF new
  <2> QED
    BY <1>1, <2>1, <2>2, <2>3, DataThread
<1>6. CASE Fetch(w)
  <2>1. PICK inventory \in Inventories :
          Become(w, [worker[w] EXCEPT !.pc = "apply", !.inventory = inventory])
    BY <1>6 DEF Fetch
  <2> DEFINE new == [worker[w] EXCEPT !.pc = "apply", !.inventory = inventory]
  <2>2. new.pc = "apply" /\ new.inventory = inventory
    BY <1>1 DEF WorkerState
  <2>3. Become(w, new) /\ UNCHANGED <<external, vms, applied, gone>>
    BY <1>6, <2>1 DEF Fetch, history
  <2> HIDE DEF new
  <2>4. inventory # None
    BY <1>1, InventoryTrue, InventoryAssumption
  <2> QED
    BY <1>1, <2>2, <2>3, <2>4, InventoryTrue, DataThread
<1>7. CASE Load(w)
  <2> DEFINE new == [worker[w] EXCEPT !.pc = "loaded", !.loaded = vms, !.conflicts = manual]
  <2>1. /\ new.pc = "loaded" /\ new.inventory = worker[w].inventory
        /\ new.scheduled = worker[w].scheduled /\ new.loaded = vms
    BY <1>1 DEF WorkerState
  <2>2. worker[w].inventory # None
    BY <1>1, <1>7 DEF Load, Fetched
  <2>3. Become(w, new) /\ UNCHANGED <<external, vms, applied, gone>>
    BY <1>7 DEF Load, history
  <2> HIDE DEF new
  <2> QED
    BY <1>1, <2>1, <2>2, <2>3, DataThread
<1>8. CASE ApplyCore(w)
  <2>1. /\ worker[w].pc = "loaded" /\ Become(w, Idle) /\ vms' = Result(w)
        /\ applied' = IF worker[w].inventory.at > applied THEN worker[w].inventory.at ELSE applied
        /\ UNCHANGED <<external, gone>>
    BY <1>8 DEF ApplyCore
  <2>2. worker'[w] = Idle /\ \A u \in Workers : u # w => worker'[u] = worker[u]
    BY <1>1, <2>1, Becomes
  <2>3. worker[w].inventory # None /\ worker[w].inventory.at <= version
    BY <1>1, <2>1 DEF Fetched
  <2>4. Absences'
    BY <1>1, <2>1, <2>3 DEF Absences, external
  <2>5. StaleWasMissing'
    BY <1>1, <2>1, ResultTyped DEF DataInv, StaleWasMissing
  <2>6. \A u \in Workers : u # w => ~Busy(u)
    BY <1>1, <2>1 DEF Held, Busy
  <2>7. ASSUME NEW u \in Workers, u # w PROVE Fetched(u)' /\ LoadedAll(u)'
    BY <1>1, <2>1, <2>2, <2>6, <2>7 DEF DataInv, Fetched, LoadedAll, Busy, external
  <2>8. Fetched(w)' /\ LoadedAll(w)'
    BY <2>2, IdleTyped DEF Fetched, LoadedAll
  <2> QED
    BY <2>4, <2>5, <2>7, <2>8 DEF DataInv
<1>9. CASE RecordFailure(w)
  <2>1. UNCHANGED <<external, vms, applied, gone>>
    BY <1>9 DEF RecordFailure, history
  <2>2. CASE Become(w, Idle)
    BY <1>1, <2>1, <2>2, IdleTyped, DataThread
  <2>3. CASE Become(w, [worker[w] EXCEPT !.pc = "attempt", !.inventory = None, !.loaded = None,
                                         !.conflicts = {}, !.attempt = @ + 1])
    <3> DEFINE new == [worker[w] EXCEPT !.pc = "attempt", !.inventory = None, !.loaded = None,
                                        !.conflicts = {}, !.attempt = @ + 1]
    <3>1. new.pc = "attempt" /\ new.inventory = None
      BY <1>1 DEF WorkerState
    <3>2. Become(w, new)
      BY <2>3
    <3> HIDE DEF new
    <3> QED
      BY <1>1, <2>1, <3>1, <3>2, DataThread
  <2> QED
    BY <1>9, <2>2, <2>3 DEF RecordFailure
<1>10. CASE FailureIsLost(w)
  <2>1. Become(w, Idle) /\ UNCHANGED <<external, vms, applied, gone>>
    BY <1>10 DEF FailureIsLost
  <2> QED
    BY <1>1, <2>1, IdleTyped, DataThread
<1> QED
  BY <1>2, <1>3, <1>4, <1>5, <1>6, <1>7, <1>8, <1>9, <1>10 DEF Step

\* Operators create no bound row and make none stale.
LEMMA DataWrite ==
  ASSUME TypeOK, DataInv, UNCHANGED <<external, worker, applied, gone>>,
         \A v \in Vms : vms'[v] # None =>
           vms[v] # None /\ (vms'[v].state = "stale" => vms[v].state = "stale")
  PROVE  DataInv'
BY DEF DataInv, Absences, StaleWasMissing, Fetched, LoadedAll, Busy, external

LEMMA DataOthers ==
  ASSUME IInv, TypeOK',
         \/ \E v \in Vms : Operate(v)
         \/ \E v \in Vms, state \in Values \cup {Absent, Off} : SourceChanges(v, state)
         \/ Crash
  PROVE  DataInv'
<1>1. TypeOK /\ DataInv
  BY DEF IInv
<1>2. ASSUME NEW v \in Vms, Operate(v) PROVE DataInv'
  <2>1. UNCHANGED <<external, worker, applied, gone>>
    BY <1>2, OperatorsLeave DEF history
  <2>2. ASSUME vms[v] # None, vms'[v] # None,
               (\E value \in Edits, locked \in BOOLEAN : Edit(v, value, locked))
                 \/ Confirm(v) \/ Restore(v) \/ Detach(v) \/ Delete(v)
        PROVE  vms'[v].state = "stale" => vms[v].state = "stale"
    <3>1. vms[v] \in Row
      BY <1>1, <2>2 DEF TypeOK
    <3>2. ASSUME NEW value \in Edits, NEW locked \in BOOLEAN, Edit(v, value, locked)
          PROVE  vms'[v].state = vms[v].state
      BY <1>1, <3>1, <3>2 DEF Edit, Write, TypeOK, Row
    <3>3. Confirm(v) => vms'[v].state = "stale_confirmed"
      BY <1>1, <3>1 DEF Confirm, Write, TypeOK, Row
    <3>4. Restore(v) => vms'[v].state = "active"
      BY <1>1, <3>1 DEF Restore, Write, TypeOK, Row
    <3>5. Detach(v) \/ Delete(v) => vms'[v] = None \/ vms'[v] = vms[v]
      BY <1>1 DEF Detach, Delete, Write, TypeOK
    <3> QED
      BY <2>2, <3>2, <3>3, <3>4, <3>5
  <2>3. \A u \in Vms : u # v => vms'[u] = vms[u]
    BY <1>1, <1>2, OperatorsTouch
  <2>4. vms'[v] # None => vms[v] # None
    BY <1>1, <1>2, OperatorsTouch
  <2>5. \A u \in Vms : vms'[u] # None =>
          vms[u] # None /\ (vms'[u].state = "stale" => vms[u].state = "stale")
    BY <1>2, <2>2, <2>3, <2>4 DEF Operate
  <2> QED
    BY <1>1, <2>1, <2>5, DataWrite
<1>3. ASSUME NEW v \in Vms, NEW state \in Values \cup {Absent, Off}, SourceChanges(v, state)
      PROVE  DataInv'
  <2>1. version' = version + 1 /\ version \in Nat /\ applied \in Nat /\ gone \subseteq gone'
    BY <1>1, <1>3, BoundAssumption DEF SourceChanges, TypeOK
  <2>2. Absences'
    BY <1>1, <1>3, <2>1 DEF SourceChanges, DataInv, Absences, TypeOK
  <2>3. ASSUME NEW u \in Workers PROVE Fetched(u)' /\ LoadedAll(u)'
    <3>1. worker[u].inventory # None => worker[u].inventory.at \in Nat
      BY <1>1, BoundAssumption DEF TypeOK, WorkerState, Inventory
    <3> QED
      BY <1>1, <1>3, <2>1, <3>1 DEF SourceChanges, DataInv, Fetched, LoadedAll, Busy
  <2> QED
    BY <1>1, <1>3, <2>1, <2>2, <2>3 DEF SourceChanges, DataInv, StaleWasMissing
<1>4. CASE Crash
  <2>1. \A u \in Workers : worker'[u] = Idle
    BY <1>4 DEF Crash
  <2> QED
    BY <1>1, <1>4, <2>1, IdleTyped
    DEF Crash, DataInv, Absences, StaleWasMissing, Fetched, LoadedAll, Busy, external
<1> QED
  BY <1>2, <1>3, <1>4

-----------------------------------------------------------------------------
(* The theorems                                                             *)

LEMMA StutterKeeps == ASSUME IInv, UNCHANGED vars PROVE IInv'
<1>1. TypeOK'
  BY DEF IInv, TypeOK, vars, external, history
<1>2. LockInv'
  BY LockQuiet DEF IInv, vars, history
<1>3. DataInv'
  BY DEF IInv, DataInv, Absences, StaleWasMissing, Fetched, LoadedAll, Busy, vars, external, history
<1> QED
  BY <1>1, <1>2, <1>3 DEF IInv

\* The inductive invariant of the synchronisations.
THEOREM Invariance == Spec => []IInv
<1>1. Init => IInv
  BY TypeInitially, LockInitially, DataInitially DEF IInv
<1>2. IInv /\ [Next]_vars => IInv'
  <2>1. ASSUME IInv, Next PROVE IInv'
    BY <2>1, TypeStep, TypeOthers, LockStep, LockOthers, DataStep, DataOthers DEF Next, IInv
  <2> QED
    BY <2>1, StutterKeeps
<1> QED
  BY <1>1, <1>2, PTL DEF Spec
\* Every variable keeps its type.
THEOREM TypeCorrect == Spec => []TypeOK
<1>1. IInv => TypeOK
  BY DEF IInv
<1> QED
  BY <1>1, Invariance, PTL

\* No truncated or selective inventory, in any order of threads, marks a machine
\* that the source has never been without.
THEOREM StaleIsMissing == Spec => []StaleWasMissing
<1>1. IInv => StaleWasMissing
  BY DEF IInv, DataInv
<1> QED
  BY <1>1, Invariance, PTL

\* Every way out of a synchronisation gives the lock back, and an open run has
\* its thread.
THEOREM RunsStayAttended == Spec => []RunsAreAttended
<1>1. IInv => RunsAreAttended
  BY DEF IInv, LockInv
<1> QED
  BY <1>1, Invariance, PTL

\* A scheduled run never applies what is older than something applied.
THEOREM ScheduledStaysFresh == Spec => []ScheduledIsFresh
<1>1. IInv => ScheduledIsFresh
  BY DEF IInv, DataInv, Fetched, ScheduledIsFresh
<1> QED
  BY <1>1, Invariance, PTL

-----------------------------------------------------------------------------
(* What a commit does to one machine                                        *)

LEMMA Committed ==
  ASSUME IInv, NEW w \in Workers, NEW v \in Vms, ApplyCore(w), vms[v] # None,
         worker[w].loaded[v] = vms[v]
  PROVE  \/ vms'[v] = vms[v]
         \/ /\ vms[v].locked => vms'[v].value = vms[v].value
            /\ vms'[v].locked = vms[v].locked
            /\ \/ vms'[v].since = 0
               \/ /\ vms[v].since # 0 => vms'[v].since = vms[v].since
                  /\ vms[v].state = "stale_confirmed" => vms'[v].state = "stale_confirmed"
<1> DEFINE now == vms[v]
           wanted == worker[w].inventory.value[v]
           value == Changed(now.value, now.value, Effective(now, wanted))
           state == Changed(now.state, now.state, "active")
           since == Changed(now.since, now.since, 0)
           updated == [now EXCEPT !.value = value, !.state = state, !.since = since]
<1>1. now \in Row /\ vms' = Result(w) /\ now # None
  BY DEF IInv, TypeOK, ApplyCore
<1>2. CASE v \in worker[w].mode.chosen /\ worker[w].inventory.value[v] # None
  <2>1. vms'[v] = Listed(w, v)
    BY <1>1, <1>2 DEF Result
  <2>2. Listed(w, v) \in {updated, now}
    BY <1>1 DEF Listed
  <2>3. now.locked => value = now.value
    BY DEF Changed, Effective
  <2>4. since = 0
    BY DEF Changed
  <2> HIDE DEF value, state, since
  <2>5. updated.value = value /\ updated.locked = now.locked /\ updated.since = since
    BY <1>1 DEF Row
  <2> QED
    BY <2>1, <2>2, <2>3, <2>4, <2>5
<1>3. CASE ~(v \in worker[w].mode.chosen /\ worker[w].inventory.value[v] # None) /\ Lacks(w, v)
  <2>1. vms'[v] = Missing(w, v)
    BY <1>1, <1>3 DEF Result
  <2>2. Missing(w, v) =
          [now EXCEPT !.since = IF now.since = 0 THEN worker[w].run ELSE now.since,
                      !.state = IF now.state = "stale_confirmed" THEN now.state
                                ELSE Changed(now.state, now.state, "stale")]
    BY <1>1 DEF Missing, Row
  <2> QED
    BY <1>1, <2>1, <2>2 DEF Row
<1>4. CASE ~(v \in worker[w].mode.chosen /\ worker[w].inventory.value[v] # None) /\ ~Lacks(w, v)
  BY <1>1, <1>4 DEF Result
<1> QED
  BY <1>2, <1>3, <1>4

\* No order of attempts, imports and operators overwrites protected contents
\* that a thread had seen to be protected.
THEOREM ProtectedStays == Spec => ProtectedIsKept
<1>1. IInv /\ [Next]_vars =>
        [\A w \in Workers, v \in Vms :
           /\ ApplyCore(w)
           /\ vms[v] # None
           /\ worker[w].loaded[v] = vms[v]
           /\ vms[v].locked
           => vms'[v].value = vms[v].value /\ vms'[v].locked]_vars
  BY Committed
<1> QED
  BY <1>1, Invariance, PTL DEF Spec, ProtectedIsKept

\* The first absence and its confirmation survive every retry.
THEOREM AbsenceStays == Spec => AbsenceIsRemembered
<1>1. ASSUME IInv, NEW w \in Workers, NEW v \in Vms, ApplyCore(w), vms[v] # None,
             vms'[v] # None, vms'[v].since # 0
      PROVE  /\ vms[v].since # 0 /\ worker[w].loaded[v] = vms[v] => vms'[v].since = vms[v].since
             /\ vms[v].state = "stale_confirmed" /\ worker[w].loaded[v] = vms[v]
                  => vms'[v].state = "stale_confirmed"
  BY <1>1, Committed
<1>2. IInv /\ [Next]_vars =>
        [\A w \in Workers, v \in Vms :
           ApplyCore(w) /\ vms[v] # None /\ vms'[v] # None /\ vms'[v].since # 0 =>
             /\ vms[v].since # 0 /\ worker[w].loaded[v] = vms[v] => vms'[v].since = vms[v].since
             /\ vms[v].state = "stale_confirmed" /\ worker[w].loaded[v] = vms[v]
                  => vms'[v].state = "stale_confirmed"]_vars
  BY <1>1
<1> QED
  BY <1>2, Invariance, PTL DEF Spec, AbsenceIsRemembered

-----------------------------------------------------------------------------
(* A run ends                                                               *)

\* The most steps that a thread has before it: four of an attempt, and those of
\* the attempts that are left.
Stage(pc) ==
  CASE pc = "attempt" -> 4 [] pc = "fetch" -> 3 [] pc = "apply" -> 2 [] OTHER -> 1

StepsLeft(s) ==
  IF s.pc = "idle" THEN 0
  ELSE IF s.pc = "fetched" THEN 4 * Tries
  ELSE 4 * (Tries - s.attempt) + Stage(s.pc)

\* What is left of a thread past the lock is positive and within its attempts.
LEMMA LeftCounts ==
  ASSUME TypeOK, LockInv, NEW w \in Workers, Active(w)
  PROVE  StepsLeft(worker[w]) \in 1 .. (4 * Tries)
<1>1. CASE worker[w].pc = "fetched"
  BY <1>1, TriesAssumption DEF StepsLeft
<1>2. CASE Busy(w)
  <2>1. worker[w].attempt \in 1 .. Tries
    BY <1>2, Counts
  <2>2. StepsLeft(worker[w]) = 4 * (Tries - worker[w].attempt) + Stage(worker[w].pc)
    BY <1>2 DEF StepsLeft, Busy
  <2>3. Stage(worker[w].pc) \in 1 .. 4
    BY <1>2 DEF Stage, Busy
  <2> QED
    BY <2>1, <2>2, <2>3, TriesAssumption
<1> QED
  BY <1>1, <1>2 DEF Active, Busy, TypeOK, WorkerState

LEMMA IdleLeft == StepsLeft(Idle) = 0
BY DEF StepsLeft, Idle

\* A step of a thread moves that thread alone, and closer to its end.
LEMMA StepCounts ==
  ASSUME IInv, NEW w \in Workers, Step(w)
  PROVE  /\ StepsLeft(worker'[w]) < StepsLeft(worker[w])
         /\ \A u \in Workers : u # w => worker'[u] = worker[u]
<1>0. TypeOK /\ LockInv
  BY DEF IInv
<1>1. worker[w] \in WorkerState
  BY <1>0 DEF TypeOK
<1>2. Active(w)
  <2>1. ApplyInventory(w) \/ BeginAttempt(w) => Active(w)
    BY DEF ApplyInventory, BeginAttempt, Active
  <2>2. Fetch(w) \/ Load(w) \/ ApplyCore(w) => Active(w)
    BY DEF Fetch, Load, ApplyCore, Active
  <2>3. RecordFailure(w) => Active(w)
    BY DEF RecordFailure, Active
  <2>4. FailureIsLost(w) => Active(w)
    BY DEF FailureIsLost, Active
  <2> QED
    BY <2>1, <2>2, <2>3, <2>4 DEF Step
<1>3. StepsLeft(worker[w]) \in 1 .. (4 * Tries)
  BY <1>0, <1>2, LeftCounts
<1>4. ASSUME Become(w, Idle)
      PROVE  /\ StepsLeft(worker'[w]) < StepsLeft(worker[w])
             /\ \A u \in Workers : u # w => worker'[u] = worker[u]
  BY <1>0, <1>3, <1>4, Becomes, IdleLeft, TriesAssumption
<1>5. CASE ApplyInventory(w)
  <2> DEFINE new == [worker[w] EXCEPT !.pc = "apply", !.attempt = 1,
                                      !.run = Cardinality(Started) + 1]
  <2>1. CASE Become(w, new)
    <3>1. new.pc = "apply" /\ new.attempt = 1
      BY <1>1 DEF WorkerState
    <3>2. worker'[w] = new /\ \A u \in Workers : u # w => worker'[u] = worker[u]
      BY <1>0, <2>1, Becomes
    <3>3. StepsLeft(worker[w]) = 4 * Tries
      BY <1>5 DEF ApplyInventory, StepsLeft
    <3> HIDE DEF new
    <3>4. StepsLeft(new) = 4 * (Tries - 1) + 2
      BY <3>1 DEF StepsLeft, Stage
    <3> QED
      BY <3>2, <3>3, <3>4, TriesAssumption
  <2> QED
    BY <1>4, <1>5, <2>1 DEF ApplyInventory
<1>6. ASSUME Busy(w), NEW s, Become(w, s), s.attempt = worker[w].attempt, s.pc # "idle",
             s.pc # "fetched", Stage(s.pc) < Stage(worker[w].pc), Stage(s.pc) \in 1 .. 4
      PROVE  /\ StepsLeft(worker'[w]) < StepsLeft(worker[w])
             /\ \A u \in Workers : u # w => worker'[u] = worker[u]
  <2>1. worker'[w] = s /\ \A u \in Workers : u # w => worker'[u] = worker[u]
    BY <1>0, <1>6, Becomes
  <2>2. StepsLeft(worker[w]) = 4 * (Tries - worker[w].attempt) + Stage(worker[w].pc)
    BY <1>6 DEF StepsLeft, Busy
  <2>3. StepsLeft(s) = 4 * (Tries - worker[w].attempt) + Stage(s.pc)
    BY <1>6 DEF StepsLeft
  <2>4. worker[w].attempt \in 1 .. Tries
    BY <1>0, <1>6, Counts
  <2>5. Stage(worker[w].pc) \in 1 .. 4
    BY DEF Stage
  <2> QED
    BY <1>6, <2>1, <2>2, <2>3, <2>4, <2>5, TriesAssumption
<1>7. CASE BeginAttempt(w)
  <2> DEFINE new == [worker[w] EXCEPT !.pc = "fetch"]
  <2>1. new.pc = "fetch" /\ new.attempt = worker[w].attempt
    BY <1>1 DEF WorkerState
  <2>2. Become(w, new) /\ Busy(w) /\ worker[w].pc = "attempt"
    BY <1>7 DEF BeginAttempt, Busy
  <2> HIDE DEF new
  <2>3. Stage(new.pc) = 3 /\ Stage(worker[w].pc) = 4
    BY <2>1, <2>2 DEF Stage
  <2> QED
    BY <1>6, <2>1, <2>2, <2>3
<1>8. CASE Fetch(w)
  <2>1. PICK inventory \in Inventories :
          Become(w, [worker[w] EXCEPT !.pc = "apply", !.inventory = inventory])
    BY <1>8 DEF Fetch
  <2> DEFINE new == [worker[w] EXCEPT !.pc = "apply", !.inventory = inventory]
  <2>2. new.pc = "apply" /\ new.attempt = worker[w].attempt
    BY <1>1 DEF WorkerState
  <2>3. Become(w, new) /\ Busy(w) /\ worker[w].pc = "fetch"
    BY <1>8, <2>1 DEF Fetch, Busy
  <2> HIDE DEF new
  <2>4. Stage(new.pc) = 2 /\ Stage(worker[w].pc) = 3
    BY <2>2, <2>3 DEF Stage
  <2> QED
    BY <1>6, <2>2, <2>3, <2>4
<1>9. CASE Load(w)
  <2> DEFINE new == [worker[w] EXCEPT !.pc = "loaded", !.loaded = vms, !.conflicts = manual]
  <2>1. new.pc = "loaded" /\ new.attempt = worker[w].attempt
    BY <1>1 DEF WorkerState
  <2>2. Become(w, new) /\ Busy(w) /\ worker[w].pc = "apply"
    BY <1>9 DEF Load, Busy
  <2> HIDE DEF new
  <2>3. Stage(new.pc) = 1 /\ Stage(worker[w].pc) = 2
    BY <2>1, <2>2 DEF Stage
  <2> QED
    BY <1>6, <2>1, <2>2, <2>3
<1>10. CASE ApplyCore(w) \/ FailureIsLost(w)
  BY <1>4, <1>10 DEF ApplyCore, FailureIsLost
<1>11. CASE RecordFailure(w)
  <2>1. CASE Last(w)
    BY <1>4, <1>11, <2>1 DEF RecordFailure
  <2>2. CASE ~Last(w)
    <3> DEFINE new == [worker[w] EXCEPT !.pc = "attempt", !.inventory = None, !.loaded = None,
                                        !.conflicts = {}, !.attempt = @ + 1]
    <3>1. new.pc = "attempt" /\ new.attempt = worker[w].attempt + 1
      BY <1>1 DEF WorkerState
    <3>2. Become(w, new) /\ Busy(w)
      BY <1>11, <2>2 DEF RecordFailure, Busy
    <3> HIDE DEF new
    <3>3. worker'[w] = new /\ \A u \in Workers : u # w => worker'[u] = worker[u]
      BY <1>0, <3>2, Becomes
    <3>4. StepsLeft(new) = 4 * (Tries - (worker[w].attempt + 1)) + 4
      BY <3>1 DEF StepsLeft, Stage
    <3>5. StepsLeft(worker[w]) = 4 * (Tries - worker[w].attempt) + Stage(worker[w].pc)
      BY <3>2 DEF StepsLeft, Busy
    <3>6. worker[w].attempt \in 1 .. Tries
      BY <1>0, <3>2, Counts
    <3>7. Stage(worker[w].pc) \in 1 .. 4
      BY DEF Stage
    <3> QED
      BY <3>3, <3>4, <3>5, <3>6, <3>7, TriesAssumption
  <2> QED
    BY <2>1, <2>2
<1> QED
  BY <1>5, <1>7, <1>8, <1>9, <1>10, <1>11 DEF Step

\* A synchronisation ends, whatever the source, operators and other threads do:
\* a thread that started has at most 4 * Tries steps before it, each step of its
\* own lowers that number, no other step raises it, and only a new start leads
\* out of "idle" (run_scheduled_sync, apply_inventory, _record_failure).
THEOREM AttemptsAdvance ==
  Spec => /\ [](\A w \in Workers : Active(w) => StepsLeft(worker[w]) \in 1 .. (4 * Tries))
          /\ [][\A w \in Workers :
                  /\ Step(w) => StepsLeft(worker'[w]) < StepsLeft(worker[w])
                  /\ \/ worker'[w] = worker[w]
                     \/ StepsLeft(worker'[w]) < StepsLeft(worker[w])
                     \/ worker[w].pc = "idle"]_vars
<1> DEFINE Within == \A w \in Workers : Active(w) => StepsLeft(worker[w]) \in 1 .. (4 * Tries)
           Advances(w) == /\ Step(w) => StepsLeft(worker'[w]) < StepsLeft(worker[w])
                          /\ \/ worker'[w] = worker[w]
                             \/ StepsLeft(worker'[w]) < StepsLeft(worker[w])
                             \/ worker[w].pc = "idle"
<1>1. IInv => Within
  BY LeftCounts DEF IInv
<1>2. ASSUME IInv, Next, NEW w \in Workers
      PROVE  Advances(w)
  <2>1. Step(w) => StepsLeft(worker'[w]) < StepsLeft(worker[w])
    BY <1>2, StepCounts
  <2>2. ASSUME NEW u \in Workers, Step(u) PROVE Advances(w)
    BY <1>2, <2>1, <2>2, StepCounts
  <2>3. ASSUME NEW u \in Workers, RunScheduledSync(u) \/ \E m \in Modes : FetchFirst(u, m)
        PROVE  Advances(w)
    <3>1. worker[u].pc = "idle" /\ \E s : Become(u, s)
      BY <2>3 DEF RunScheduledSync, FetchFirst
    <3>2. \A x \in Workers : x # u => worker'[x] = worker[x]
      BY <1>2, <3>1, Becomes DEF IInv
    <3> QED
      BY <2>1, <3>1, <3>2
  <2>4. ASSUME worker' = worker PROVE Advances(w)
    BY <2>1, <2>4
  <2>5. CASE \E v \in Vms : Operate(v)
    BY <2>4, <2>5, OperatorsLeave
  <2>6. CASE \E v \in Vms, state \in Values \cup {Absent, Off} : SourceChanges(v, state)
    BY <2>4, <2>6 DEF SourceChanges
  <2>7. CASE Crash
    <3>1. worker'[w] = Idle
      BY <2>7 DEF Crash
    <3>2. Active(w) => StepsLeft(worker[w]) \in 1 .. (4 * Tries)
      BY <1>1, <1>2
    <3>3. Active(w) => StepsLeft(worker'[w]) < StepsLeft(worker[w])
      BY <3>1, <3>2, IdleLeft, TriesAssumption
    <3> QED
      BY <2>1, <3>3 DEF Active
  <2> QED
    BY <1>2, <2>2, <2>3, <2>5, <2>6, <2>7 DEF Next
<1>3. IInv /\ [Next]_vars => [\A w \in Workers : Advances(w)]_vars
  BY <1>2
<1> QED
  BY <1>1, <1>3, Invariance, PTL DEF Spec

-----------------------------------------------------------------------------
(* The stored runs implement SyncRecord                                     *)

LEMMA StartsRecord ==
  ASSUME TypeOK, LockInv, NEW w \in Workers, NEW max \in 1 .. Tries, NewRun(w, max)
  PROVE  Record!Next
<1>1. PICK i \in RunIds :
        /\ i = Cardinality(Started) + 1 /\ i \notin Started
        /\ runs'[i] = [status |-> "running", attempt |-> 1, max |-> max]
  BY NewRunStarts DEF LockInv
<1>2. runs' = [runs EXCEPT ![i] = runs'[i]]
  BY <1>1 DEF NewRun
<1>3. runs'[i] \in [status : {"running"}, attempt : {1}, max : Nat \ {0}]
  BY <1>1, TriesAssumption
<1>4. Record!Start(i)
  BY <1>1, <1>2, <1>3 DEF Record!Start, Started
<1> QED
  BY <1>4 DEF Record!Next

LEMMA RecordStep ==
  ASSUME IInv, NEW w \in Workers, Step(w) \/ RunScheduledSync(w) \/ \E m \in Modes : FetchFirst(w, m)
  PROVE  Record!Next \/ UNCHANGED runs
<1> DEFINE i == worker[w].run
<1>1. TypeOK /\ LockInv
  BY DEF IInv
<1>2. ASSUME Busy(w)
      PROVE  /\ i \in RunIds /\ runs[i] # None /\ runs[i].status \in Record!Open
             /\ worker[w].pc # "attempt" => runs[i].status = "running"
             /\ worker[w].attempt \in runs[i].attempt .. runs[i].max
             /\ Last(w) <=> worker[w].attempt = runs[i].max
  BY <1>1, <1>2, Counts DEF LockInv, Attended, Started, Record!Open
<1>3. CASE RunScheduledSync(w)
  <2>1. Tries \in 1 .. Tries /\ NewRun(w, Tries)
    BY <1>3, TriesAssumption DEF RunScheduledSync
  <2> QED
    BY <1>1, <2>1, StartsRecord
<1>4. CASE ApplyInventory(w)
  <2>1. 1 \in 1 .. Tries
    BY TriesAssumption
  <2>2. NewRun(w, 1) \/ UNCHANGED runs
    BY <1>4 DEF ApplyInventory
  <2> QED
    BY <1>1, <2>1, <2>2, StartsRecord
<1>5. CASE BeginAttempt(w)
  <2>1. Busy(w)
    BY <1>5 DEF BeginAttempt, Busy
  <2>2. Record!Try(i)
    BY <1>2, <1>5, <2>1 DEF BeginAttempt, Record!Try
  <2> QED
    BY <1>2, <2>1, <2>2 DEF Record!Next
<1>6. CASE ApplyCore(w)
  <2>1. Busy(w) /\ worker[w].pc # "attempt"
    BY <1>6 DEF ApplyCore, Busy
  <2>2. Record!Succeed(i)
    BY <1>2, <1>6, <2>1 DEF ApplyCore, Record!Succeed
  <2> QED
    BY <1>2, <2>1, <2>2 DEF Record!Next
<1>7. CASE RecordFailure(w)
  <2>1. Busy(w)
    BY <1>7 DEF RecordFailure, Busy
  <2>2. Record!Fail(i)
    BY <1>2, <1>7, <2>1 DEF RecordFailure, Record!Fail
  <2> QED
    BY <1>2, <2>1, <2>2 DEF Record!Next
<1>8. CASE Fetch(w) \/ Load(w) \/ FailureIsLost(w) \/ \E m \in Modes : FetchFirst(w, m)
  BY <1>8 DEF Fetch, Load, FailureIsLost, FetchFirst
<1> QED
  BY <1>3, <1>4, <1>5, <1>6, <1>7, <1>8 DEF Step

\* The stored runs behave as SyncRecord says, for any threads, attempts, crashes
\* and failures to store a failure.
THEOREM ImplementsRecord == Spec => ImplementsSyncRecord
<1>1. Init => Record!Init
  BY DEF Init, Record!Init
<1>2. IInv /\ [Next]_vars => [Record!Next]_runs
  <2>1. ASSUME IInv, Next PROVE Record!Next \/ UNCHANGED runs
    <3>1. ASSUME \/ \E v \in Vms : Operate(v)
                 \/ \E v \in Vms, state \in Values \cup {Absent, Off} : SourceChanges(v, state)
                 \/ Crash
          PROVE  UNCHANGED runs
      BY <3>1, OperatorsLeave DEF SourceChanges, Crash
    <3> QED
      BY <2>1, <3>1, RecordStep DEF Next
  <2> QED
    BY <2>1 DEF vars
<1> QED
  BY <1>1, <1>2, Invariance, PTL DEF Spec, ImplementsSyncRecord, Record!Spec
=============================================================================
