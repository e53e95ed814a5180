-------------------------- MODULE IntegrationSync --------------------------
(***************************************************************************)
(* Synchronisation of one external source (Zabbix or a vCenter) with the   *)
(* local virtual machines: app/services/integration_sync_service.py and    *)
(* the sync, import and stale endpoints of app/routers/integrations.py.    *)
(*                                                                         *)
(* A worker is a thread inside run_scheduled_sync or inside one of the two *)
(* endpoints that call apply_inventory.  _SYNC_LOCKS of the source         *)
(* serialises the writing, not the fetching of a manual inventory.         *)
(* Operators edit, confirm, detach, restore and delete meanwhile.          *)
(*                                                                         *)
(* Abstractions.  The fourteen synchronised fields of a machine are one    *)
(* value, protected as a whole or not at all.  Storage rows, which follow  *)
(* the same rules without protection, and host links are left out.  A      *)
(* machine that is off, a template or reported with an error is "off": it  *)
(* counts as seen and is not written.  A machine detached from the source  *)
(* is a manual row with its name, hence a conflict for a new one.  The     *)
(* look-ups of _apply_core and its commit are one step; what it loaded     *)
(* before is an earlier one.  Operator requests are one step.  Changing    *)
(* the endpoint of the source, which only makes attempts fail, is left out.*)
(***************************************************************************)
EXTENDS Integers, FiniteSets

CONSTANTS Workers,      \* threads that synchronise
          Vms,          \* external ids of the source
          Values,       \* contents of a machine at the source
          Edits,        \* contents an operator may type
          Modes,        \* what a manual request may ask for
          Tries,        \* attempts of a scheduled run
          None,         \* no row, no inventory, no worker
          MaxRuns,      \* bound: runs started
          MaxVersions   \* bound: changes of the source

ASSUME ModesAssumption ==
  \A m \in Modes : /\ m \in [chosen : SUBSET Vms, update : BOOLEAN, missing : BOOLEAN]
                   /\ m.missing => m.chosen = Vms
ASSUME TriesAssumption == Tries \in Nat \ {0}
ASSUME BoundAssumption == MaxRuns \in Nat /\ MaxVersions \in Nat
ASSUME NoneAssumption == None \notin Values \cup Edits \cup Workers \cup Vms

VARIABLES source,     \* external: state of each machine at the source
          version,    \* external: changes of the source so far
          vms,        \* vm_instances bound to the source, None = no row
          manual,     \* machines with a detached row
          runs,       \* integration_sync_runs in started_at order
          lock,       \* holder of _SYNC_LOCKS[source]
          worker,     \* synchronising threads
          applied,    \* history: newest version a commit applied
          gone,       \* history: machines the source has been without
          orphans     \* history: runs whose thread was lost

external == <<source, version>>
history == <<applied, gone, orphans>>
vars == <<external, vms, manual, runs, lock, worker, history>>

Absent == "absent"
Off == "off"
RunIds == 1 .. MaxRuns
Row == [value : Values \cup Edits, locked : BOOLEAN,
        state : {"active", "stale", "stale_confirmed"}, since : 0 .. MaxRuns]

RunRow == [status : {"running", "retrying", "success", "failed"},
           attempt : 1 .. Tries, max : 1 .. Tries]

Inventory == [value : [Vms -> Values \cup {None}], seen : SUBSET Vms,
              complete : BOOLEAN, at : 0 .. MaxVersions]

ASSUME RowAssumption == None \notin RunRow
ASSUME InventoryAssumption == None \notin Inventory

Full == [chosen |-> Vms, update |-> TRUE, missing |-> TRUE]
Idle == [pc |-> "idle", scheduled |-> FALSE, mode |-> None, inventory |-> None,
         run |-> 0, attempt |-> 0, loaded |-> None, conflicts |-> {}]

Become(w, state) == worker' = [worker EXCEPT ![w] = state]
Active(w) == worker[w].pc # "idle"
Started == {i \in RunIds : runs[i] # None}

(***************************************************************************)
(* The source                                                              *)
(***************************************************************************)
SourceChanges(v, state) ==
  /\ version < MaxVersions
  /\ version' = version + 1
  /\ source[v] # state
  /\ source' = [source EXCEPT ![v] = state]
  /\ gone' = IF state = Absent THEN gone \cup {v} ELSE gone
  /\ UNCHANGED <<vms, manual, runs, lock, worker, applied, orphans>>

\* External: what a fetch returns.  Past the limit of 2000 objects it is
\* truncated, and anything may be missing.
Inventories ==
  LET present == {v \in Vms : source[v] # Absent}
      listing(seen, complete) ==
        [value |-> [v \in Vms |-> IF v \in seen /\ source[v] # Off THEN source[v] ELSE None],
         seen |-> seen, complete |-> complete, at |-> version]
  IN  {listing(present, TRUE)} \cup {listing(seen, FALSE) : seen \in SUBSET present}

(***************************************************************************)
(* execute_sync and import_inventory                                       *)
(***************************************************************************)
\* The inventory is fetched before the lock is asked for.
FetchFirst(w, mode) ==
  /\ worker[w].pc = "idle"
  /\ Started # RunIds
  /\ \E inventory \in Inventories :
       Become(w, [Idle EXCEPT !.pc = "fetched", !.mode = mode, !.inventory = inventory])
  /\ UNCHANGED <<external, vms, manual, runs, lock, history>>

\* Mutant: the lock is not asked for.
CanAcquireMutant(w) == TRUE

\* lock.acquire(blocking=False)
CanAcquire(w) == lock = None

\* _new_run: the row of the run is committed as "running".
NewRun(w, max) ==
  LET i == Cardinality(Started) + 1
  IN  /\ i \in RunIds
      /\ runs' = [runs EXCEPT ![i] = [status |-> "running", attempt |-> 1, max |-> max]]
      /\ lock' = w

\* Busy: the request ends with an error and leaves no run.
ApplyInventory(w) ==
  /\ worker[w].pc = "fetched"
  /\ \/ /\ CanAcquire(w)
        /\ NewRun(w, 1)
        /\ Become(w, [worker[w] EXCEPT !.pc = "apply", !.attempt = 1,
                                       !.run = Cardinality(Started) + 1])
     \/ /\ ~CanAcquire(w)
        /\ Become(w, Idle)
        /\ UNCHANGED <<runs, lock>>
  /\ UNCHANGED <<external, vms, manual, history>>

(***************************************************************************)
(* run_scheduled_sync                                                      *)
(***************************************************************************)
\* When the lock is taken, the task only raises.
RunScheduledSync(w) ==
  /\ worker[w].pc = "idle"
  /\ CanAcquire(w)
  /\ NewRun(w, Tries)
  /\ Become(w, [Idle EXCEPT !.pc = "attempt", !.scheduled = TRUE, !.mode = Full, !.attempt = 1,
                            !.run = Cardinality(Started) + 1])
  /\ UNCHANGED <<external, vms, manual, history>>

\* Lines 529-532.
BeginAttempt(w) ==
  /\ worker[w].pc = "attempt"
  /\ runs' = [runs EXCEPT ![worker[w].run].status = "running",
                          ![worker[w].run].attempt = worker[w].attempt]
  /\ Become(w, [worker[w] EXCEPT !.pc = "fetch"])
  /\ UNCHANGED <<external, vms, manual, lock, history>>

\* Lines 533-534.
Fetch(w) ==
  /\ worker[w].pc = "fetch"
  /\ \E inventory \in Inventories :
       Become(w, [worker[w] EXCEPT !.pc = "apply", !.inventory = inventory])
  /\ UNCHANGED <<external, vms, manual, runs, lock, history>>

(***************************************************************************)
(* _apply_core and its outcome                                             *)
(***************************************************************************)
\* Lines 333-349: the rows are loaded once, with what the operator protects
\* and the names that a new machine would collide with.
Load(w) ==
  /\ worker[w].pc = "apply"
  /\ Become(w, [worker[w] EXCEPT !.pc = "loaded", !.loaded = vms, !.conflicts = manual])
  /\ UNCHANGED <<external, vms, manual, runs, lock, history>>

\* The session writes only the columns whose value differs from the one
\* it loaded.
Changed(now, loaded, new) == IF new = loaded THEN now ELSE new

\* Mutant: protection is ignored.
EffectiveMutant(loaded, wanted) == wanted

\* Lines 401-405: what the operator protects keeps its loaded value.
Effective(loaded, wanted) == IF loaded.locked THEN loaded.value ELSE wanted

\* Lines 378-439, one listed machine.
Listed(w, v) ==
  LET now == vms[v]
      loaded == worker[w].loaded[v]
      wanted == worker[w].inventory.value[v]
      fresh == [value |-> wanted, locked |-> FALSE, state |-> "active", since |-> 0]
      updated == [now EXCEPT !.value = Changed(@, loaded.value, Effective(loaded, wanted)),
                             !.state = Changed(@, loaded.state, "active"),
                             !.since = Changed(@, loaded.since, 0)]
  IN  IF now # None THEN IF worker[w].mode.update THEN updated ELSE now
      ELSE IF loaded = None /\ v \in worker[w].conflicts THEN None
      ELSE fresh

\* Mutant: every run that misses the machine dates its absence again.
MissingMutant(w, v) == [vms[v] EXCEPT !.since = worker[w].run, !.state = "stale"]

\* Lines 441-451, one bound machine that the inventory lacks.
Missing(w, v) ==
  LET now == vms[v]
      loaded == worker[w].loaded[v]
  IN  [now EXCEPT !.since = IF loaded.since = 0 THEN worker[w].run ELSE @,
                  !.state = IF loaded.state = "stale_confirmed" THEN @
                            ELSE Changed(@, loaded.state, "stale")]

\* Mutant: a truncated inventory is trusted.
LacksMutant(w, v) == worker[w].mode.missing /\ v \notin worker[w].inventory.seen

\* Line 333: only a complete inventory shows that a machine is missing.
Lacks(w, v) ==
  /\ worker[w].mode.missing
  /\ worker[w].inventory.complete
  /\ v \notin worker[w].inventory.seen

Result(w) ==
  [v \in Vms |->
     IF v \in worker[w].mode.chosen /\ worker[w].inventory.value[v] # None THEN Listed(w, v)
     ELSE IF vms[v] # None /\ Lacks(w, v) THEN Missing(w, v)
     ELSE vms[v]]

\* Lines 342-480 and the release of the lock: one commit.
ApplyCore(w) ==
  /\ worker[w].pc = "loaded"
  /\ vms' = Result(w)
  /\ runs' = [runs EXCEPT ![worker[w].run].status = "success"]
  /\ lock' = None
  /\ Become(w, Idle)
  /\ applied' = IF worker[w].inventory.at > applied THEN worker[w].inventory.at ELSE applied
  /\ UNCHANGED <<external, manual, gone, orphans>>

\* Mutant: one attempt fewer is the last.
EarlyLastMutant(w) == worker[w].attempt + 1 >= runs[worker[w].run].max

\* Mutant: one attempt more is the last.
LateLastMutant(w) == worker[w].attempt > runs[worker[w].run].max

Last(w) == worker[w].attempt >= runs[worker[w].run].max

\* Mutant: the lock is kept after the last failure.
LockKeptMutant(w) ==
  /\ worker[w].pc \in {"attempt", "fetch", "apply", "loaded"}
  /\ runs' = [runs EXCEPT ![worker[w].run].status = "failed"]
  /\ Become(w, Idle)
  /\ UNCHANGED <<external, vms, manual, lock, history>>

\* _record_failure: any exception (the fetch, the configuration, another
\* endpoint, the commit) rolls the session back; the run is retried or over.
RecordFailure(w) ==
  LET i == worker[w].run
  IN  /\ worker[w].pc \in {"attempt", "fetch", "apply", "loaded"}
      /\ runs' = [runs EXCEPT ![i].status = IF Last(w) THEN "failed" ELSE "retrying",
                              ![i].attempt = worker[w].attempt]
      /\ IF Last(w)
         THEN Become(w, Idle) /\ lock' = None
         ELSE /\ Become(w, [worker[w] EXCEPT !.pc = "attempt", !.inventory = None, !.loaded = None,
                                             !.conflicts = {}, !.attempt = @ + 1])
              /\ UNCHANGED lock
      /\ UNCHANGED <<external, vms, manual, history>>

\* The database refuses even that: the exception leaves the function, the
\* lock is released and the row of the run stays as it was.
FailureIsLost(w) ==
  /\ worker[w].pc \in {"attempt", "fetch", "apply", "loaded"}
  /\ lock' = None
  /\ Become(w, Idle)
  /\ orphans' = orphans \cup {worker[w].run}
  /\ UNCHANGED <<external, vms, manual, runs, applied, gone>>

(***************************************************************************)
(* Operators                                                               *)
(***************************************************************************)
Write(v, row) == vms' = [vms EXCEPT ![v] = row]
NotSynchronising == UNCHANGED <<external, runs, lock, worker, history>>

\* update_vm: the contents and what the operator protects.
Edit(v, value, locked) ==
  /\ vms[v] # None
  /\ Write(v, [vms[v] EXCEPT !.value = value, !.locked = locked])
  /\ UNCHANGED manual
  /\ NotSynchronising

\* manage_stale_vm, action "confirm": of any machine, stale or not.
Confirm(v) ==
  /\ vms[v] # None
  /\ Write(v, [vms[v] EXCEPT !.state = "stale_confirmed"])
  /\ UNCHANGED manual
  /\ NotSynchronising

\* Action "restore".
Restore(v) ==
  /\ vms[v] # None
  /\ Write(v, [vms[v] EXCEPT !.state = "active", !.since = 0])
  /\ UNCHANGED manual
  /\ NotSynchronising

\* Action "detach": the row stays as a manual one, bound to nothing.
Detach(v) ==
  /\ vms[v] # None
  /\ Write(v, None)
  /\ manual' = manual \cup {v}
  /\ NotSynchronising

\* delete_vm, of the bound row or of the manual one.
Delete(v) ==
  /\ \/ vms[v] # None /\ Write(v, None) /\ UNCHANGED manual
     \/ v \in manual /\ manual' = manual \ {v} /\ UNCHANGED vms
  /\ NotSynchronising

\* The process stops.  Committed rows survive, and nothing looks at the
\* runs that were open when it starts again.
Crash ==
  /\ worker' = [w \in Workers |-> Idle]
  /\ lock' = None
  /\ orphans' = orphans \cup {worker[w].run : w \in {u \in Workers : worker[u].run # 0}}
  /\ orphans' # orphans
  /\ UNCHANGED <<external, vms, manual, runs, applied, gone>>

(***************************************************************************)
(* Specification                                                           *)
(***************************************************************************)
\* The history of earlier runs may have been pruned; their machines are there.
Init ==
  /\ source \in [Vms -> Values \cup {Absent}]
  /\ version = 0
  /\ vms \in [Vms -> {None} \cup [value : Values, locked : {FALSE}, state : {"active"}, since : {0}]]
  /\ manual = {}
  /\ runs = [i \in RunIds |-> None]
  /\ lock = None
  /\ worker = [w \in Workers |-> Idle]
  /\ applied = 0
  /\ gone = {v \in Vms : source[v] = Absent}
  /\ orphans = {}

\* What a thread does once it has started.
Step(w) ==
  \/ ApplyInventory(w) \/ BeginAttempt(w) \/ Fetch(w) \/ Load(w) \/ ApplyCore(w)
  \/ RecordFailure(w) \/ FailureIsLost(w)

Operate(v) ==
  \/ \E value \in Edits, locked \in BOOLEAN : Edit(v, value, locked)
  \/ Confirm(v) \/ Restore(v) \/ Detach(v) \/ Delete(v)

Next ==
  \/ \E w \in Workers : Step(w) \/ RunScheduledSync(w) \/ \E m \in Modes : FetchFirst(w, m)
  \/ \E v \in Vms : Operate(v)
  \/ \E v \in Vms, state \in Values \cup {Absent, Off} : SourceChanges(v, state)
  \/ Crash

Spec == Init /\ [][Next]_vars

(***************************************************************************)
(* Properties                                                              *)
(***************************************************************************)
WorkerState ==
  [pc : {"idle", "fetched", "attempt", "fetch", "apply", "loaded"}, scheduled : BOOLEAN,
   mode : Modes \cup {Full, None}, inventory : Inventory \cup {None},
   run : 0 .. MaxRuns, attempt : 0 .. Tries,
   loaded : [Vms -> Row \cup {None}] \cup {None}, conflicts : SUBSET Vms]

\* Every variable keeps its type.
TypeOK ==
  /\ source \in [Vms -> Values \cup {Absent, Off}]
  /\ version \in 0 .. MaxVersions
  /\ vms \in [Vms -> Row \cup {None}]
  /\ manual \subseteq Vms
  /\ runs \in [RunIds -> RunRow \cup {None}]
  /\ lock \in Workers \cup {None}
  /\ worker \in [Workers -> WorkerState]
  /\ applied \in 0 .. MaxVersions
  /\ gone \subseteq Vms
  /\ orphans \subseteq RunIds

\* A machine is stale only when the source has really been without it: neither
\* truncation, nor a machine that is off, nor a selective import ever marks
\* one (safe_mark_missing, excluded_vm_ids).
StaleWasMissing ==
  \A v \in Vms : vms[v] # None /\ vms[v].state = "stale" => v \in gone

\* The lock of the source is held by a thread that is still synchronising: no
\* way out of a run, failed or lost, keeps the source locked.  And a stored run
\* that is not over is that thread's, which will end it, unless its own was lost
\* with the process or could not store its failure.
RunsAreAttended ==
  /\ lock # None => worker[lock].pc \in {"attempt", "fetch", "apply", "loaded"}
  /\ \A i \in Started \ orphans : runs[i].status \in {"running", "retrying"} =>
       \E w \in Workers : lock = w /\ worker[w].run = i

\* A scheduled run applies no inventory older than one already applied: it
\* fetches while it holds the lock.
ScheduledIsFresh ==
  \A w \in Workers : worker[w].scheduled /\ worker[w].inventory # None =>
    worker[w].inventory.at >= applied

\* A commit keeps the contents and the protection of a machine whose protection
\* the thread had loaded, except against an operator who changed it meanwhile.
ProtectedIsKept ==
  [][\A w \in Workers, v \in Vms :
       /\ ApplyCore(w)
       /\ vms[v] # None
       /\ worker[w].loaded[v] = vms[v]
       /\ vms[v].locked
       => vms'[v].value = vms[v].value /\ vms'[v].locked]_vars

\* The moment a machine was first missed is kept as long as it stays missing,
\* and a confirmed absence is not turned back into an open one, whatever the
\* retries and the overlapping requests.
AbsenceIsRemembered ==
  [][\A w \in Workers, v \in Vms :
       ApplyCore(w) /\ vms[v] # None /\ vms'[v] # None /\ vms'[v].since # 0 =>
         /\ vms[v].since # 0 /\ worker[w].loaded[v] = vms[v] => vms'[v].since = vms[v].since
         /\ vms[v].state = "stale_confirmed" /\ worker[w].loaded[v] = vms[v]
              => vms'[v].state = "stale_confirmed"]_vars

\* The stored runs behave as SyncRecord says.
Record == INSTANCE SyncRecord WITH Runs <- RunIds, record <- runs
ImplementsSyncRecord == Record!Spec
=============================================================================
