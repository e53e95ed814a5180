----------------------------- MODULE Discovery -----------------------------
(***************************************************************************)
(* Batches and crawls of devices (app/services/discovery_service.py, the   *)
(* endpoint of app/routers/topology.py, and the registration of devices in *)
(* app/routers/devices.py).  A task contacts the devices of a batch in a   *)
(* pool of threads, one session each; a discovery may then add the         *)
(* neighbours it found as devices, and a recursive one goes on with those. *)
(* Batches of backups and of device information (backup_service.py,        *)
(* info_service.py) are tasks that neither add nor go on.                  *)
(*                                                                         *)
(* Abstractions.  A neighbour is its address; those without a usable one   *)
(* are left out, as are the links from neighbours to devices, profiles,    *)
(* groups and names.  Both protocols of a device are one report.  A source *)
(* deleted while its neighbours are added is not looked at again.  SQLite  *)
(* admits one writer: from its first insertion to its commit an addition   *)
(* is alone, and reads all but the first address in that time.             *)
(***************************************************************************)
EXTENDS Integers, FiniteSets, Functions

CONSTANTS Ids,          \* ids of devices; SQLite gives an id that is free again
          Addresses,
          Reports,      \* sets of neighbours a device may report
          Tasks,        \* bound: tasks
          Workers,      \* MAX_CONCURRENT_SESSIONS
          MaxDepth,     \* max_depth of a crawl (15)
          MaxChanges,   \* bound on edits and deletions of devices
          Seeds,        \* the devices there are at the start
          Request,      \* the request that registers a device
          None          \* no device or address

ASSUME BoundsAssumption == Workers \in Nat \ {0} /\ MaxDepth \in Nat \ {0} /\ MaxChanges \in Nat
ASSUME IdsAssumption == IsFiniteSet(Ids)
ASSUME NoneAssumption == None \notin Ids /\ None \notin Addresses
ASSUME SeedsAssumption == Seeds \subseteq Ids /\ Request \notin Tasks
ASSUME ReportsAssumption == Reports \subseteq SUBSET Addresses

VARIABLES devices,      \* id -> device or None
          reported,     \* the neighbours stored for a device
          task,         \* task -> what its thread knows
          future,       \* task -> device -> its future in the pool
          log,          \* task -> its row of task_logs
          creating,     \* the address a request has found to be free
          visits,       \* history: task -> device -> futures begun
          mine,         \* history: task -> devices it added
          outdated,     \* history: additions since whose check others added
          disturbed,    \* history: one of those came to pass, or a change
          changes       \* bounded counter of edits and deletions

inventory == <<devices, reported>>
history == <<visits, mine, outdated, disturbed, changes>>
vars == <<inventory, task, future, log, creating, history>>

Device == [ip : Addresses, active : BOOLEAN]
ASSUME DeviceAssumption == None \notin Device

Futures == {"none", "queued", "running", "ok", "failed"}
Locations == {"none", "next", "gather", "add", "insert", "requeue", "finish", "over"}
Task == [at : Locations, full : BOOLEAN, auto : BOOLEAN, queue : SUBSET Ids,
         processed : SUBSET Ids, batch : SUBSET Ids, ok : 0..Cardinality(Ids),
         bad : 0..Cardinality(Ids), depth : 0..MaxDepth, first : Addresses \cup {None},
         found : SUBSET Addresses, poisoned : BOOLEAN]
NoTask == [at |-> "none", full |-> FALSE, auto |-> FALSE, queue |-> {}, processed |-> {},
           batch |-> {}, ok |-> 0, bad |-> 0, depth |-> 0, first |-> None, found |-> {},
           poisoned |-> FALSE]
Log == [status : {"none", "running", "success", "failed", "partial"},
        ok : 0..Cardinality(Ids), bad : 0..Cardinality(Ids)]
NoLog == [status |-> "none", ok |-> 0, bad |-> 0]

Existing == {d \in Ids : devices[d] # None}
Active(ds) == {d \in ds \cap Existing : devices[d].active}
Known(a) == \E d \in Existing : devices[d].ip = a
Pool(t, states) == {d \in Ids : future[t][d] \in states}
Closed(t) == log[t].status \in {"success", "failed", "partial"}

\* Devices have addresses of their own, as far as the operator registered them.
Init ==
  /\ devices \in {ds \in [Ids -> [ip : Addresses, active : {TRUE}] \cup {None}] :
                    /\ {d \in Ids : ds[d] # None} = Seeds
                    /\ \A d, e \in Seeds : ds[d].ip = ds[e].ip => d = e}
  /\ reported = [d \in Ids |-> {}]
  /\ task = [t \in Tasks |-> NoTask]
  /\ future = [t \in Tasks |-> [d \in Ids |-> "none"]]
  /\ log = [t \in Tasks |-> NoLog]
  /\ creating = None
  /\ visits = [t \in Tasks |-> [d \in Ids |-> 0]]
  /\ mine = [t \in Tasks |-> {}]
  /\ outdated = {}
  /\ disturbed = FALSE
  /\ changes = 0

-----------------------------------------------------------------------------
(* A batch in its pool *)

\* One of the devices asked for must be active.
StartTask(t) ==
  /\ task[t].at = "none"
  /\ \E seeds \in SUBSET Existing, full, auto \in BOOLEAN :
       /\ Active(seeds) # {}
       /\ task' = [task EXCEPT ![t] = [NoTask EXCEPT !.at = "next", !.full = full,
                                                     !.auto = auto, !.queue = seeds]]
  /\ log' = [log EXCEPT ![t].status = "running"]
  /\ UNCHANGED <<inventory, future, creating, history>>

Batch(t) == task[t].queue \ task[t].processed

GoesOn(t) == Batch(t) # {} /\ (task[t].full => task[t].depth < MaxDepth)

\* Only devices that exist and are active get a future.
SubmitBatch(t) ==
  /\ task[t].at = "next"
  /\ GoesOn(t)
  /\ task' = [task EXCEPT ![t].at = "gather", ![t].batch = Batch(t), ![t].queue = {}]
  /\ future' = [future EXCEPT ![t] =
                  [d \in Ids |-> IF d \in Active(Batch(t)) THEN "queued" ELSE "none"]]
  /\ UNCHANGED <<inventory, log, creating, history>>

EndCrawl(t) ==
  /\ task[t].at = "next"
  /\ ~GoesOn(t)
  /\ task' = [task EXCEPT ![t].at = "finish"]
  /\ UNCHANGED <<inventory, future, log, creating, history>>

\* A thread of the pool takes the device; one that was deleted is a failure.
Contact(t, d) ==
  /\ future[t][d] = "queued"
  /\ Cardinality(Pool(t, {"running"})) < Workers
  /\ future' = [future EXCEPT ![t][d] = IF d \in Existing THEN "running" ELSE "failed"]
  /\ visits' = [visits EXCEPT ![t][d] = @ + 1]
  /\ UNCHANGED <<inventory, task, log, creating, mine, outdated, disturbed, changes>>

\* The device does not answer, or not in a form that is recognised, or the
\* result cannot be stored: its history is kept.
NoAnswer(t, d) ==
  /\ future[t][d] = "running"
  /\ future' = [future EXCEPT ![t][d] = "failed"]
  /\ UNCHANGED <<inventory, task, log, creating, history>>

\* Its neighbours are replaced in one transaction.
Store(t, d) ==
  /\ future[t][d] = "running"
  /\ d \in Existing
  /\ \E report \in Reports : reported' = [reported EXCEPT ![d] = report]
  /\ future' = [future EXCEPT ![t][d] = "ok"]
  /\ UNCHANGED <<devices, task, log, creating, history>>

\* What comes after a batch: an addition, the next batch or the end.  The depth
\* is counted after the addition.
AfterAdding(full) == IF full THEN "next" ELSE "finish"

\* Mutant: a batch is counted when it ends and again when its devices are added.
DeeperMutant(t) == IF task[t].full THEN task[t].depth + 2 ELSE task[t].depth

Deeper(t) == IF task[t].full THEN task[t].depth + 1 ELSE task[t].depth

Adds(t, ok) == task[t].auto /\ (task[t].full \/ ok > 0)

\* Mutant: devices whose thread failed are not counted.
FailedMutant(t) == 0

Failed(t) == Cardinality(Pool(t, {"failed"}))

\* as_completed: every future has ended.
Gather(t) ==
  /\ task[t].at = "gather"
  /\ Pool(t, {"queued", "running"}) = {}
  /\ LET ok == task[t].ok + Cardinality(Pool(t, {"ok"})) IN
     task' = [task EXCEPT ![t].ok = ok,
                          ![t].bad = @ + Failed(t),
                          ![t].processed = @ \cup task[t].batch,
                          ![t].depth = IF Adds(t, ok) THEN @ ELSE Deeper(t),
                          ![t].at = IF Adds(t, ok) THEN "add" ELSE AfterAdding(task[t].full)]
  /\ future' = [future EXCEPT ![t] = [d \in Ids |-> "none"]]
  /\ UNCHANGED <<inventory, log, creating, history>>

-----------------------------------------------------------------------------
(* auto_add_discovered_neighbors *)

Unknown(found) == {a \in found : ~Known(a)}

\* The neighbours are read once; without a new one there is nothing to lock.
CheckFirst(t) ==
  /\ task[t].at = "add"
  /\ LET found == UNION {reported[d] : d \in task[t].batch \cap Existing} IN
     \/ /\ Unknown(found) = {}
        /\ task' = [task EXCEPT ![t].at = "requeue", ![t].found = {}]
     \/ \E a \in Unknown(found) :
          task' = [task EXCEPT ![t].at = "insert", ![t].first = a, ![t].found = found]
  /\ outdated' = outdated \ {t}
  /\ UNCHANGED <<inventory, future, log, creating, visits, mine, disturbed, changes>>

\* Devices were added by x: what others found to be free may be so no more.
Checking == {t \in Tasks : task[t].at = "insert"} \cup (IF creating = None THEN {} ELSE {Request})
AddedBy(x) ==
  /\ outdated' = (outdated \cup Checking) \ {x}
  /\ disturbed' = (disturbed \/ x \in outdated)

\* Mutant: the addresses after the first are not looked up again.
NewAddressesMutant(t) == task[t].found

\* The first address as it was found, the others as they are now.
NewAddresses(t) == {task[t].first} \cup Unknown(task[t].found)

\* Phones and unidentified devices are added inactive.
Insert(t) ==
  /\ task[t].at = "insert"
  /\ \E id \in [NewAddresses(t) -> Ids \ Existing], active \in SUBSET NewAddresses(t) :
       /\ IsInjective(id)
       /\ devices' = [d \in Ids |->
            IF \E a \in DOMAIN id : id[a] = d
            THEN LET a == CHOOSE b \in DOMAIN id : id[b] = d
                 IN  [ip |-> a, active |-> a \in active]
            ELSE devices[d]]
       /\ mine' = [mine EXCEPT ![t] = @ \cup {id[a] : a \in DOMAIN id}]
  /\ task' = [task EXCEPT ![t].at = "requeue", ![t].found = NewAddresses(t), ![t].first = None]
  /\ AddedBy(t)
  /\ UNCHANGED <<reported, future, log, creating, visits, changes>>

\* An error leaves nothing added.  One of a flush leaves the session unusable:
\* nobody rolls it back.
AddFails(t) ==
  /\ task[t].at \in {"add", "insert"}
  /\ \E poisoned \in BOOLEAN :
       task' = [task EXCEPT ![t].at = AfterAdding(task[t].full), ![t].depth = Deeper(t),
                            ![t].found = {}, ![t].first = None, ![t].poisoned = @ \/ poisoned]
  /\ UNCHANGED <<inventory, future, log, creating, history>>

\* The device of an added address is looked up: any that has it now.
FoundAgain(t, a) == {d \in Existing : devices[d].ip = a}

Requeue(t) ==
  /\ task[t].at = "requeue"
  /\ \E dev \in [task[t].found -> Ids \cup {None}] :
       /\ \A a \in task[t].found :
            IF FoundAgain(t, a) = {} THEN dev[a] = None ELSE dev[a] \in FoundAgain(t, a)
       /\ task' = [task EXCEPT
            ![t].queue = IF task[t].full THEN {dev[a] : a \in task[t].found} \ (task[t].processed \cup {None})
                         ELSE {},
            ![t].found = {},
            ![t].at = AfterAdding(task[t].full),
            ![t].depth = Deeper(t)]
  /\ UNCHANGED <<inventory, future, log, creating, history>>

\* A batch without failures is a success even if it was empty; a crawl is not.
Outcome(t) ==
  IF task[t].bad = 0 /\ (task[t].full => task[t].ok > 0) THEN "success"
  ELSE IF task[t].ok = 0 THEN "failed" ELSE "partial"

\* Mutant: the thread stops without closing its log.
ClosesMutant(t) == log' = log

Closes(t) == log' = [log EXCEPT ![t] = [status |-> Outcome(t), ok |-> task[t].ok, bad |-> task[t].bad]]

\* The last commit fails on a session that is unusable, and the log stays open.
\* The counters and lists of the thread are gone with it.
Finish(t) ==
  /\ task[t].at = "finish"
  /\ task' = [task EXCEPT ![t].at = "over", ![t].queue = {}, ![t].processed = {},
                          ![t].batch = {}, ![t].ok = 0, ![t].bad = 0]
  /\ IF task[t].poisoned THEN UNCHANGED log ELSE Closes(t)
  /\ UNCHANGED <<inventory, future, creating, history>>

-----------------------------------------------------------------------------
(* Operators *)

CheckDevice ==
  /\ creating = None
  /\ \E a \in Addresses : ~Known(a) /\ creating' = a
  /\ outdated' = outdated \ {Request}
  /\ UNCHANGED <<inventory, task, future, log, visits, mine, disturbed, changes>>

CreateDevice ==
  /\ creating # None
  /\ \E d \in Ids \ Existing : devices' = [devices EXCEPT ![d] = [ip |-> creating, active |-> TRUE]]
  /\ creating' = None
  /\ AddedBy(Request)
  /\ UNCHANGED <<reported, task, future, log, visits, mine, changes>>

Changed ==
  /\ changes < MaxChanges
  /\ changes' = changes + 1
  /\ disturbed' = TRUE

\* The neighbours of a device go with it.
DeleteDevice ==
  /\ Changed
  /\ \E d \in Existing :
       /\ devices' = [devices EXCEPT ![d] = None]
       /\ reported' = [reported EXCEPT ![d] = {}]
  /\ UNCHANGED <<task, future, log, creating, visits, mine, outdated>>

\* An edit looks for no other device with the address.
EditDevice ==
  /\ Changed
  /\ \E d \in Existing, edited \in Device : devices' = [devices EXCEPT ![d] = edited]
  /\ UNCHANGED <<reported, task, future, log, creating, visits, mine, outdated>>

-----------------------------------------------------------------------------
PoolStep(t) == \E d \in Ids : Contact(t, d) \/ NoAnswer(t, d) \/ Store(t, d)

TaskStep(t) ==
  \/ SubmitBatch(t) \/ EndCrawl(t) \/ Gather(t)
  \/ CheckFirst(t) \/ Insert(t) \/ AddFails(t) \/ Requeue(t) \/ Finish(t)

Next ==
  \/ \E t \in Tasks : StartTask(t) \/ PoolStep(t) \/ TaskStep(t)
  \/ CheckDevice \/ CreateDevice \/ EditDevice \/ DeleteDevice

\* Threads run, and sessions with devices end: connecting and reading have
\* timeouts (ssh_service.py).
Fairness == \A t \in Tasks : WF_vars(TaskStep(t)) /\ WF_vars(PoolStep(t))

Spec == Init /\ [][Next]_vars /\ Fairness

-----------------------------------------------------------------------------
(* Properties *)

\* Every variable has its type; only a task that gathers has futures.
TypeOK ==
  /\ devices \in [Ids -> Device \cup {None}]
  /\ reported \in [Ids -> SUBSET Addresses]
  /\ task \in [Tasks -> Task]
  /\ future \in [Tasks -> [Ids -> Futures]]
  /\ \A t \in Tasks : Pool(t, Futures \ {"none"}) # {} => task[t].at = "gather"
  /\ log \in [Tasks -> Log]
  /\ creating \in Addresses \cup {None}
  /\ visits \in [Tasks -> [Ids -> 0..2]]
  /\ mine \in [Tasks -> SUBSET Ids]
  /\ outdated \subseteq Tasks \cup {Request}
  /\ disturbed \in BOOLEAN
  /\ changes \in 0..MaxChanges

\* No two devices have one address, as long as no two additions overlapped:
\* neither a crawl's own report nor a repeated discovery adds a device twice
\* (the column is not unique).
AddressesUnique ==
  ~disturbed =>
    \A d, e \in Existing : devices[d].ip = devices[e].ip => d = e

\* A log that was closed counts every device whose turn came, once each, however
\* threads failed and devices disappeared; and a crawl that ended above its
\* depth limit, undisturbed, has contacted every active device it added.
TaskAccounts ==
  \A t \in Tasks : Closed(t) =>
    /\ \A d \in Ids : visits[t][d] <= 1
    /\ log[t].ok + log[t].bad = Cardinality({d \in Ids : visits[t][d] = 1})
    /\ task[t].full /\ task[t].depth < MaxDepth /\ ~disturbed =>
         \A d \in mine[t] : devices[d].active => visits[t][d] = 1

\* Every task that starts closes its log, unless a flush failed in between: the
\* crawl ends on networks with cycles and on neighbours that keep appearing.
LogsClose ==
  \A t \in Tasks : log[t].status = "running" ~> (Closed(t) \/ task[t].poisoned)

\* The row of every task behaves as TaskLog says: it is stored as running, ends
\* at most once and never changes again.
TaskLogs == INSTANCE TaskLog WITH Entries <- Tasks, status <- [t \in Tasks |-> log[t].status]
ImplementsTaskLog == TaskLogs!Spec
=============================================================================
