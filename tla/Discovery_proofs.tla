-------------------------- MODULE Discovery_proofs --------------------------
(***************************************************************************)
(* What Discovery keeps for any devices, addresses, tasks and requests: the *)
(* counters of a task are the turns it gave, an address that was found to   *)
(* be free is still free unless another addition came first, and a device   *)
(* that a crawl added waits in exactly one place for its turn.              *)
(***************************************************************************)
EXTENDS Discovery, FiniteSetTheorems, TLAPS

Visited(t) == {d \in Ids : visits[t][d] = 1}
Begun == {"running", "ok", "failed"}

\* A device has one turn in a task, and what a task counted are the turns that
\* ended before the batch in its pool, those of a closed log all of them.
Counted(t) ==
  /\ \A d \in Ids : visits[t][d] \in {0, 1}
  /\ \A d \in Ids : future[t][d] # "none" => task[t].at = "gather" /\ d \in task[t].batch
  /\ \A d \in Ids : /\ future[t][d] = "queued" => visits[t][d] = 0
                    /\ future[t][d] \in Begun => visits[t][d] = 1
  /\ task[t].at = "gather" => task[t].batch \cap task[t].processed = {}
  /\ task[t].at # "over" =>
       /\ \A d \in Ids : visits[t][d] = 1 => d \in task[t].processed \/ future[t][d] # "none"
       /\ task[t].ok + task[t].bad + Cardinality(Pool(t, Begun)) = Cardinality(Visited(t))
  /\ task[t].at = "none" => mine[t] = {} /\ task[t].processed = {} /\ task[t].ok = 0 /\ task[t].bad = 0
  /\ Closed(t) => /\ task[t].at = "over"
                  /\ log[t].ok + log[t].bad = Cardinality(Visited(t))
  /\ task[t].full /\ task[t].at \in {"gather", "add", "insert", "requeue"}
       => task[t].depth < MaxDepth
  /\ task[t].at = "insert" => task[t].first \in Addresses

\* Where a device that the task added waits for its turn.
Awaits(t, d) ==
  \/ task[t].at = "next" /\ d \in task[t].queue \ task[t].processed
  \/ task[t].at = "gather" /\ future[t][d] = "queued"
  \/ task[t].at = "requeue" /\ d \notin task[t].processed /\ devices[d].ip \in task[t].found
  \/ task[t].at \in {"finish", "over"} /\ task[t].depth >= MaxDepth

Crawls(t) ==
  /\ task[t].queue \cup task[t].processed \cup task[t].batch \cup mine[t] \subseteq Existing
  /\ task[t].full => \A d \in mine[t] : devices[d].active => visits[t][d] = 1 \/ Awaits(t, d)
  /\ task[t].at = "insert" /\ t \notin outdated => ~Known(task[t].first)

Unique == \A d, e \in Existing : devices[d].ip = devices[e].ip => d = e

Undisturbed ==
  /\ Unique
  /\ creating # None /\ Request \notin outdated => ~Known(creating)
  /\ \A t \in Tasks : Crawls(t)

IInv == TypeOK /\ (\A t \in Tasks : Counted(t)) /\ (~disturbed => Undisturbed)

-----------------------------------------------------------------------------
(* Sets and counters                                                        *)

LEMMA Finite ==
  ASSUME NEW S \in SUBSET Ids
  PROVE  /\ IsFiniteSet(S) /\ Cardinality(S) \in Nat
         /\ Cardinality(S) <= Cardinality(Ids) /\ Cardinality(Ids) \in Nat
BY IdsAssumption, FS_Subset, FS_CardinalityType

LEMMA Disjoint ==
  ASSUME NEW S \in SUBSET Ids, NEW T \in SUBSET Ids, S \cap T = {}
  PROVE  Cardinality(S \cup T) = Cardinality(S) + Cardinality(T)
<1>1. IsFiniteSet(S) /\ IsFiniteSet(T) /\ Cardinality(S) \in Nat /\ Cardinality(T) \in Nat
  BY Finite
<1>2. Cardinality(S \cap T) = 0
  BY FS_EmptySet
<1>3. Cardinality(S \cup T) = Cardinality(S) + Cardinality(T) - Cardinality(S \cap T)
  BY <1>1, FS_Union
<1> QED
  BY <1>1, <1>2, <1>3

\* One more device has had its turn.
LEMMA OneMore ==
  ASSUME NEW S \in SUBSET Ids, NEW d \in Ids \ S
  PROVE  Cardinality(S \cup {d}) = Cardinality(S) + 1
BY Finite, FS_AddElement

\* The pool of a task, none of whose futures has begun.
LEMMA NonePool ==
  ASSUME NEW t \in Tasks, \A d \in Ids : future[t][d] \notin Begun
  PROVE  Cardinality(Pool(t, Begun)) = 0
<1>1. Pool(t, Begun) = {}
  BY DEF Pool
<1> QED
  BY <1>1, FS_EmptySet

\* What a task counted and has in its pool is no more than there are devices.
LEMMA Tally ==
  ASSUME TypeOK, NEW t \in Tasks, Counted(t), task[t].at # "over"
  PROVE  /\ task[t].ok \in Nat /\ task[t].bad \in Nat
         /\ Cardinality(Pool(t, Begun)) \in Nat /\ Cardinality(Ids) \in Nat
         /\ task[t].ok + task[t].bad + Cardinality(Pool(t, Begun)) = Cardinality(Visited(t))
         /\ Cardinality(Visited(t)) \in Nat /\ Cardinality(Visited(t)) <= Cardinality(Ids)
<1>1. Pool(t, Begun) \in SUBSET Ids /\ Visited(t) \in SUBSET Ids
  BY DEF Pool, Visited
<1>2. /\ Cardinality(Pool(t, Begun)) \in Nat /\ Cardinality(Visited(t)) \in Nat
      /\ Cardinality(Visited(t)) <= Cardinality(Ids) /\ Cardinality(Ids) \in Nat
  BY <1>1, Finite
<1>3. task[t].ok \in Nat /\ task[t].bad \in Nat
  BY <1>2 DEF TypeOK, Task
<1> QED
  BY <1>2, <1>3 DEF Counted

\* At the end of a batch its futures are either answers or failures.
LEMMA GatherTally ==
  ASSUME TypeOK, NEW t \in Tasks, Counted(t), Gather(t)
  PROVE  /\ Cardinality(Pool(t, {"ok"})) \in Nat /\ Failed(t) \in Nat
         /\ task[t].ok \in Nat /\ task[t].bad \in Nat
         /\ task[t].ok + Cardinality(Pool(t, {"ok"})) \in 0 .. Cardinality(Ids)
         /\ task[t].bad + Failed(t) \in 0 .. Cardinality(Ids)
         /\ task[t].ok + Cardinality(Pool(t, {"ok"})) + (task[t].bad + Failed(t))
              = Cardinality(Visited(t))
<1>1. Pool(t, {"ok"}) \in SUBSET Ids /\ Pool(t, {"failed"}) \in SUBSET Ids
      /\ Pool(t, {"ok"}) \cap Pool(t, {"failed"}) = {}
  BY DEF Pool
<1>2. Pool(t, Begun) = Pool(t, {"ok"}) \cup Pool(t, {"failed"})
  BY DEF Pool, Begun, Gather
<1>3. Cardinality(Pool(t, Begun)) = Cardinality(Pool(t, {"ok"})) + Cardinality(Pool(t, {"failed"}))
  BY <1>1, <1>2, Disjoint
<1>4. Cardinality(Pool(t, {"ok"})) \in Nat /\ Cardinality(Pool(t, {"failed"})) \in Nat
  BY <1>1, Finite
<1>5. task[t].at # "over"
  BY DEF Gather
<1> QED
  BY <1>3, <1>4, <1>5, Tally DEF Failed

-----------------------------------------------------------------------------
(* What the steps of a task write                                           *)

Only(t) == \A u \in Tasks : u # t => task'[u] = task[u]

\* What every step but the first leaves alone.
Same(t) ==
  /\ task'[t].full = task[t].full /\ task'[t].auto = task[t].auto
  /\ Only(t)

LEMMA TaskRecord ==
  ASSUME TypeOK, NEW t \in Tasks
  PROVE  task[t] \in Task /\ DOMAIN task = Tasks
BY DEF TypeOK

LEMMA StartFields ==
  ASSUME TypeOK, NEW t \in Tasks, StartTask(t)
  PROVE  /\ task' \in [Tasks -> Task] /\ Only(t)
         /\ task[t].at = "none" /\ task'[t].at = "next"
         /\ task'[t].queue \subseteq Existing
         /\ task'[t].processed = {} /\ task'[t].batch = {}
         /\ task'[t].ok = 0 /\ task'[t].bad = 0
<1>1. PICK seeds \in SUBSET Existing, full \in BOOLEAN, auto \in BOOLEAN :
        task' = [task EXCEPT ![t] = [NoTask EXCEPT !.at = "next", !.full = full,
                                                  !.auto = auto, !.queue = seeds]]
  BY DEF StartTask
<1> DEFINE new == [NoTask EXCEPT !.at = "next", !.full = full, !.auto = auto, !.queue = seeds]
<1>2. Existing \subseteq Ids /\ 0 \in 0 .. Cardinality(Ids) /\ 0 \in 0 .. MaxDepth
  BY Finite, BoundsAssumption DEF Existing
<1>3. /\ new \in Task /\ new.at = "next" /\ new.queue = seeds
      /\ new.processed = {} /\ new.batch = {} /\ new.ok = 0 /\ new.bad = 0
  BY <1>2 DEF NoTask, Task, Locations
<1>4. task' = [task EXCEPT ![t] = new]
  BY <1>1
<1> HIDE DEF new
<1> QED
  BY <1>3, <1>4, TaskRecord DEF StartTask, Only, TypeOK

LEMMA SubmitFields ==
  ASSUME TypeOK, NEW t \in Tasks, SubmitBatch(t)
  PROVE  /\ task' \in [Tasks -> Task] /\ Same(t)
         /\ task'[t].at = "gather" /\ task'[t].batch = Batch(t) /\ task'[t].queue = {}
         /\ task'[t].processed = task[t].processed /\ task'[t].depth = task[t].depth
         /\ task'[t].ok = task[t].ok /\ task'[t].bad = task[t].bad
<1> DEFINE new == [task[t] EXCEPT !.at = "gather", !.batch = Batch(t), !.queue = {}]
<1>1. Batch(t) \subseteq Ids
  BY TaskRecord DEF Batch, Task
<1>2. /\ new \in Task /\ new.full = task[t].full /\ new.auto = task[t].auto
      /\ new.at = "gather" /\ new.batch = Batch(t) /\ new.queue = {}
      /\ new.processed = task[t].processed /\ new.depth = task[t].depth
      /\ new.ok = task[t].ok /\ new.bad = task[t].bad
  BY ZenonT(40), <1>1, TaskRecord DEF Task, Locations
<1>3. task' = [task EXCEPT ![t] = new]
  BY TaskRecord DEF SubmitBatch, Task
<1> HIDE DEF new
<1> QED
  BY <1>2, <1>3 DEF TypeOK, Same, Only

LEMMA EndFields ==
  ASSUME TypeOK, NEW t \in Tasks, EndCrawl(t)
  PROVE  /\ task' \in [Tasks -> Task] /\ Same(t)
         /\ task'[t].at = "finish" /\ task'[t].batch = task[t].batch
         /\ task'[t].queue = task[t].queue
         /\ task'[t].processed = task[t].processed /\ task'[t].depth = task[t].depth
         /\ task'[t].ok = task[t].ok /\ task'[t].bad = task[t].bad
<1> DEFINE new == [task[t] EXCEPT !.at = "finish"]
<1>1. /\ new \in Task /\ new.full = task[t].full /\ new.auto = task[t].auto
      /\ new.at = "finish" /\ new.batch = task[t].batch /\ new.queue = task[t].queue
      /\ new.processed = task[t].processed /\ new.depth = task[t].depth
      /\ new.ok = task[t].ok /\ new.bad = task[t].bad
  BY TaskRecord DEF Task, Locations
<1>2. task' = [task EXCEPT ![t] = new]
  BY TaskRecord DEF EndCrawl, Task
<1> HIDE DEF new
<1> QED
  BY <1>1, <1>2 DEF TypeOK, Same, Only

LEMMA GatherFields ==
  ASSUME TypeOK, NEW t \in Tasks, Counted(t), Gather(t)
  PROVE  /\ task' \in [Tasks -> Task] /\ Same(t)
         /\ task'[t].at \in {"add", AfterAdding(task[t].full)}
         /\ task'[t].queue = task[t].queue /\ task'[t].batch = task[t].batch
         /\ task'[t].processed = task[t].processed \cup task[t].batch
         /\ task'[t].depth = IF task'[t].at = "add" THEN task[t].depth ELSE Deeper(t)
         /\ task'[t].ok = task[t].ok + Cardinality(Pool(t, {"ok"}))
         /\ task'[t].bad = task[t].bad + Failed(t)
<1> DEFINE ok == task[t].ok + Cardinality(Pool(t, {"ok"}))
           bad == task[t].bad + Failed(t)
           processed == task[t].processed \cup task[t].batch
           depth == IF Adds(t, ok) THEN task[t].depth ELSE Deeper(t)
           at == IF Adds(t, ok) THEN "add" ELSE AfterAdding(task[t].full)
           new == [task[t] EXCEPT !.ok = ok, !.bad = bad, !.processed = processed,
                                  !.depth = depth, !.at = at]
<1>1. ok \in 0 .. Cardinality(Ids) /\ bad \in 0 .. Cardinality(Ids)
  BY GatherTally
<1>2. processed \subseteq Ids
  BY TaskRecord DEF Task
<1>3. task[t].full => task[t].depth < MaxDepth
  BY DEF Counted, Gather
<1>4. depth \in 0 .. MaxDepth
  BY <1>3, TaskRecord, BoundsAssumption DEF Deeper, Task
<1>5. at \in Locations /\ at \in {"add", AfterAdding(task[t].full)}
      /\ depth = IF at = "add" THEN task[t].depth ELSE Deeper(t)
  BY DEF AfterAdding, Locations
<1>6. task' = [task EXCEPT ![t] = new]
  BY TaskRecord DEF Gather, Task
<1> HIDE DEF ok, bad, processed, depth, at
<1>7. /\ new \in Task /\ new.full = task[t].full /\ new.auto = task[t].auto
      /\ new.at = at /\ new.batch = task[t].batch /\ new.queue = task[t].queue
      /\ new.processed = processed /\ new.depth = depth /\ new.ok = ok /\ new.bad = bad
  BY ZenonT(40), <1>1, <1>2, <1>4, <1>5, TaskRecord DEF Task
<1> HIDE DEF new
<1>8. /\ task' \in [Tasks -> Task] /\ Same(t) /\ task'[t] = new
  BY <1>6, <1>7 DEF TypeOK, Same, Only
<1> QED
  BY <1>5, <1>7, <1>8 DEF ok, bad, processed

\* An addition counts nothing.
SameCounts(t) ==
  /\ Same(t)
  /\ task'[t].processed = task[t].processed
  /\ task'[t].ok = task[t].ok /\ task'[t].bad = task[t].bad

LEMMA CheckFields ==
  ASSUME TypeOK, NEW t \in Tasks, CheckFirst(t)
  PROVE  /\ task' \in [Tasks -> Task] /\ SameCounts(t)
         /\ task'[t].queue = task[t].queue /\ task'[t].batch = task[t].batch
         /\ task'[t].depth = task[t].depth
         /\ \/ task'[t].at = "requeue"
            \/ task'[t].at = "insert" /\ task'[t].first \in Addresses /\ ~Known(task'[t].first)
<1> DEFINE found == UNION {reported[d] : d \in task[t].batch \cap Existing}
<1>1. found \subseteq Addresses
  BY DEF TypeOK, Existing
<1>2. CASE task' = [task EXCEPT ![t].at = "requeue", ![t].found = {}]
  <2> DEFINE new == [task[t] EXCEPT !.at = "requeue", !.found = {}]
  <2>1. /\ new \in Task /\ new.full = task[t].full /\ new.auto = task[t].auto
        /\ new.at = "requeue" /\ new.batch = task[t].batch /\ new.queue = task[t].queue
        /\ new.processed = task[t].processed /\ new.depth = task[t].depth
        /\ new.ok = task[t].ok /\ new.bad = task[t].bad
    BY TaskRecord DEF Task, Locations
  <2>2. task' = [task EXCEPT ![t] = new]
    BY <1>2, TaskRecord DEF Task
  <2> HIDE DEF new
  <2> QED
    BY <2>1, <2>2 DEF TypeOK, SameCounts, Same, Only
<1>3. ASSUME NEW a \in Unknown(found),
             task' = [task EXCEPT ![t].at = "insert", ![t].first = a, ![t].found = found]
      PROVE  /\ task' \in [Tasks -> Task] /\ SameCounts(t)
             /\ task'[t].queue = task[t].queue /\ task'[t].batch = task[t].batch
             /\ task'[t].depth = task[t].depth
             /\ task'[t].at = "insert" /\ task'[t].first = a
  <2> DEFINE new == [task[t] EXCEPT !.at = "insert", !.first = a, !.found = found]
  <2> HIDE DEF found
  <2>0. a \in Addresses
    BY <1>1, <1>3 DEF Unknown
  <2>1. /\ new \in Task /\ new.full = task[t].full /\ new.auto = task[t].auto
        /\ new.at = "insert" /\ new.batch = task[t].batch /\ new.queue = task[t].queue
        /\ new.processed = task[t].processed /\ new.depth = task[t].depth
        /\ new.ok = task[t].ok /\ new.bad = task[t].bad /\ new.first = a
    BY ZenonT(40), <1>1, <2>0, TaskRecord DEF Task, Locations
  <2>2. task' = [task EXCEPT ![t] = new]
    BY <1>3, TaskRecord DEF Task
  <2> HIDE DEF new
  <2> QED
    BY <2>1, <2>2 DEF TypeOK, SameCounts, Same, Only
<1>4. \A a \in Unknown(found) : a \in Addresses /\ ~Known(a)
  BY <1>1 DEF Unknown
<1>5. \/ task' = [task EXCEPT ![t].at = "requeue", ![t].found = {}]
      \/ \E a \in Unknown(found) :
           task' = [task EXCEPT ![t].at = "insert", ![t].first = a, ![t].found = found]
  BY DEF CheckFirst
<1> HIDE DEF found
<1>6. CASE \E a \in Unknown(found) :
             task' = [task EXCEPT ![t].at = "insert", ![t].first = a, ![t].found = found]
  BY <1>3, <1>4, <1>6
<1> QED
  BY <1>2, <1>5, <1>6

LEMMA InsertFields ==
  ASSUME TypeOK, NEW t \in Tasks, Counted(t), Insert(t)
  PROVE  /\ task' \in [Tasks -> Task] /\ SameCounts(t)
         /\ task[t].at = "insert" /\ task'[t].at = "requeue"
         /\ task'[t].queue = task[t].queue /\ task'[t].batch = task[t].batch
         /\ task'[t].depth = task[t].depth /\ task'[t].found = NewAddresses(t)
         /\ NewAddresses(t) \subseteq Addresses
<1> DEFINE new == [task[t] EXCEPT !.at = "requeue", !.found = NewAddresses(t), !.first = None]
<1>1. NewAddresses(t) \subseteq Addresses
  BY TaskRecord DEF NewAddresses, Unknown, Counted, Insert, Task
<1>2. /\ new \in Task /\ new.full = task[t].full /\ new.auto = task[t].auto
      /\ new.at = "requeue" /\ new.batch = task[t].batch /\ new.queue = task[t].queue
      /\ new.processed = task[t].processed /\ new.depth = task[t].depth
      /\ new.ok = task[t].ok /\ new.bad = task[t].bad /\ new.found = NewAddresses(t)
  BY ZenonT(40), <1>1, TaskRecord DEF Task, Locations
<1>3. task' = [task EXCEPT ![t] = new]
  BY TaskRecord DEF Insert, Task
<1>4. task[t].at = "insert"
  BY DEF Insert
<1> HIDE DEF new
<1> QED
  BY <1>1, <1>2, <1>3, <1>4 DEF TypeOK, SameCounts, Same, Only

LEMMA DeeperTyped ==
  ASSUME TypeOK, NEW t \in Tasks, Counted(t), task[t].at \in {"add", "insert", "requeue"}
  PROVE  Deeper(t) \in 0 .. MaxDepth /\ AfterAdding(task[t].full) \in {"next", "finish"}
<1>1. task[t].full => task[t].depth < MaxDepth
  BY DEF Counted
<1> QED
  BY <1>1, TaskRecord, BoundsAssumption DEF Deeper, Task, AfterAdding

LEMMA FailFields ==
  ASSUME TypeOK, NEW t \in Tasks, Counted(t), AddFails(t)
  PROVE  /\ task' \in [Tasks -> Task] /\ SameCounts(t)
         /\ task'[t].at = AfterAdding(task[t].full)
         /\ task'[t].queue = task[t].queue /\ task'[t].batch = task[t].batch
         /\ task'[t].depth = Deeper(t)
<1>1. PICK poisoned \in BOOLEAN :
        task' = [task EXCEPT ![t].at = AfterAdding(task[t].full), ![t].depth = Deeper(t),
                             ![t].found = {}, ![t].first = None, ![t].poisoned = @ \/ poisoned]
  BY DEF AddFails
<1> DEFINE after == AfterAdding(task[t].full)
           deeper == Deeper(t)
           bad == task[t].poisoned \/ poisoned
           new == [task[t] EXCEPT !.at = after, !.depth = deeper, !.found = {}, !.first = None,
                                  !.poisoned = bad]
<1>2. deeper \in 0 .. MaxDepth /\ after \in {"next", "finish"}
  BY DeeperTyped DEF AddFails
<1>3. bad \in BOOLEAN
  OBVIOUS
<1>4. task' = [task EXCEPT ![t] = new]
  BY <1>1, TaskRecord DEF Task
<1> HIDE DEF after, deeper, bad
<1>5. /\ new \in Task /\ new.full = task[t].full /\ new.auto = task[t].auto
      /\ new.at = after /\ new.batch = task[t].batch /\ new.queue = task[t].queue
      /\ new.processed = task[t].processed /\ new.depth = deeper
      /\ new.ok = task[t].ok /\ new.bad = task[t].bad
  BY ZenonT(40), <1>2, <1>3, TaskRecord DEF Task, Locations
<1> HIDE DEF new
<1>6. after = AfterAdding(task[t].full) /\ deeper = Deeper(t)
  BY DEF after, deeper
<1> QED
  BY <1>4, <1>5, <1>6 DEF TypeOK, SameCounts, Same, Only

LEMMA RequeueFields ==
  ASSUME TypeOK, NEW t \in Tasks, Counted(t), Requeue(t)
  PROVE  /\ task' \in [Tasks -> Task] /\ SameCounts(t)
         /\ task[t].at = "requeue" /\ task'[t].at = AfterAdding(task[t].full)
         /\ task'[t].batch = task[t].batch /\ task'[t].depth = Deeper(t)
         /\ \E dev \in [task[t].found -> Ids \cup {None}] :
              /\ \A a \in task[t].found :
                   IF FoundAgain(t, a) = {} THEN dev[a] = None ELSE dev[a] \in FoundAgain(t, a)
              /\ task'[t].queue = IF task[t].full
                                  THEN {dev[a] : a \in task[t].found} \ (task[t].processed \cup {None})
                                  ELSE {}
<1>1. PICK dev \in [task[t].found -> Ids \cup {None}] :
        /\ \A a \in task[t].found :
             IF FoundAgain(t, a) = {} THEN dev[a] = None ELSE dev[a] \in FoundAgain(t, a)
        /\ task' = [task EXCEPT
             ![t].queue = IF task[t].full
                          THEN {dev[a] : a \in task[t].found} \ (task[t].processed \cup {None})
                          ELSE {},
             ![t].found = {},
             ![t].at = AfterAdding(task[t].full),
             ![t].depth = Deeper(t)]
  BY DEF Requeue
<1> DEFINE after == AfterAdding(task[t].full)
           deeper == Deeper(t)
           queue == IF task[t].full
                    THEN {dev[a] : a \in task[t].found} \ (task[t].processed \cup {None})
                    ELSE {}
           new == [task[t] EXCEPT !.queue = queue, !.found = {}, !.at = after, !.depth = deeper]
<1>2. task[t].at = "requeue"
  BY DEF Requeue
<1>3. deeper \in 0 .. MaxDepth /\ after \in {"next", "finish"}
  BY <1>2, DeeperTyped
<1>4. queue \subseteq Ids
  OBVIOUS
<1>5. task' = [task EXCEPT ![t] = new]
  BY <1>1, TaskRecord DEF Task
<1> HIDE DEF after, deeper, queue
<1>6. /\ new \in Task /\ new.full = task[t].full /\ new.auto = task[t].auto
      /\ new.at = after /\ new.batch = task[t].batch /\ new.queue = queue
      /\ new.processed = task[t].processed /\ new.depth = deeper
      /\ new.ok = task[t].ok /\ new.bad = task[t].bad
  BY ZenonT(40), <1>3, <1>4, TaskRecord DEF Task, Locations
<1> HIDE DEF new
<1>7. /\ task' \in [Tasks -> Task] /\ SameCounts(t)
      /\ task'[t].at = after /\ task'[t].batch = task[t].batch /\ task'[t].queue = queue
      /\ task'[t].depth = deeper
  BY <1>5, <1>6 DEF TypeOK, SameCounts, Same, Only
<1> QED
  BY ZenonT(40), <1>1, <1>2, <1>7 DEF after, deeper, queue

LEMMA FinishFields ==
  ASSUME TypeOK, NEW t \in Tasks, Finish(t)
  PROVE  /\ task' \in [Tasks -> Task] /\ Same(t)
         /\ task'[t].at = "over" /\ task'[t].depth = task[t].depth
         /\ task'[t].queue = {} /\ task'[t].processed = {} /\ task'[t].batch = {}
<1> DEFINE new == [task[t] EXCEPT !.at = "over", !.queue = {}, !.processed = {},
                                  !.batch = {}, !.ok = 0, !.bad = 0]
<1>1. 0 \in 0 .. Cardinality(Ids)
  BY Finite
<1>2. /\ new \in Task /\ new.full = task[t].full /\ new.auto = task[t].auto
      /\ new.at = "over" /\ new.batch = {} /\ new.queue = {}
      /\ new.processed = {} /\ new.depth = task[t].depth
  BY ZenonT(40), <1>1, TaskRecord DEF Task, Locations
<1>3. task' = [task EXCEPT ![t] = new]
  BY TaskRecord DEF Finish, Task
<1> HIDE DEF new
<1> QED
  BY <1>2, <1>3 DEF TypeOK, Same, Only

-----------------------------------------------------------------------------
(* What a step of one leaves of the others                                  *)

\* The other tasks are as they were.
Others(x) ==
  \A u \in Tasks : u # x =>
    /\ task'[u] = task[u] /\ future'[u] = future[u] /\ visits'[u] = visits[u]
    /\ mine'[u] = mine[u] /\ log'[u] = log[u]

LEMMA OthersCounted ==
  ASSUME IInv, NEW x, Others(x), NEW u \in Tasks, u # x
  PROVE  Counted(u)'
<1>1. \A states : Pool(u, states)' = Pool(u, states)
  BY DEF Others, Pool
<1>2. Pool(u, Begun)' = Pool(u, Begun) /\ Visited(u)' = Visited(u) /\ Closed(u)' = Closed(u)
  BY DEF Others, Visited, Closed, Pool
<1> QED
  BY <1>2 DEF Others, IInv, Counted

\* Devices that there were are still the same.
Grows == \A d \in Existing : devices'[d] = devices[d]

LEMMA OthersCrawl ==
  ASSUME IInv, ~disturbed, NEW x, Others(x), Grows,
         \/ devices' = devices /\ \A u \in Tasks : u # x /\ u \notin outdated' => u \notin outdated
         \/ \A u \in Checking : u # x => u \in outdated',
         NEW u \in Tasks, u # x
  PROVE  Crawls(u)'
<1>1. Crawls(u) /\ task'[u] = task[u] /\ future'[u] = future[u] /\ visits'[u] = visits[u]
      /\ mine'[u] = mine[u]
  BY DEF IInv, Undisturbed, Others
<1>2. Existing \subseteq Existing'
  BY DEF Grows, Existing
<1>3. /\ task'[u].queue \cup task'[u].processed \cup task'[u].batch \cup mine'[u] \subseteq Existing'
      /\ mine'[u] \subseteq Existing
  BY <1>1, <1>2 DEF Crawls
<1>4. \A d \in mine'[u] : devices'[d] = devices[d]
  BY <1>3 DEF Grows
<1>5. task'[u].full => \A d \in mine'[u] : devices'[d].active => visits'[u][d] = 1 \/ Awaits(u, d)'
  BY <1>1, <1>4 DEF Crawls, Awaits
<1>6. task'[u].at = "insert" /\ u \notin outdated' => ~Known(task[u].first)'
  <2>1. CASE devices' = devices /\ (u \notin outdated' => u \notin outdated)
    BY <1>1, <2>1 DEF Crawls, Known, Existing
  <2>2. CASE u \in Checking => u \in outdated'
    BY <1>1, <2>2 DEF Checking
  <2> QED
    BY <2>1, <2>2
<1> QED
  BY <1>3, <1>5, <1>6 DEF Crawls

\* A step of a task that adds no device.
LEMMA QuietUndisturbed ==
  ASSUME IInv, ~disturbed, NEW t \in Tasks, Others(t), UNCHANGED <<devices, creating>>,
         outdated' \in {outdated, outdated \ {t}}, Crawls(t)'
  PROVE  Undisturbed'
<1>1. Undisturbed /\ Grows /\ Request # t
  BY SeedsAssumption DEF IInv, Grows
<1>2. ASSUME NEW u \in Tasks PROVE Crawls(u)'
  BY <1>1, <1>2, OthersCrawl
<1>3. Unique'
  BY <1>1 DEF Undisturbed, Unique, Existing
<1>4. creating' # None /\ Request \notin outdated' => ~Known(creating)'
  BY <1>1 DEF Undisturbed, Known, Existing
<1> QED
  BY <1>2, <1>3, <1>4 DEF Undisturbed

\* The type invariant of a step of a task that changes neither devices nor
\* requests.
LEMMA TaskTyped ==
  ASSUME TypeOK, task' \in [Tasks -> Task], future' \in [Tasks -> [Ids -> Futures]],
         log' \in [Tasks -> Log], visits' \in [Tasks -> [Ids -> 0 .. 2]],
         outdated' \subseteq Tasks \cup {Request}, UNCHANGED <<devices, creating, mine, disturbed, changes>>,
         reported' \in [Ids -> SUBSET Addresses],
         \A u \in Tasks : Counted(u)'
  PROVE  TypeOK'
<1>1. ASSUME NEW u \in Tasks, Pool(u, Futures \ {"none"})' # {} PROVE task'[u].at = "gather"
  <2>1. PICK d \in Ids : future'[u][d] # "none"
    BY <1>1 DEF Pool
  <2> QED
    BY <2>1 DEF Counted
<1> QED
  BY <1>1 DEF TypeOK

LEMMA TaskStepInv ==
  ASSUME IInv, NEW t \in Tasks, Others(t), Counted(t)', ~disturbed => Crawls(t)',
         task' \in [Tasks -> Task], future' \in [Tasks -> [Ids -> Futures]],
         log' \in [Tasks -> Log], visits' \in [Tasks -> [Ids -> 0 .. 2]],
         reported' \in [Ids -> SUBSET Addresses],
         outdated' \in {outdated, outdated \ {t}},
         UNCHANGED <<devices, creating, mine, disturbed, changes>>
  PROVE  IInv'
<1>1. ASSUME NEW u \in Tasks PROVE Counted(u)'
  BY <1>1, OthersCounted
<1>2. TypeOK'
  <2>1. outdated' \subseteq Tasks \cup {Request} /\ TypeOK
    BY DEF IInv, TypeOK
  <2> QED
    BY <1>1, <2>1, TaskTyped
<1>3. ~disturbed' => Undisturbed'
  BY QuietUndisturbed
<1> QED
  BY <1>1, <1>2, <1>3 DEF IInv

-----------------------------------------------------------------------------
(* The steps of a task                                                      *)

LEMMA StartInv == ASSUME IInv, NEW t \in Tasks, StartTask(t) PROVE IInv'
<1>1. TypeOK /\ Counted(t) /\ (~disturbed => Crawls(t))
  BY DEF IInv, Undisturbed
<1>2. /\ task' \in [Tasks -> Task] /\ Only(t)
      /\ task[t].at = "none" /\ task'[t].at = "next"
      /\ task'[t].queue \subseteq Existing
      /\ task'[t].processed = {} /\ task'[t].batch = {}
      /\ task'[t].ok = 0 /\ task'[t].bad = 0
  BY <1>1, StartFields
<1>3. UNCHANGED <<devices, reported, future, creating, visits, mine, outdated, disturbed, changes>>
  BY DEF StartTask, inventory, history
<1>4. log' = [log EXCEPT ![t].status = "running"]
  BY DEF StartTask
<1>5. /\ log' \in [Tasks -> Log] /\ log'[t].status = "running"
      /\ \A u \in Tasks : u # t => log'[u] = log[u]
  BY ZenonT(40), <1>1, <1>4 DEF TypeOK, Log
<1>6. Others(t)
  BY <1>2, <1>3, <1>5 DEF Others, Only
<1>7. Pool(t, Begun)' = Pool(t, Begun) /\ Visited(t)' = Visited(t) /\ ~Closed(t)'
  BY <1>3, <1>5 DEF Pool, Visited, Closed
<1>8. Counted(t)'
  BY <1>1, <1>2, <1>3, <1>7 DEF Counted
<1>9. ~disturbed => Crawls(t)'
  BY <1>1, <1>2, <1>3 DEF Counted, Crawls, Existing
<1> QED
  BY <1>1, <1>2, <1>3, <1>5, <1>6, <1>8, <1>9, TaskStepInv DEF TypeOK

LEMMA SubmitInv == ASSUME IInv, NEW t \in Tasks, SubmitBatch(t) PROVE IInv'
<1>1. TypeOK /\ Counted(t) /\ (~disturbed => Crawls(t))
  BY DEF IInv, Undisturbed
<1>2. /\ task' \in [Tasks -> Task] /\ Same(t)
      /\ task'[t].at = "gather" /\ task'[t].batch = Batch(t) /\ task'[t].queue = {}
      /\ task'[t].processed = task[t].processed /\ task'[t].depth = task[t].depth
      /\ task'[t].ok = task[t].ok /\ task'[t].bad = task[t].bad
  BY <1>1, SubmitFields
<1>3. /\ UNCHANGED <<devices, reported, log, creating, visits, mine, outdated, disturbed, changes>>
      /\ task[t].at = "next" /\ (task[t].full => task[t].depth < MaxDepth)
      /\ future' = [future EXCEPT ![t] =
                     [d \in Ids |-> IF d \in Active(Batch(t)) THEN "queued" ELSE "none"]]
  BY DEF SubmitBatch, GoesOn, inventory, history
<1>4. /\ future' \in [Tasks -> [Ids -> Futures]]
      /\ \A d \in Ids : future'[t][d] = IF d \in Active(Batch(t)) THEN "queued" ELSE "none"
      /\ \A u \in Tasks : u # t => future'[u] = future[u]
  BY <1>1, <1>3 DEF TypeOK, Futures
<1>5. Others(t)
  BY <1>2, <1>3, <1>4 DEF Others, Same, Only
<1>6. \A d \in Ids : future[t][d] = "none"
  BY <1>1, <1>3 DEF Counted
<1>7. Pool(t, Begun)' = Pool(t, Begun) /\ Visited(t)' = Visited(t) /\ Closed(t)' = Closed(t)
  BY <1>3, <1>4, <1>6 DEF Pool, Begun, Visited, Closed
<1>8. \A d \in Active(Batch(t)) : d \in Batch(t) /\ d \notin task[t].processed
  BY DEF Active, Batch
<1>9. \A d \in Ids : visits[t][d] = 1 => d \in task[t].processed
  BY <1>1, <1>3, <1>6 DEF Counted
<1>10. Counted(t)'
  <2>1. /\ \A d \in Ids : visits'[t][d] \in {0, 1}
        /\ \A d \in Ids : future'[t][d] # "none" => d \in task'[t].batch
        /\ \A d \in Ids : /\ future'[t][d] = "queued" => visits'[t][d] = 0
                          /\ future'[t][d] \notin Begun
    BY <1>1, <1>2, <1>3, <1>4, <1>8, <1>9 DEF Counted, Begun
  <2>2. task'[t].batch \cap task'[t].processed = {}
    BY <1>2 DEF Batch
  <2>3. ~Closed(t)
    BY <1>1, <1>3 DEF Counted
  <2>4. task'[t].ok + task'[t].bad + Cardinality(Pool(t, Begun)') = Cardinality(Visited(t)')
    BY <1>1, <1>2, <1>3, <1>7 DEF Counted
  <2> QED
    BY <1>2, <1>3, <1>7, <1>9, <2>1, <2>2, <2>3, <2>4 DEF Counted, Same
<1>11. ASSUME ~disturbed PROVE Crawls(t)'
  <2>1. Crawls(t)
    BY <1>1, <1>11
  <2>2. task'[t].queue \cup task'[t].processed \cup task'[t].batch \cup mine'[t] \subseteq Existing'
    BY <1>2, <1>3, <2>1 DEF Crawls, Existing, Batch
  <2>3. ASSUME NEW d \in mine[t], task[t].full, devices[d].active, visits[t][d] # 1
        PROVE  future'[t][d] = "queued"
    <3>1. d \in Existing /\ Awaits(t, d)
      BY <2>1, <2>3 DEF Crawls
    <3>2. d \in Batch(t)
      BY <1>3, <3>1 DEF Awaits, Batch
    <3> QED
      BY <1>4, <2>3, <3>1, <3>2 DEF Active, Existing
  <2> QED
    BY <1>2, <1>3, <2>2, <2>3 DEF Crawls, Awaits, Same
<1> QED
  BY <1>1, <1>2, <1>3, <1>4, <1>5, <1>10, <1>11, TaskStepInv DEF TypeOK

LEMMA EndInv == ASSUME IInv, NEW t \in Tasks, EndCrawl(t) PROVE IInv'
<1>1. TypeOK /\ Counted(t) /\ (~disturbed => Crawls(t))
  BY DEF IInv, Undisturbed
<1>2. /\ task' \in [Tasks -> Task] /\ Same(t)
      /\ task'[t].at = "finish" /\ task'[t].batch = task[t].batch
      /\ task'[t].queue = task[t].queue
      /\ task'[t].processed = task[t].processed /\ task'[t].depth = task[t].depth
      /\ task'[t].ok = task[t].ok /\ task'[t].bad = task[t].bad
  BY <1>1, EndFields
<1>3. /\ UNCHANGED <<devices, reported, future, log, creating, visits, mine, outdated, disturbed, changes>>
      /\ task[t].at = "next" /\ ~GoesOn(t)
  BY DEF EndCrawl, inventory, history
<1>4. Others(t)
  BY <1>2, <1>3 DEF Others, Same, Only
<1>5. Pool(t, Begun)' = Pool(t, Begun) /\ Visited(t)' = Visited(t) /\ Closed(t)' = Closed(t)
  BY <1>3 DEF Pool, Visited, Closed
<1>6. Counted(t)'
  BY <1>1, <1>2, <1>3, <1>5 DEF Counted
<1>7. ASSUME ~disturbed PROVE Crawls(t)'
  <2>1. Crawls(t)
    BY <1>1, <1>7
  <2>2. ASSUME NEW d \in mine[t], task[t].full, devices[d].active, visits[t][d] # 1
        PROVE  task[t].depth >= MaxDepth
    <3>1. Awaits(t, d)
      BY <2>1, <2>2 DEF Crawls
    <3>2. Batch(t) # {}
      BY <1>3, <3>1 DEF Awaits, Batch
    <3>3. ~(task[t].depth < MaxDepth)
      BY <1>3, <2>2, <3>2 DEF GoesOn
    <3> QED
      BY <1>1, <3>3, TaskRecord, BoundsAssumption DEF Task
  <2> QED
    BY <1>2, <1>3, <2>1, <2>2 DEF Crawls, Awaits, Existing, Same
<1> QED
  BY <1>1, <1>2, <1>3, <1>4, <1>6, <1>7, TaskStepInv DEF TypeOK

\* A step of a thread of the pool: the futures of one device of one task.
LEMMA PoolFields ==
  ASSUME TypeOK, NEW t \in Tasks, NEW d \in Ids, NEW s \in Futures,
         future' = [future EXCEPT ![t][d] = s]
  PROVE  /\ future' \in [Tasks -> [Ids -> Futures]]
         /\ future'[t][d] = s
         /\ \A e \in Ids : e # d => future'[t][e] = future[t][e]
         /\ \A u \in Tasks : u # t => future'[u] = future[u]
BY DEF TypeOK

\* A future that had begun goes on to its end: it still counts.
LEMMA GoesOnCounted ==
  ASSUME TypeOK, NEW t \in Tasks, NEW d \in Ids, Counted(t),
         NEW s \in Begun, future[t][d] = "running", future' = [future EXCEPT ![t][d] = s],
         UNCHANGED <<task, log, visits, mine>>
  PROVE  Counted(t)' /\ (Crawls(t) /\ devices' = devices /\ outdated' = outdated => Crawls(t)')
<1>1. /\ future'[t][d] = s
      /\ \A e \in Ids : e # d => future'[t][e] = future[t][e]
  <2>1. s \in Futures
    BY DEF Begun, Futures
  <2> QED
    BY ZenonT(40), <2>1, PoolFields
<1>2. Pool(t, Begun)' = Pool(t, Begun)
  BY <1>1 DEF Pool, Begun
<1>3. Visited(t)' = Visited(t) /\ Closed(t)' = Closed(t)
  BY DEF Visited, Closed
<1>4. Counted(t)'
  BY <1>1, <1>2, <1>3 DEF Counted, Begun
<1>5. \A e \in Ids : Awaits(t, e) /\ devices' = devices => Awaits(t, e)'
  BY <1>1 DEF Awaits
<1>6. ASSUME Crawls(t), devices' = devices, outdated' = outdated PROVE Crawls(t)'
  <2>1. Existing' = Existing /\ mine[t] \subseteq Ids
    BY <1>6 DEF Existing, TypeOK
  <2>2. \A a : Known(a)' = Known(a)
    BY <1>6 DEF Known, Existing
  <2> QED
    BY <1>5, <1>6, <2>1, <2>2 DEF Crawls
<1> QED
  BY <1>4, <1>6

LEMMA NoAnswerInv == ASSUME IInv, NEW t \in Tasks, NEW d \in Ids, NoAnswer(t, d) PROVE IInv'
<1>1. TypeOK /\ Counted(t) /\ (~disturbed => Crawls(t))
  BY DEF IInv, Undisturbed
<1>2. /\ UNCHANGED <<devices, reported, task, log, creating, visits, mine, outdated, disturbed, changes>>
      /\ future[t][d] = "running" /\ future' = [future EXCEPT ![t][d] = "failed"]
  BY DEF NoAnswer, inventory, history
<1>3. Counted(t)' /\ (~disturbed => Crawls(t)')
  BY <1>1, <1>2, GoesOnCounted DEF Begun
<1>4. /\ future' \in [Tasks -> [Ids -> Futures]]
      /\ \A u \in Tasks : u # t => future'[u] = future[u]
  BY <1>1, <1>2, PoolFields DEF Futures
<1>5. Others(t)
  BY <1>2, <1>4 DEF Others
<1> QED
  BY <1>1, <1>2, <1>3, <1>4, <1>5, TaskStepInv DEF TypeOK

LEMMA StoreInv == ASSUME IInv, NEW t \in Tasks, NEW d \in Ids, Store(t, d) PROVE IInv'
<1>1. TypeOK /\ Counted(t) /\ (~disturbed => Crawls(t))
  BY DEF IInv, Undisturbed
<1>2. /\ UNCHANGED <<devices, task, log, creating, visits, mine, outdated, disturbed, changes>>
      /\ future[t][d] = "running" /\ future' = [future EXCEPT ![t][d] = "ok"]
      /\ \E report \in Reports : reported' = [reported EXCEPT ![d] = report]
  BY DEF Store, history
<1>3. Counted(t)' /\ (~disturbed => Crawls(t)')
  BY <1>1, <1>2, GoesOnCounted DEF Begun
<1>4. /\ future' \in [Tasks -> [Ids -> Futures]]
      /\ \A u \in Tasks : u # t => future'[u] = future[u]
  BY <1>1, <1>2, PoolFields DEF Futures
<1>5. Others(t)
  BY <1>2, <1>4 DEF Others
<1>6. reported' \in [Ids -> SUBSET Addresses]
  BY <1>1, <1>2, ReportsAssumption DEF TypeOK
<1> QED
  BY <1>1, <1>2, <1>3, <1>4, <1>5, <1>6, TaskStepInv DEF TypeOK

LEMMA ContactInv == ASSUME IInv, NEW t \in Tasks, NEW d \in Ids, Contact(t, d) PROVE IInv'
<1>1. TypeOK /\ Counted(t) /\ (~disturbed => Crawls(t))
  BY DEF IInv, Undisturbed
<1>2. /\ UNCHANGED <<devices, reported, task, log, creating, mine, outdated, disturbed, changes>>
      /\ future[t][d] = "queued"
      /\ future' = [future EXCEPT ![t][d] = IF d \in Existing THEN "running" ELSE "failed"]
      /\ visits' = [visits EXCEPT ![t][d] = @ + 1]
  BY DEF Contact, inventory
<1>3. PICK s \in Begun \cap Futures : future' = [future EXCEPT ![t][d] = s]
  BY <1>2 DEF Begun, Futures
<1>4. /\ future' \in [Tasks -> [Ids -> Futures]] /\ future'[t][d] = s
      /\ \A e \in Ids : e # d => future'[t][e] = future[t][e]
      /\ \A u \in Tasks : u # t => future'[u] = future[u]
  BY ZenonT(40), <1>1, <1>3, PoolFields
<1>5. visits[t][d] = 0 /\ task[t].at = "gather" /\ d \in task[t].batch
  BY <1>1, <1>2 DEF Counted
<1>6. /\ visits' \in [Tasks -> [Ids -> 0 .. 2]] /\ visits'[t][d] = 1
      /\ \A e \in Ids : e # d => visits'[t][e] = visits[t][e]
      /\ \A u \in Tasks : u # t => visits'[u] = visits[u]
  BY <1>1, <1>2, <1>5 DEF TypeOK
<1>7. Others(t)
  BY <1>2, <1>4, <1>6 DEF Others
<1>8. /\ Visited(t)' = Visited(t) \cup {d} /\ d \notin Visited(t) /\ Visited(t) \in SUBSET Ids
      /\ Pool(t, Begun)' = Pool(t, Begun) \cup {d} /\ d \notin Pool(t, Begun)
      /\ Pool(t, Begun) \in SUBSET Ids
  BY <1>2, <1>3, <1>4, <1>5, <1>6 DEF Visited, Pool, Begun
<1>9. /\ Cardinality(Visited(t)') = Cardinality(Visited(t)) + 1
      /\ Cardinality(Pool(t, Begun)') = Cardinality(Pool(t, Begun)) + 1
  BY <1>8, OneMore
<1>10. task[t].ok + task[t].bad + Cardinality(Pool(t, Begun)') = Cardinality(Visited(t)')
  BY <1>1, <1>5, <1>9, Tally
<1>11. Counted(t)'
  <2>1. ~Closed(t)'
    BY <1>1, <1>2, <1>5 DEF Counted, Closed
  <2>2. \A e \in Ids : /\ visits'[t][e] \in {0, 1}
                       /\ future'[t][e] # "none" => e \in task[t].batch
                       /\ future'[t][e] = "queued" => visits'[t][e] = 0
                       /\ future'[t][e] \in Begun => visits'[t][e] = 1
                       /\ visits'[t][e] = 1 => e \in task[t].processed \/ future'[t][e] # "none"
    BY <1>1, <1>3, <1>4, <1>5, <1>6 DEF Counted, Begun
  <2> QED
    BY <1>1, <1>2, <1>5, <1>10, <2>1, <2>2 DEF Counted
<1>12. ASSUME ~disturbed PROVE Crawls(t)'
  <2>1. Crawls(t) /\ mine[t] \subseteq Ids
    BY <1>1, <1>12 DEF TypeOK
  <2>2. \A e \in mine[t] : visits[t][e] = 1 \/ Awaits(t, e) => visits'[t][e] = 1 \/ Awaits(t, e)'
    BY <1>2, <1>4, <1>6, <2>1 DEF Awaits
  <2>3. Existing' = Existing /\ task'[t].at # "insert"
    BY <1>2, <1>5 DEF Existing
  <2> QED
    BY <1>2, <2>1, <2>2, <2>3 DEF Crawls
<1> QED
  BY <1>1, <1>2, <1>4, <1>6, <1>7, <1>11, <1>12, TaskStepInv DEF TypeOK

LEMMA GatherInv == ASSUME IInv, NEW t \in Tasks, Gather(t) PROVE IInv'
<1>1. TypeOK /\ Counted(t) /\ (~disturbed => Crawls(t))
  BY DEF IInv, Undisturbed
<1>2. /\ task' \in [Tasks -> Task] /\ Same(t)
      /\ task'[t].at \in {"add", AfterAdding(task[t].full)}
      /\ task'[t].queue = task[t].queue /\ task'[t].batch = task[t].batch
      /\ task'[t].processed = task[t].processed \cup task[t].batch
      /\ task'[t].depth = IF task'[t].at = "add" THEN task[t].depth ELSE Deeper(t)
      /\ task'[t].ok = task[t].ok + Cardinality(Pool(t, {"ok"}))
      /\ task'[t].bad = task[t].bad + Failed(t)
  BY <1>1, GatherFields
<1>3. /\ UNCHANGED <<devices, reported, log, creating, visits, mine, outdated, disturbed, changes>>
      /\ task[t].at = "gather" /\ Pool(t, {"queued", "running"}) = {}
      /\ future' = [future EXCEPT ![t] = [d \in Ids |-> "none"]]
  BY DEF Gather, inventory, history
<1>4. /\ future' \in [Tasks -> [Ids -> Futures]]
      /\ \A d \in Ids : future'[t][d] = "none"
      /\ \A u \in Tasks : u # t => future'[u] = future[u]
  BY <1>1, <1>3 DEF TypeOK, Futures
<1>5. Others(t)
  BY <1>2, <1>3, <1>4 DEF Others, Same, Only
<1>6. task'[t].at \in {"add", "next", "finish"}
  BY <1>2 DEF AfterAdding
<1>7. Visited(t)' = Visited(t) /\ Closed(t)' = Closed(t) /\ ~Closed(t)
  BY <1>1, <1>3 DEF Visited, Closed, Counted
<1>8. Cardinality(Pool(t, Begun)') = 0
  <2>1. Pool(t, Begun)' = {}
    BY <1>4 DEF Pool, Begun
  <2> QED
    BY <2>1, FS_EmptySet
<1>9. task'[t].ok + task'[t].bad + Cardinality(Pool(t, Begun)') = Cardinality(Visited(t)')
  BY <1>1, <1>2, <1>7, <1>8, GatherTally
<1>10. \A d \in Ids : visits[t][d] = 1 => d \in task'[t].processed
  BY <1>1, <1>2, <1>3 DEF Counted
<1>11. task'[t].full /\ task'[t].at = "add" => task'[t].depth < MaxDepth
  BY <1>1, <1>2, <1>3 DEF Counted, Same
<1>12. Counted(t)'
  BY <1>1, <1>3, <1>4, <1>6, <1>7, <1>9, <1>10, <1>11 DEF Counted, Begun
<1>13. ASSUME ~disturbed PROVE Crawls(t)'
  <2>1. Crawls(t) /\ mine[t] \subseteq Ids
    BY <1>1, <1>13 DEF TypeOK
  <2>2. \A d \in mine[t] : ~Awaits(t, d)
    BY <1>3, <2>1 DEF Awaits, Pool
  <2> QED
    BY <1>2, <1>3, <1>6, <2>1, <2>2 DEF Crawls, Existing, Same
<1> QED
  BY <1>1, <1>2, <1>3, <1>4, <1>5, <1>12, <1>13, TaskStepInv DEF TypeOK

\* The steps of an addition find no futures and count none.
LEMMA AdditionCounted ==
  ASSUME TypeOK, NEW t \in Tasks, Counted(t), SameCounts(t),
         task[t].at \in {"add", "insert", "requeue"},
         task'[t].at \in {"insert", "requeue", "next", "finish"},
         task'[t].full /\ task'[t].at \in {"insert", "requeue"} => task'[t].depth < MaxDepth,
         task'[t].at = "insert" => task'[t].first \in Addresses,
         UNCHANGED <<future, log, visits>>
  PROVE  Counted(t)'
<1>1. Pool(t, Begun)' = Pool(t, Begun) /\ Visited(t)' = Visited(t) /\ Closed(t)' = Closed(t)
  BY DEF Pool, Visited, Closed
<1>2. ~Closed(t) /\ \A d \in Ids : future[t][d] = "none"
  BY DEF Counted
<1>3. task'[t].ok + task'[t].bad + Cardinality(Pool(t, Begun)') = Cardinality(Visited(t)')
  BY <1>1 DEF Counted, SameCounts
<1>4. \A d \in Ids : visits'[t][d] \in {0, 1} /\ (visits'[t][d] = 1 => d \in task'[t].processed)
  BY <1>2 DEF Counted, SameCounts
<1> QED
  BY <1>1, <1>2, <1>3, <1>4 DEF Counted, Begun

LEMMA CheckInv == ASSUME IInv, NEW t \in Tasks, CheckFirst(t) PROVE IInv'
<1>1. TypeOK /\ Counted(t) /\ (~disturbed => Crawls(t))
  BY DEF IInv, Undisturbed
<1>2. /\ task' \in [Tasks -> Task] /\ SameCounts(t) /\ Same(t)
      /\ task'[t].queue = task[t].queue /\ task'[t].batch = task[t].batch
      /\ task'[t].depth = task[t].depth
      /\ \/ task'[t].at = "requeue"
         \/ task'[t].at = "insert" /\ task'[t].first \in Addresses /\ ~Known(task'[t].first)
  BY <1>1, CheckFields DEF SameCounts
<1>3. /\ UNCHANGED <<devices, reported, future, log, creating, visits, mine, disturbed, changes>>
      /\ task[t].at = "add" /\ outdated' = outdated \ {t}
  BY DEF CheckFirst, inventory
<1>4. Others(t)
  BY <1>2, <1>3 DEF Others, Same, Only
<1>5. task'[t].full => task'[t].depth < MaxDepth
  BY <1>1, <1>2, <1>3 DEF Counted, Same
<1>6. Counted(t)'
  BY <1>1, <1>2, <1>3, <1>5, AdditionCounted
<1>7. ASSUME ~disturbed PROVE Crawls(t)'
  <2>1. Crawls(t) /\ \A d \in mine[t] : ~Awaits(t, d)
    BY <1>1, <1>3, <1>7 DEF Awaits
  <2>2. Existing' = Existing /\ (\A a : Known(a)' = Known(a))
    BY <1>3 DEF Existing, Known
  <2> QED
    BY <1>2, <1>3, <2>1, <2>2 DEF Crawls, SameCounts, Same
<1> QED
  BY <1>1, <1>2, <1>3, <1>4, <1>6, <1>7, TaskStepInv DEF TypeOK

LEMMA FailInv == ASSUME IInv, NEW t \in Tasks, AddFails(t) PROVE IInv'
<1>1. TypeOK /\ Counted(t) /\ (~disturbed => Crawls(t))
  BY DEF IInv, Undisturbed
<1>2. /\ task' \in [Tasks -> Task] /\ SameCounts(t) /\ Same(t)
      /\ task'[t].at = AfterAdding(task[t].full)
      /\ task'[t].queue = task[t].queue /\ task'[t].batch = task[t].batch
  BY <1>1, FailFields DEF SameCounts
<1>3. /\ UNCHANGED <<devices, reported, future, log, creating, visits, mine, outdated, disturbed, changes>>
      /\ task[t].at \in {"add", "insert"}
  BY DEF AddFails, inventory, history
<1>4. Others(t)
  BY <1>2, <1>3 DEF Others, Same, Only
<1>5. task'[t].at \in {"next", "finish"}
  BY <1>2 DEF AfterAdding
<1>6. Counted(t)'
  BY <1>1, <1>2, <1>3, <1>5, AdditionCounted
<1>7. ASSUME ~disturbed PROVE Crawls(t)'
  <2>1. Crawls(t) /\ \A d \in mine[t] : ~Awaits(t, d)
    BY <1>1, <1>3, <1>7 DEF Awaits
  <2>2. Existing' = Existing
    BY <1>3 DEF Existing
  <2> QED
    BY <1>2, <1>3, <1>5, <2>1, <2>2 DEF Crawls, SameCounts, Same
<1> QED
  BY <1>1, <1>2, <1>3, <1>4, <1>6, <1>7, TaskStepInv DEF TypeOK

LEMMA RequeueInv == ASSUME IInv, NEW t \in Tasks, Requeue(t) PROVE IInv'
<1>1. TypeOK /\ Counted(t) /\ (~disturbed => Crawls(t))
  BY DEF IInv, Undisturbed
<1>2. /\ task' \in [Tasks -> Task] /\ SameCounts(t) /\ Same(t)
      /\ task[t].at = "requeue" /\ task'[t].at = AfterAdding(task[t].full)
      /\ task'[t].batch = task[t].batch
  BY <1>1, RequeueFields DEF SameCounts
<1>3. PICK dev \in [task[t].found -> Ids \cup {None}] :
        /\ \A a \in task[t].found :
             IF FoundAgain(t, a) = {} THEN dev[a] = None ELSE dev[a] \in FoundAgain(t, a)
        /\ task'[t].queue = IF task[t].full
                            THEN {dev[a] : a \in task[t].found} \ (task[t].processed \cup {None})
                            ELSE {}
  BY <1>1, RequeueFields
<1>4. UNCHANGED <<devices, reported, future, log, creating, visits, mine, outdated, disturbed, changes>>
  BY DEF Requeue, inventory, history
<1>5. Others(t)
  BY <1>2, <1>4 DEF Others, Same, Only
<1>6. task'[t].at \in {"next", "finish"}
  BY <1>2 DEF AfterAdding
<1>7. Counted(t)'
  BY <1>1, <1>2, <1>4, <1>6, AdditionCounted
<1>8. ASSUME ~disturbed PROVE Crawls(t)'
  <2>1. Crawls(t) /\ Unique
    BY <1>1, <1>8 DEF IInv, Undisturbed
  <2>2. task'[t].queue \subseteq Existing
    BY <1>3, NoneAssumption DEF FoundAgain
  <2>3. ASSUME NEW d \in mine[t], task[t].full, devices[d].active, visits[t][d] # 1
        PROVE  task'[t].at = "next" /\ d \in task'[t].queue \ task'[t].processed
    <3>1. /\ d \in Existing /\ d \notin task[t].processed /\ devices[d].ip \in task[t].found
      BY <1>2, <2>1, <2>3 DEF Crawls, Awaits
    <3>2. d \in FoundAgain(t, devices[d].ip)
      BY <3>1 DEF FoundAgain
    <3>3. dev[devices[d].ip] = d
      BY <1>3, <2>1, <3>1, <3>2 DEF FoundAgain, Unique
    <3>4. d # None
      BY <3>1, NoneAssumption DEF Existing
    <3> QED
      BY <1>2, <1>3, <2>3, <3>1, <3>3, <3>4 DEF SameCounts, AfterAdding
  <2>4. Existing' = Existing
    BY <1>4 DEF Existing
  <2>5. task'[t].full => \A d \in mine[t] : devices[d].active => visits[t][d] = 1 \/ Awaits(t, d)'
    BY <1>2, <2>3 DEF Awaits, Same
  <2> QED
    BY <1>2, <1>4, <1>6, <2>1, <2>2, <2>4, <2>5 DEF Crawls, SameCounts, Same
<1> QED
  BY <1>1, <1>2, <1>4, <1>5, <1>7, <1>8, TaskStepInv DEF TypeOK

LEMMA FinishInv == ASSUME IInv, NEW t \in Tasks, Finish(t) PROVE IInv'
<1>1. TypeOK /\ Counted(t) /\ (~disturbed => Crawls(t))
  BY DEF IInv, Undisturbed
<1>2. /\ task' \in [Tasks -> Task] /\ Same(t)
      /\ task'[t].at = "over" /\ task'[t].depth = task[t].depth
      /\ task'[t].queue = {} /\ task'[t].processed = {} /\ task'[t].batch = {}
  BY <1>1, FinishFields
<1>3. /\ UNCHANGED <<devices, reported, future, creating, visits, mine, outdated, disturbed, changes>>
      /\ task[t].at = "finish"
      /\ \/ log' = log
         \/ log' = [log EXCEPT ![t] = [status |-> Outcome(t), ok |-> task[t].ok, bad |-> task[t].bad]]
  BY DEF Finish, Closes, inventory, history
<1>4. /\ ~Closed(t) /\ \A d \in Ids : future[t][d] = "none"
      /\ task[t].ok \in 0 .. Cardinality(Ids) /\ task[t].bad \in 0 .. Cardinality(Ids)
  BY <1>1, <1>3, TaskRecord DEF Counted, Task
<1>5. Outcome(t) \in {"success", "failed", "partial"}
  BY DEF Outcome
<1>6. /\ log' \in [Tasks -> Log] /\ \A u \in Tasks : u # t => log'[u] = log[u]
      /\ \/ log'[t] = log[t]
         \/ log'[t].ok = task[t].ok /\ log'[t].bad = task[t].bad
  <2>1. log \in [Tasks -> Log]
    BY <1>1 DEF TypeOK
  <2>2. CASE log' = log
    BY <2>1, <2>2
  <2> DEFINE closed == [status |-> Outcome(t), ok |-> task[t].ok, bad |-> task[t].bad]
  <2>3. closed \in Log /\ closed.ok = task[t].ok /\ closed.bad = task[t].bad
    BY <1>4, <1>5 DEF Log
  <2>4. log' = log \/ log' = [log EXCEPT ![t] = closed]
    BY <1>3
  <2> HIDE DEF closed
  <2>5. CASE log' = [log EXCEPT ![t] = closed]
    BY <2>1, <2>3, <2>5
  <2> QED
    BY <2>2, <2>4, <2>5
<1>7. Others(t)
  BY <1>2, <1>3, <1>6 DEF Others, Same, Only
<1>8. Cardinality(Pool(t, Begun)) = 0
  BY <1>4, NonePool DEF Begun
<1>9. task[t].ok + task[t].bad = Cardinality(Visited(t))
  BY <1>1, <1>3, <1>8, Tally
<1>10. Visited(t)' = Visited(t) /\ (log'[t] = log[t] => ~Closed(t)')
  BY <1>3, <1>4 DEF Visited, Closed
<1>11. Closed(t)' => log'[t].ok + log'[t].bad = Cardinality(Visited(t)')
  BY <1>6, <1>9, <1>10
<1>12. Counted(t)'
  BY <1>1, <1>2, <1>3, <1>4, <1>11 DEF Counted, Begun
<1>13. ASSUME ~disturbed PROVE Crawls(t)'
  <2>1. Crawls(t) /\ Existing' = Existing
    BY <1>1, <1>3, <1>13 DEF Existing
  <2>2. \A d \in mine[t] : Awaits(t, d) => Awaits(t, d)'
    BY <1>2, <1>3 DEF Awaits
  <2> QED
    BY <1>2, <1>3, <2>1, <2>2 DEF Crawls, Same
<1> QED
  BY <1>1, <1>2, <1>3, <1>6, <1>7, <1>12, <1>13, TaskStepInv DEF TypeOK

-----------------------------------------------------------------------------
(* Additions, requests and changes                                          *)

LEMMA PoolTyped ==
  ASSUME \A u \in Tasks : Counted(u)'
  PROVE  \A u \in Tasks : Pool(u, Futures \ {"none"})' # {} => task'[u].at = "gather"
<1>1. ASSUME NEW u \in Tasks, Pool(u, Futures \ {"none"})' # {} PROVE task'[u].at = "gather"
  <2>1. PICK d \in Ids : future'[u][d] # "none"
    BY <1>1 DEF Pool
  <2> QED
    BY <2>1 DEF Counted
<1> QED
  BY <1>1

\* Every new address gets a device of its own under an id that was free.
LEMMA InsertDevices ==
  ASSUME TypeOK, NEW t \in Tasks, Counted(t), Insert(t)
  PROVE  \E id \in [NewAddresses(t) -> Ids \ Existing] :
           /\ devices' \in [Ids -> Device \cup {None}]
           /\ Existing' = Existing \cup {id[a] : a \in NewAddresses(t)}
           /\ \A d \in Existing : devices'[d] = devices[d]
           /\ \A a \in NewAddresses(t) : devices'[id[a]].ip = a
           /\ mine' = [mine EXCEPT ![t] = @ \cup {id[a] : a \in NewAddresses(t)}]
<1>1. PICK id \in [NewAddresses(t) -> Ids \ Existing], active \in SUBSET NewAddresses(t) :
        /\ IsInjective(id)
        /\ devices' = [d \in Ids |->
             IF \E a \in DOMAIN id : id[a] = d
             THEN LET a == CHOOSE b \in DOMAIN id : id[b] = d
                  IN  [ip |-> a, active |-> a \in active]
             ELSE devices[d]]
        /\ mine' = [mine EXCEPT ![t] = @ \cup {id[a] : a \in DOMAIN id}]
  BY DEF Insert
<1>2. NewAddresses(t) \subseteq Addresses
  BY InsertFields
<1>3. ASSUME NEW a \in NewAddresses(t)
      PROVE  /\ id[a] \in Ids /\ id[a] \notin Existing
             /\ devices'[id[a]] = [ip |-> a, active |-> a \in active]
             /\ devices'[id[a]] \in Device
  <2>1. \A b \in NewAddresses(t) : id[b] = id[a] => b = a
    BY <1>1 DEF IsInjective
  <2>2. a = CHOOSE b \in DOMAIN id : id[b] = id[a]
    BY <1>1, <2>1
  <2>3. devices'[id[a]] = [ip |-> a, active |-> a \in active]
    BY <1>1, <2>2
  <2>4. (a \in active) \in BOOLEAN /\ a \in Addresses
    BY <1>2
  <2> QED
    BY <1>1, <2>3, <2>4 DEF Device
<1>4. ASSUME NEW d \in Ids, \A a \in NewAddresses(t) : id[a] # d PROVE devices'[d] = devices[d]
  BY <1>1, <1>4
<1>5. \A d \in Existing : devices'[d] = devices[d]
  BY <1>3, <1>4 DEF Existing
<1>6. ASSUME NEW d \in Ids
      PROVE  /\ devices'[d] \in Device \cup {None}
             /\ d \in Existing' <=> d \in Existing \/ \E a \in NewAddresses(t) : id[a] = d
  <2>1. CASE \E a \in NewAddresses(t) : id[a] = d
    BY <1>3, <2>1, DeviceAssumption DEF Existing
  <2>2. CASE \A a \in NewAddresses(t) : id[a] # d
    BY <1>4, <2>2 DEF Existing, TypeOK
  <2> QED
    BY <2>1, <2>2
<1>7. DOMAIN devices' = Ids /\ devices' = [d \in Ids |-> devices'[d]]
  BY <1>1
<1>8. devices' \in [Ids -> Device \cup {None}]
  BY <1>6, <1>7
<1>9. Existing' = Existing \cup {id[a] : a \in NewAddresses(t)}
  BY <1>3, <1>6 DEF Existing
<1> QED
  BY ZenonT(40), <1>1, <1>3, <1>5, <1>8, <1>9

LEMMA InsertInv == ASSUME IInv, NEW t \in Tasks, Insert(t) PROVE IInv'
<1>1. TypeOK /\ Counted(t) /\ (~disturbed => Undisturbed /\ Crawls(t))
  BY DEF IInv, Undisturbed
<1>2. /\ task' \in [Tasks -> Task] /\ SameCounts(t) /\ Same(t)
      /\ task[t].at = "insert" /\ task'[t].at = "requeue"
      /\ task'[t].queue = task[t].queue /\ task'[t].batch = task[t].batch
      /\ task'[t].processed = task[t].processed
      /\ task'[t].depth = task[t].depth /\ task'[t].found = NewAddresses(t)
      /\ NewAddresses(t) \subseteq Addresses
  BY <1>1, InsertFields DEF SameCounts
<1>3. /\ UNCHANGED <<reported, future, log, creating, visits, changes>>
      /\ outdated' = (outdated \cup Checking) \ {t}
      /\ disturbed' = (disturbed \/ t \in outdated)
  BY DEF Insert, AddedBy
<1>4. PICK id \in [NewAddresses(t) -> Ids \ Existing] :
        /\ devices' \in [Ids -> Device \cup {None}]
        /\ Existing' = Existing \cup {id[a] : a \in NewAddresses(t)}
        /\ \A d \in Existing : devices'[d] = devices[d]
        /\ \A a \in NewAddresses(t) : devices'[id[a]].ip = a
        /\ mine' = [mine EXCEPT ![t] = @ \cup {id[a] : a \in NewAddresses(t)}]
  BY <1>1, InsertDevices
<1>5. /\ mine' \in [Tasks -> SUBSET Ids]
      /\ mine'[t] = mine[t] \cup {id[a] : a \in NewAddresses(t)}
      /\ \A u \in Tasks : u # t => mine'[u] = mine[u]
  BY <1>1, <1>4 DEF TypeOK
<1>6. Others(t)
  BY <1>2, <1>3, <1>5 DEF Others, Same, Only
<1>7. task'[t].full => task'[t].depth < MaxDepth
  BY <1>1, <1>2 DEF Counted, Same
<1>8. Counted(t)'
  BY <1>1, <1>2, <1>3, <1>7, AdditionCounted
<1>9. ASSUME NEW u \in Tasks PROVE Counted(u)'
  BY <1>6, <1>8, OthersCounted
<1>10. TypeOK'
  <2>1. /\ disturbed' \in BOOLEAN /\ outdated' \subseteq Tasks \cup {Request}
        /\ reported' \in [Ids -> SUBSET Addresses] /\ future' \in [Tasks -> [Ids -> Futures]]
        /\ log' \in [Tasks -> Log] /\ creating' \in Addresses \cup {None}
        /\ visits' \in [Tasks -> [Ids -> 0 .. 2]] /\ changes' \in 0 .. MaxChanges
    BY <1>1, <1>3 DEF TypeOK, Checking
  <2>2. \A u \in Tasks : Pool(u, Futures \ {"none"})' # {} => task'[u].at = "gather"
    BY <1>9, PoolTyped
  <2> QED
    BY <1>2, <1>4, <1>5, <2>1, <2>2 DEF TypeOK
<1>11. ASSUME ~disturbed' PROVE Undisturbed'
  <2>1. ~disturbed /\ t \notin outdated /\ Undisturbed /\ Crawls(t) /\ Grows
    BY <1>1, <1>3, <1>4, <1>11 DEF Grows
  <2>2. \A a \in NewAddresses(t) : ~Known(a)
    BY <1>2, <2>1 DEF Crawls, NewAddresses, Unknown
  <2>3. Unique'
    <3>1. \A d \in Existing, a \in NewAddresses(t) : devices[d].ip # a
      BY <2>2 DEF Known
    <3> QED
      BY <1>4, <2>1, <3>1 DEF Undisturbed, Unique
  <2>4. creating' # None => Request \in outdated'
    BY <1>3, SeedsAssumption DEF Checking
  <2>5. \A u \in Checking : u # t => u \in outdated'
    BY <1>3
  <2>6. ASSUME NEW u \in Tasks, u # t PROVE Crawls(u)'
    BY <1>6, <2>1, <2>5, <2>6, OthersCrawl
  <2>7. Crawls(t)'
    <3>1. task'[t].queue \cup task'[t].processed \cup task'[t].batch \cup mine'[t] \subseteq Existing'
      BY <1>2, <1>4, <1>5, <2>1 DEF Crawls
    <3>2. ASSUME NEW d \in mine[t], task[t].full, devices'[d].active PROVE visits'[t][d] = 1
      <4>1. d \in Existing
        BY <2>1 DEF Crawls
      <4>2. devices'[d] = devices[d] /\ ~Awaits(t, d)
        BY <1>2, <1>4, <4>1 DEF Awaits
      <4> QED
        BY <1>3, <2>1, <3>2, <4>2 DEF Crawls
    <3>3. ASSUME NEW a \in NewAddresses(t) PROVE Awaits(t, id[a])'
      <4>1. id[a] \notin task'[t].processed
        BY <1>2, <1>4, <2>1 DEF Crawls
      <4>2. devices'[id[a]].ip \in task'[t].found
        BY <1>2, <1>4
      <4> QED
        BY <1>2, <4>1, <4>2 DEF Awaits
    <3>4. \A d \in mine'[t] : task'[t].full /\ devices'[d].active => visits'[t][d] = 1 \/ Awaits(t, d)'
      BY <1>2, <1>5, <3>2, <3>3 DEF Same
    <3> QED
      BY <1>2, <3>1, <3>4 DEF Crawls
  <2> QED
    BY <2>3, <2>4, <2>6, <2>7 DEF Undisturbed
<1> QED
  BY <1>9, <1>10, <1>11 DEF IInv

\* A request looks for its address and finds it free.
LEMMA CheckDeviceInv == ASSUME IInv, CheckDevice PROVE IInv'
<1>1. /\ UNCHANGED <<devices, reported, task, future, log, visits, mine, disturbed, changes>>
      /\ outdated' = outdated \ {Request} /\ creating' \in Addresses /\ ~Known(creating')
  BY DEF CheckDevice, inventory
<1>2. Others(Request) /\ Grows /\ TypeOK
  BY <1>1 DEF Others, Grows, IInv
<1>3. ASSUME NEW u \in Tasks PROVE Counted(u)'
  BY <1>2, SeedsAssumption, OthersCounted
<1>4. TypeOK'
  <2>1. \A u \in Tasks : Pool(u, Futures \ {"none"})' # {} => task'[u].at = "gather"
    BY <1>3, PoolTyped
  <2> QED
    BY <1>1, <1>2, <2>1 DEF TypeOK
<1>5. ASSUME ~disturbed PROVE Undisturbed'
  <2>1. Undisturbed
    BY <1>5 DEF IInv
  <2>2. ASSUME NEW u \in Tasks PROVE Crawls(u)'
    BY <1>1, <1>2, <1>5, SeedsAssumption, OthersCrawl
  <2>3. Unique' /\ ~Known(creating)'
    BY <1>1, <2>1 DEF Undisturbed, Unique, Known, Existing
  <2> QED
    BY <2>2, <2>3 DEF Undisturbed
<1> QED
  BY <1>1, <1>3, <1>4, <1>5 DEF IInv

\* The device is written; what others found is outdated.
LEMMA CreateDeviceInv == ASSUME IInv, CreateDevice PROVE IInv'
<1>1. /\ UNCHANGED <<reported, task, future, log, visits, mine, changes>>
      /\ creating # None /\ creating' = None
      /\ outdated' = (outdated \cup Checking) \ {Request}
      /\ disturbed' = (disturbed \/ Request \in outdated)
  BY DEF CreateDevice, AddedBy
<1>2. PICK d \in Ids \ Existing : devices' = [devices EXCEPT ![d] = [ip |-> creating, active |-> TRUE]]
  BY DEF CreateDevice
<1>3. TypeOK /\ creating \in Addresses
  BY <1>1 DEF IInv, TypeOK
<1>4. [ip |-> creating, active |-> TRUE] \in Device
  BY <1>3 DEF Device
<1>5. /\ devices' \in [Ids -> Device \cup {None}]
      /\ devices'[d] \in Device /\ devices'[d].ip = creating
      /\ \A e \in Ids : e # d => devices'[e] = devices[e]
  BY <1>2, <1>3, <1>4 DEF TypeOK
<1>6. Existing' = Existing \cup {d} /\ Grows
  BY <1>5, DeviceAssumption DEF Existing, Grows
<1>7. Others(Request)
  BY <1>1 DEF Others
<1>8. ASSUME NEW u \in Tasks PROVE Counted(u)'
  BY <1>7, SeedsAssumption, OthersCounted
<1>9. TypeOK'
  <2>1. \A u \in Tasks : Pool(u, Futures \ {"none"})' # {} => task'[u].at = "gather"
    BY <1>8, PoolTyped
  <2>2. outdated' \subseteq Tasks \cup {Request} /\ disturbed' \in BOOLEAN
    BY <1>1, <1>3 DEF TypeOK, Checking
  <2> QED
    BY <1>1, <1>3, <1>5, <2>1, <2>2 DEF TypeOK
<1>10. ASSUME ~disturbed' PROVE Undisturbed'
  <2>1. ~disturbed /\ Undisturbed /\ ~Known(creating)
    BY <1>1, <1>10 DEF IInv, Undisturbed
  <2>2. Unique'
    BY <1>5, <1>6, <2>1 DEF Undisturbed, Unique, Known, Existing
  <2>3. \A u \in Checking : u # Request => u \in outdated'
    BY <1>1
  <2>4. ASSUME NEW u \in Tasks PROVE Crawls(u)'
    BY <1>6, <1>7, <2>1, <2>3, SeedsAssumption, OthersCrawl
  <2> QED
    BY <1>1, <2>2, <2>4 DEF Undisturbed
<1> QED
  BY <1>8, <1>9, <1>10 DEF IInv

\* After an edit or a deletion only the counters are kept.
LEMMA ChangedInv ==
  ASSUME IInv, Changed, devices' \in [Ids -> Device \cup {None}],
         reported' \in [Ids -> SUBSET Addresses],
         UNCHANGED <<task, future, log, creating, visits, mine, outdated>>
  PROVE  IInv'
<1>1. Others(Request) /\ TypeOK
  BY DEF Others, IInv
<1>2. ASSUME NEW u \in Tasks PROVE Counted(u)'
  BY <1>1, SeedsAssumption, OthersCounted
<1>3. \A u \in Tasks : Pool(u, Futures \ {"none"})' # {} => task'[u].at = "gather"
  BY <1>2, PoolTyped
<1>4. changes' \in 0 .. MaxChanges /\ disturbed' = TRUE
  BY <1>1, BoundsAssumption DEF Changed, TypeOK
<1>5. TypeOK'
  BY <1>1, <1>3, <1>4 DEF TypeOK
<1> QED
  BY <1>2, <1>4, <1>5 DEF IInv

LEMMA EditDeviceInv == ASSUME IInv, EditDevice PROVE IInv'
<1>1. /\ devices' \in [Ids -> Device \cup {None}] /\ reported' \in [Ids -> SUBSET Addresses]
      /\ Changed /\ UNCHANGED <<task, future, log, creating, visits, mine, outdated>>
  BY DEF EditDevice, IInv, TypeOK
<1> QED
  BY <1>1, ChangedInv

LEMMA DeleteDeviceInv == ASSUME IInv, DeleteDevice PROVE IInv'
<1>1. /\ devices' \in [Ids -> Device \cup {None}] /\ reported' \in [Ids -> SUBSET Addresses]
      /\ Changed /\ UNCHANGED <<task, future, log, creating, visits, mine, outdated>>
  BY DEF DeleteDevice, IInv, TypeOK
<1> QED
  BY <1>1, ChangedInv

-----------------------------------------------------------------------------
(* The theorems                                                             *)

LEMMA InitInv == Init => IInv
<1> SUFFICES ASSUME Init PROVE IInv
  OBVIOUS
<1>1. /\ task = [t \in Tasks |-> NoTask]
      /\ future = [t \in Tasks |-> [d \in Ids |-> "none"]]
      /\ log = [t \in Tasks |-> NoLog]
      /\ creating = None
      /\ visits = [t \in Tasks |-> [d \in Ids |-> 0]]
      /\ mine = [t \in Tasks |-> {}]
      /\ outdated = {} /\ disturbed = FALSE /\ changes = 0
      /\ reported = [d \in Ids |-> {}]
      /\ devices \in [Ids -> [ip : Addresses, active : {TRUE}] \cup {None}]
      /\ Existing = Seeds /\ \A d, e \in Seeds : devices[d].ip = devices[e].ip => d = e
  BY DEF Init, Existing
<1>2. 0 \in 0 .. Cardinality(Ids) /\ 0 \in 0 .. MaxDepth /\ 0 \in 0 .. MaxChanges
  BY Finite, BoundsAssumption
<1>3. NoTask \in Task /\ NoLog \in Log
  BY <1>2 DEF NoTask, Task, Locations, NoLog, Log
<1>4. [ip : Addresses, active : {TRUE}] \subseteq Device
  BY DEF Device
<1>5. ASSUME NEW t \in Tasks PROVE Counted(t)
  <2>1. Pool(t, Begun) = {} /\ Visited(t) = {}
    BY <1>1 DEF Pool, Begun, Visited
  <2>2. task[t].ok + task[t].bad + Cardinality(Pool(t, Begun)) = Cardinality(Visited(t))
    BY <1>1, <2>1, FS_EmptySet DEF NoTask
  <2> QED
    BY <1>1, <2>2 DEF Counted, NoTask, NoLog, Closed, Begun
<1>6. TypeOK
  <2>1. \A t \in Tasks : Pool(t, Futures \ {"none"}) = {}
    BY <1>1 DEF Pool
  <2>2. devices \in [Ids -> Device \cup {None}]
    BY <1>1, <1>4
  <2>3. visits \in [Tasks -> [Ids -> 0 .. 2]] /\ future \in [Tasks -> [Ids -> Futures]]
    BY <1>1 DEF Futures
  <2> QED
    BY <1>1, <1>2, <1>3, <2>1, <2>2, <2>3 DEF TypeOK
<1>7. Undisturbed
  BY <1>1 DEF Undisturbed, Unique, Crawls, NoTask
<1> QED
  BY <1>5, <1>6, <1>7 DEF IInv

LEMMA NextInv == IInv /\ [Next]_vars => IInv'
<1> SUFFICES ASSUME IInv, [Next]_vars PROVE IInv'
  OBVIOUS
<1>1. ASSUME NEW t \in Tasks, StartTask(t) PROVE IInv'
  BY <1>1, StartInv
<1>2. ASSUME NEW t \in Tasks, PoolStep(t) PROVE IInv'
  BY <1>2, ContactInv, NoAnswerInv, StoreInv DEF PoolStep
<1>3. ASSUME NEW t \in Tasks, TaskStep(t) PROVE IInv'
  BY <1>3, SubmitInv, EndInv, GatherInv, CheckInv, InsertInv, FailInv, RequeueInv, FinishInv
     DEF TaskStep
<1>4. CASE CheckDevice
  BY <1>4, CheckDeviceInv
<1>5. CASE CreateDevice
  BY <1>5, CreateDeviceInv
<1>6. CASE EditDevice
  BY <1>6, EditDeviceInv
<1>7. CASE DeleteDevice
  BY <1>7, DeleteDeviceInv
<1>8. CASE UNCHANGED vars
  <2>1. UNCHANGED <<devices, reported, task, future, log, creating, visits, mine, outdated,
                    disturbed, changes>>
    BY <1>8 DEF vars, inventory, history
  <2>2. Existing' = Existing /\ Checking' = Checking
    BY <2>1 DEF Existing, Checking
  <2>3. ASSUME NEW t \in Tasks
        PROVE  /\ \A states : Pool(t, states)' = Pool(t, states)
               /\ Visited(t)' = Visited(t) /\ Closed(t)' = Closed(t)
    BY <2>1 DEF Pool, Visited, Closed
  <2>4. ASSUME NEW t \in Tasks PROVE Counted(t)'
    BY <2>1, <2>3 DEF IInv, Counted
  <2>5. TypeOK'
    BY <2>1, <2>3 DEF IInv, TypeOK
  <2>6. ASSUME NEW t \in Tasks, ~disturbed PROVE Crawls(t)'
    BY <2>1, <2>2, <2>6 DEF IInv, Undisturbed, Crawls, Awaits, Known
  <2>7. ~disturbed => Undisturbed'
    BY <2>1, <2>2, <2>6 DEF IInv, Undisturbed, Unique, Known
  <2> QED
    BY <2>1, <2>4, <2>5, <2>7 DEF IInv
<1> QED
  BY <1>1, <1>2, <1>3, <1>4, <1>5, <1>6, <1>7, <1>8 DEF Next

\* The inductive invariant holds of every behaviour of the batches and crawls.
THEOREM Invariance == Spec => []IInv
BY InitInv, NextInv, PTL DEF Spec

\* Every variable keeps its type, and only a task that gathers has futures.
THEOREM TypeCorrect == Spec => []TypeOK
<1>1. IInv => TypeOK
  BY DEF IInv
<1> QED
  BY <1>1, Invariance, PTL

\* No two devices have one address as long as no two additions overlapped, with
\* any number of crawls and requests (auto_add_discovered_neighbors).
THEOREM AddressesStayUnique == Spec => []AddressesUnique
<1>1. IInv => AddressesUnique
  BY DEF IInv, Undisturbed, Unique, AddressesUnique
<1> QED
  BY <1>1, Invariance, PTL

\* A closed log counts every device whose turn came once, and an undisturbed
\* crawl that ended above its limit has contacted the active devices it added.
THEOREM AccountsAdd == Spec => []TaskAccounts
<1>1. ASSUME IInv, NEW t \in Tasks, Closed(t)
      PROVE  /\ \A d \in Ids : visits[t][d] <= 1
             /\ log[t].ok + log[t].bad = Cardinality({d \in Ids : visits[t][d] = 1})
             /\ task[t].full /\ task[t].depth < MaxDepth /\ ~disturbed =>
                  \A d \in mine[t] : devices[d].active => visits[t][d] = 1
  <2>1. Counted(t) /\ task[t].at = "over"
    BY <1>1 DEF IInv, Counted
  <2>2. \A d \in Ids : visits[t][d] <= 1
    BY <2>1 DEF Counted
  <2>3. log[t].ok + log[t].bad = Cardinality({d \in Ids : visits[t][d] = 1})
    BY <1>1, <2>1 DEF Counted, Visited
  <2>4. task[t].depth < MaxDepth => ~(task[t].depth >= MaxDepth)
    BY <1>1, TaskRecord, BoundsAssumption DEF IInv, Task
  <2>5. ASSUME task[t].full, task[t].depth < MaxDepth, ~disturbed,
               NEW d \in mine[t], devices[d].active
        PROVE  visits[t][d] = 1
    <3>1. visits[t][d] = 1 \/ Awaits(t, d)
      BY <1>1, <2>5 DEF IInv, Undisturbed, Crawls
    <3>2. ~Awaits(t, d)
      BY <2>1, <2>4, <2>5 DEF Awaits
    <3> QED
      BY <3>1, <3>2
  <2> QED
    BY <2>2, <2>3, <2>5
<1>2. IInv => TaskAccounts
  BY <1>1 DEF TaskAccounts
<1> QED
  BY <1>2, Invariance, PTL

-----------------------------------------------------------------------------
(* The logs of tasks implement TaskLog                                      *)

\* Until a task starts its log is not stored, and then it runs until the task
\* is over.
LogInv ==
  \A t \in Tasks :
    /\ task[t].at = "none" => log[t].status = "none"
    /\ task[t].at \notin {"none", "over"} => log[t].status = "running"

\* Only the first and the last step of a task write its log.
LEMMA LogSteps ==
  ASSUME IInv, [Next]_vars
  PROVE  \/ \E t \in Tasks :
              /\ Only(t) /\ task[t].at = "none" /\ task'[t].at = "next"
              /\ log' = [log EXCEPT ![t].status = "running"]
         \/ \E t \in Tasks :
              /\ Only(t) /\ task[t].at = "finish" /\ task'[t].at = "over"
              /\ log' = log \/ Closes(t)
         \/ /\ log' = log
            /\ \A t \in Tasks : \/ task'[t].at = task[t].at
                                \/ /\ task[t].at \notin {"none", "over"}
                                   /\ task'[t].at \notin {"none", "over"}
<1> DEFINE Moves(t) ==
             /\ log' = log /\ Only(t)
             /\ task[t].at \notin {"none", "over"} /\ task'[t].at \notin {"none", "over"}
<1>0. TypeOK /\ \A t \in Tasks : Counted(t)
  BY DEF IInv
<1>1. ASSUME NEW t \in Tasks, StartTask(t)
      PROVE  /\ Only(t) /\ task[t].at = "none" /\ task'[t].at = "next"
             /\ log' = [log EXCEPT ![t].status = "running"]
  <2>1. log' = [log EXCEPT ![t].status = "running"]
    BY <1>1 DEF StartTask
  <2> QED
    BY <1>0, <1>1, <2>1, StartFields
<1>2. ASSUME NEW t \in Tasks, Finish(t)
      PROVE  /\ Only(t) /\ task[t].at = "finish" /\ task'[t].at = "over"
             /\ log' = log \/ Closes(t)
  <2>1. task[t].at = "finish" /\ (log' = log \/ Closes(t))
    BY <1>2 DEF Finish
  <2> QED
    BY <1>0, <1>2, <2>1, FinishFields DEF Same
<1>3. ASSUME NEW t \in Tasks, SubmitBatch(t) PROVE Moves(t)
  BY <1>0, <1>3, SubmitFields DEF SubmitBatch, Same
<1>4. ASSUME NEW t \in Tasks, EndCrawl(t) PROVE Moves(t)
  BY <1>0, <1>4, EndFields DEF EndCrawl, Same
<1>5. ASSUME NEW t \in Tasks, Gather(t) PROVE Moves(t)
  <2>1. log' = log /\ task[t].at = "gather"
    BY <1>5 DEF Gather
  <2> QED
    BY <1>0, <1>5, <2>1, GatherFields DEF Same, AfterAdding
<1>6. ASSUME NEW t \in Tasks, CheckFirst(t) PROVE Moves(t)
  <2>1. log' = log /\ task[t].at = "add"
    BY <1>6 DEF CheckFirst
  <2> QED
    BY <1>0, <1>6, <2>1, CheckFields DEF SameCounts, Same
<1>7. ASSUME NEW t \in Tasks, Insert(t) PROVE Moves(t)
  <2>1. log' = log
    BY <1>7 DEF Insert
  <2> QED
    BY <1>0, <1>7, <2>1, InsertFields DEF SameCounts, Same
<1>8. ASSUME NEW t \in Tasks, AddFails(t) PROVE Moves(t)
  <2>1. log' = log /\ task[t].at \in {"add", "insert"}
    BY <1>8 DEF AddFails
  <2> QED
    BY <1>0, <1>8, <2>1, FailFields DEF SameCounts, Same, AfterAdding
<1>9. ASSUME NEW t \in Tasks, Requeue(t) PROVE Moves(t)
  <2>1. log' = log
    BY <1>9 DEF Requeue
  <2> QED
    BY <1>0, <1>9, <2>1, RequeueFields DEF SameCounts, Same, AfterAdding
<1>10. ASSUME NEW t \in Tasks, PoolStep(t) PROVE log' = log /\ task' = task
  BY <1>10 DEF PoolStep, Contact, NoAnswer, Store, history
<1>11. CheckDevice \/ CreateDevice \/ EditDevice \/ DeleteDevice => log' = log /\ task' = task
  BY DEF CheckDevice, CreateDevice, EditDevice, DeleteDevice
<1>12. UNCHANGED vars => log' = log /\ task' = task
  BY DEF vars
<1>13. ASSUME NEW t \in Tasks, TaskStep(t) PROVE Moves(t) \/ Finish(t)
  BY <1>3, <1>4, <1>5, <1>6, <1>7, <1>8, <1>9, <1>13 DEF TaskStep
<1>14. ASSUME NEW t \in Tasks, Moves(t)
       PROVE  /\ log' = log
              /\ \A u \in Tasks : \/ task'[u].at = task[u].at
                                  \/ /\ task[u].at \notin {"none", "over"}
                                     /\ task'[u].at \notin {"none", "over"}
  BY <1>14 DEF Only
<1> HIDE DEF Moves
<1> QED
  BY <1>1, <1>2, <1>10, <1>11, <1>12, <1>13, <1>14 DEF Next

\* The steps of TaskLog, as steps of the stored rows.
LEMMA LogOpens ==
  ASSUME TypeOK, NEW t \in Tasks, log[t].status = "none",
         log' = [log EXCEPT ![t].status = "running"]
  PROVE  TaskLogs!Open(t)
<1> DEFINE status == [u \in Tasks |-> log[u].status]
           after == [u \in Tasks |-> log'[u].status]
<1>1. \A u \in Tasks : log'[u].status = IF u = t THEN "running" ELSE log[u].status
  BY DEF TypeOK, Log
<1>2. after = [status EXCEPT ![t] = "running"]
  BY <1>1
<1>3. status[t] = "none"
  OBVIOUS
<1> QED
  BY <1>2, <1>3 DEF TaskLogs!Open

LEMMA LogCloses ==
  ASSUME TypeOK, NEW t \in Tasks, log[t].status = "running", Closes(t)
  PROVE  TaskLogs!Close(t) /\ log'[t].status \in {"success", "partial", "failed"}
<1> DEFINE status == [u \in Tasks |-> log[u].status]
           after == [u \in Tasks |-> log'[u].status]
<1>1. Outcome(t) \in TaskLogs!Ended
  BY DEF Outcome, TaskLogs!Ended
<1>2. \A u \in Tasks : log'[u].status = IF u = t THEN Outcome(t) ELSE log[u].status
  BY DEF TypeOK, Log, Closes
<1>3. after = [status EXCEPT ![t] = Outcome(t)]
  BY <1>2
<1>4. status[t] = "running"
  OBVIOUS
<1> QED
  BY <1>1, <1>2, <1>3, <1>4 DEF TaskLogs!Close, TaskLogs!Ended

\* The stored logs behave as TaskLog says: whatever fails in a batch or a crawl,
\* its row is stored as running before the first device is contacted, ends at
\* most once and never changes again.
THEOREM ImplementsLog == Spec => ImplementsTaskLog
<1>1. Init => LogInv
  BY DEF Init, LogInv, NoTask, NoLog
<1>2. ASSUME IInv, LogInv, [Next]_vars
      PROVE  /\ LogInv'
             /\ [TaskLogs!Next]_([t \in Tasks |-> log[t].status])
  <2>0. TypeOK /\ log \in [Tasks -> Log]
    BY <1>2 DEF IInv, TypeOK
  <2>1. ASSUME NEW t \in Tasks, Only(t), task[t].at = "none", task'[t].at = "next",
               log' = [log EXCEPT ![t].status = "running"]
        PROVE  LogInv' /\ TaskLogs!Next
    <3>1. log[t].status = "none"
      BY <1>2, <2>1 DEF LogInv
    <3>2. TaskLogs!Open(t)
      BY <2>0, <2>1, <3>1, LogOpens
    <3>3. log'[t].status = "running" /\ \A u \in Tasks : u # t => log'[u] = log[u]
      BY <2>0, <2>1 DEF Log
    <3>4. LogInv'
      BY <1>2, <2>1, <3>3 DEF LogInv, Only
    <3> QED
      BY <3>2, <3>4 DEF TaskLogs!Next
  <2>2. ASSUME NEW t \in Tasks, Only(t), task[t].at = "finish", task'[t].at = "over",
               log' = log \/ Closes(t)
        PROVE  LogInv' /\ (TaskLogs!Next \/ log' = log)
    <3>1. log[t].status = "running"
      BY <1>2, <2>2 DEF LogInv
    <3>2. Closes(t) => TaskLogs!Close(t)
      BY <2>0, <3>1, LogCloses
    <3>3. \A u \in Tasks : u # t => log'[u] = log[u]
      BY <2>0, <2>2 DEF Closes
    <3>4. LogInv'
      BY <1>2, <2>2, <3>3 DEF LogInv, Only
    <3> QED
      BY <2>2, <3>2, <3>4 DEF TaskLogs!Next
  <2>3. ASSUME log' = log,
               \A t \in Tasks : \/ task'[t].at = task[t].at
                                \/ /\ task[t].at \notin {"none", "over"}
                                   /\ task'[t].at \notin {"none", "over"}
        PROVE  LogInv'
    BY <1>2, <2>3 DEF LogInv
  <2>4. log' = log => UNCHANGED [t \in Tasks |-> log[t].status]
    OBVIOUS
  <2> QED
    BY <1>2, <2>1, <2>2, <2>3, <2>4, LogSteps
<1>3. Init => TaskLogs!Init
  BY DEF Init, TaskLogs!Init, NoLog
<1> QED
  BY <1>1, <1>2, <1>3, Invariance, PTL DEF Spec, ImplementsTaskLog, TaskLogs!Spec

-----------------------------------------------------------------------------
(* Tasks come to an end                                                     *)

\* Batches that a crawl may still count.
Left(t) == MaxDepth - task[t].depth

\* Steps that the thread of a task takes at most before it counts the next batch.
Stage(t) ==
  CASE task[t].at = "next"    -> 6
    [] task[t].at = "gather"  -> 5
    [] task[t].at = "add"     -> 4
    [] task[t].at = "insert"  -> 3
    [] task[t].at = "requeue" -> 2
    [] task[t].at = "finish"  -> 1
    [] OTHER                  -> 0

\* Steps that the futures of a batch take at most.
Work(t) == 2 * Cardinality(Pool(t, {"queued"})) + Cardinality(Pool(t, {"running"}))

\* A step brings the task nearer to its end.
Nearer(t) ==
  \/ Left(t)' < Left(t)
  \/ Left(t)' = Left(t) /\ Stage(t)' < Stage(t)
  \/ Left(t)' = Left(t) /\ Stage(t)' = Stage(t) /\ Work(t)' < Work(t)

\* Nothing counts below zero, so nothing comes nearer for ever.
LEMMA CountsDown ==
  ASSUME TypeOK, NEW t \in Tasks
  PROVE  Left(t) \in Nat /\ Stage(t) \in Nat /\ Work(t) \in Nat
<1>1. Left(t) \in Nat
  BY TaskRecord, BoundsAssumption DEF Left, Task
<1>2. Stage(t) \in Nat
  BY DEF Stage
<1>3. Pool(t, {"queued"}) \in SUBSET Ids /\ Pool(t, {"running"}) \in SUBSET Ids
  BY DEF Pool
<1>4. Cardinality(Pool(t, {"queued"})) \in Nat /\ Cardinality(Pool(t, {"running"})) \in Nat
  BY <1>3, Finite
<1>5. Work(t) \in Nat
  BY <1>4 DEF Work
<1> QED
  BY <1>1, <1>2, <1>5

LEMMA NextStage ==
  ASSUME NEW t \in Tasks, task'[t].depth = task[t].depth, Stage(t)' < Stage(t)
  PROVE  Nearer(t)
BY DEF Nearer, Left

\* A crawl that goes on has counted a batch; a plain batch does not go on.
LEMMA AfterBatch ==
  ASSUME TypeOK, NEW t \in Tasks, Counted(t),
         task[t].at \in {"gather", "add", "insert", "requeue"},
         task'[t].at = AfterAdding(task[t].full), task'[t].depth = Deeper(t)
  PROVE  Nearer(t)
<1>1. CASE task[t].full
  <2>1. task'[t].depth = task[t].depth + 1 /\ task[t].depth \in 0 .. MaxDepth
    BY <1>1, TaskRecord DEF Deeper, Task
  <2>2. Left(t)' < Left(t)
    BY <2>1, BoundsAssumption DEF Left
  <2> QED
    BY <2>2 DEF Nearer
<1>2. CASE ~task[t].full
  <2>1. task'[t].depth = task[t].depth /\ task'[t].at = "finish"
    BY <1>2 DEF Deeper, AfterAdding
  <2>2. Stage(t)' < Stage(t)
    BY <2>1 DEF Stage
  <2> QED
    BY <2>1, <2>2, NextStage
<1> QED
  BY <1>1, <1>2

LEMMA ThreadNearer ==
  ASSUME TypeOK, NEW t \in Tasks, Counted(t), TaskStep(t)
  PROVE  Nearer(t) /\ Only(t) /\ \A u \in Tasks : u # t => future'[u] = future[u]
<1>1. CASE SubmitBatch(t)
  <2>1. task[t].at = "next" /\ task'[t].at = "gather" /\ task'[t].depth = task[t].depth /\ Only(t)
    BY <1>1, SubmitFields DEF SubmitBatch, Same
  <2>2. Stage(t)' < Stage(t)
    BY <2>1 DEF Stage
  <2> QED
    BY <1>1, <2>1, <2>2, NextStage DEF SubmitBatch, TypeOK
<1>2. CASE EndCrawl(t)
  <2>1. task[t].at = "next" /\ task'[t].at = "finish" /\ task'[t].depth = task[t].depth /\ Only(t)
    BY <1>2, EndFields DEF EndCrawl, Same
  <2>2. Stage(t)' < Stage(t)
    BY <2>1 DEF Stage
  <2> QED
    BY <1>2, <2>1, <2>2, NextStage DEF EndCrawl
<1>3. CASE Gather(t)
  <2>1. /\ task[t].at = "gather" /\ Only(t)
        /\ task'[t].at \in {"add", AfterAdding(task[t].full)}
        /\ task'[t].depth = IF task'[t].at = "add" THEN task[t].depth ELSE Deeper(t)
    BY <1>3, GatherFields DEF Gather, Same
  <2>2. CASE task'[t].at = "add"
    <3>1. Stage(t)' < Stage(t)
      BY <2>1, <2>2, SMTT(30) DEF Stage
    <3> QED
      BY <1>3, <2>1, <2>2, <3>1, NextStage DEF Gather, TypeOK
  <2>3. CASE task'[t].at # "add"
    BY <1>3, <2>1, <2>3, AfterBatch DEF Gather, TypeOK
  <2> QED
    BY <2>2, <2>3
<1>4. CASE CheckFirst(t)
  <2>1. /\ task[t].at = "add" /\ task'[t].at \in {"requeue", "insert"}
        /\ task'[t].depth = task[t].depth /\ Only(t)
    BY <1>4, CheckFields DEF CheckFirst, SameCounts, Same
  <2>2. Stage(t)' < Stage(t)
    BY <2>1 DEF Stage
  <2> QED
    BY <1>4, <2>1, <2>2, NextStage DEF CheckFirst
<1>5. CASE Insert(t)
  <2>1. task[t].at = "insert" /\ task'[t].at = "requeue" /\ task'[t].depth = task[t].depth /\ Only(t)
    BY <1>5, InsertFields DEF SameCounts, Same
  <2>2. Stage(t)' < Stage(t)
    BY <2>1 DEF Stage
  <2> QED
    BY <1>5, <2>1, <2>2, NextStage DEF Insert
<1>6. CASE AddFails(t)
  <2>1. /\ task[t].at \in {"add", "insert"} /\ Only(t)
        /\ task'[t].at = AfterAdding(task[t].full) /\ task'[t].depth = Deeper(t)
    BY <1>6, FailFields DEF AddFails, SameCounts, Same
  <2> QED
    BY <1>6, <2>1, AfterBatch DEF AddFails
<1>7. CASE Requeue(t)
  <2>1. /\ task[t].at = "requeue" /\ Only(t)
        /\ task'[t].at = AfterAdding(task[t].full) /\ task'[t].depth = Deeper(t)
    BY <1>7, RequeueFields DEF SameCounts, Same
  <2> QED
    BY <1>7, <2>1, AfterBatch DEF Requeue
<1>8. CASE Finish(t)
  <2>1. task[t].at = "finish" /\ task'[t].at = "over" /\ task'[t].depth = task[t].depth /\ Only(t)
    BY <1>8, FinishFields DEF Finish, Same
  <2>2. Stage(t)' < Stage(t)
    BY <2>1 DEF Stage
  <2> QED
    BY <1>8, <2>1, <2>2, NextStage DEF Finish
<1> QED
  BY <1>1, <1>2, <1>3, <1>4, <1>5, <1>6, <1>7, <1>8 DEF TaskStep

\* A future goes on from "queued" to "running" or to its end.
LEMMA PoolNearer ==
  ASSUME TypeOK, NEW t \in Tasks, PoolStep(t)
  PROVE  Nearer(t) /\ task' = task /\ \A u \in Tasks : u # t => future'[u] = future[u]
<1>1. PICK d \in Ids : Contact(t, d) \/ NoAnswer(t, d) \/ Store(t, d)
  BY DEF PoolStep
<1>2. PICK s \in {"running", "ok", "failed"} :
        /\ task' = task /\ future' = [future EXCEPT ![t][d] = s]
        /\ future[t][d] = "queued" \/ (future[t][d] = "running" /\ s # "running")
  <2>1. CASE Contact(t, d)
    <3>1. CASE d \in Existing
      BY <2>1, <3>1 DEF Contact
    <3>2. CASE d \notin Existing
      BY <2>1, <3>2 DEF Contact
    <3> QED
      BY <3>1, <3>2
  <2>2. CASE NoAnswer(t, d)
    BY <2>2 DEF NoAnswer
  <2>3. CASE Store(t, d)
    BY <2>3 DEF Store
  <2> QED
    BY <1>1, <2>1, <2>2, <2>3
<1>3. /\ future'[t][d] = s
      /\ \A e \in Ids : e # d => future'[t][e] = future[t][e]
      /\ \A u \in Tasks : u # t => future'[u] = future[u]
  <2>1. s \in Futures
    BY DEF Futures
  <2> QED
    BY ZenonT(40), <1>2, <2>1, PoolFields
<1> DEFINE queued == Pool(t, {"queued"})
           running == Pool(t, {"running"})
<1>4. queued \subseteq Ids /\ running \subseteq Ids
  BY DEF Pool
<1>5. /\ IsFiniteSet(queued) /\ Cardinality(queued) \in Nat
      /\ IsFiniteSet(running) /\ Cardinality(running) \in Nat
  BY <1>4, Finite
<1>6. Work(t)' < Work(t)
  <2>1. CASE future[t][d] = "queued"
    <3>1. /\ queued' = queued \ {d} /\ d \in queued /\ d \notin running
          /\ running' = IF s = "running" THEN running \cup {d} ELSE running
      BY <1>3, <2>1 DEF Pool
    <3>2. Cardinality(queued \ {d}) = Cardinality(queued) - 1
      BY <1>5, <3>1, FS_RemoveElement
    <3>3. Cardinality(running \cup {d}) = Cardinality(running) + 1
      BY <1>5, <3>1, FS_AddElement
    <3> HIDE DEF queued, running
    <3>4. /\ Cardinality(queued') = Cardinality(queued) - 1
          /\ Cardinality(running') <= Cardinality(running) + 1
          /\ Cardinality(running') \in Nat
      <4>1. CASE running' = running
        BY <1>5, <3>1, <3>2, <4>1
      <4>2. CASE running' = running \cup {d}
        <5>1. Cardinality(running') = Cardinality(running) + 1
          BY <3>3, <4>2
        <5> QED
          BY <1>5, <3>1, <3>2, <5>1
      <4> QED
        BY <3>1, <4>1, <4>2
    <3>5. 2 * Cardinality(queued') + Cardinality(running')
            < 2 * Cardinality(queued) + Cardinality(running)
      BY <1>5, <3>4
    <3> QED
      BY <3>5 DEF Work, queued, running
  <2>2. CASE future[t][d] = "running" /\ s # "running"
    <3>1. queued' = queued /\ running' = running \ {d} /\ d \in running
      BY <1>3, <2>2 DEF Pool
    <3>2. Cardinality(running \ {d}) = Cardinality(running) - 1
      BY <1>5, <3>1, FS_RemoveElement
    <3>3. Cardinality(queued') = Cardinality(queued)
          /\ Cardinality(running') = Cardinality(running) - 1
      BY <3>1, <3>2
    <3> HIDE DEF queued, running
    <3>4. 2 * Cardinality(queued') + Cardinality(running')
            < 2 * Cardinality(queued) + Cardinality(running)
      BY <1>5, <3>3
    <3> QED
      BY <3>4 DEF Work, queued, running
  <2> QED
    BY <1>2, <2>1, <2>2
<1>7. Left(t)' = Left(t) /\ Stage(t)' = Stage(t)
  BY <1>2 DEF Left, Stage
<1> QED
  BY <1>2, <1>3, <1>6, <1>7 DEF Nearer

\* Whatever the network looks like - cycles, neighbours that keep appearing,
\* devices deleted or edited meanwhile, failing threads and failing additions -,
\* every step of a task's thread or of its pool brings the task nearer to its end,
\* and nothing that others do takes it back: a task that has started is over after
\* finitely many steps of its own (_run_discovery_task, run_full_network_discovery).
THEOREM TasksAdvance ==
  Spec => [][\A t \in Tasks :
               /\ TaskStep(t) \/ PoolStep(t) => Nearer(t)
               /\ \/ task'[t] = task[t] /\ future'[t] = future[t]
                  \/ Nearer(t)
                  \/ task[t].at = "none"]_vars
<1> DEFINE Advances(t) ==
             /\ TaskStep(t) \/ PoolStep(t) => Nearer(t)
             /\ \/ task'[t] = task[t] /\ future'[t] = future[t]
                \/ Nearer(t)
                \/ task[t].at = "none"
<1>1. ASSUME IInv, [Next]_vars, NEW t \in Tasks
      PROVE  Advances(t)
  <2>0. TypeOK /\ \A u \in Tasks : Counted(u)
    BY <1>1 DEF IInv
  <2>1. TaskStep(t) \/ PoolStep(t) => Nearer(t)
    BY <2>0, ThreadNearer, PoolNearer
  <2>2. ASSUME NEW u \in Tasks, u # t, StartTask(u) \/ PoolStep(u) \/ TaskStep(u)
        PROVE  task'[t] = task[t] /\ future'[t] = future[t]
    <3>1. CASE StartTask(u)
      <4>1. future' = future
        BY <3>1 DEF StartTask
      <4> QED
        BY <2>0, <2>2, <3>1, <4>1, StartFields DEF Only
    <3>2. CASE TaskStep(u)
      BY <2>0, <2>2, <3>2, ThreadNearer DEF Only
    <3>3. CASE PoolStep(u)
      BY <2>0, <2>2, <3>3, PoolNearer
    <3> QED
      BY <2>2, <3>1, <3>2, <3>3
  <2>3. StartTask(t) => task[t].at = "none"
    BY DEF StartTask
  <2>4. CheckDevice \/ CreateDevice \/ EditDevice \/ DeleteDevice => task' = task /\ future' = future
    BY DEF CheckDevice, CreateDevice, EditDevice, DeleteDevice
  <2>5. UNCHANGED vars => task' = task /\ future' = future
    BY DEF vars
  <2> QED
    BY <1>1, <2>1, <2>2, <2>3, <2>4, <2>5 DEF Next
<1>2. IInv /\ [Next]_vars => [\A t \in Tasks : Advances(t)]_vars
  BY <1>1
<1> QED
  BY <1>2, Invariance, PTL DEF Spec

=============================================================================
