-------------------------- MODULE Scheduler_proofs --------------------------
(***************************************************************************)
(* What Scheduler keeps for any threads, task types, expressions, results  *)
(* and numbers of schedules and events.                                    *)
(***************************************************************************)
EXTENDS Scheduler, FiniteSetTheorems, SequenceTheorems, TLAPS

\* A run is between the insertion of its id and its removal.
Inside(s) ==
  \/ s.pc \in {"entered", "handler", "failing", "leaving"}
  \/ s.pc = "writing" /\ s.failed

\* What holds of a run in state s beside the logs "stored": what it knows by
\* now, and that it leaves no log of its own "running" when it succeeds.
Sound(s, stored) ==
  /\ s.pc \notin {"idle", "handler"} => s.id \in Ids
  /\ s.pc \notin {"idle", "started"} => s.type \in Types
  /\ s.pc \in {"started", "entered"} => s.log = 0
  /\ s.pc = "handler" => s.log # 0
  /\ s.log # 0 => s.type \in Types /\ s.log \in 1 .. Len(stored[s.type])
  /\ s.pc = "failing" => s.failed
  /\ s.pc \in {"started", "entered", "handler", "reporting"} => ~s.failed
  /\ s.pc \in {"leaving", "reporting"} /\ ~s.failed /\ s.log # 0 =>
       stored[s.type][s.log] # "running"
  /\ s.pc = "writing" => s.status \in Statuses /\ (s.own => s.status # "running")

RunInv == \A r \in Runners : Sound(run[r], logs)

\* Two runs of a schedule at once are remembered.
SharingInv == \A i \in Ids : \A r, s \in Executing(i) : r = s \/ i \in shared

\* A request that has read a row holds it.
Knows(s) == s.pc = "read" => s.id \in Ids /\ s.was \in Row

ReadInv == \A q \in Requesters : Knows(request[q])

\* Jobs and stored plans are those of the rows.
Agrees ==
  /\ jobs = Wanted(rows)
  /\ \A i \in Stored : rows[i].planned <=> jobs[i] # None

\* How far the one reload under way has come.
Reloading(q) ==
  /\ request[q].pc = "read" => Agrees
  /\ request[q].pc = "remove" =>
       \A i \in JobIds : jobs[i] # None => \E job \in request[q].todo : job[1] = i
  /\ request[q].pc = "remove" =>
       \A job \in request[q].todo : jobs[job[1]] # None
  /\ request[q].pc = "query" => \A i \in JobIds : jobs[i] = None
  /\ request[q].pc = "add" =>
       /\ request[q].todo \subseteq Enabled
       /\ \A i \in Ids : IF \E job \in request[q].todo : job[1] = i
                         THEN jobs[i] = None
                         ELSE jobs[i] = Wanted(rows)[i]
  /\ request[q].pc = "sync" =>
       /\ jobs = Wanted(rows)
       /\ request[q].todo = {<<i, jobs[i]>> : i \in Stored}

JobInv ==
  ~crossed =>
    /\ \A p, q \in Requesters : request[p].pc # "idle" /\ request[q].pc # "idle" => p = q
    /\ (\A q \in Requesters : request[q].pc = "idle") => Agrees
    /\ \A q \in Requesters : Reloading(q)

IInv ==
  /\ TypeOK /\ RunInv /\ SharingInv /\ ReadInv
  /\ IndicatorIsHonest /\ RunningStatusIsForeign /\ JobInv

-----------------------------------------------------------------------------
(* Threads                                                                  *)

LEMMA Becomes ==
  ASSUME TypeOK, NEW r \in Runners, NEW s, Become(r, s)
  PROVE  /\ run'[r] = s
         /\ \A u \in Runners : u # r => run'[u] = run[u]
         /\ s \in RunState => run' \in [Runners -> RunState]
BY DEF Become, TypeOK

LEMMA Answers ==
  ASSUME TypeOK, NEW q \in Requesters, NEW s, Answer(q, s)
  PROVE  /\ request'[q] = s
         /\ \A p \in Requesters : p # q => request'[p] = request[p]
         /\ s \in RequestState => request' \in [Requesters -> RequestState]
BY DEF Answer, TypeOK

LEMMA IdleRunTyped == IdleRun \in RunState /\ \A stored : Sound(IdleRun, stored)
BY DEF IdleRun, RunState, Sound

LEMMA IdleRequestTyped ==
  IdleRequest \in RequestState /\ IdleRequest.pc = "idle" /\ Knows(IdleRequest)
BY DEF IdleRequest, RequestState, Knows

-----------------------------------------------------------------------------
(* Task logs                                                                *)

\* "After" continues "stored": nothing is lost, nothing becomes "running" again.
Continues(stored, after) ==
  \A t \in Types :
    /\ Len(stored[t]) <= Len(after[t])
    /\ \A k \in 1 .. Len(stored[t]) :
         after[t][k] = stored[t][k] \/ after[t][k] # "running"

LEMMA Appended ==
  ASSUME TypeOK, NEW t \in Types, logs' = [logs EXCEPT ![t] = Append(@, "running")]
  PROVE  /\ logs' \in [Types -> Seq(Statuses)]
         /\ Continues(logs, logs')
         /\ Len(logs'[t]) = Len(logs[t]) + 1
         /\ Len(logs[t]) \in Nat
<1>1. logs[t] \in Seq(Statuses) /\ "running" \in Statuses
  BY DEF TypeOK, Statuses
<1>2. /\ Append(logs[t], "running") \in Seq(Statuses)
      /\ Len(Append(logs[t], "running")) = Len(logs[t]) + 1
      /\ \A k \in 1 .. Len(logs[t]) : Append(logs[t], "running")[k] = logs[t][k]
      /\ Len(logs[t]) \in Nat
  BY <1>1, AppendProperties, LenProperties
<1>3. /\ logs'[t] = Append(logs[t], "running")
      /\ \A u \in Types : u # t => logs'[u] = logs[u]
      /\ logs' \in [Types -> Seq(Statuses)]
  BY <1>2 DEF TypeOK
<1>4. ASSUME NEW u \in Types
      PROVE  /\ Len(logs[u]) <= Len(logs'[u])
             /\ \A k \in 1 .. Len(logs[u]) : logs'[u][k] = logs[u][k]
  <2>1. CASE u = t
    BY <1>2, <1>3, <2>1
  <2>2. CASE u # t
    <3>1. logs[u] \in Seq(Statuses)
      BY DEF TypeOK
    <3>2. Len(logs[u]) \in Nat /\ logs'[u] = logs[u]
      BY <1>3, <2>2, <3>1, LenProperties
    <3> QED
      BY <3>2
  <2> QED
    BY <2>1, <2>2
<1> QED
  BY <1>2, <1>3, <1>4 DEF Continues

LEMMA Marked ==
  ASSUME TypeOK, NEW t \in Types, NEW k \in 1 .. Len(logs[t]), NEW status \in Statuses,
         status # "running", logs' = [logs EXCEPT ![t][k] = status]
  PROVE  /\ logs' \in [Types -> Seq(Statuses)]
         /\ Continues(logs, logs')
         /\ logs'[t][k] # "running"
         /\ Len(logs'[t]) = Len(logs[t])
<1>1. logs[t] \in Seq(Statuses) /\ Len(logs[t]) \in Nat
  BY LenProperties DEF TypeOK
<1> DEFINE new == [logs[t] EXCEPT ![k] = status]
<1>2. /\ new \in Seq(Statuses)
      /\ Len(new) = Len(logs[t])
      /\ \A j \in 1 .. Len(logs[t]) : new[j] = IF j = k THEN status ELSE logs[t][j]
  BY <1>1, ExceptSeq
<1>3. logs' = [logs EXCEPT ![t] = new]
  OBVIOUS
<1> HIDE DEF new
<1>4. /\ logs'[t] = new
      /\ \A u \in Types : u # t => logs'[u] = logs[u]
      /\ logs' \in [Types -> Seq(Statuses)]
  BY <1>2, <1>3 DEF TypeOK
<1>5. ASSUME NEW u \in Types
      PROVE  /\ Len(logs[u]) <= Len(logs'[u])
             /\ \A j \in 1 .. Len(logs[u]) : logs'[u][j] = logs[u][j] \/ logs'[u][j] # "running"
  <2>1. CASE u = t
    BY <1>1, <1>2, <1>4, <2>1
  <2>2. CASE u # t
    <3>1. logs[u] \in Seq(Statuses)
      BY DEF TypeOK
    <3>2. Len(logs[u]) \in Nat /\ logs'[u] = logs[u]
      BY <1>4, <2>2, <3>1, LenProperties
    <3> QED
      BY <3>2
  <2> QED
    BY <2>1, <2>2
<1> QED
  BY <1>2, <1>4, <1>5 DEF Continues

LEMMA SameLogs ==
  ASSUME TypeOK, UNCHANGED logs
  PROVE  Continues(logs, logs')
<1>1. \A t \in Types : Len(logs[t]) \in Nat
  BY LenProperties DEF TypeOK
<1> QED
  BY <1>1 DEF Continues

\* A run stays sound while the logs continue.
LEMMA SoundContinues ==
  ASSUME TypeOK, NEW s \in RunState, NEW after \in [Types -> Seq(Statuses)],
         Sound(s, logs), Continues(logs, after)
  PROVE  Sound(s, after)
<1>1. s.log # 0 => s.type \in Types /\ s.log \in 1 .. Len(logs[s.type])
  BY DEF Sound
<1>2. s.log # 0 => /\ s.log \in 1 .. Len(after[s.type])
                   /\ \/ after[s.type][s.log] = logs[s.type][s.log]
                      \/ after[s.type][s.log] # "running"
  <2> SUFFICES ASSUME s.log # 0 PROVE s.log \in 1 .. Len(after[s.type])
                   /\ \/ after[s.type][s.log] = logs[s.type][s.log]
                      \/ after[s.type][s.log] # "running"
    OBVIOUS
  <2>1. Len(logs[s.type]) \in Nat /\ Len(after[s.type]) \in Nat
    BY <1>1, LenProperties DEF TypeOK
  <2> QED
    BY <1>1, <2>1 DEF Continues
<1> QED
  BY <1>1, <1>2 DEF Sound

\* A step of one run to a sound state keeps all runs sound.
LEMMA OneSound ==
  ASSUME TypeOK, RunInv, NEW r \in Runners, NEW s \in RunState, Become(r, s),
         logs' \in [Types -> Seq(Statuses)], Continues(logs, logs'), Sound(s, logs')
  PROVE  RunInv'
<1>1. SUFFICES ASSUME NEW u \in Runners PROVE Sound(run'[u], logs')
  BY DEF RunInv, Sound
<1>2. CASE u = r
  BY <1>2, Becomes
<1>3. CASE u # r
  <2>1. run[u] \in RunState /\ Sound(run[u], logs) /\ run'[u] = run[u]
    BY <1>3, Becomes DEF TypeOK, RunInv
  <2>2. Sound(run[u], logs')
    BY <2>1, SoundContinues
  <2> QED
    BY <2>1, <2>2
<1> QED
  BY <1>2, <1>3

-----------------------------------------------------------------------------
(* The set of running schedules                                             *)

LEMMA WhoExecutes ==
  ASSUME TypeOK, NEW i
  PROVE  Executing(i) = {r \in Runners : run[r].id = i /\ Inside(run[r])}
BY DEF Executing, Inside

LEMMA ExecutingMoves ==
  ASSUME TypeOK, NEW r \in Runners, NEW s, Become(r, s), NEW i
  PROVE  /\ \A u \in Runners : u # r => (u \in Executing(i)' <=> u \in Executing(i))
         /\ r \in Executing(i)' <=> s.id = i /\ Inside(s)
         /\ Executing(i) \subseteq Runners /\ Executing(i)' \subseteq Runners
BY Becomes DEF Executing, Inside

\* A step inside a run, or outside of one, leaves the set alone.
LEMMA IndicatorUntouched ==
  ASSUME TypeOK, SharingInv, IndicatorIsHonest, NEW r \in Runners, NEW s, Become(r, s),
         \A i \in Ids : s.id = i /\ Inside(s) <=> run[r].id = i /\ Inside(run[r]),
         UNCHANGED <<running, shared>>
  PROVE  SharingInv' /\ IndicatorIsHonest'
<1>1. \A i \in Ids : Executing(i)' = Executing(i)
  <2> SUFFICES ASSUME NEW i \in Ids PROVE Executing(i)' = Executing(i)
    OBVIOUS
  <2>1. r \in Executing(i) <=> run[r].id = i /\ Inside(run[r])
    BY DEF Executing, Inside
  <2> QED
    BY <2>1, ExecutingMoves
<1>2. running \subseteq Ids
  BY DEF TypeOK
<1> QED
  BY <1>1, <1>2 DEF SharingInv, IndicatorIsHonest

LEMMA SameIndicator ==
  ASSUME SharingInv, IndicatorIsHonest, UNCHANGED <<run, running, shared>>
  PROVE  SharingInv' /\ IndicatorIsHonest'
<1>1. \A i : Executing(i)' = Executing(i)
  BY DEF Executing
<1> QED
  BY <1>1 DEF SharingInv, IndicatorIsHonest

-----------------------------------------------------------------------------
(* Steps of a run                                                           *)

RunPart == TypeOK /\ RunInv /\ SharingInv /\ ReadInv /\ IndicatorIsHonest

\* A step of a run that leaves the set alone.
LEMMA QuietStep ==
  ASSUME RunPart, NEW r \in Runners, NEW s \in RunState, Become(r, s),
         rows' \in [Ids -> Row \cup {None}], foreign' \subseteq Ids,
         logs' \in [Types -> Seq(Statuses)], Continues(logs, logs'), Sound(s, logs'),
         count' \in 0 .. MaxEvents,
         \A i \in Ids : s.id = i /\ Inside(s) <=> run[r].id = i /\ Inside(run[r]),
         UNCHANGED <<running, jobs, request, shared, crossed>>
  PROVE  RunPart'
<1>1. TypeOK /\ RunInv /\ SharingInv /\ ReadInv /\ IndicatorIsHonest
  BY DEF RunPart
<1>2. run' \in [Runners -> RunState]
  BY <1>1, Becomes
<1>3. TypeOK'
  BY <1>1, <1>2 DEF TypeOK
<1>4. RunInv'
  BY <1>1, OneSound
<1>5. SharingInv' /\ IndicatorIsHonest'
  BY <1>1, IndicatorUntouched
<1>6. ReadInv'
  BY <1>1 DEF ReadInv, Knows
<1> QED
  BY <1>3, <1>4, <1>5, <1>6 DEF RunPart

LEMMA Counts ==
  ASSUME TypeOK, Event
  PROVE  count' \in 0 .. MaxEvents
BY BoundsAssumption DEF TypeOK, Event

LEMMA StartKeeps ==
  ASSUME RunPart, NEW r \in Runners, NEW s \in RunState, Become(r, s),
         s.pc = "started", s.id \in Ids, s.log = 0, ~s.failed,
         run[r].pc = "idle", Event,
         UNCHANGED <<rows, logs, running, jobs, request, history>>
  PROVE  RunPart'
<1>1. TypeOK
  BY DEF RunPart
<1>2. Sound(s, logs) /\ ~Inside(s) /\ ~Inside(run[r])
  BY DEF Sound, Inside
<1> QED
  BY <1>1, <1>2, Counts, SameLogs, QuietStep DEF TypeOK, history

LEMMA CronFiresKeeps ==
  ASSUME RunPart, NEW r \in Runners, NEW i \in Ids, CronFires(r, i)
  PROVE  RunPart'
<1> DEFINE s == [IdleRun EXCEPT !.pc = "started", !.id = i, !.cron = TRUE]
<1>1. /\ run[r].pc = "idle"
      /\ Event
      /\ Become(r, s)
      /\ UNCHANGED <<rows, logs, running, jobs, request, history>>
  BY DEF CronFires
<1>2. s \in RunState /\ s.pc = "started" /\ s.id \in Ids /\ s.log = 0 /\ ~s.failed
  BY DEF IdleRun, RunState
<1> HIDE DEF s
<1> QED
  BY <1>1, <1>2, StartKeeps

LEMMA RunNowKeeps ==
  ASSUME RunPart, NEW r \in Runners, NEW i \in Ids, RunNow(r, i)
  PROVE  RunPart'
<1> DEFINE s == [IdleRun EXCEPT !.pc = "started", !.id = i]
<1>1. /\ run[r].pc = "idle"
      /\ Event
      /\ Become(r, s)
      /\ UNCHANGED <<rows, logs, running, jobs, request, history>>
  BY DEF RunNow
<1>2. s \in RunState /\ s.pc = "started" /\ s.id \in Ids /\ s.log = 0 /\ ~s.failed
  BY DEF IdleRun, RunState
<1> HIDE DEF s
<1> QED
  BY <1>1, <1>2, StartKeeps

\* A step to a handler that has just stored its "running" log.
LEMMA HandlerStarts ==
  ASSUME RunPart, NEW r \in Runners, NEW t \in Types, NEW s \in RunState, Become(r, s),
         logs' \in [Types -> Seq(Statuses)], Continues(logs, logs'),
         s.pc = "handler", s.type = t, s.log # 0, s.log \in 1 .. Len(logs'[t]), ~s.failed,
         \A i \in Ids : s.id = i /\ Inside(s) <=> run[r].id = i /\ Inside(run[r]),
         count' \in 0 .. MaxEvents,
         UNCHANGED <<rows, running, jobs, request, history>>
  PROVE  RunPart'
<1>1. TypeOK
  BY DEF RunPart
<1>2. Sound(s, logs')
  BY DEF Sound
<1>3. rows' \in [Ids -> Row \cup {None}] /\ foreign' \subseteq Ids
  BY <1>1 DEF TypeOK, history
<1>4. UNCHANGED <<running, jobs, request, shared, crossed>>
  BY DEF history
<1> QED
  BY <1>2, <1>3, <1>4, QuietStep

LEMMA NextLog ==
  ASSUME TypeOK, NEW t \in Types, logs' = [logs EXCEPT ![t] = Append(@, "running")]
  PROVE  /\ Len(logs[t]) + 1 \in Nat
         /\ Len(logs[t]) + 1 # 0
         /\ Len(logs[t]) + 1 \in 1 .. Len(logs'[t])
<1>1. Len(logs'[t]) = Len(logs[t]) + 1 /\ Len(logs[t]) \in Nat
  BY Appended
<1> QED
  BY <1>1

LEMMA RunBatchKeeps ==
  ASSUME RunPart, NEW r \in Runners, NEW t \in Types, RunBatch(r, t)
  PROVE  RunPart'
<1>1. TypeOK
  BY DEF RunPart
<1> DEFINE n == Len(logs[t]) + 1
           s == [IdleRun EXCEPT !.pc = "handler", !.type = t, !.log = n]
<1>2. /\ run[r].pc = "idle"
      /\ Event
      /\ logs' = [logs EXCEPT ![t] = Append(@, "running")]
      /\ UNCHANGED <<rows, running, jobs, request, history>>
      /\ Become(r, s)
  BY DEF RunBatch
<1>3. /\ n \in Nat /\ n # 0 /\ n \in 1 .. Len(logs'[t])
      /\ logs' \in [Types -> Seq(Statuses)] /\ Continues(logs, logs')
  BY <1>1, <1>2, NextLog, Appended
<1>4. s.log = n
  BY DEF IdleRun
<1> HIDE DEF n
<1>5. s \in RunState /\ s.id = None /\ s.type = t /\ s.pc = "handler" /\ ~s.failed
  BY <1>3 DEF IdleRun, RunState
<1> HIDE DEF s
<1>6. \A i \in Ids : s.id # i /\ ~Inside(run[r])
  BY <1>2, <1>5, NoneAssumption DEF Inside
<1>7. count' \in 0 .. MaxEvents
  BY <1>1, <1>2, Counts
<1> QED
  <2>1. Become(r, s) /\ UNCHANGED <<rows, running, jobs, request, history>>
    BY <1>2
  <2>2. s.log # 0 /\ s.log \in 1 .. Len(logs'[t])
    BY <1>3, <1>4
  <2> QED
    BY <1>3, <1>5, <1>6, <1>7, <2>1, <2>2, HandlerStarts

LEMMA SkipKeeps ==
  ASSUME RunPart, NEW r \in Runners, Skip(r)
  PROVE  RunPart'
<1>1. TypeOK /\ run[r] \in RunState /\ Sound(run[r], logs)
  BY DEF RunPart, RunInv, TypeOK
<1> DEFINE s == [run[r] EXCEPT !.pc = "leaving"]
<1>2. /\ run[r].pc = "entered"
      /\ Become(r, s)
      /\ UNCHANGED <<rows, logs, running, jobs, request, count, history>>
  BY DEF Skip, Advance
<1>3. s \in RunState /\ Sound(s, logs) /\ s.id = run[r].id /\ Inside(s) /\ Inside(run[r])
  BY <1>1, <1>2 DEF RunState, Sound, Inside
<1> HIDE DEF s
<1> QED
  BY <1>1, <1>2, <1>3, SameLogs, QuietStep DEF TypeOK, history

LEMMA BeginKeeps ==
  ASSUME RunPart, NEW r \in Runners, Begin(r)
  PROVE  RunPart'
<1> DEFINE t == run[r].type
           n == Len(logs[t]) + 1
           s == [run[r] EXCEPT !.pc = "handler", !.log = n]
<1>1. TypeOK /\ run[r] \in RunState /\ Sound(run[r], logs)
  BY DEF RunPart, RunInv, TypeOK
<1>2. /\ run[r].pc = "entered"
      /\ logs' = [logs EXCEPT ![t] = Append(@, "running")]
      /\ Become(r, s)
      /\ UNCHANGED <<rows, running, jobs, request, count, history>>
  BY DEF Begin
<1>3. t \in Types
  BY <1>1, <1>2 DEF Sound
<1>4. /\ n \in Nat /\ n # 0 /\ n \in 1 .. Len(logs'[t])
      /\ logs' \in [Types -> Seq(Statuses)] /\ Continues(logs, logs')
  BY <1>1, <1>2, <1>3, NextLog, Appended
<1> HIDE DEF n
<1>6. /\ s \in RunState /\ s.id = run[r].id /\ s.type = t /\ s.log = n
      /\ s.pc = "handler" /\ s.failed = run[r].failed
  BY <1>1, <1>4 DEF RunState
<1>7. Inside(s) /\ Inside(run[r]) /\ ~s.failed
  BY <1>1, <1>2, <1>6 DEF Inside, Sound
<1>8. count' \in 0 .. MaxEvents
  BY <1>1, <1>2 DEF TypeOK
<1> HIDE DEF s, t
<1> QED
  <2>1. Become(r, s) /\ UNCHANGED <<rows, running, jobs, request, history>>
    BY <1>2
  <2>2. s.log # 0 /\ s.log \in 1 .. Len(logs'[t])
    BY <1>4, <1>6
  <2> QED
    BY <1>3, <1>4, <1>6, <1>7, <1>8, <2>1, <2>2, HandlerStarts

\* What a run without a schedule does when its handler is over.
LEMMA BatchEnds ==
  ASSUME RunPart, NEW r \in Runners, run[r].id = None, Become(r, IdleRun),
         logs' \in [Types -> Seq(Statuses)], Continues(logs, logs'),
         UNCHANGED <<rows, running, jobs, request, count, history>>
  PROVE  RunPart'
<1>1. TypeOK
  BY DEF RunPart
<1>2. \A i \in Ids : run[r].id # i /\ ~Inside(IdleRun)
  BY NoneAssumption DEF IdleRun, Inside
<1> QED
  BY <1>1, <1>2, IdleRunTyped, QuietStep DEF TypeOK, history

LEMMA FinishKeeps ==
  ASSUME RunPart, NEW r \in Runners, NEW status \in Results, Finish(r, status)
  PROVE  RunPart'
<1> DEFINE t == run[r].type
           k == run[r].log
<1>1. TypeOK /\ run[r] \in RunState /\ Sound(run[r], logs)
  BY DEF RunPart, RunInv, TypeOK
<1>2. /\ run[r].pc = "handler"
      /\ logs' = [logs EXCEPT ![t][k] = status]
      /\ IF run[r].id = None THEN Become(r, IdleRun) ELSE Advance(r, "leaving")
      /\ UNCHANGED <<rows, running, jobs, request, count, history>>
  BY DEF Finish
<1>3. t \in Types /\ k \in 1 .. Len(logs[t]) /\ k # 0
  BY <1>1, <1>2 DEF Sound
<1>4. status \in Statuses /\ status # "running"
  BY ResultsAssumption DEF Statuses
<1>5. /\ logs' \in [Types -> Seq(Statuses)]
      /\ Continues(logs, logs')
      /\ logs'[t][k] # "running"
      /\ Len(logs'[t]) = Len(logs[t])
  BY <1>1, <1>2, <1>3, <1>4, Marked
<1>6. CASE run[r].id = None
  BY <1>2, <1>5, <1>6, BatchEnds
<1>7. CASE run[r].id # None
  <2> DEFINE s == [run[r] EXCEPT !.pc = "leaving"]
  <2>1. Become(r, s)
    BY <1>2, <1>7 DEF Advance
  <2>2. s \in RunState /\ s.id = run[r].id /\ Inside(s) /\ Inside(run[r])
    BY <1>1, <1>2 DEF RunState, Inside
  <2>3. /\ s.pc = "leaving" /\ s.type = t /\ s.log = k /\ s.failed = run[r].failed
        /\ s.id \in Ids
    BY <1>1, <1>2, <1>7 DEF RunState
  <2>4. Sound(s, logs')
    BY <1>3, <1>5, <2>3 DEF Sound
  <2> HIDE DEF s
  <2> QED
    BY <1>1, <1>2, <1>5, <2>1, <2>2, <2>4, QuietStep DEF TypeOK, history
<1> QED
  BY <1>6, <1>7

LEMMA RaiseKeeps ==
  ASSUME RunPart, NEW r \in Runners, Raise(r)
  PROVE  RunPart'
<1> DEFINE t == run[r].type
           k == run[r].log
<1>1. TypeOK /\ run[r] \in RunState /\ Sound(run[r], logs)
  BY DEF RunPart, RunInv, TypeOK
<1>2. /\ run[r].pc = "entered" \/ run[r].pc = "handler"
      /\ logs' \in IF run[r].pc = "handler"
                   THEN {logs, [logs EXCEPT ![t][k] = "failed"]}
                   ELSE {logs}
      /\ Become(r, IF run[r].id = None THEN IdleRun
                   ELSE [run[r] EXCEPT !.pc = "failing", !.failed = TRUE])
      /\ UNCHANGED <<rows, running, jobs, request, count, history>>
  BY DEF Raise
<1>3. logs' \in [Types -> Seq(Statuses)] /\ Continues(logs, logs')
  <2>1. CASE logs' = logs
    BY <1>1, <2>1, SameLogs DEF TypeOK
  <2>2. CASE run[r].pc = "handler" /\ logs' = [logs EXCEPT ![t][k] = "failed"]
    <3>1. t \in Types /\ k \in 1 .. Len(logs[t]) /\ "failed" \in Statuses
      BY <1>1, <2>2 DEF Sound, Statuses
    <3> QED
      BY <1>1, <2>2, <3>1, Marked
  <2> QED
    BY <1>2, <2>1, <2>2
<1>4. CASE run[r].id = None
  BY <1>2, <1>3, <1>4, BatchEnds
<1>5. CASE run[r].id # None
  <2> DEFINE s == [run[r] EXCEPT !.pc = "failing", !.failed = TRUE]
  <2>1. Become(r, s)
    BY <1>2, <1>5
  <2>2. s \in RunState /\ s.id = run[r].id /\ Inside(s) /\ Inside(run[r])
    BY <1>1, <1>2 DEF RunState, Inside
  <2>3. s.id \in Ids /\ s.pc = "failing" /\ s.failed /\ s.type = t /\ s.log = k
    BY <1>1, <1>5 DEF RunState
  <2>4. Sound(run[r], logs')
    BY <1>1, <1>3, SoundContinues
  <2>5. Sound(s, logs')
    BY <1>2, <2>3, <2>4 DEF Sound
  <2> HIDE DEF s
  <2> QED
    BY <1>1, <1>2, <1>3, <2>1, <2>2, <2>5, QuietStep DEF TypeOK, history
<1> QED
  BY <1>4, <1>5

LEMMA ReportedIs ==
  ASSUME TypeOK, NEW r \in Runners, Sound(run[r], logs)
  PROVE  /\ Reported(r) \in RunState
         /\ run[r].pc \notin {"idle", "started", "handler"} => Sound(Reported(r), logs)
         /\ run[r].failed => Reported(r).id = run[r].id /\ Inside(Reported(r))
         /\ ~run[r].failed => Reported(r) = IdleRun /\ ~Inside(Reported(r))
<1>1. run[r] \in RunState
  BY DEF TypeOK
<1>2. CASE run[r].failed
  BY <1>1, <1>2 DEF Reported, RunState, Sound, Inside
<1>3. CASE ~run[r].failed
  BY <1>3, IdleRunTyped DEF Reported, Inside, IdleRun
<1> QED
  BY <1>2, <1>3

LEMMA ReadResultKeeps ==
  ASSUME RunPart, NEW r \in Runners, ReadResult(r)
  PROVE  RunPart'
<1> DEFINE t == run[r].type
           failed == run[r].pc = "failing"
           status == IF failed THEN "failed" ELSE LatestStatus(t)
           own == failed \/ (run[r].log # 0 /\ run[r].log = Len(logs[t]))
           s == [run[r] EXCEPT !.pc = "writing", !.status = status, !.own = own]
<1>1. TypeOK /\ run[r] \in RunState /\ Sound(run[r], logs)
  BY DEF RunPart, RunInv, TypeOK
<1>2. /\ run[r].pc \in {"failing", "reporting"}
      /\ Become(r, IF rows[run[r].id] = None THEN Reported(r) ELSE s)
      /\ UNCHANGED <<rows, logs, running, jobs, request, count, history>>
  BY DEF ReadResult
<1>3. /\ t \in Types
      /\ failed => run[r].failed
      /\ ~failed => ~run[r].failed
      /\ logs[t] \in Seq(Statuses) /\ Len(logs[t]) \in Nat
  <2>1. t \in Types /\ (failed => run[r].failed) /\ (~failed => ~run[r].failed)
    BY <1>1, <1>2 DEF Sound
  <2>2. logs[t] \in Seq(Statuses)
    BY <1>1, <2>1 DEF TypeOK
  <2> QED
    BY <2>1, <2>2, LenProperties
<1>4. LatestStatus(t) \in Statuses
  <2>1. CASE logs[t] = <<>>
    BY <2>1 DEF LatestStatus, Statuses
  <2>2. CASE logs[t] # <<>>
    <3>1. Len(logs[t]) \in 1 .. Len(logs[t])
      BY <1>3, <2>2, EmptySeq
    <3>2. logs[t][Len(logs[t])] \in Statuses
      BY <1>3, <3>1, ElementOfSeq
    <3> QED
      BY <2>2, <3>2 DEF LatestStatus
  <2> QED
    BY <2>1, <2>2
<1>5. own /\ ~failed => LatestStatus(t) # "running"
  <2> SUFFICES ASSUME own, ~failed PROVE LatestStatus(t) # "running"
    OBVIOUS
  <2>1. run[r].log # 0 /\ run[r].log = Len(logs[t])
    OBVIOUS
  <2>2. logs[t][run[r].log] # "running"
    BY <1>1, <1>2, <1>3, <2>1 DEF Sound
  <2>3. CASE logs[t] = <<>>
    BY <2>3 DEF LatestStatus
  <2>4. CASE logs[t] # <<>>
    BY <2>1, <2>2, <2>4 DEF LatestStatus
  <2> QED
    BY <2>3, <2>4
<1>6. status \in Statuses /\ (own => status # "running") /\ own \in BOOLEAN
  BY <1>4, <1>5 DEF Statuses
<1>7. CASE rows[run[r].id] = None
  <2>1. Become(r, Reported(r)) /\ run[r].pc \notin {"idle", "started", "handler"}
    BY <1>2, <1>7
  <2>2. Reported(r) \in RunState /\ Sound(Reported(r), logs)
    BY <1>1, <2>1, ReportedIs
  <2>3. \A i \in Ids : Reported(r).id = i /\ Inside(Reported(r))
                      <=> run[r].id = i /\ Inside(run[r])
    <3>1. CASE failed
      <4>1. Reported(r).id = run[r].id /\ Inside(Reported(r)) /\ Inside(run[r])
        BY <1>1, <1>3, <3>1, ReportedIs DEF Inside
      <4> QED
        BY <4>1
    <3>2. CASE ~failed
      <4>1. ~Inside(Reported(r)) /\ ~Inside(run[r])
        BY <1>1, <1>2, <1>3, <3>2, ReportedIs DEF Inside
      <4> QED
        BY <4>1
    <3> QED
      BY <3>1, <3>2
  <2> QED
    BY <1>1, <1>2, <2>1, <2>2, <2>3, SameLogs, QuietStep DEF TypeOK, history
<1>8. CASE rows[run[r].id] # None
  <2>1. Become(r, s)
    BY <1>2, <1>8
  <2> HIDE DEF status, own
  <2>2. /\ s \in RunState /\ s.pc = "writing" /\ s.status = status /\ s.own = own
        /\ s.id = run[r].id /\ s.type = t /\ s.log = run[r].log /\ s.failed = run[r].failed
    BY <1>1, <1>6 DEF RunState
  <2>3. Sound(s, logs)
    BY <1>1, <1>2, <1>6, <2>2 DEF Sound
  <2>4. Inside(s) <=> Inside(run[r])
    BY <1>2, <1>3, <2>2 DEF Inside
  <2> HIDE DEF s
  <2> QED
    BY <1>1, <1>2, <2>1, <2>2, <2>3, <2>4, SameLogs, QuietStep DEF TypeOK, history
<1> QED
  BY <1>7, <1>8

LEMMA WriteResultKeeps ==
  ASSUME RunPart, NEW r \in Runners, WriteResult(r)
  PROVE  RunPart'
<1> DEFINE i == run[r].id
<1>1. TypeOK /\ run[r] \in RunState /\ Sound(run[r], logs)
  BY DEF RunPart, RunInv, TypeOK
<1>2. /\ run[r].pc = "writing"
      /\ \/ /\ rows[i] # None
            /\ rows' = [rows EXCEPT ![i].last = run[r].status]
            /\ foreign' = IF run[r].own THEN foreign \ {i} ELSE foreign \cup {i}
         \/ UNCHANGED <<rows, foreign>>
      /\ Become(r, Reported(r))
      /\ UNCHANGED <<logs, running, jobs, request, count, shared, crossed>>
  BY DEF WriteResult
<1>3. i \in Ids /\ run[r].status \in Statuses
  BY <1>1, <1>2 DEF Sound
<1>4. Reported(r) \in RunState /\ Sound(Reported(r), logs)
  BY <1>1, <1>2, ReportedIs
<1>5. \A j \in Ids : Reported(r).id = j /\ Inside(Reported(r))
                    <=> run[r].id = j /\ Inside(run[r])
  <2>1. CASE run[r].failed
    <3>1. Reported(r).id = run[r].id /\ Inside(Reported(r)) /\ Inside(run[r])
      BY <1>1, <1>2, <2>1, ReportedIs DEF Inside
    <3> QED
      BY <3>1
  <2>2. CASE ~run[r].failed
    <3>1. ~Inside(Reported(r)) /\ ~Inside(run[r])
      BY <1>1, <1>2, <2>2, ReportedIs DEF Inside
    <3> QED
      BY <3>1
  <2> QED
    BY <2>1, <2>2
<1>6. rows' \in [Ids -> Row \cup {None}] /\ foreign' \subseteq Ids
  <2>1. rows \in [Ids -> Row \cup {None}] /\ foreign \subseteq Ids
    BY <1>1 DEF TypeOK
  <2>2. CASE UNCHANGED <<rows, foreign>>
    BY <2>1, <2>2
  <2>3. CASE /\ rows[i] # None
             /\ rows' = [rows EXCEPT ![i].last = run[r].status]
             /\ foreign' = IF run[r].own THEN foreign \ {i} ELSE foreign \cup {i}
    <3>1. foreign' \subseteq Ids
      BY <1>3, <2>1, <2>3
    <3>2. rows[i] \in Row
      BY <1>3, <2>1, <2>3
    <3>3. [rows[i] EXCEPT !.last = run[r].status] \in Row
      BY <1>3, <3>2 DEF Row
    <3>4. rows' = [rows EXCEPT ![i] = [rows[i] EXCEPT !.last = run[r].status]]
      BY <2>3
    <3> QED
      BY <2>1, <3>1, <3>3, <3>4
  <2> QED
    BY <1>2, <2>2, <2>3
<1>7. count' \in 0 .. MaxEvents /\ logs' \in [Types -> Seq(Statuses)] /\ logs' = logs
  BY <1>1, <1>2 DEF TypeOK
<1>8. Become(r, Reported(r)) /\ UNCHANGED <<running, jobs, request, shared, crossed>>
  BY <1>2
<1> QED
  BY <1>1, <1>4, <1>5, <1>6, <1>7, <1>8, SameLogs, QuietStep

LEMMA EnterKeeps ==
  ASSUME RunPart, NEW r \in Runners, Enter(r)
  PROVE  RunPart'
<1>1. TypeOK /\ run[r] \in RunState /\ Sound(run[r], logs) /\ RunPart
  BY DEF RunPart, RunInv, TypeOK
<1>0. PICK i \in Ids : i = run[r].id
  BY <1>1 DEF Enter, Sound
<1> DEFINE s == [run[r] EXCEPT !.pc = "entered", !.type = rows[i].type]
<1>2. /\ run[r].pc = "started"
      /\ IF rows[i] = None
         THEN Become(r, IdleRun) /\ UNCHANGED <<running, shared>>
         ELSE /\ running' = running \cup {i}
              /\ shared' = IF Executing(i) # {} THEN shared \cup {i} ELSE shared
              /\ Become(r, s)
      /\ UNCHANGED <<rows, logs, jobs, request, count, crossed, foreign>>
  BY <1>0 DEF Enter
<1>3. i \in Ids /\ run[r].log = 0 /\ ~run[r].failed /\ ~Inside(run[r])
  BY <1>0, <1>1, <1>2 DEF Sound, Inside
<1>4. CASE rows[i] = None
  <2>1. ~Inside(IdleRun)
    BY DEF Inside, IdleRun
  <2> QED
    BY <1>1, <1>2, <1>3, <1>4, <2>1, IdleRunTyped, SameLogs, QuietStep DEF TypeOK
<1>5. CASE rows[i] # None
  <2>1. /\ running' = running \cup {i}
        /\ shared' = IF Executing(i) # {} THEN shared \cup {i} ELSE shared
        /\ Become(r, s)
    BY <1>2, <1>5
  <2>2. rows[i].type \in Types
    BY <1>1, <1>3, <1>5 DEF TypeOK, Row
  <2>3. /\ s \in RunState /\ s.pc = "entered" /\ s.id = i /\ s.log = 0
        /\ s.type \in Types /\ ~s.failed
    BY <1>0, <1>1, <1>3, <2>2 DEF RunState
  <2>4. Sound(s, logs) /\ Inside(s)
    BY <1>3, <2>3 DEF Sound, Inside
  <2> HIDE DEF s
  <2>5. run' \in [Runners -> RunState]
    BY <1>1, <2>1, <2>3, Becomes
  <2>6. TypeOK'
    BY <1>1, <1>2, <1>3, <2>1, <2>5 DEF TypeOK
  <2>7. RunInv'
    <3>1. logs' = logs /\ logs' \in [Types -> Seq(Statuses)] /\ RunInv
      BY <1>1, <1>2 DEF TypeOK, RunPart
    <3> QED
      BY <1>1, <2>1, <2>3, <2>4, <3>1, SameLogs, OneSound
  <2>8. /\ Executing(i)' = Executing(i) \cup {r}
        /\ \A j \in Ids : j # i => Executing(j)' = Executing(j)
    <3>1. \A j \in Ids : r \in Executing(j)' <=> j = i
      BY <1>1, <2>1, <2>3, <2>4, ExecutingMoves
    <3>2. \A j \in Ids : r \notin Executing(j)
      BY <1>3 DEF Executing, Inside
    <3>3. \A j \in Ids : /\ \A u \in Runners : u # r => (u \in Executing(j)' <=> u \in Executing(j))
                         /\ Executing(j) \subseteq Runners /\ Executing(j)' \subseteq Runners
      BY <1>1, <2>1, ExecutingMoves
    <3> QED
      BY <1>3, <3>1, <3>2, <3>3
  <2>9. SharingInv'
    BY <1>1, <2>1, <2>8 DEF SharingInv, RunPart
  <2>10. IndicatorIsHonest'
    BY <1>1, <1>3, <2>1, <2>8 DEF IndicatorIsHonest, RunPart, TypeOK
  <2>11. ReadInv'
    BY <1>1, <1>2 DEF ReadInv, Knows, RunPart
  <2> QED
    BY <2>6, <2>7, <2>9, <2>10, <2>11 DEF RunPart
<1> QED
  BY <1>4, <1>5

LEMMA LeaveKeeps ==
  ASSUME RunPart, NEW r \in Runners, Leave(r)
  PROVE  RunPart'
<1>0. PICK i \in Ids : i = run[r].id
  BY DEF RunPart, RunInv, Leave, Sound
<1> DEFINE s == IF run[r].failed THEN IdleRun ELSE [run[r] EXCEPT !.pc = "reporting"]
<1>1. TypeOK /\ run[r] \in RunState /\ Sound(run[r], logs) /\ RunPart
  BY DEF RunPart, RunInv, TypeOK
<1>2. /\ run[r].pc = "leaving"
      /\ running' = running \ {i}
      /\ shared' = IF Executing(i) = {r} THEN shared \ {i} ELSE shared
      /\ Become(r, s)
      /\ UNCHANGED <<rows, logs, jobs, request, count, crossed, foreign>>
  BY <1>0 DEF Leave, Advance
<1>3. i \in Ids /\ Inside(run[r])
  BY <1>1, <1>2 DEF Sound, Inside
<1>4. s \in RunState /\ Sound(s, logs) /\ ~Inside(s)
  <2>1. CASE run[r].failed
    BY <2>1, IdleRunTyped DEF Inside, IdleRun
  <2>2. CASE ~run[r].failed
    BY <1>1, <1>2, <2>2 DEF RunState, Sound, Inside
  <2> QED
    BY <2>1, <2>2
<1> HIDE DEF s
<1>5. run' \in [Runners -> RunState]
  BY <1>1, <1>2, <1>4, Becomes
<1>6. TypeOK'
  BY <1>1, <1>2, <1>5 DEF TypeOK
<1>7. RunInv'
  <2>1. logs' = logs /\ logs' \in [Types -> Seq(Statuses)] /\ RunInv
    BY <1>1, <1>2 DEF TypeOK, RunPart
  <2> QED
    BY <1>1, <1>2, <1>4, <2>1, SameLogs, OneSound
<1>8. /\ r \in Executing(i)
      /\ Executing(i)' = Executing(i) \ {r}
      /\ \A j \in Ids : j # i => Executing(j)' = Executing(j)
  <2>1. \A j \in Ids : r \notin Executing(j)'
    BY <1>1, <1>2, <1>4, ExecutingMoves
  <2>2. \A j \in Ids : r \in Executing(j) <=> j = i
    BY <1>0, <1>3 DEF Executing, Inside
  <2>3. \A j \in Ids : /\ \A u \in Runners : u # r => (u \in Executing(j)' <=> u \in Executing(j))
                       /\ Executing(j) \subseteq Runners /\ Executing(j)' \subseteq Runners
    BY <1>1, <1>2, ExecutingMoves
  <2> QED
    BY <1>3, <2>1, <2>2, <2>3
<1>9. SharingInv /\ IndicatorIsHonest
  BY DEF RunPart
<1>10. SharingInv'
  <2>1. \A j \in Ids : j # i => \A u, v \in Executing(j)' : u = v \/ j \in shared'
    BY <1>2, <1>8, <1>9 DEF SharingInv
  <2>2. \A u, v \in Executing(i)' : u = v \/ i \in shared'
    BY <1>2, <1>3, <1>8, <1>9 DEF SharingInv
  <2> QED
    BY <2>1, <2>2 DEF SharingInv
<1>11. IndicatorIsHonest'
  <2>1. \A j \in running' : j # i /\ Executing(j)' # {}
    BY <1>1, <1>2, <1>8, <1>9 DEF IndicatorIsHonest, TypeOK
  <2>2. \A j \in Ids : j # i /\ j \notin shared' /\ Executing(j)' # {} => j \in running'
    BY <1>2, <1>8, <1>9 DEF IndicatorIsHonest
  <2>3. i \notin shared' => Executing(i)' = {}
    BY <1>2, <1>3, <1>8, <1>9 DEF SharingInv
  <2> QED
    BY <2>1, <2>2, <2>3 DEF IndicatorIsHonest
<1>12. ReadInv'
  BY <1>1, <1>2 DEF ReadInv, Knows, RunPart
<1> QED
  BY <1>6, <1>7, <1>10, <1>11, <1>12 DEF RunPart

LEMMA StepKeeps ==
  ASSUME RunPart, NEW r \in Runners, Step(r)
  PROVE  RunPart'
BY EnterKeeps, SkipKeeps, BeginKeeps, FinishKeeps, RaiseKeeps, LeaveKeeps,
   ReadResultKeeps, WriteResultKeeps DEF Step

-----------------------------------------------------------------------------
(* Types of what a request does                                             *)

LEMMA RequestKeeps ==
  ASSUME RunPart, NEW q \in Requesters, NEW s \in RequestState, Answer(q, s), Knows(s),
         rows' \in [Ids -> Row \cup {None}],
         jobs' \in [JobIds -> GoodCrons \cup {"interval", None}],
         count' \in 0 .. MaxEvents, crossed' \in BOOLEAN, foreign' \subseteq Ids,
         UNCHANGED <<run, logs, running, shared>>
  PROVE  RunPart'
<1>1. TypeOK /\ RunInv /\ SharingInv /\ ReadInv /\ IndicatorIsHonest
  BY DEF RunPart
<1>2. request' \in [Requesters -> RequestState]
  BY <1>1, Answers
<1>3. TypeOK'
  BY <1>1, <1>2 DEF TypeOK
<1>4. RunInv'
  BY <1>1 DEF RunInv, Sound
<1>5. SharingInv' /\ IndicatorIsHonest'
  BY <1>1, SameIndicator
<1>6. ReadInv'
  <2>1. /\ request'[q] = s
        /\ \A p \in Requesters : p # q => request'[p] = request[p]
    BY <1>1, Answers
  <2> QED
    BY <1>1, <2>1 DEF ReadInv, Knows
<1> QED
  BY <1>3, <1>4, <1>5, <1>6 DEF RunPart

LEMMA RowTyped ==
  ASSUME TypeOK, NEW i \in Ids, rows[i] # None
  PROVE  rows[i] \in Row
BY DEF TypeOK

\* What may be left to do in a reload.
Todo == SUBSET (JobIds \X (Crons \cup {"interval", None}))

LEMMA TodoTyped ==
  ASSUME TypeOK
  PROVE  /\ \A S \in SUBSET JobIds : {<<i, jobs[i]>> : i \in S} \in Todo
         /\ Enabled \in Todo
         /\ \A q \in Requesters : request[q] \in RequestState /\ request[q].todo \in Todo
<1>1. \A i \in JobIds : jobs[i] \in Crons \cup {"interval", None}
  BY CronsAssumption DEF TypeOK
<1>2. \A i \in Stored : rows[i].cron \in Crons /\ i \in JobIds
  BY DEF TypeOK, Stored, StoredIn, Row, JobIds
<1>3. Enabled \in Todo
  BY <1>2 DEF Enabled, Todo
<1>4. \A q \in Requesters : request[q] \in RequestState /\ request[q].todo \in Todo
  BY DEF TypeOK, RequestState, Todo
<1> QED
  BY <1>1, <1>3, <1>4 DEF Todo

LEMMA StartsTyped ==
  ASSUME TypeOK, NEW q \in Requesters, Starts(q)
  PROVE  /\ count' \in 0 .. MaxEvents /\ crossed' \in BOOLEAN
         /\ ~crossed' => ~crossed /\ \A p \in Requesters : request[p].pc = "idle"
<1>1. count' \in 0 .. MaxEvents
  BY Counts DEF Starts
<1> QED
  BY <1>1 DEF Starts, TypeOK

-----------------------------------------------------------------------------
(* Jobs and rows                                                            *)

\* Rows that differ at most in what their last run left.
SameSchedules ==
  \A i \in Ids : /\ rows'[i] = None <=> rows[i] = None
                 /\ rows[i] # None => /\ rows'[i].cron = rows[i].cron
                                      /\ rows'[i].enabled = rows[i].enabled
                                      /\ rows'[i].planned = rows[i].planned

LEMMA WantedOf ==
  ASSUME NEW table
  PROVE  /\ Wanted(table)[DhcpJob] = "interval"
         /\ \A i \in Ids : Wanted(table)[i] =
              IF table[i] # None /\ table[i].enabled /\ table[i].cron \in GoodCrons
              THEN table[i].cron ELSE None
         /\ DOMAIN Wanted(table) = JobIds
BY DEF Wanted, JobIds, DhcpJob, Ids

LEMMA WantedTyped ==
  ASSUME NEW table
  PROVE  Wanted(table) \in [JobIds -> GoodCrons \cup {"interval", None}]
BY DEF Wanted

\* Only expressions and switches decide about the jobs.
LEMMA SameWanted ==
  ASSUME NEW table, NEW after,
         \A i \in Ids : /\ after[i] = None <=> table[i] = None
                        /\ table[i] # None => /\ after[i].cron = table[i].cron
                                              /\ after[i].enabled = table[i].enabled
  PROVE  Wanted(after) = Wanted(table)
<1>1. \A i \in JobIds : Wanted(after)[i] = Wanted(table)[i]
  <2>1. Wanted(after)[DhcpJob] = Wanted(table)[DhcpJob]
    BY WantedOf
  <2>2. ASSUME NEW i \in Ids PROVE Wanted(after)[i] = Wanted(table)[i]
    <3>1. /\ Wanted(after)[i] =
              IF after[i] # None /\ after[i].enabled /\ after[i].cron \in GoodCrons
              THEN after[i].cron ELSE None
          /\ Wanted(table)[i] =
              IF table[i] # None /\ table[i].enabled /\ table[i].cron \in GoodCrons
              THEN table[i].cron ELSE None
      BY WantedOf
    <3> QED
      BY <3>1
  <2> QED
    BY <2>1, <2>2 DEF JobIds
<1> QED
  BY <1>1, WantedTyped

LEMMA JobsKept ==
  ASSUME TypeOK, JobInv, SameSchedules, UNCHANGED <<jobs, request, crossed>>
  PROVE  JobInv'
<1>1. Wanted(rows') = Wanted(rows)
  BY SameWanted DEF SameSchedules
<1>2. Stored' = Stored
  BY DEF Stored, StoredIn, SameSchedules
<1>3. Enabled' = Enabled
  <2>1. \A i \in Stored : rows'[i].cron = rows[i].cron /\ rows'[i].enabled = rows[i].enabled
    BY DEF SameSchedules, Stored, StoredIn
  <2> QED
    BY <1>2, <2>1 DEF Enabled
<1>4. Agrees' <=> Agrees
  <2>1. \A i \in Stored : rows'[i].planned = rows[i].planned
    BY DEF SameSchedules, Stored, StoredIn
  <2> QED
    BY <1>1, <1>2, <2>1 DEF Agrees
<1>5. \A q \in Requesters : Reloading(q)' <=> Reloading(q)
  BY <1>1, <1>2, <1>3, <1>4 DEF Reloading
<1> QED
  BY <1>4, <1>5 DEF JobInv

LEMMA Alone ==
  ASSUME JobInv, ~crossed, NEW q \in Requesters, request[q].pc # "idle"
  PROVE  Reloading(q) /\ \A p \in Requesters : p # q => request[p].pc = "idle"
BY DEF JobInv

\* The one request goes on.
LEMMA OneRequest ==
  ASSUME TypeOK, NEW q \in Requesters, NEW s, Answer(q, s),
         ~crossed' => /\ \A p \in Requesters : p # q => request[p].pc = "idle"
                      /\ s.pc = "idle" => Agrees'
                      /\ Reloading(q)'
  PROVE  JobInv'
<1>1. /\ request'[q] = s
      /\ \A p \in Requesters : p # q => request'[p] = request[p]
  BY Answers
<1>2. ASSUME ~crossed', NEW p \in Requesters PROVE Reloading(p)'
  <2>1. CASE p = q
    BY <1>2, <2>1
  <2>2. CASE p # q
    <3>1. request'[p].pc = "idle"
      BY <1>1, <1>2, <2>2
    <3> QED
      BY <3>1 DEF Reloading
  <2> QED
    BY <2>1, <2>2
<1> QED
  BY <1>1, <1>2 DEF JobInv

-----------------------------------------------------------------------------
(* Statuses                                                                 *)

LEMMA StatusKept ==
  ASSUME RunningStatusIsForeign,
         \A i \in Ids : rows'[i] # None =>
           \/ rows'[i].last # "running"
           \/ i \in foreign'
           \/ rows[i] # None /\ rows'[i].last = rows[i].last /\ (i \in foreign => i \in foreign')
  PROVE  RunningStatusIsForeign'
BY DEF RunningStatusIsForeign, Stored, StoredIn

-----------------------------------------------------------------------------
(* Every step keeps the invariant                                           *)

LEMMA Parts == IInv <=> RunPart /\ RunningStatusIsForeign /\ JobInv
BY DEF IInv, RunPart

LEMMA RunnerInv ==
  ASSUME IInv, NEW r \in Runners,
         \/ Step(r)
         \/ \E i \in Ids : CronFires(r, i) \/ RunNow(r, i)
         \/ \E t \in Types : RunBatch(r, t)
  PROVE  IInv'
<1>1. RunPart /\ RunningStatusIsForeign /\ JobInv /\ TypeOK
  BY Parts DEF RunPart
<1>2. RunPart'
  BY <1>1, StepKeeps, CronFiresKeeps, RunNowKeeps, RunBatchKeeps
<1>3. CASE WriteResult(r)
  <2>1. PICK i \in Ids : i = run[r].id
    BY <1>1, <1>3 DEF RunPart, RunInv, WriteResult, Sound
  <2>2. /\ \/ /\ rows[i] # None
              /\ rows' = [rows EXCEPT ![i].last = run[r].status]
              /\ foreign' = IF run[r].own THEN foreign \ {i} ELSE foreign \cup {i}
           \/ UNCHANGED <<rows, foreign>>
        /\ UNCHANGED <<jobs, request, crossed>>
        /\ run[r].own => run[r].status # "running"
    BY <1>1, <1>3, <2>1 DEF WriteResult, RunPart, RunInv, Sound
  <2>3. \/ /\ rows[i] # None
           /\ rows'[i] = [rows[i] EXCEPT !.last = run[r].status] /\ rows'[i] \in Row
           /\ \A j \in Ids : j # i => rows'[j] = rows[j]
           /\ foreign' = IF run[r].own THEN foreign \ {i} ELSE foreign \cup {i}
        \/ UNCHANGED <<rows, foreign>>
    <3>1. CASE UNCHANGED <<rows, foreign>>
      BY <3>1
    <3>2. CASE /\ rows[i] # None
               /\ rows' = [rows EXCEPT ![i].last = run[r].status]
               /\ foreign' = IF run[r].own THEN foreign \ {i} ELSE foreign \cup {i}
      <4>1. rows' = [rows EXCEPT ![i] = [rows[i] EXCEPT !.last = run[r].status]]
        BY <3>2
      <4>2. rows \in [Ids -> Row \cup {None}] /\ rows' \in [Ids -> Row \cup {None}]
        BY <1>1, <1>2 DEF TypeOK, RunPart
      <4>3. [rows[i] EXCEPT !.last = run[r].status] \in Row
        <5>1. rows[i] \in Row /\ run[r].status \in Statuses
          BY <1>1, <1>3, <3>2, RowTyped DEF RunPart, RunInv, Sound, WriteResult
        <5> QED
          BY <5>1 DEF Row
      <4> QED
        BY <3>2, <4>1, <4>2, <4>3
    <3> QED
      BY <2>2, <3>1, <3>2
  <2>4. CASE UNCHANGED <<rows, foreign>>
    <3>1. SameSchedules
      BY <2>4 DEF SameSchedules
    <3>2. RunningStatusIsForeign'
      BY <1>1, <2>4 DEF RunningStatusIsForeign, Stored, StoredIn
    <3> QED
      BY <1>1, <1>2, <2>2, <3>1, <3>2, JobsKept DEF IInv, RunPart
  <2>5. CASE /\ rows[i] # None
             /\ rows'[i] = [rows[i] EXCEPT !.last = run[r].status] /\ rows'[i] \in Row
             /\ \A j \in Ids : j # i => rows'[j] = rows[j]
             /\ foreign' = IF run[r].own THEN foreign \ {i} ELSE foreign \cup {i}
    <3>1. rows[i] \in Row
      BY <1>1, <2>5, RowTyped
    <3>2. /\ rows'[i] # None
          /\ rows'[i].cron = rows[i].cron
          /\ rows'[i].enabled = rows[i].enabled
          /\ rows'[i].planned = rows[i].planned
          /\ rows'[i].last = run[r].status
      BY <2>5, <3>1, NoneAssumption DEF Row
    <3>3. SameSchedules
      BY <2>5, <3>2 DEF SameSchedules
    <3>4. RunningStatusIsForeign'
      <4>1. ASSUME NEW j \in Ids, rows'[j] # None
            PROVE  \/ rows'[j].last # "running"
                   \/ j \in foreign'
                   \/ rows[j] # None /\ rows'[j].last = rows[j].last /\ (j \in foreign => j \in foreign')
        BY <2>2, <2>5, <3>2, <4>1
      <4> QED
        BY <1>1, <4>1, StatusKept
    <3> QED
      BY <1>1, <1>2, <2>2, <3>3, <3>4, JobsKept DEF IInv, RunPart
  <2> QED
    BY <2>3, <2>4, <2>5
<1>4. CASE ~WriteResult(r)
  <2>1. UNCHANGED <<rows, jobs, request, crossed, foreign>>
    BY <1>4 DEF Step, Enter, Skip, Begin, Finish, Raise, Leave, ReadResult,
                CronFires, RunNow, RunBatch, history
  <2>2. SameSchedules
    BY <2>1 DEF SameSchedules
  <2>3. RunningStatusIsForeign'
    BY <1>1, <2>1 DEF RunningStatusIsForeign, Stored, StoredIn
  <2>4. JobInv'
    BY <1>1, <2>1, <2>2, JobsKept
  <2> QED
    BY <1>2, <2>3, <2>4 DEF IInv, RunPart
<1> QED
  BY <1>3, <1>4

\* A step of a request that leaves the rows alone.
LEMMA ReloadStep ==
  ASSUME IInv, NEW q \in Requesters, NEW s \in RequestState, Answer(q, s), s.pc # "read",
         jobs' \in [JobIds -> GoodCrons \cup {"interval", None}],
         UNCHANGED <<rows, logs, running, run, count, history>>,
         request[q].pc # "idle",
         ~crossed /\ Reloading(q) => (s.pc = "idle" => Agrees') /\ Reloading(q)'
  PROVE  IInv'
<1>1. RunPart /\ RunningStatusIsForeign /\ JobInv /\ TypeOK
  BY Parts DEF RunPart
<1>2. RunPart'
  BY <1>1, RequestKeeps DEF TypeOK, history, Knows
<1>3. RunningStatusIsForeign'
  BY <1>1 DEF RunningStatusIsForeign, Stored, StoredIn, history
<1>4. JobInv'
  <2>1. ASSUME ~crossed'
        PROVE  /\ \A p \in Requesters : p # q => request[p].pc = "idle"
               /\ s.pc = "idle" => Agrees'
               /\ Reloading(q)'
    <3>1. ~crossed
      BY <2>1 DEF history
    <3> QED
      BY <1>1, <3>1, Alone
  <2> QED
    BY <1>1, <2>1, OneRequest
<1> QED
  BY <1>2, <1>3, <1>4 DEF IInv, RunPart

LEMMA ListJobsInv ==
  ASSUME IInv, NEW q \in Requesters, ListJobs(q)
  PROVE  IInv'
<1> DEFINE found == {<<i, jobs[i]>> : i \in {j \in JobIds : jobs[j] # None}}
           pc == IF found = {} THEN "query" ELSE "remove"
           s == [request[q] EXCEPT !.pc = pc, !.todo = found]
<1>1. TypeOK
  BY DEF IInv
<1>2. /\ request[q].pc = "reload"
      /\ Answer(q, s)
      /\ UNCHANGED <<rows, logs, running, jobs, run, count, history>>
  BY DEF ListJobs
<1>3. found \in Todo /\ request[q] \in RequestState
  BY <1>1, TodoTyped
<1>4. \A i \in JobIds : jobs[i] # None => <<i, jobs[i]>> \in found
  OBVIOUS
<1>5. \A job \in found : jobs[job[1]] # None
  OBVIOUS
<1>6. pc \in {"query", "remove"} /\ (pc = "query" => found = {})
  OBVIOUS
<1> HIDE DEF found, pc
<1>7. s \in RequestState /\ s.pc = pc /\ s.todo = found
  <2>1. pc \in {"query", "remove", "add", "sync"}
    BY <1>6
  <2> QED
    BY <1>3, <2>1 DEF RequestState, Todo
<1> HIDE DEF s
<1>8. request'[q] = s
  BY <1>1, <1>2, Answers
<1>9. Reloading(q)'
  <2>1. \A i \in JobIds : jobs[i] # None => \E job \in found : job[1] = i
    <3> SUFFICES ASSUME NEW i \in JobIds, jobs[i] # None PROVE \E job \in found : job[1] = i
      OBVIOUS
    <3>1. <<i, jobs[i]>> \in found /\ <<i, jobs[i]>>[1] = i
      BY <1>4
    <3> QED
      BY <3>1
  <2>2. pc = "query" => \A i \in JobIds : jobs[i] = None
    BY <1>4, <1>6
  <2>3. jobs' = jobs
    BY <1>2
  <2> QED
    BY <1>5, <1>6, <1>7, <1>8, <2>1, <2>2, <2>3 DEF Reloading
<1>10. jobs' \in [JobIds -> GoodCrons \cup {"interval", None}]
  BY <1>1, <1>2 DEF TypeOK
<1> QED
  BY <1>2, <1>6, <1>7, <1>9, <1>10, ReloadStep

LEMMA RemoveJobInv ==
  ASSUME IInv, NEW q \in Requesters, NEW i \in JobIds, RemoveJob(q, i)
  PROVE  IInv'
<1> DEFINE todo == request[q].todo
           rest == {job \in todo : job[1] # i}
           pc == IF rest = {} THEN "query" ELSE request[q].pc
           s == IF jobs[i] = None THEN IdleRequest
                ELSE [request[q] EXCEPT !.pc = pc, !.todo = rest]
<1>1. TypeOK
  BY DEF IInv
<1>2. /\ request[q].pc = "remove"
      /\ rest # todo
      /\ jobs' = [jobs EXCEPT ![i] = None]
      /\ Answer(q, s)
      /\ UNCHANGED <<rows, logs, running, run, count, history>>
  BY DEF RemoveJob
<1>3. todo \in Todo /\ rest \in Todo /\ request[q] \in RequestState
  <2>1. todo \in Todo /\ request[q] \in RequestState
    BY <1>1, TodoTyped
  <2> QED
    BY <2>1 DEF Todo
<1>4. PICK job \in todo : job[1] = i
  BY <1>2
<1>5. pc \in {"query", "remove"} /\ (pc = "query" => rest = {})
  BY <1>2
<1>6. jobs \in [JobIds -> GoodCrons \cup {"interval", None}]
  BY <1>1 DEF TypeOK
<1>7. /\ jobs' \in [JobIds -> GoodCrons \cup {"interval", None}]
      /\ jobs'[i] = None
      /\ \A j \in JobIds : j # i => jobs'[j] = jobs[j]
  BY <1>2, <1>6
<1>8. CASE jobs[i] = None
  <2>1. ~Reloading(q)
    BY <1>2, <1>4, <1>8 DEF Reloading
  <2>2. s = IdleRequest /\ s \in RequestState /\ s.pc # "read"
    BY <1>8, IdleRequestTyped
  <2> HIDE DEF s
  <2> QED
    BY <1>2, <1>7, <2>1, <2>2, ReloadStep
<1>9. CASE jobs[i] # None
  <2> DEFINE t == [request[q] EXCEPT !.pc = pc, !.todo = rest]
  <2>1. Answer(q, t)
    BY <1>2, <1>9
  <2>2. \A j \in todo : j[1] # i => j \in rest
    OBVIOUS
  <2>3. rest \subseteq todo /\ \A j \in rest : j[1] # i
    OBVIOUS
  <2> HIDE DEF rest, pc
  <2>4. t \in RequestState /\ t.pc = pc /\ t.todo = rest
    <3>1. pc \in {"query", "remove", "add", "sync"}
      BY <1>5
    <3> QED
      BY <1>3, <3>1 DEF RequestState, Todo
  <2> HIDE DEF t
  <2>5. request'[q] = t
    BY <1>1, <2>1, Answers
  <2>6. ASSUME Reloading(q) PROVE Reloading(q)'
    <3>1. /\ \A j \in JobIds : jobs[j] # None => \E k \in todo : k[1] = j
          /\ \A j \in todo : jobs[j[1]] # None /\ j[1] \in JobIds
      BY <1>2, <1>3, <2>6 DEF Reloading, Todo
    <3>2. \A j \in JobIds : jobs'[j] # None => \E k \in rest : k[1] = j
      BY <1>7, <2>2, <3>1
    <3>3. \A j \in rest : jobs'[j[1]] # None
      BY <1>7, <2>3, <3>1
    <3>4. pc = "query" => \A j \in JobIds : jobs'[j] = None
      BY <1>5, <3>2
    <3> QED
      BY <1>5, <2>4, <2>5, <3>2, <3>3, <3>4 DEF Reloading
  <2>7. t.pc # "idle" /\ t.pc # "read"
    BY <1>5, <2>4
  <2> QED
    BY <1>2, <1>7, <2>1, <2>4, <2>6, <2>7, ReloadStep
<1> QED
  BY <1>8, <1>9

LEMMA QueryRowsInv ==
  ASSUME IInv, NEW q \in Requesters, QueryRows(q)
  PROVE  IInv'
<1> DEFINE s == [request[q] EXCEPT !.pc = "add", !.todo = Enabled]
<1>1. TypeOK
  BY DEF IInv
<1>2. /\ request[q].pc = "query"
      /\ Answer(q, s)
      /\ UNCHANGED <<rows, logs, running, jobs, run, count, history>>
  BY DEF QueryRows
<1>3. s \in RequestState /\ s.pc = "add" /\ s.todo = Enabled
  <2>1. Enabled \in Todo /\ request[q] \in RequestState
    BY <1>1, TodoTyped
  <2> QED
    BY <2>1 DEF RequestState, Todo
<1> HIDE DEF s
<1>4. request'[q] = s
  BY <1>1, <1>2, Answers
<1>5. jobs' \in [JobIds -> GoodCrons \cup {"interval", None}]
  BY <1>1, <1>2 DEF TypeOK
<1>6. ASSUME Reloading(q) PROVE Reloading(q)'
  <2>1. \A i \in Ids : jobs[i] = None
    BY <1>2, <1>6 DEF Reloading, JobIds
  <2>2. ASSUME NEW i \in Ids, ~\E job \in Enabled : job[1] = i
        PROVE  jobs[i] = Wanted(rows)[i]
    <3>1. ~(rows[i] # None /\ rows[i].enabled)
      <4> SUFFICES ASSUME rows[i] # None, rows[i].enabled PROVE FALSE
        OBVIOUS
      <4>1. <<i, rows[i].cron>> \in Enabled /\ <<i, rows[i].cron>>[1] = i
        BY DEF Enabled, Stored, StoredIn
      <4> QED
        BY <2>2, <4>1
    <3>2. Wanted(rows)[i] = IF rows[i] # None /\ rows[i].enabled /\ rows[i].cron \in GoodCrons
                            THEN rows[i].cron ELSE None
      BY WantedOf
    <3> QED
      BY <2>1, <3>1, <3>2
  <2>3. jobs' = jobs /\ rows' = rows /\ Enabled' = Enabled
    BY <1>2 DEF Enabled, Stored, StoredIn
  <2> QED
    BY <1>3, <1>4, <2>1, <2>2, <2>3 DEF Reloading
<1> QED
  BY <1>2, <1>3, <1>5, <1>6, ReloadStep

LEMMA AddJobInv ==
  ASSUME IInv, NEW q \in Requesters, NEW i \in Ids, NEW c \in Crons, AddJob(q, i, c)
  PROVE  IInv'
<1> DEFINE todo == request[q].todo
           rest == todo \ {<<i, c>>}
           s == [request[q] EXCEPT !.todo = rest]
<1>1. TypeOK
  BY DEF IInv
<1>2. /\ request[q].pc = "add"
      /\ <<i, c>> \in todo
      /\ jobs' = IF c \in GoodCrons THEN [jobs EXCEPT ![i] = c] ELSE jobs
      /\ Answer(q, s)
      /\ UNCHANGED <<rows, logs, running, run, count, history>>
  BY DEF AddJob
<1>3. s \in RequestState /\ s.pc = "add" /\ s.todo = rest
  <2>1. todo \in Todo /\ request[q] \in RequestState
    BY <1>1, TodoTyped
  <2>2. rest \in Todo
    BY <2>1 DEF Todo
  <2> HIDE DEF rest
  <2> QED
    BY <1>2, <2>1, <2>2 DEF RequestState, Todo
<1>4. jobs \in [JobIds -> GoodCrons \cup {"interval", None}] /\ i \in JobIds
  BY <1>1 DEF TypeOK, JobIds
<1>5. /\ jobs' \in [JobIds -> GoodCrons \cup {"interval", None}]
      /\ jobs'[i] = IF c \in GoodCrons THEN c ELSE jobs[i]
      /\ \A j \in Ids : j # i => jobs'[j] = jobs[j]
  BY <1>2, <1>4 DEF JobIds
<1> HIDE DEF s
<1>6. request'[q] = s
  BY <1>1, <1>2, Answers
<1>7. ASSUME Reloading(q) PROVE Reloading(q)'
  <2>1. /\ todo \subseteq Enabled
        /\ \A j \in Ids : IF \E job \in todo : job[1] = j
                           THEN jobs[j] = None
                           ELSE jobs[j] = Wanted(rows)[j]
    BY <1>2, <1>7 DEF Reloading
  <2>2. \A job \in todo : job[1] = i => job = <<i, c>>
    BY <1>2, <2>1 DEF Enabled
  <2>3. rest \subseteq Enabled /\ ~\E job \in rest : job[1] = i
    BY <2>1, <2>2
  <2>4. jobs'[i] = Wanted(rows)[i]
    <3>1. rows[i] # None /\ rows[i].enabled /\ rows[i].cron = c
      BY <1>2, <2>1 DEF Enabled, Stored, StoredIn
    <3>2. Wanted(rows)[i] = IF rows[i] # None /\ rows[i].enabled /\ rows[i].cron \in GoodCrons
                            THEN rows[i].cron ELSE None
      BY WantedOf
    <3>3. <<i, c>>[1] = i
      OBVIOUS
    <3>4. jobs[i] = None
      BY <1>2, <2>1, <3>3
    <3> QED
      BY <1>5, <3>1, <3>2, <3>4
  <2>5. ASSUME NEW j \in Ids, j # i
        PROVE  IF \E job \in rest : job[1] = j
               THEN jobs'[j] = None
               ELSE jobs'[j] = Wanted(rows)[j]
    <3>1. (\E job \in rest : job[1] = j) <=> \E job \in todo : job[1] = j
      BY <2>5
    <3> QED
      BY <1>5, <2>1, <2>5, <3>1
  <2>6. rows' = rows /\ Enabled' = Enabled
    BY <1>2 DEF Enabled, Stored, StoredIn
  <2> HIDE DEF rest
  <2> QED
    BY <1>3, <1>6, <2>3, <2>4, <2>5, <2>6 DEF Reloading
<1> QED
  BY <1>2, <1>3, <1>5, <1>7, ReloadStep

LEMMA SyncNextRunsInv ==
  ASSUME IInv, NEW q \in Requesters, SyncNextRuns(q)
  PROVE  IInv'
<1> DEFINE todo == {<<i, jobs[i]>> : i \in Stored}
           s == [request[q] EXCEPT !.pc = "sync", !.todo = todo]
<1>1. TypeOK
  BY DEF IInv
<1>2. /\ request[q].pc = "add"
      /\ request[q].todo = {}
      /\ jobs' = [jobs EXCEPT ![DhcpJob] = "interval"]
      /\ Answer(q, s)
      /\ UNCHANGED <<rows, logs, running, run, count, history>>
  BY DEF SyncNextRuns
<1>3. s \in RequestState /\ s.pc = "sync" /\ s.todo = todo
  <2>1. Stored \in SUBSET JobIds
    BY DEF Stored, StoredIn, JobIds
  <2>2. todo \in Todo /\ request[q] \in RequestState
    BY <1>1, <2>1, TodoTyped
  <2> HIDE DEF todo
  <2> QED
    BY <2>2 DEF RequestState, Todo
<1>4. jobs \in [JobIds -> GoodCrons \cup {"interval", None}]
  BY <1>1 DEF TypeOK
<1>5. /\ jobs' \in [JobIds -> GoodCrons \cup {"interval", None}]
      /\ jobs'[DhcpJob] = "interval"
      /\ \A j \in Ids : jobs'[j] = jobs[j]
  BY <1>2, <1>4 DEF JobIds, DhcpJob, Ids
<1>6. {<<i, jobs'[i]>> : i \in Stored} = todo
  <2>1. \A i \in Stored : jobs'[i] = jobs[i]
    BY <1>5 DEF Stored, StoredIn
  <2> QED
    BY <2>1
<1> HIDE DEF s, todo
<1>7. request'[q] = s
  BY <1>1, <1>2, Answers
<1>8. ASSUME Reloading(q) PROVE Reloading(q)'
  <2>1. \A j \in Ids : jobs[j] = Wanted(rows)[j]
    BY <1>2, <1>8 DEF Reloading
  <2>2. \A j \in JobIds : jobs'[j] = Wanted(rows)[j]
    BY <1>5, <2>1, WantedOf DEF JobIds
  <2>3. jobs' = Wanted(rows)
    BY <1>5, <2>2, WantedTyped
  <2>4. rows' = rows /\ Stored' = Stored
    BY <1>2 DEF Stored, StoredIn
  <2> QED
    BY <1>3, <1>6, <1>7, <2>3, <2>4 DEF Reloading
<1> QED
  BY <1>2, <1>3, <1>5, <1>8, ReloadStep

\* A reload compares as many jobs as there are rows.
LEMMA JobPerRow ==
  Cardinality({<<i, jobs[i]>> : i \in Stored}) = Cardinality(Stored)
<1> DEFINE todo == {<<i, jobs[i]>> : i \in Stored}
           f == [i \in Stored |-> <<i, jobs[i]>>]
<1>1. IsFiniteSet(Stored)
  <2>1. IsFiniteSet(1 .. MaxId)
    BY BoundsAssumption, FS_Interval
  <2> QED
    BY <2>1, FS_Subset DEF Stored, StoredIn, Ids
<1>2. f \in Bijection(Stored, todo)
  <2>1. f \in [Stored -> todo]
    OBVIOUS
  <2>2. \A a, b \in DOMAIN f : f[a] = f[b] => a = b
    OBVIOUS
  <2>3. \A t \in todo : \E i \in Stored : f[i] = t
    OBVIOUS
  <2> QED
    BY <2>1, <2>2, <2>3 DEF Bijection, Injection, Surjection, IsInjective
<1>3. ExistsBijection(Stored, todo)
  BY <1>2 DEF ExistsBijection
<1> QED
  BY <1>1, <1>3, FS_Bijection

\* A step of a request that may change the rows.
LEMMA RowsStep ==
  ASSUME IInv, NEW q \in Requesters, NEW s \in RequestState, Answer(q, s), Knows(s),
         rows' \in [Ids -> Row \cup {None}],
         \A i \in Ids : rows'[i] # None =>
           \/ rows'[i].last # "running"
           \/ i \in foreign'
           \/ rows[i] # None /\ rows'[i].last = rows[i].last /\ (i \in foreign => i \in foreign'),
         count' \in 0 .. MaxEvents, crossed' \in BOOLEAN, foreign' \subseteq Ids,
         UNCHANGED <<run, logs, running, shared, jobs>>,
         ~crossed' => /\ \A p \in Requesters : p # q => request[p].pc = "idle"
                      /\ s.pc = "idle" => Agrees'
                      /\ Reloading(q)'
  PROVE  IInv'
<1>1. RunPart /\ RunningStatusIsForeign /\ JobInv /\ TypeOK
  BY Parts DEF RunPart
<1>2. jobs' \in [JobIds -> GoodCrons \cup {"interval", None}]
  BY <1>1 DEF TypeOK
<1>3. RunPart'
  BY <1>1, <1>2, RequestKeeps
<1>4. RunningStatusIsForeign'
  BY <1>1, StatusKept
<1>5. JobInv'
  BY <1>1, OneRequest
<1> QED
  BY <1>3, <1>4, <1>5 DEF IInv, RunPart

LEMMA CommitNextRunsInv ==
  ASSUME IInv, NEW q \in Requesters, CommitNextRuns(q)
  PROVE  IInv'
<1> DEFINE todo == request[q].todo
           known == {i \in Stored : \E job \in todo : job[1] = i}
           planned(i) == <<i, None>> \notin todo
<1>1. TypeOK
  BY DEF IInv
<1>2. /\ request[q].pc = "sync"
      /\ \/ rows' = [i \in Ids |-> IF i \in known
                                   THEN [rows[i] EXCEPT !.planned = planned(i)]
                                   ELSE rows[i]]
         \/ Cardinality(todo) # Cardinality(known) /\ UNCHANGED rows
      /\ Answer(q, IdleRequest)
      /\ UNCHANGED <<logs, running, jobs, run, count, history>>
  BY DEF CommitNextRuns
<1>3. known \subseteq Stored
  OBVIOUS
<1> HIDE DEF known
<1>4. \A i \in Ids :
        /\ rows'[i] \in Row \cup {None}
        /\ rows'[i] = None <=> rows[i] = None
        /\ rows[i] # None => /\ rows'[i].cron = rows[i].cron
                             /\ rows'[i].enabled = rows[i].enabled
                             /\ rows'[i].last = rows[i].last
  <2> SUFFICES ASSUME NEW i \in Ids
               PROVE  /\ rows'[i] \in Row \cup {None}
                      /\ rows'[i] = None <=> rows[i] = None
                      /\ rows[i] # None => /\ rows'[i].cron = rows[i].cron
                                           /\ rows'[i].enabled = rows[i].enabled
                                           /\ rows'[i].last = rows[i].last
    OBVIOUS
  <2>1. rows[i] \in Row \cup {None}
    BY <1>1 DEF TypeOK
  <2>2. CASE rows'[i] = rows[i]
    BY <2>1, <2>2
  <2>3. CASE i \in known /\ rows'[i] = [rows[i] EXCEPT !.planned = planned(i)]
    <3>1. rows[i] \in Row
      BY <1>3, <2>1, <2>3 DEF Stored, StoredIn
    <3>2. planned(i) \in BOOLEAN
      OBVIOUS
    <3> HIDE DEF planned
    <3>3. /\ rows'[i] \in Row
          /\ rows'[i].cron = rows[i].cron
          /\ rows'[i].enabled = rows[i].enabled
          /\ rows'[i].last = rows[i].last
      BY <2>3, <3>1, <3>2 DEF Row
    <3> QED
      BY <3>1, <3>3, NoneAssumption
  <2> QED
    BY <1>2, <2>2, <2>3
<1>5. rows' \in [Ids -> Row \cup {None}]
  <2>1. rows \in [Ids -> Row \cup {None}]
    BY <1>1 DEF TypeOK
  <2>2. \E g : rows' = [i \in Ids |-> g[i]]
    <3>1. CASE UNCHANGED rows
      <4>1. rows' = [i \in Ids |-> rows[i]]
        BY <2>1, <3>1
      <4> QED
        BY <4>1
    <3>2. CASE rows' = [i \in Ids |-> IF i \in known
                                     THEN [rows[i] EXCEPT !.planned = planned(i)]
                                     ELSE rows[i]]
      <4>1. rows' = [i \in Ids |-> rows'[i]]
        BY <3>2
      <4> QED
        BY <4>1
    <3> QED
      BY <1>2, <3>1, <3>2
  <2> QED
    BY <1>4, <2>2
<1>6. Stored' = Stored
  BY <1>4 DEF Stored, StoredIn
<1>7. Wanted(rows') = Wanted(rows)
  BY <1>4, SameWanted
<1>8. ASSUME ~crossed'
      PROVE  /\ \A p \in Requesters : p # q => request[p].pc = "idle"
             /\ Agrees'
  <2>1. ~crossed /\ JobInv /\ request[q].pc # "idle"
    BY <1>2, <1>8 DEF IInv, history
  <2>2. Reloading(q) /\ \A p \in Requesters : p # q => request[p].pc = "idle"
    BY <2>1, Alone
  <2>3. jobs = Wanted(rows) /\ todo = {<<i, jobs[i]>> : i \in Stored}
    BY <1>2, <2>2 DEF Reloading
  <2> HIDE DEF todo
  <2>4. known = Stored
    <3>1. \A i \in Stored : <<i, jobs[i]>> \in todo /\ <<i, jobs[i]>>[1] = i
      BY <2>3
    <3> QED
      BY <3>1 DEF known
  <2>5. Cardinality(todo) = Cardinality(known)
    BY <2>3, <2>4, JobPerRow
  <2>6. rows' = [i \in Ids |-> IF i \in known
                               THEN [rows[i] EXCEPT !.planned = planned(i)]
                               ELSE rows[i]]
    BY <1>2, <2>5
  <2>7. ASSUME NEW i \in Stored
        PROVE  rows'[i].planned <=> jobs[i] # None
    <3>1. i \in Ids /\ rows[i] \in Row
      BY <1>1 DEF Stored, StoredIn, TypeOK
    <3>2. rows'[i] = [rows[i] EXCEPT !.planned = planned(i)]
      BY <2>4, <2>6, <3>1
    <3>3. planned(i) <=> jobs[i] # None
      BY <2>3
    <3> HIDE DEF planned
    <3>4. rows'[i].planned = planned(i)
      BY <3>1, <3>2 DEF Row
    <3> QED
      BY <3>3, <3>4
  <2>8. jobs' = jobs
    BY <1>2
  <2> QED
    BY <1>6, <1>7, <2>2, <2>3, <2>7, <2>8 DEF Agrees
<1>9. request'[q] = IdleRequest /\ IdleRequest \in RequestState /\ Knows(IdleRequest)
  BY <1>1, <1>2, Answers, IdleRequestTyped
<1>10. Reloading(q)'
  BY <1>9 DEF Reloading, IdleRequest
<1>11. /\ count' \in 0 .. MaxEvents /\ crossed' \in BOOLEAN /\ foreign' \subseteq Ids
       /\ foreign' = foreign
       /\ UNCHANGED <<run, logs, running, shared, jobs>>
       /\ Answer(q, IdleRequest)
  BY <1>1, <1>2 DEF TypeOK, history
<1>12. \A i \in Ids : rows'[i] # None =>
         rows[i] # None /\ rows'[i].last = rows[i].last /\ (i \in foreign => i \in foreign')
  BY <1>4, <1>11
<1> QED
  BY <1>5, <1>8, <1>9, <1>10, <1>11, <1>12, RowsStep

LEMMA CreateInv ==
  ASSUME IInv, NEW q \in Requesters, NEW t \in Types, NEW c \in Crons, NEW e \in BOOLEAN,
         Create(q, t, c, e)
  PROVE  IInv'
<1> DEFINE row == [type |-> t, cron |-> c, enabled |-> e, planned |-> FALSE, last |-> None]
           new == Top(rows) + 1
           s == [IdleRequest EXCEPT !.pc = "reload"]
<1>1. TypeOK
  BY DEF IInv
<1>2. /\ Starts(q)
      /\ rows' = [rows EXCEPT ![new] = row]
      /\ Answer(q, s)
      /\ foreign' = foreign \ {new}
      /\ UNCHANGED <<logs, running, jobs, run, shared>>
  BY DEF Create
<1>3. row \in Row /\ row.last # "running"
  BY NoneAssumption DEF Row, Statuses
<1>4. s \in RequestState /\ s.pc = "reload" /\ Knows(s)
  BY DEF RequestState, IdleRequest, Knows
<1> HIDE DEF row, new, s
<1>5. rows \in [Ids -> Row \cup {None}] /\ foreign \subseteq Ids
  BY <1>1 DEF TypeOK
<1>6. /\ rows' \in [Ids -> Row \cup {None}]
      /\ \A i \in Ids : rows'[i] = IF i = new THEN row ELSE rows[i]
  BY <1>2, <1>3, <1>5
<1>7. \A i \in Ids : rows'[i] # None =>
         \/ rows'[i].last # "running"
         \/ i \in foreign'
         \/ rows[i] # None /\ rows'[i].last = rows[i].last /\ (i \in foreign => i \in foreign')
  BY <1>2, <1>3, <1>6
<1>8. /\ count' \in 0 .. MaxEvents /\ crossed' \in BOOLEAN
      /\ ~crossed' => \A p \in Requesters : request[p].pc = "idle"
  BY <1>1, <1>2, StartsTyped
<1>9. request'[q] = s
  BY <1>1, <1>2, Answers
<1>10. Reloading(q)'
  BY <1>4, <1>9 DEF Reloading
<1>11. foreign' \subseteq Ids /\ UNCHANGED <<run, logs, running, shared, jobs>> /\ Answer(q, s)
  BY <1>2, <1>5
<1> QED
  BY <1>4, <1>6, <1>7, <1>8, <1>10, <1>11, RowsStep

LEMMA ReadingInv ==
  ASSUME IInv, NEW q \in Requesters, NEW op \in {"update", "toggle", "delete"}, NEW i \in Ids,
         Read(q, op, i)
  PROVE  IInv'
<1> DEFINE s == [IdleRequest EXCEPT !.pc = "read", !.op = op, !.id = i, !.was = rows[i]]
<1>1. TypeOK /\ JobInv
  BY DEF IInv
<1>2. /\ Starts(q)
      /\ rows[i] # None
      /\ Answer(q, s)
      /\ UNCHANGED <<rows, logs, running, jobs, run, shared, foreign>>
  BY DEF Read
<1>3. rows[i] \in Row
  BY <1>1, <1>2, RowTyped
<1>4. s \in RequestState /\ s.pc = "read" /\ Knows(s)
  BY <1>3 DEF RequestState, IdleRequest, Knows
<1> HIDE DEF s
<1>5. /\ rows' \in [Ids -> Row \cup {None}] /\ foreign' \subseteq Ids
      /\ UNCHANGED <<run, logs, running, shared, jobs>> /\ rows' = rows /\ foreign' = foreign
      /\ Answer(q, s)
  BY <1>1, <1>2 DEF TypeOK
<1>6. /\ count' \in 0 .. MaxEvents /\ crossed' \in BOOLEAN
      /\ ~crossed' => ~crossed /\ \A p \in Requesters : request[p].pc = "idle"
  BY <1>1, <1>2, StartsTyped
<1>7. request'[q] = s
  BY <1>1, <1>5, Answers
<1>8. ~crossed' => Agrees
  BY <1>1, <1>6 DEF JobInv
<1>9. Agrees => Agrees'
  BY <1>5 DEF Agrees, Stored, StoredIn
<1>10. ~crossed' => Reloading(q)'
  BY <1>4, <1>7, <1>8, <1>9 DEF Reloading
<1> QED
  BY <1>4, <1>5, <1>6, <1>10, RowsStep

LEMMA CommitInv ==
  ASSUME IInv, NEW q \in Requesters, NEW op, NEW row, Commit(q, op, row),
         row \in Row \cup {None}, row # None => rows[request[q].id] # None /\ row.last = rows[request[q].id].last
  PROVE  IInv'
<1> DEFINE s == [IdleRequest EXCEPT !.pc = "reload"]
<1>1. TypeOK /\ JobInv
  BY DEF IInv
<1>2. /\ request[q].pc = "read"
      /\ UNCHANGED <<logs, running, jobs, run, count, history>>
      /\ IF rows[request[q].id] = None /\ op # "delete"
         THEN Answer(q, IdleRequest) /\ UNCHANGED rows
         ELSE Answer(q, s) /\ rows' = [rows EXCEPT ![request[q].id] = row]
  BY DEF Commit
<1>3. rows \in [Ids -> Row \cup {None}]
  BY <1>1 DEF TypeOK
<1>4. /\ count' \in 0 .. MaxEvents /\ crossed' \in BOOLEAN /\ foreign' \subseteq Ids
      /\ UNCHANGED <<run, logs, running, shared, jobs>> /\ foreign' = foreign /\ crossed' = crossed
  BY <1>1, <1>2 DEF TypeOK, history
<1>5. s \in RequestState /\ s.pc = "reload" /\ Knows(s)
  BY DEF RequestState, IdleRequest, Knows
<1>6. ~crossed => Reloading(q) /\ \A p \in Requesters : p # q => request[p].pc = "idle"
  BY <1>1, <1>2, Alone
<1>7. CASE Answer(q, IdleRequest) /\ UNCHANGED rows
  <2>1. request'[q] = IdleRequest
    BY <1>1, <1>7, Answers
  <2>2. Reloading(q)'
    BY <2>1 DEF Reloading, IdleRequest
  <2>3. ~crossed' => Agrees
    BY <1>2, <1>4, <1>6 DEF Reloading
  <2>4. Agrees => Agrees'
    BY <1>4, <1>7 DEF Agrees, Stored, StoredIn
  <2> QED
    BY <1>3, <1>4, <1>6, <1>7, <2>2, <2>3, <2>4, IdleRequestTyped, RowsStep
<1>8. CASE Answer(q, s) /\ rows' = [rows EXCEPT ![request[q].id] = row]
  <2> HIDE DEF s
  <2>1. request'[q] = s
    BY <1>1, <1>8, Answers
  <2>2. Reloading(q)'
    BY <1>5, <2>1 DEF Reloading
  <2>3. /\ rows' \in [Ids -> Row \cup {None}]
        /\ \A i \in Ids : rows'[i] = IF i = request[q].id THEN row ELSE rows[i]
    BY <1>3, <1>8
  <2>4. \A i \in Ids : rows'[i] # None =>
          rows[i] # None /\ rows'[i].last = rows[i].last /\ (i \in foreign => i \in foreign')
    BY <1>4, <2>3
  <2> QED
    BY <1>4, <1>5, <1>6, <1>8, <2>2, <2>3, <2>4, RowsStep
<1> QED
  BY <1>2, <1>7, <1>8

LEMMA CommitsInv ==
  ASSUME IInv, NEW q \in Requesters,
         \/ \E t \in Types, c \in Crons, e \in BOOLEAN : CommitUpdate(q, t, c, e)
         \/ CommitToggle(q)
         \/ CommitDelete(q)
  PROVE  IInv'
<1> DEFINE now == rows[request[q].id]
           was == request[q].was
<1>1. TypeOK
  BY DEF IInv
<1>2. request[q].pc = "read" => was \in Row /\ now \in Row \cup {None}
  BY <1>1 DEF IInv, ReadInv, Knows, TypeOK
<1>3. ASSUME NEW t \in Types, NEW c \in Crons, NEW e \in BOOLEAN, CommitUpdate(q, t, c, e)
      PROVE  IInv'
  <2> DEFINE type == Changed(now.type, was.type, t)
             cron == Changed(now.cron, was.cron, c)
             enabled == Changed(now.enabled, was.enabled, e)
             row == IF now = None THEN None
                    ELSE [now EXCEPT !.type = type, !.cron = cron, !.enabled = enabled]
  <2>1. Commit(q, "update", row)
    BY <1>3 DEF CommitUpdate
  <2>2. was \in Row /\ now \in Row \cup {None}
    BY <1>2, <2>1 DEF Commit
  <2>3. now # None => type \in Types /\ cron \in Crons /\ enabled \in BOOLEAN
    BY <2>2 DEF Changed, Row
  <2> HIDE DEF type, cron, enabled
  <2>4. row \in Row \cup {None} /\ (row # None => now # None /\ row.last = now.last)
    BY <2>2, <2>3 DEF Row
  <2> HIDE DEF row
  <2> QED
    BY SMTT(30), <2>1, <2>4, CommitInv
<1>4. CASE CommitToggle(q)
  <2> DEFINE row == IF now = None THEN None ELSE [now EXCEPT !.enabled = ~was.enabled]
  <2>1. Commit(q, "toggle", row)
    BY <1>4 DEF CommitToggle
  <2>2. was \in Row /\ now \in Row \cup {None}
    BY <1>2, <2>1 DEF Commit
  <2>3. row \in Row \cup {None} /\ (row # None => now # None /\ row.last = now.last)
    BY <2>2 DEF Row
  <2> HIDE DEF row
  <2> QED
    BY <2>1, <2>3, CommitInv
<1>5. CASE CommitDelete(q)
  <2>1. Commit(q, "delete", None)
    BY <1>5 DEF CommitDelete
  <2> QED
    BY <2>1, CommitInv
<1> QED
  BY <1>3, <1>4, <1>5

-----------------------------------------------------------------------------
(* A new process                                                            *)

LEMMA DefaultedTyped ==
  ASSUME NEW table \in [Ids -> Row \cup {None}], NEW after \in Defaulted(table)
  PROVE  /\ after \in [Ids -> Row \cup {None}]
         /\ \A i \in Ids : after[i] = table[i] \/ after[i].last = None
<1> DEFINE missing == {t \in Types : \A i \in StoredIn(table) : table[i].type # t}
           new == (Top(table) + 1) .. (Top(table) + Cardinality(missing))
           fresh(t) == [type |-> t, cron |-> CHOOSE c \in GoodCrons : TRUE,
                        enabled |-> t \in DeviceTypes, planned |-> FALSE, last |-> None]
<1>1. PICK f \in Bijection(new, missing) :
        after = [i \in Ids |-> IF i \in new THEN fresh(f[i]) ELSE table[i]]
  BY DEF Defaulted
<1> HIDE DEF new
<1>2. \A i \in new : f[i] \in Types
  BY <1>1 DEF Bijection, Injection
<1>3. \A t \in Types : fresh(t) \in Row /\ fresh(t).last = None
  <2>1. (CHOOSE c \in GoodCrons : TRUE) \in Crons
    BY CronsAssumption
  <2> QED
    BY <2>1 DEF Row
<1> HIDE DEF fresh
<1> QED
  BY <1>1, <1>2, <1>3

LEMMA LoadedTyped ==
  ASSUME NEW table \in [Ids -> Row \cup {None}]
  PROVE  /\ Loaded(table) \in [Ids -> Row \cup {None}]
         /\ \A i \in Ids : /\ Loaded(table)[i] = None <=> table[i] = None
                           /\ table[i] # None =>
                                /\ Loaded(table)[i].cron = table[i].cron
                                /\ Loaded(table)[i].enabled = table[i].enabled
                                /\ Loaded(table)[i].last = table[i].last
                                /\ Loaded(table)[i].planned <=> Wanted(table)[i] # None
<1> DEFINE planned(i) == Wanted(table)[i] # None
<1>1. Loaded(table) = [i \in Ids |-> IF table[i] = None THEN None
                                     ELSE [table[i] EXCEPT !.planned = planned(i)]]
  BY DEF Loaded
<1>2. ASSUME NEW i \in Ids, table[i] # None
      PROVE  /\ [table[i] EXCEPT !.planned = planned(i)] \in Row
             /\ [table[i] EXCEPT !.planned = planned(i)].cron = table[i].cron
             /\ [table[i] EXCEPT !.planned = planned(i)].enabled = table[i].enabled
             /\ [table[i] EXCEPT !.planned = planned(i)].last = table[i].last
             /\ [table[i] EXCEPT !.planned = planned(i)].planned <=> Wanted(table)[i] # None
  <2>1. table[i] \in Row
    BY <1>2
  <2>2. planned(i) \in BOOLEAN /\ (planned(i) <=> Wanted(table)[i] # None)
    OBVIOUS
  <2> HIDE DEF planned
  <2> QED
    BY <2>1, <2>2 DEF Row
<1> HIDE DEF planned
<1>3. None \notin Row
  BY NoneAssumption
<1> QED
  BY SMTT(30), <1>1, <1>2, <1>3

\* Jobs and plans agree once a process has started.
LEMMA LoadedAgrees ==
  ASSUME NEW table \in [Ids -> Row \cup {None}], NEW after, after = Loaded(table)
  PROVE  /\ Wanted(after) = Wanted(table)
         /\ \A i \in Ids : after[i] # None => (after[i].planned <=> Wanted(after)[i] # None)
<1>1. Wanted(after) = Wanted(table)
  <2>1. \A i \in Ids : /\ after[i] = None <=> table[i] = None
                       /\ table[i] # None => /\ after[i].cron = table[i].cron
                                             /\ after[i].enabled = table[i].enabled
    BY LoadedTyped
  <2> QED
    BY <2>1, SameWanted
<1> QED
  BY <1>1, LoadedTyped

\* The state of a process that has just loaded its schedules.
Fresh ==
  /\ run = [r \in Runners |-> IdleRun] /\ request = [q \in Requesters |-> IdleRequest]
  /\ running = {} /\ shared = {} /\ crossed = FALSE
  /\ rows \in [Ids -> Row \cup {None}] /\ logs \in [Types -> Seq(Statuses)]
  /\ count \in 0 .. MaxEvents /\ foreign \subseteq Ids /\ Agrees

LEMMA FreshProcess == Fresh => RunPart /\ JobInv
<1> SUFFICES ASSUME Fresh PROVE RunPart /\ JobInv
  OBVIOUS
<1> USE DEF Fresh
<1>1. run \in [Runners -> RunState] /\ RunInv
  BY IdleRunTyped DEF RunInv
<1>2. request \in [Requesters -> RequestState] /\ ReadInv
  BY IdleRequestTyped DEF ReadInv
<1>3. jobs \in [JobIds -> GoodCrons \cup {"interval", None}]
  BY WantedTyped DEF Agrees
<1>4. TypeOK
  BY <1>1, <1>2, <1>3 DEF TypeOK
<1>5. \A i : Executing(i) = {}
  BY DEF Executing, IdleRun
<1>6. SharingInv /\ IndicatorIsHonest
  BY <1>5 DEF SharingInv, IndicatorIsHonest
<1>7. \A q \in Requesters : request[q].pc = "idle"
  BY IdleRequestTyped
<1>8. JobInv
  BY <1>7 DEF JobInv, Reloading
<1> QED
  BY <1>1, <1>2, <1>4, <1>6, <1>8 DEF RunPart

LEMMA RestartInv ==
  ASSUME IInv, Restart
  PROVE  IInv'
<1>1. TypeOK /\ RunningStatusIsForeign
  BY DEF IInv
<1>2. PICK table \in Defaulted(rows) : rows' = Loaded(table)
  BY DEF Restart
<1>3. rows \in [Ids -> Row \cup {None}]
  BY <1>1 DEF TypeOK
<1>4. /\ table \in [Ids -> Row \cup {None}]
      /\ \A i \in Ids : table[i] = rows[i] \/ table[i].last = None
  BY <1>2, <1>3, DefaultedTyped
<1>5. /\ rows' \in [Ids -> Row \cup {None}]
      /\ \A i \in Ids : rows'[i] # None => table[i] # None /\ rows'[i].last = table[i].last
  BY <1>2, <1>4, LoadedTyped
<1>6. /\ jobs' = Wanted(rows') /\ running' = {} /\ shared' = {} /\ crossed' = FALSE
      /\ run' = [r \in Runners |-> IdleRun] /\ request' = [q \in Requesters |-> IdleRequest]
      /\ UNCHANGED <<logs, foreign>> /\ Event
  BY DEF Restart
<1>7. Agrees'
  BY <1>2, <1>4, <1>6, LoadedAgrees DEF Agrees, Stored, StoredIn
<1>8. logs' \in [Types -> Seq(Statuses)] /\ foreign' \subseteq Ids /\ count' \in 0 .. MaxEvents
  BY <1>1, <1>6, Counts DEF TypeOK
<1>9. Fresh'
  BY <1>5, <1>6, <1>7, <1>8 DEF Fresh
<1>10. RunPart' /\ JobInv'
  BY <1>9, FreshProcess, PTL
<1>11. \A i \in Ids : rows'[i] # None =>
         \/ rows'[i].last # "running"
         \/ i \in foreign'
         \/ rows[i] # None /\ rows'[i].last = rows[i].last /\ (i \in foreign => i \in foreign')
  <2>1. None # "running"
    BY NoneAssumption DEF Statuses
  <2> QED
    BY <1>4, <1>5, <1>6, <2>1
<1>12. RunningStatusIsForeign'
  BY <1>1, <1>11, StatusKept
<1> QED
  BY <1>10, <1>12 DEF IInv, RunPart

-----------------------------------------------------------------------------
(* Theorems                                                                 *)

LEMMA InitInv == Init => IInv
<1> SUFFICES ASSUME Init PROVE IInv
  OBVIOUS
<1> DEFINE empty == [i \in Ids |-> None]
<1>1. PICK table \in Defaulted(empty) : rows = Loaded(table)
  BY DEF Init
<1>2. empty \in [Ids -> Row \cup {None}] /\ \A i \in Ids : empty[i] = None
  OBVIOUS
<1> HIDE DEF empty
<1>3. /\ table \in [Ids -> Row \cup {None}]
      /\ \A i \in Ids : table[i] = None \/ table[i].last = None
  BY <1>1, <1>2, DefaultedTyped
<1>4. /\ rows \in [Ids -> Row \cup {None}]
      /\ \A i \in Ids : rows[i] # None => rows[i].last = None
  BY <1>1, <1>3, LoadedTyped
<1>5. Agrees
  BY <1>1, <1>3, LoadedAgrees DEF Agrees, Stored, StoredIn, Init
<1>6. logs \in [Types -> Seq(Statuses)] /\ count \in 0 .. MaxEvents /\ foreign \subseteq Ids
  <2>1. <<>> \in Seq(Statuses)
    BY EmptySeq
  <2> QED
    BY <2>1, BoundsAssumption DEF Init
<1>7. Fresh
  BY <1>4, <1>5, <1>6 DEF Fresh, Init
<1>8. RunningStatusIsForeign
  <2>1. None # "running"
    BY NoneAssumption DEF Statuses
  <2> QED
    BY <1>4, <2>1 DEF RunningStatusIsForeign, Stored, StoredIn
<1> QED
  BY <1>7, <1>8, FreshProcess DEF IInv, RunPart

LEMMA NextInv == IInv /\ [Next]_vars => IInv'
<1> SUFFICES ASSUME IInv, [Next]_vars PROVE IInv'
  OBVIOUS
<1>1. CASE UNCHANGED vars
  <2>1. \A i : Executing(i)' = Executing(i)
    BY <1>1 DEF Executing, vars
  <2> QED
    BY <1>1, <2>1 DEF IInv, vars, history, TypeOK, RunInv, Sound, SharingInv, ReadInv, Knows,
        IndicatorIsHonest, RunningStatusIsForeign, JobInv, Agrees, Reloading, Stored,
        StoredIn, Enabled
<1>2. ASSUME NEW r \in Runners,
             Step(r) \/ (\E i \in Ids : CronFires(r, i) \/ RunNow(r, i))
                     \/ (\E t \in Types : RunBatch(r, t))
      PROVE  IInv'
  BY <1>2, RunnerInv
<1>3. ASSUME NEW q \in Requesters, Change(q)
      PROVE  IInv'
  BY <1>3, CreateInv, ReadingInv, CommitsInv DEF Change
<1>4. ASSUME NEW q \in Requesters, Reload(q)
      PROVE  IInv'
  BY <1>4, ListJobsInv, RemoveJobInv, QueryRowsInv, AddJobInv, SyncNextRunsInv,
     CommitNextRunsInv DEF Reload
<1>5. CASE Restart
  BY <1>5, RestartInv
<1> QED
  BY <1>1, <1>2, <1>3, <1>4, <1>5 DEF Next

\* The conjunction of all of this is kept by every step of the specification.
THEOREM Invariance == Spec => []IInv
<1> QED
  BY InitInv, NextInv, PTL DEF Spec

\* Every variable keeps its type.
THEOREM TypeCorrect == Spec => []TypeOK
<1>1. IInv => TypeOK
  BY DEF IInv
<1> QED
  BY <1>1, Invariance, PTL

\* A schedule shown as running is executed, and one whose runs never overlapped
\* is shown as long as it executes (_run_task and its finally block).
THEOREM IndicatorStaysHonest == Spec => []IndicatorIsHonest
<1>1. IInv => IndicatorIsHonest
  BY DEF IInv
<1> QED
  BY <1>1, Invariance, PTL

\* Requests served one at a time leave the jobs and plans of the stored rows
\* (reload_scheduler).
THEOREM JobsKeepFollowingRows == Spec => []JobsFollowRows
<1>1. IInv => JobsFollowRows
  BY DEF IInv, JobInv, Agrees, JobsFollowRows
<1> QED
  BY <1>1, Invariance, PTL

\* A schedule with the status "running" got it from another task's log
\* (_persist_schedule_result).
THEOREM RunningStatusStaysForeign == Spec => []RunningStatusIsForeign
<1>1. IInv => RunningStatusIsForeign
  BY DEF IInv
<1> QED
  BY <1>1, Invariance, PTL

-----------------------------------------------------------------------------
(* What a step does to one run and to its task log                          *)

\* How many more moves a run in state s can make at most.
Rank(s) ==
  CASE s.pc = "started"                -> 8
    [] s.pc = "entered"                -> 7
    [] s.pc = "handler"                -> 6
    [] s.pc = "failing"                -> 5
    [] s.pc = "writing" /\ s.failed    -> 4
    [] s.pc = "leaving"                -> 3
    [] s.pc = "reporting"              -> 2
    [] s.pc = "writing" /\ ~s.failed   -> 1
    [] OTHER                           -> 0

\* A run whose handler has stored its log and not yet what it ended with.
Writes(s) == s.pc = "handler"

Others(r) == \A u \in Runners : u # r => run'[u] = run[u]

Begins(r) ==
  \E t \in Types :
    /\ logs' = [logs EXCEPT ![t] = Append(@, "running")]
    /\ ~Writes(run[r]) /\ Writes(run'[r])
    /\ run'[r].type = t /\ run'[r].log = Len(logs[t]) + 1

Ends(r) ==
  \E end \in {"success", "partial", "failed"} :
    /\ logs' = [logs EXCEPT ![run[r].type][run[r].log] = end]
    /\ Writes(run[r]) /\ ~Writes(run'[r])

Silent(r) == logs' = logs /\ ~Writes(run'[r])

\* A run moves on, and writes no log but its own.
Moves(r) == Others(r) /\ Rank(run'[r]) < Rank(run[r]) /\ (Begins(r) \/ Ends(r) \/ Silent(r))

LEMMA IdleRank == Rank(IdleRun) = 0 /\ ~Writes(IdleRun)
BY DEF Rank, Writes, IdleRun

LEMMA ReportedRank ==
  ASSUME NEW r \in Runners, run[r] \in RunState
  PROVE  /\ ~Writes(Reported(r))
         /\ Rank(Reported(r)) = IF run[r].failed THEN 3 ELSE 0
<1>1. CASE run[r].failed
  <2>1. Reported(r).pc = "leaving"
    BY <1>1 DEF Reported, RunState
  <2> QED
    BY <1>1, <2>1 DEF Rank, Writes
<1>2. CASE ~run[r].failed
  BY <1>2, IdleRank DEF Reported
<1> QED
  BY <1>1, <1>2

LEMMA StepMoves ==
  ASSUME IInv, NEW r \in Runners, Step(r)
  PROVE  Moves(r)
<1>1. TypeOK /\ run[r] \in RunState /\ Sound(run[r], logs)
  BY DEF IInv, RunInv, TypeOK
<1>2. ASSUME NEW s, Become(r, s)
      PROVE  run'[r] = s /\ Others(r)
  BY <1>1, <1>2, Becomes DEF Others
<1>3. CASE Enter(r)
  <2>1. run[r].pc = "started" /\ logs' = logs
    BY <1>3 DEF Enter
  <2>2. Rank(run[r]) = 8
    BY <2>1 DEF Rank
  <2>3. CASE Become(r, IdleRun)
    BY <1>2, <2>1, <2>2, <2>3, IdleRank DEF Moves, Silent
  <2>4. CASE Become(r, [run[r] EXCEPT !.pc = "entered", !.type = rows[run[r].id].type])
    <3>1. Others(r) /\ run'[r].pc = "entered"
      <4> DEFINE s == [run[r] EXCEPT !.pc = "entered", !.type = rows[run[r].id].type]
      <4>1. s.pc = "entered" /\ Become(r, s)
        BY <1>1, <2>4 DEF RunState
      <4> HIDE DEF s
      <4> QED
        BY <1>2, <4>1
    <3>2. Rank(run'[r]) = 7 /\ ~Writes(run'[r])
      BY <3>1 DEF Rank, Writes
    <3> QED
      BY <2>1, <2>2, <3>1, <3>2 DEF Moves, Silent
  <2> QED
    BY <1>3, <2>3, <2>4 DEF Enter
<1>4. CASE Skip(r)
  <2>1. run[r].pc = "entered" /\ logs' = logs /\ Become(r, [run[r] EXCEPT !.pc = "leaving"])
    BY <1>4 DEF Skip, Advance
  <2>2. Others(r) /\ run'[r].pc = "leaving"
    BY <1>1, <1>2, <2>1 DEF RunState
  <2>3. Rank(run[r]) = 7 /\ Rank(run'[r]) = 3 /\ ~Writes(run'[r])
    BY <2>1, <2>2 DEF Rank, Writes
  <2> QED
    BY <2>1, <2>2, <2>3 DEF Moves, Silent
<1>5. CASE Begin(r)
  <2> DEFINE t == run[r].type
             n == Len(logs[t]) + 1
  <2>1. /\ run[r].pc = "entered"
        /\ logs' = [logs EXCEPT ![t] = Append(@, "running")]
        /\ Become(r, [run[r] EXCEPT !.pc = "handler", !.log = n])
    BY <1>5 DEF Begin
  <2>2. t \in Types
    BY <1>1, <2>1 DEF Sound
  <2> HIDE DEF n
  <2>3. /\ Others(r) /\ run'[r].pc = "handler" /\ run'[r].type = t /\ run'[r].log = n
    <3> DEFINE s == [run[r] EXCEPT !.pc = "handler", !.log = n]
    <3>1. s.pc = "handler" /\ s.type = t /\ s.log = n /\ Become(r, s)
      BY <1>1, <2>1 DEF RunState
    <3> HIDE DEF s, t
    <3> QED
      BY <1>2, <3>1
  <2>4. Rank(run[r]) = 7 /\ Rank(run'[r]) = 6 /\ ~Writes(run[r]) /\ Writes(run'[r])
    BY <2>1, <2>3 DEF Rank, Writes
  <2>5. Begins(r)
    BY <2>1, <2>2, <2>3, <2>4 DEF Begins, n
  <2> QED
    BY <2>3, <2>4, <2>5 DEF Moves
<1>6. ASSUME run[r].pc = "handler", Become(r, IdleRun) \/ Advance(r, "leaving")
                                    \/ Become(r, [run[r] EXCEPT !.pc = "failing", !.failed = TRUE])
      PROVE  Others(r) /\ Writes(run[r]) /\ ~Writes(run'[r]) /\ Rank(run'[r]) < Rank(run[r])
  <2>1. Rank(run[r]) = 6 /\ Writes(run[r])
    BY <1>6 DEF Rank, Writes
  <2>2. CASE Become(r, IdleRun)
    BY <1>2, <2>1, <2>2, IdleRank
  <2>3. CASE Advance(r, "leaving")
    <3>1. Others(r) /\ run'[r].pc = "leaving"
      BY <1>1, <1>2, <2>3 DEF Advance, RunState
    <3>2. Rank(run'[r]) = 3 /\ ~Writes(run'[r])
      BY <3>1 DEF Rank, Writes
    <3> QED
      BY <2>1, <3>1, <3>2
  <2>4. CASE Become(r, [run[r] EXCEPT !.pc = "failing", !.failed = TRUE])
    <3>1. Others(r) /\ run'[r].pc = "failing"
      <4> DEFINE s == [run[r] EXCEPT !.pc = "failing", !.failed = TRUE]
      <4>1. s.pc = "failing" /\ Become(r, s)
        BY <1>1, <2>4 DEF RunState
      <4> HIDE DEF s
      <4> QED
        BY <1>2, <4>1
    <3>2. Rank(run'[r]) = 5 /\ ~Writes(run'[r])
      BY <3>1 DEF Rank, Writes
    <3> QED
      BY <2>1, <3>1, <3>2
  <2> QED
    BY <1>6, <2>2, <2>3, <2>4
<1>7. ASSUME NEW status \in Results, Finish(r, status)
      PROVE  Moves(r)
  <2>1. /\ run[r].pc = "handler"
        /\ logs' = [logs EXCEPT ![run[r].type][run[r].log] = status]
        /\ Become(r, IdleRun) \/ Advance(r, "leaving")
    BY <1>7 DEF Finish
  <2>2. Ends(r)
    BY <1>6, <2>1, ResultsAssumption DEF Ends
  <2> QED
    BY <1>6, <2>1, <2>2 DEF Moves
<1>8. CASE Raise(r)
  <2> DEFINE s == [run[r] EXCEPT !.pc = "failing", !.failed = TRUE]
  <2>1. /\ Become(r, IdleRun) \/ Become(r, s)
        /\ run[r].pc = "handler" => \/ logs' = logs
                                    \/ logs' = [logs EXCEPT ![run[r].type][run[r].log] = "failed"]
        /\ run[r].pc # "handler" => run[r].pc = "entered" /\ logs' = logs
    BY <1>8 DEF Raise
  <2>2. CASE run[r].pc = "handler"
    BY <1>6, <2>1, <2>2 DEF Moves, Ends, Silent
  <2>3. CASE run[r].pc # "handler"
    <3>1. Rank(run[r]) = 7
      BY <2>1, <2>3 DEF Rank
    <3>2. CASE Become(r, IdleRun)
      BY <1>2, <2>1, <2>3, <3>1, <3>2, IdleRank DEF Moves, Silent
    <3>3. CASE Become(r, s)
      <4>1. Others(r) /\ run'[r].pc = "failing"
        <5>1. s.pc = "failing"
          BY <1>1 DEF RunState
        <5> HIDE DEF s
        <5> QED
          BY <1>2, <3>3, <5>1
      <4>2. Rank(run'[r]) = 5 /\ ~Writes(run'[r])
        BY <4>1 DEF Rank, Writes
      <4> QED
        BY <2>1, <2>3, <3>1, <4>1, <4>2 DEF Moves, Silent
    <3> QED
      BY <2>1, <3>2, <3>3
  <2> QED
    BY <2>2, <2>3
<1>9. CASE Leave(r)
  <2>1. run[r].pc = "leaving" /\ logs' = logs
    BY <1>9 DEF Leave
  <2>2. Rank(run[r]) = 3
    BY <2>1 DEF Rank
  <2>3. CASE Become(r, IdleRun)
    BY <1>2, <2>1, <2>2, <2>3, IdleRank DEF Moves, Silent
  <2>4. CASE Advance(r, "reporting")
    <3>1. Others(r) /\ run'[r].pc = "reporting"
      BY <1>1, <1>2, <2>4 DEF Advance, RunState
    <3>2. Rank(run'[r]) = 2 /\ ~Writes(run'[r])
      BY <3>1 DEF Rank, Writes
    <3> QED
      BY <2>1, <2>2, <3>1, <3>2 DEF Moves, Silent
  <2> QED
    BY <1>9, <2>3, <2>4 DEF Leave
<1>10. CASE ReadResult(r)
  <2> DEFINE status == IF run[r].pc = "failing" THEN "failed" ELSE LatestStatus(run[r].type)
             own == \/ run[r].pc = "failing"
                    \/ run[r].log # 0 /\ run[r].log = Len(logs[run[r].type])
             s == [run[r] EXCEPT !.pc = "writing", !.status = status, !.own = own]
  <2>1. /\ run[r].pc \in {"failing", "reporting"} /\ logs' = logs
        /\ Become(r, Reported(r)) \/ Become(r, s)
    BY <1>10 DEF ReadResult
  <2>2. run[r].failed <=> run[r].pc = "failing"
    BY <1>1, <2>1 DEF Sound
  <2>3. Rank(run[r]) = IF run[r].failed THEN 5 ELSE 2
    BY <2>1, <2>2 DEF Rank
  <2>4. CASE Become(r, Reported(r))
    BY <1>1, <1>2, <2>1, <2>3, <2>4, ReportedRank DEF Moves, Silent
  <2>5. CASE Become(r, s)
    <3> HIDE DEF status, own
    <3>1. Others(r) /\ run'[r].pc = "writing" /\ run'[r].failed = run[r].failed
      <4>1. s.pc = "writing" /\ s.failed = run[r].failed
        BY <1>1 DEF RunState
      <4> HIDE DEF s
      <4> QED
        BY <1>2, <2>5, <4>1
    <3>2. Rank(run'[r]) = (IF run[r].failed THEN 4 ELSE 1) /\ ~Writes(run'[r])
      BY <3>1 DEF Rank, Writes
    <3> QED
      BY <2>1, <2>3, <3>1, <3>2 DEF Moves, Silent
  <2> QED
    BY <2>1, <2>4, <2>5
<1>11. CASE WriteResult(r)
  <2>1. run[r].pc = "writing" /\ logs' = logs /\ Become(r, Reported(r))
    BY <1>11 DEF WriteResult
  <2>2. Rank(run[r]) = IF run[r].failed THEN 4 ELSE 1
    BY <2>1 DEF Rank
  <2> QED
    BY <1>1, <1>2, <2>1, <2>2, ReportedRank DEF Moves, Silent
<1> QED
  BY <1>3, <1>4, <1>5, <1>7, <1>8, <1>9, <1>10, <1>11 DEF Step

\* A run begins: an idle thread, or a batch that has stored its log.
Starting(r) == Others(r) /\ run[r].pc = "idle" /\ (Begins(r) \/ Silent(r))

\* Only runs write logs; whatever else happens leaves every run as it is or
\* ends all of them.
LEMMA NextMoves ==
  ASSUME IInv, [Next]_vars
  PROVE  \/ \E r \in Runners : Moves(r) \/ Starting(r)
         \/ logs' = logs /\ (run' = run \/ run' = [r \in Runners |-> IdleRun])
<1>1. TypeOK
  BY DEF IInv
<1>2. ASSUME NEW r \in Runners, NEW i \in Ids, CronFires(r, i) \/ RunNow(r, i)
      PROVE  Starting(r)
  <2>1. PICK s : /\ Become(r, s) /\ s.pc = "started"
                 /\ run[r].pc = "idle" /\ logs' = logs
    BY <1>2 DEF CronFires, RunNow, IdleRun
  <2> QED
    BY <1>1, <2>1, Becomes DEF Starting, Others, Silent, Writes
<1>3. ASSUME NEW r \in Runners, NEW t \in Types, RunBatch(r, t)
      PROVE  Starting(r)
  <2> DEFINE n == Len(logs[t]) + 1
             s == [IdleRun EXCEPT !.pc = "handler", !.type = t, !.log = n]
  <2>1. /\ run[r].pc = "idle" /\ logs' = [logs EXCEPT ![t] = Append(@, "running")]
        /\ Become(r, s)
    BY <1>3 DEF RunBatch
  <2>2. Others(r) /\ run'[r] = s
    BY <1>1, <2>1, Becomes DEF Others
  <2> HIDE DEF n
  <2>3. s.pc = "handler" /\ s.type = t /\ s.log = n
    BY SMTT(30) DEF IdleRun
  <2> USE DEF n
  <2> HIDE DEF s
  <2> QED
    BY <2>1, <2>2, <2>3 DEF Starting, Begins, Writes
<1>4. ASSUME NEW q \in Requesters, Change(q) \/ Reload(q)
      PROVE  logs' = logs /\ run' = run
  BY <1>4 DEF Change, Reload, Create, CommitUpdate, CommitToggle, CommitDelete, Commit, Read,
     ListJobs, RemoveJob, QueryRows, AddJob, SyncNextRuns, CommitNextRuns
<1>5. CASE Restart
  BY <1>5 DEF Restart
<1>6. CASE UNCHANGED vars
  BY <1>6 DEF vars
<1> QED
  BY <1>2, <1>3, <1>4, <1>5, <1>6, StepMoves DEF Next

\* Whatever a run meets - a schedule deleted meanwhile, no device, an exception,
\* a result that cannot be stored -, each of its steps brings it nearer to its
\* end, none takes it back, and nothing but a new start leads out of "idle": a
\* run is over after at most eight steps (_run_task, _persist_schedule_result).
THEOREM RunsAdvance ==
  Spec => [][\A r \in Runners :
               /\ Step(r) => Rank(run'[r]) < Rank(run[r])
               /\ \/ run'[r] = run[r]
                  \/ Rank(run'[r]) < Rank(run[r])
                  \/ run[r].pc = "idle"]_vars
<1> DEFINE Advances(r) ==
             /\ Step(r) => Rank(run'[r]) < Rank(run[r])
             /\ \/ run'[r] = run[r]
                \/ Rank(run'[r]) < Rank(run[r])
                \/ run[r].pc = "idle"
<1>1. ASSUME IInv, [Next]_vars, NEW r \in Runners
      PROVE  Advances(r)
  <2>1. Step(r) => Rank(run'[r]) < Rank(run[r])
    BY <1>1, StepMoves DEF Moves
  <2>2. ASSUME NEW u \in Runners, Moves(u) \/ Starting(u)
        PROVE  run'[r] = run[r] \/ Rank(run'[r]) < Rank(run[r]) \/ run[r].pc = "idle"
    BY <2>2 DEF Moves, Starting, Others
  <2>3. ASSUME run' = [u \in Runners |-> IdleRun]
        PROVE  Rank(run'[r]) < Rank(run[r]) \/ run[r].pc = "idle"
    <3>1. Rank(run'[r]) = 0
      BY <2>3, IdleRank
    <3>2. run[r] \in RunState
      BY <1>1 DEF IInv, TypeOK
    <3>3. Rank(run[r]) > 0 \/ run[r].pc = "idle"
      BY <3>2 DEF Rank, RunState
    <3> QED
      BY <3>1, <3>3
  <2>4. run'[r] = run[r] \/ Rank(run'[r]) < Rank(run[r]) \/ run[r].pc = "idle"
    BY <1>1, <2>2, <2>3, NextMoves
  <2> QED
    BY <2>1, <2>4
<1>2. IInv /\ [Next]_vars => [\A r \in Runners : Advances(r)]_vars
  BY <1>1
<1> QED
  BY <1>2, Invariance, PTL DEF Spec

-----------------------------------------------------------------------------
(* The task logs implement TaskLog                                          *)

\* A log is stored as running until the one handler that writes it ends it.
OwnLogs ==
  /\ \A r \in Runners : Writes(run[r]) => logs[run[r].type][run[r].log] = "running"
  /\ \A r, s \in Runners :
       /\ Writes(run[r]) /\ Writes(run[s])
       /\ run[r].type = run[s].type /\ run[r].log = run[s].log
       => r = s

LEMMA LogTyped ==
  ASSUME TypeOK, NEW t \in Types
  PROVE  logs[t] \in Seq(Statuses) /\ Len(logs[t]) \in Nat
BY LenProperties DEF TypeOK

LEMMA OneMore ==
  ASSUME TypeOK, NEW t \in Types, logs' = [logs EXCEPT ![t] = Append(@, "running")]
  PROVE  /\ Len(logs'[t]) = Len(logs[t]) + 1
         /\ logs'[t][Len(logs[t]) + 1] = "running"
         /\ \A k \in 1 .. Len(logs[t]) : logs'[t][k] = logs[t][k]
         /\ \A u \in Types : u # t => logs'[u] = logs[u]
<1>1. logs[t] \in Seq(Statuses) /\ "running" \in Statuses
  BY LogTyped DEF Statuses
<1>2. logs'[t] = Append(logs[t], "running") /\ \A u \in Types : u # t => logs'[u] = logs[u]
  BY DEF TypeOK
<1> QED
  BY <1>1, <1>2, AppendProperties

LEMMA OneMarked ==
  ASSUME TypeOK, NEW t \in Types, NEW k \in 1 .. Len(logs[t]), NEW end,
         logs' = [logs EXCEPT ![t][k] = end]
  PROVE  /\ Len(logs'[t]) = Len(logs[t])
         /\ logs'[t][k] = end
         /\ \A j \in 1 .. Len(logs[t]) : j # k => logs'[t][j] = logs[t][j]
         /\ \A u \in Types : u # t => logs'[u] = logs[u]
<1>1. logs[t] \in Seq(Statuses)
  BY LogTyped
<1> DEFINE new == [logs[t] EXCEPT ![k] = end]
<1>2. logs'[t] = new /\ \A u \in Types : u # t => logs'[u] = logs[u]
  BY DEF TypeOK
<1>3. /\ Len(new) = Len(logs[t])
      /\ \A j \in 1 .. Len(logs[t]) : new[j] = IF j = k THEN end ELSE logs[t][j]
  <2>1. /\ DOMAIN logs[t] = 1 .. Len(logs[t]) /\ DOMAIN new = DOMAIN logs[t]
        /\ Len(logs[t]) \in Nat
    BY <1>1, LenProperties
  <2>2. new \in Seq(Statuses \cup {end})
    BY <1>1, ExceptSeq
  <2> QED
    BY <2>1, <2>2, LenProperties
<1> HIDE DEF new
<1> QED
  BY <1>2, <1>3

LEMMA EntryOf ==
  ASSUME NEW t \in Types, NEW k \in Nat \ {0}
  PROVE  /\ <<t, k>> \in Entries
         /\ StatusOf(<<t, k>>) = IF k <= Len(logs[t]) THEN logs[t][k] ELSE "none"
         /\ StatusOf(<<t, k>>)' = IF k <= Len(logs'[t]) THEN logs'[t][k] ELSE "none"
BY DEF Entries, StatusOf

LEMMA EntryIs ==
  ASSUME NEW e \in Entries
  PROVE  \E t \in Types, k \in Nat \ {0} : e = <<t, k>>
BY DEF Entries

LEMMA EntriesFixed == UNCHANGED Entries
BY DEF Entries

LEMMA LogOpens ==
  ASSUME TypeOK, NEW t \in Types, logs' = [logs EXCEPT ![t] = Append(@, "running")]
  PROVE  TaskLogs!Next
<1>0. Len(logs[t]) \in Nat
  BY LogTyped
<1>1. PICK n \in Nat \ {0} : n = Len(logs[t]) + 1
  BY <1>0
<1> DEFINE e == <<t, n>>
<1>2. StatusOf(e) = "none" /\ StatusOf(e)' = "running" /\ e \in Entries
  <2>0. Len(logs'[t]) = Len(logs[t]) + 1 /\ logs'[t][Len(logs[t]) + 1] = "running"
    BY OneMore
  <2>1. Len(logs'[t]) = n /\ logs'[t][n] = "running" /\ ~(n <= Len(logs[t]))
    BY <1>0, <1>1, <2>0
  <2> QED
    BY <2>1, EntryOf
<1>3. ASSUME NEW d \in Entries, d # e
      PROVE  StatusOf(d)' = StatusOf(d)
  <2>1. PICK u \in Types, k \in Nat \ {0} : d = <<u, k>>
    BY EntryIs
  <2>2. CASE u # t
    BY <2>1, <2>2, OneMore, EntryOf
  <2>3. CASE u = t
    <3>1. k # n
      BY <1>3, <2>1, <2>3
    <3>2. CASE k <= Len(logs[t])
      <4>1. k \in 1 .. Len(logs[t]) /\ k <= Len(logs'[t])
        BY <1>0, <1>1, <3>2, OneMore
      <4> QED
        BY <2>1, <2>3, <4>1, OneMore, EntryOf
    <3>3. CASE ~(k <= Len(logs[t]))
      <4>1. ~(k <= Len(logs'[t]))
        BY <1>0, <1>1, <3>1, <3>3, OneMore
      <4> QED
        BY <2>1, <2>3, <3>3, <4>1, EntryOf
    <3> QED
      BY <3>2, <3>3
  <2> QED
    BY <2>2, <2>3
<1> HIDE DEF e
<1>4. TaskLogs!Open(e)
  BY <1>2, <1>3, EntriesFixed DEF TaskLogs!Open
<1> QED
  BY <1>2, <1>4 DEF TaskLogs!Next

LEMMA LogCloses ==
  ASSUME TypeOK, NEW t \in Types, NEW k \in 1 .. Len(logs[t]), logs[t][k] = "running",
         NEW end \in {"success", "partial", "failed"}, logs' = [logs EXCEPT ![t][k] = end]
  PROVE  TaskLogs!Next
<1> DEFINE e == <<t, k>>
<1>1. k \in Nat \ {0} /\ Len(logs[t]) \in Nat /\ k <= Len(logs[t])
  BY LogTyped
<1>2. StatusOf(e) = "running" /\ StatusOf(e)' = end /\ e \in Entries
  <2> HIDE DEF e
  <2>1. /\ Len(logs'[t]) = Len(logs[t])
        /\ logs'[t][k] = end
        /\ \A j \in 1 .. Len(logs[t]) : j # k => logs'[t][j] = logs[t][j]
        /\ \A u \in Types : u # t => logs'[u] = logs[u]
    BY OneMarked
  <2> QED
    BY <1>1, <2>1, EntryOf DEF e
<1>3. ASSUME NEW d \in Entries, d # e
      PROVE  StatusOf(d)' = StatusOf(d)
  <2>1. PICK u \in Types, j \in Nat \ {0} : d = <<u, j>>
    BY EntryIs
  <2>2. CASE u # t
    BY <2>1, <2>2, OneMarked, EntryOf
  <2>3. CASE u = t
    <3>1. j # k
      BY <1>3, <2>1, <2>3
    <3>2. CASE j <= Len(logs[t])
      <4>1. j \in 1 .. Len(logs[t]) /\ j <= Len(logs'[t])
        BY <1>1, <3>2, OneMarked
      <4> QED
        BY <2>1, <2>3, <3>1, <4>1, OneMarked, EntryOf
    <3>3. CASE ~(j <= Len(logs[t]))
      BY <2>1, <2>3, <3>3, OneMarked, EntryOf
    <3> QED
      BY <3>2, <3>3
  <2> QED
    BY <2>2, <2>3
<1> HIDE DEF e
<1>4. TaskLogs!Close(e)
  BY <1>2, <1>3, EntriesFixed DEF TaskLogs!Close, TaskLogs!Ended
<1> QED
  BY <1>2, <1>4 DEF TaskLogs!Next

\* The log a handler writes is there.
LEMMA WritesThere ==
  ASSUME IInv, NEW r \in Runners, Writes(run[r])
  PROVE  run[r].type \in Types /\ run[r].log \in 1 .. Len(logs[run[r].type])
BY DEF IInv, RunInv, Sound, Writes

LEMMA BeginsOwn ==
  ASSUME IInv, OwnLogs, NEW r \in Runners, Others(r), Begins(r)
  PROVE  OwnLogs' /\ TaskLogs!Next
<1>1. TypeOK
  BY DEF IInv
<1>2. PICK t \in Types :
        /\ logs' = [logs EXCEPT ![t] = Append(@, "running")]
        /\ Writes(run'[r]) /\ run'[r].type = t /\ run'[r].log = Len(logs[t]) + 1
  BY DEF Begins
<1>3. Len(logs[t]) \in Nat
  BY <1>1, LogTyped
<1>4. ASSUME NEW u \in Runners, u # r, Writes(run'[u])
      PROVE  /\ logs'[run'[u].type][run'[u].log] = "running"
             /\ ~(run'[u].type = run'[r].type /\ run'[u].log = run'[r].log)
  <2>1. run'[u] = run[u] /\ Writes(run[u])
    BY <1>4 DEF Others
  <2>2. run[u].type \in Types /\ run[u].log \in 1 .. Len(logs[run[u].type])
    BY <2>1, WritesThere
  <2>3. logs[run[u].type][run[u].log] = "running"
    BY <2>1 DEF OwnLogs
  <2>4. CASE run[u].type = t
    BY <1>1, <1>2, <1>3, <2>1, <2>2, <2>3, <2>4, OneMore
  <2>5. CASE run[u].type # t
    BY <1>1, <1>2, <2>1, <2>2, <2>3, <2>5, OneMore
  <2> QED
    BY <2>4, <2>5
<1>5. logs'[run'[r].type][run'[r].log] = "running"
  BY <1>1, <1>2, OneMore
<1>6. ASSUME NEW u \in Runners, NEW v \in Runners, Writes(run'[u]), Writes(run'[v]),
             run'[u].type = run'[v].type, run'[u].log = run'[v].log
      PROVE  u = v
  <2>1. CASE u # r /\ v # r
    BY <1>6, <2>1 DEF Others, OwnLogs
  <2> QED
    BY <1>4, <1>6, <2>1
<1>7. OwnLogs'
  BY <1>4, <1>5, <1>6 DEF OwnLogs, Writes
<1> QED
  BY <1>1, <1>2, <1>7, LogOpens

LEMMA EndsOwn ==
  ASSUME IInv, OwnLogs, NEW r \in Runners, Others(r), Ends(r)
  PROVE  OwnLogs' /\ TaskLogs!Next
<1> DEFINE t == run[r].type
           k == run[r].log
<1>1. TypeOK
  BY DEF IInv
<1>2. PICK end \in {"success", "partial", "failed"} :
        /\ logs' = [logs EXCEPT ![t][k] = end]
        /\ Writes(run[r]) /\ ~Writes(run'[r])
  BY DEF Ends
<1>3. t \in Types /\ k \in 1 .. Len(logs[t]) /\ logs[t][k] = "running"
  BY <1>2, WritesThere DEF OwnLogs
<1>4. ASSUME NEW u \in Runners, Writes(run'[u])
      PROVE  /\ u # r /\ run'[u] = run[u]
             /\ logs'[run'[u].type][run'[u].log] = "running"
  <2>1. u # r /\ run'[u] = run[u] /\ Writes(run[u])
    BY <1>2, <1>4 DEF Others
  <2>2. run[u].type \in Types /\ run[u].log \in 1 .. Len(logs[run[u].type])
    BY <2>1, WritesThere
  <2>3. logs[run[u].type][run[u].log] = "running" /\ ~(run[u].type = t /\ run[u].log = k)
    BY <1>2, <2>1 DEF OwnLogs
  <2> HIDE DEF t, k
  <2>4. CASE run[u].type = t
    BY <1>1, <1>2, <1>3, <2>1, <2>2, <2>3, <2>4, OneMarked
  <2>5. CASE run[u].type # t
    BY <1>1, <1>2, <1>3, <2>1, <2>2, <2>3, <2>5, OneMarked
  <2> QED
    BY <2>1, <2>4, <2>5
<1>5. OwnLogs'
  BY <1>4 DEF OwnLogs, Writes
<1> QED
  BY <1>1, <1>2, <1>3, <1>5, LogCloses

\* Without a change to the logs, those that still write go on as they were.
LEMMA SilentOwn ==
  ASSUME OwnLogs, logs' = logs,
         \A u \in Runners : Writes(run'[u]) => run'[u] = run[u]
  PROVE  OwnLogs'
BY DEF OwnLogs, Writes

\* Handlers, batches and restarts, however they overlap, do to the task logs what
\* TaskLog allows: a run's log is stored as running, is ended once by the thread
\* that stored it and by nobody else, and what it ended with stays (the handlers
\* that _run_task calls, and the same batches run from an endpoint).
THEOREM ImplementsLog == Spec => ImplementsTaskLog
<1> DEFINE view == [e \in Entries |-> StatusOf(e)]
<1>1. Init => OwnLogs /\ TaskLogs!Init
  <2> SUFFICES ASSUME Init PROVE OwnLogs /\ TaskLogs!Init
    OBVIOUS
  <2>1. OwnLogs
    BY IdleRank DEF Init, OwnLogs
  <2>2. ASSUME NEW e \in Entries
        PROVE  StatusOf(e) = "none"
    <3>1. PICK t \in Types, k \in Nat \ {0} : e = <<t, k>>
      BY EntryIs
    <3>2. Len(logs[t]) = 0
      BY EmptySeq DEF Init
    <3> QED
      BY <3>1, <3>2, EntryOf
  <2> QED
    BY <2>1, <2>2 DEF TaskLogs!Init
<1>2. ASSUME IInv, OwnLogs, [Next]_vars
      PROVE  OwnLogs' /\ [TaskLogs!Next]_view
  <2>1. logs' = logs => UNCHANGED view
    BY DEF StatusOf
  <2>2. ASSUME NEW r \in Runners, Moves(r) \/ Starting(r)
        PROVE  OwnLogs' /\ [TaskLogs!Next]_view
    <3>1. Others(r) /\ (Begins(r) \/ Ends(r) \/ Silent(r))
      BY <2>2 DEF Moves, Starting
    <3>2. CASE Silent(r)
      <4>1. logs' = logs /\ \A u \in Runners : Writes(run'[u]) => run'[u] = run[u]
        BY <3>1, <3>2 DEF Others, Silent
      <4> QED
        BY <1>2, <2>1, <4>1, SilentOwn
    <3> QED
      BY <1>2, <3>1, <3>2, BeginsOwn, EndsOwn
  <2>3. CASE logs' = logs /\ (run' = run \/ run' = [r \in Runners |-> IdleRun])
    <3>1. \A u \in Runners : Writes(run'[u]) => run'[u] = run[u]
      BY <2>3, IdleRank
    <3> QED
      BY <1>2, <2>1, <2>3, <3>1, SilentOwn
  <2> QED
    BY <1>2, <2>2, <2>3, NextMoves
<1> QED
  BY <1>1, <1>2, Invariance, PTL DEF Spec, ImplementsTaskLog, TaskLogs!Spec

=============================================================================
