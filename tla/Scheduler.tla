----------------------------- MODULE Scheduler -----------------------------
(***************************************************************************)
(* Scheduled tasks: app/scheduler/tasks.py and app/routers/schedule.py.    *)
(*                                                                         *)
(* A runner is a thread inside _run_task (an APScheduler pool thread or    *)
(* the thread of "run now"), or a request thread that runs the same batch  *)
(* directly and therefore writes a task log of the same type.  A requester *)
(* is a request thread that changes a schedule and then reloads all jobs.  *)
(* Only the set of running ids has a lock; rows, logs and jobs have none.  *)
(*                                                                         *)
(* Abstractions.  Task logs of a type are a sequence in started_at order.  *)
(* A cron expression is good or one that CronTrigger rejects.  next_run is *)
(* whether a time was planned.  last_run and descriptions are left out.    *)
(* Handlers are their outcome: other modules model what they do.           *)
(***************************************************************************)
EXTENDS Integers, Sequences, FiniteSets, Functions

CONSTANTS Runners,      \* threads that run tasks
          Requesters,   \* threads that change schedules
          Types,        \* task types of TASK_MAP
          DeviceTypes,  \* those that need an active device
          Crons,        \* five-field expressions a user may save
          GoodCrons,    \* those that CronTrigger accepts
          Results,      \* statuses a handler may store at its end
          None,         \* no row, no job, no status
          MaxId,        \* bound: schedule ids
          MaxEvents     \* bound: runs, requests and restarts together

ASSUME TypesAssumption == DeviceTypes \subseteq Types /\ IsFiniteSet(Types)
ASSUME CronsAssumption == GoodCrons \subseteq Crons /\ GoodCrons # {}
ASSUME ResultsAssumption == Results \subseteq {"success", "partial", "failed"}
ASSUME BoundsAssumption ==
  MaxId \in Nat /\ MaxId >= Cardinality(Types) /\ MaxEvents \in Nat

VARIABLES rows,       \* schedule_configs: id -> row, None = no row
          logs,       \* task_logs: type -> statuses in started_at order
          running,    \* _running_schedule_ids
          jobs,       \* APScheduler: id -> cron of its job, None = no job
          run,        \* runner threads
          request,    \* requester threads
          count,      \* runs, requests and restarts so far
          shared,     \* history: ids that two runs executed at once
          crossed,    \* history: two requests overlapped since the last restart
          foreign     \* history: ids whose last status is of another task

history == <<shared, crossed, foreign>>
vars == <<rows, logs, running, jobs, run, request, count, history>>

Ids == 1 .. MaxId
DhcpJob == 0                \* the windows_dhcp_sync job
JobIds == Ids \cup {DhcpJob}
Statuses == {"running", "success", "partial", "failed"}
Row == [type : Types, cron : Crons, enabled : BOOLEAN, planned : BOOLEAN,
        last : Statuses \cup {None}]

ASSUME NoneAssumption ==
  None \notin Row \cup Statuses \cup Crons \cup Types \cup Ids \cup {"interval"}

StoredIn(table) == {i \in Ids : table[i] # None}
Stored == StoredIn(rows)
Top(table) == CHOOSE n \in StoredIn(table) \cup {0} : StoredIn(table) \subseteq 1 .. n

\* What the jobs are once every enabled row with a good cron has one.
Wanted(table) ==
  [i \in JobIds |->
     IF i = DhcpJob THEN "interval"
     ELSE IF table[i] # None /\ table[i].enabled /\ table[i].cron \in GoodCrons
          THEN table[i].cron ELSE None]

IdleRun == [pc |-> "idle", id |-> None, cron |-> FALSE, type |-> None, log |-> 0,
            failed |-> FALSE, status |-> None, own |-> FALSE]
IdleRequest == [pc |-> "idle", op |-> None, id |-> None, was |-> None, todo |-> {}]

Become(r, state) == run' = [run EXCEPT ![r] = state]
Advance(r, pc) == Become(r, [run[r] EXCEPT !.pc = pc])
Answer(q, state) == request' = [request EXCEPT ![q] = state]
Event == count < MaxEvents /\ count' = count + 1

\* Runs between the insertion of their id and its removal.
Executing(i) ==
  {r \in Runners : /\ run[r].id = i
                   /\ \/ run[r].pc \in {"entered", "handler", "failing", "leaving"}
                      \/ run[r].pc = "writing" /\ run[r].failed}

(***************************************************************************)
(* _run_task                                                               *)
(***************************************************************************)
\* External: APScheduler fires a job that is not still running from an
\* earlier firing (max_instances = 1 per job id).
CronFires(r, i) ==
  /\ run[r].pc = "idle"
  /\ jobs[i] # None
  /\ \A s \in Runners : ~(run[s].id = i /\ run[s].cron)
  /\ Event
  /\ Become(r, [IdleRun EXCEPT !.pc = "started", !.id = i, !.cron = TRUE])
  /\ UNCHANGED <<rows, logs, running, jobs, request, history>>

\* run_schedule_now: a new thread, whatever runs already.
RunNow(r, i) ==
  /\ run[r].pc = "idle"
  /\ rows[i] # None
  /\ Event
  /\ Become(r, [IdleRun EXCEPT !.pc = "started", !.id = i])
  /\ UNCHANGED <<rows, logs, running, jobs, request, history>>

\* Another endpoint runs the batch of type t in its request thread.
RunBatch(r, t) ==
  /\ run[r].pc = "idle"
  /\ Event
  /\ logs' = [logs EXCEPT ![t] = Append(@, "running")]
  /\ Become(r, [IdleRun EXCEPT !.pc = "handler", !.type = t, !.log = Len(logs[t]) + 1])
  /\ UNCHANGED <<rows, running, jobs, request, history>>

\* Lines 117-132: the row is read again, and may be gone; then the id goes
\* into the set (nothing the thread does in between is visible to others).
Enter(r) ==
  LET i == run[r].id
  IN  /\ run[r].pc = "started"
      /\ IF rows[i] = None
         THEN Become(r, IdleRun) /\ UNCHANGED <<running, shared>>
         ELSE /\ running' = running \cup {i}
              /\ shared' = IF Executing(i) # {} THEN shared \cup {i} ELSE shared
              /\ Become(r, [run[r] EXCEPT !.pc = "entered", !.type = rows[i].type])
      /\ UNCHANGED <<rows, logs, jobs, request, count, crossed, foreign>>

\* Lines 135-150: without an active device most types do nothing at all.
Skip(r) ==
  /\ run[r].pc = "entered"
  /\ run[r].type \in DeviceTypes
  /\ Advance(r, "leaving")
  /\ UNCHANGED <<rows, logs, running, jobs, request, count, history>>

\* Line 145: the handler starts by committing a "running" task log.
Begin(r) ==
  LET t == run[r].type
  IN  /\ run[r].pc = "entered"
      /\ logs' = [logs EXCEPT ![t] = Append(@, "running")]
      /\ Become(r, [run[r] EXCEPT !.pc = "handler", !.log = Len(logs[t]) + 1])
      /\ UNCHANGED <<rows, running, jobs, request, count, history>>

\* The handler stores its result and returns.
Finish(r, status) ==
  /\ run[r].pc = "handler"
  /\ logs' = [logs EXCEPT ![run[r].type][run[r].log] = status]
  /\ IF run[r].id = None THEN Become(r, IdleRun) ELSE Advance(r, "leaving")
  /\ UNCHANGED <<rows, running, jobs, request, count, history>>

\* Lines 151-153: an exception.  A synchronisation has stored "failed"; a
\* batch that could not store its result leaves its log "running"; one that
\* raised before its log was committed has none.
Raise(r) ==
  /\ run[r].pc = "entered" \/ run[r].pc = "handler"
  /\ logs' \in IF run[r].pc = "handler"
               THEN {logs, [logs EXCEPT ![run[r].type][run[r].log] = "failed"]}
               ELSE {logs}
  /\ Become(r, IF run[r].id = None THEN IdleRun
               ELSE [run[r] EXCEPT !.pc = "failing", !.failed = TRUE])
  /\ UNCHANGED <<rows, running, jobs, request, count, history>>

\* Mutant: the finally block drops every run of the task type.
LeaveMutant(r) ==
  LET i == run[r].id
  IN  /\ run[r].pc = "leaving"
      /\ running' = {j \in running : \A s \in Executing(j) : run[s].type # run[r].type}
      /\ shared' = IF Executing(i) = {r} THEN shared \ {i} ELSE shared
      /\ IF run[r].failed THEN Become(r, IdleRun) ELSE Advance(r, "reporting")
      /\ UNCHANGED <<rows, logs, jobs, request, count, crossed, foreign>>

\* Lines 155-157, the finally block: after the report of a failure and
\* before the report of a success.
Leave(r) ==
  LET i == run[r].id
  IN  /\ run[r].pc = "leaving"
      /\ running' = running \ {i}
      /\ shared' = IF Executing(i) = {r} THEN shared \ {i} ELSE shared
      /\ IF run[r].failed THEN Become(r, IdleRun) ELSE Advance(r, "reporting")
      /\ UNCHANGED <<rows, logs, jobs, request, count, crossed, foreign>>

(***************************************************************************)
(* _persist_schedule_result                                                *)
(***************************************************************************)
\* Mutant: a reported failure ends the thread without the finally block.
ReportedMutant(r) == IdleRun

\* A success goes on to the end, a failure to the finally block.
Reported(r) == IF run[r].failed THEN [run[r] EXCEPT !.pc = "leaving"] ELSE IdleRun

\* Mutant: the oldest log of the type is taken.
LatestStatusMutant(t) == IF logs[t] = <<>> THEN "success" ELSE Head(logs[t])

\* Mutant: a type without a log is reported with the column's default.
NoLogMutant(t) == IF logs[t] = <<>> THEN "pending" ELSE logs[t][Len(logs[t])]

\* Lines 169-175: the status of the latest log of the type.
LatestStatus(t) == IF logs[t] = <<>> THEN "success" ELSE logs[t][Len(logs[t])]

\* Lines 166-175: read the row and the latest log.
ReadResult(r) ==
  LET t == run[r].type
      failed == run[r].pc = "failing"
  IN  /\ run[r].pc \in {"failing", "reporting"}
      /\ Become(r, IF rows[run[r].id] = None THEN Reported(r)
                   ELSE [run[r] EXCEPT !.pc = "writing",
                           !.status = IF failed THEN "failed" ELSE LatestStatus(t),
                           !.own = failed \/ (run[r].log # 0 /\ run[r].log = Len(logs[t]))])
      /\ UNCHANGED <<rows, logs, running, jobs, request, count, history>>

\* Lines 175-177: the row may be gone by now, or be another schedule with the
\* same id; then, or when the commit fails, the error is logged.
WriteResult(r) ==
  LET i == run[r].id
  IN  /\ run[r].pc = "writing"
      /\ \/ /\ rows[i] # None
            /\ rows' = [rows EXCEPT ![i].last = run[r].status]
            /\ foreign' = IF run[r].own THEN foreign \ {i} ELSE foreign \cup {i}
         \/ UNCHANGED <<rows, foreign>>
      /\ Become(r, Reported(r))
      /\ UNCHANGED <<logs, running, jobs, request, count, shared, crossed>>

(***************************************************************************)
(* Requests: a commit, then reload_scheduler                               *)
(***************************************************************************)
Starts(q) ==
  /\ request[q].pc = "idle"
  /\ Event
  /\ crossed' = (crossed \/ \E p \in Requesters : request[p].pc # "idle")

\* create_schedule.  A new row takes the id after the largest one.
Create(q, t, c, e) ==
  LET row == [type |-> t, cron |-> c, enabled |-> e, planned |-> FALSE, last |-> None]
  IN  /\ Starts(q)
      /\ Top(rows) < MaxId
      /\ rows' = [rows EXCEPT ![Top(rows) + 1] = row]
      /\ Answer(q, [IdleRequest EXCEPT !.pc = "reload"])
      /\ foreign' = foreign \ {Top(rows) + 1}
      /\ UNCHANGED <<logs, running, jobs, run, shared>>

\* update, delete and toggle first read the row ...
Read(q, op, i) ==
  /\ Starts(q)
  /\ rows[i] # None
  /\ Answer(q, [IdleRequest EXCEPT !.pc = "read", !.op = op, !.id = i, !.was = rows[i]])
  /\ UNCHANGED <<rows, logs, running, jobs, run, shared, foreign>>

\* ... then commit.  Writing to a row that is gone is an error.
Commit(q, op, row) ==
  LET i == request[q].id
  IN  /\ request[q].pc = "read"
      /\ request[q].op = op
      /\ IF rows[i] = None /\ op # "delete"
         THEN Answer(q, IdleRequest) /\ UNCHANGED rows
         ELSE Answer(q, [IdleRequest EXCEPT !.pc = "reload"]) /\ rows' = [rows EXCEPT ![i] = row]
      /\ UNCHANGED <<logs, running, jobs, run, count, history>>

\* The session writes only the columns whose value differs from the one read.
Changed(now, was, new) == IF new = was THEN now ELSE new

CommitUpdate(q, t, c, e) ==
  LET now == rows[request[q].id]
      was == request[q].was
  IN  Commit(q, "update", IF now = None THEN None
                          ELSE [now EXCEPT !.type = Changed(@, was.type, t),
                                           !.cron = Changed(@, was.cron, c),
                                           !.enabled = Changed(@, was.enabled, e)])

CommitToggle(q) ==
  LET now == rows[request[q].id]
  IN  Commit(q, "toggle", IF now = None THEN None
                          ELSE [now EXCEPT !.enabled = ~request[q].was.enabled])

CommitDelete(q) == Commit(q, "delete", None)

\* Line 284: the jobs of this moment, one of them possibly the DHCP job.
ListJobs(q) ==
  LET found == {<<i, jobs[i]>> : i \in {j \in JobIds : jobs[j] # None}}
  IN  /\ request[q].pc = "reload"
      /\ Answer(q, [request[q] EXCEPT !.pc = IF found = {} THEN "query" ELSE "remove",
                                      !.todo = found])
      /\ UNCHANGED <<rows, logs, running, jobs, run, count, history>>

\* Line 285: a job that another reload removed meanwhile ends the request.
RemoveJob(q, i) ==
  LET rest == {job \in request[q].todo : job[1] # i}
  IN  /\ request[q].pc = "remove"
      /\ rest # request[q].todo
      /\ jobs' = [jobs EXCEPT ![i] = None]
      /\ Answer(q, IF jobs[i] = None THEN IdleRequest
                   ELSE [request[q] EXCEPT !.pc = IF rest = {} THEN "query" ELSE @,
                                           !.todo = rest])
      /\ UNCHANGED <<rows, logs, running, run, count, history>>

\* Mutant: disabled rows are loaded as well.
EnabledMutant == {<<i, rows[i].cron>> : i \in Stored}

Enabled == {<<i, rows[i].cron>> : i \in {j \in Stored : rows[j].enabled}}

\* Line 289.
QueryRows(q) ==
  /\ request[q].pc = "query"
  /\ Answer(q, [request[q] EXCEPT !.pc = "add", !.todo = Enabled])
  /\ UNCHANGED <<rows, logs, running, jobs, run, count, history>>

\* Lines 290-291: from the rows as they were read; a rejected expression is
\* logged and the row goes without a job.
AddJob(q, i, c) ==
  /\ request[q].pc = "add"
  /\ <<i, c>> \in request[q].todo
  /\ jobs' = IF c \in GoodCrons THEN [jobs EXCEPT ![i] = c] ELSE jobs
  /\ Answer(q, [request[q] EXCEPT !.todo = @ \ {<<i, c>>}])
  /\ UNCHANGED <<rows, logs, running, run, count, history>>

\* Lines 266-275: the DHCP job is back, and the rows are compared with the jobs.
SyncNextRuns(q) ==
  /\ request[q].pc = "add"
  /\ request[q].todo = {}
  /\ jobs' = [jobs EXCEPT ![DhcpJob] = "interval"]
  /\ Answer(q, [request[q] EXCEPT !.pc = "sync", !.todo = {<<i, jobs[i]>> : i \in Stored}])
  /\ UNCHANGED <<rows, logs, running, run, count, history>>

\* Line 276: one commit; a change to a row that is gone undoes it all.
CommitNextRuns(q) ==
  LET todo == request[q].todo
      known == {i \in Stored : \E job \in todo : job[1] = i}
  IN  /\ request[q].pc = "sync"
      /\ \/ rows' = [i \in Ids |-> IF i \in known
                                   THEN [rows[i] EXCEPT !.planned = <<i, None>> \notin todo]
                                   ELSE rows[i]]
         \/ Cardinality(todo) # Cardinality(known) /\ UNCHANGED rows
      /\ Answer(q, IdleRequest)
      /\ UNCHANGED <<logs, running, jobs, run, count, history>>

(***************************************************************************)
(* init_scheduler in a new process                                         *)
(***************************************************************************)
\* Lines 189-208: a type without any row gets its default one.
Defaulted(table) ==
  LET missing == {t \in Types : \A i \in StoredIn(table) : table[i].type # t}
      new == (Top(table) + 1) .. (Top(table) + Cardinality(missing))
      fresh(t) == [type |-> t, cron |-> CHOOSE c \in GoodCrons : TRUE,
                   enabled |-> t \in DeviceTypes, planned |-> FALSE, last |-> None]
  IN  {[i \in Ids |-> IF i \in new THEN fresh(f[i]) ELSE table[i]] :
         f \in {g \in Bijection(new, missing) : new \subseteq Ids}}

\* Lines 211-221: rows and jobs agree before the first request is served.
Loaded(table) ==
  [i \in Ids |-> IF table[i] = None THEN None
                 ELSE [table[i] EXCEPT !.planned = Wanted(table)[i] # None]]

\* The process stops at any point and starts again: rows and logs survive.
Restart ==
  /\ Event
  /\ \E table \in Defaulted(rows) : rows' = Loaded(table)
  /\ jobs' = Wanted(rows')
  /\ running' = {}
  /\ run' = [r \in Runners |-> IdleRun]
  /\ request' = [q \in Requesters |-> IdleRequest]
  /\ shared' = {}
  /\ crossed' = FALSE
  /\ UNCHANGED <<logs, foreign>>

(***************************************************************************)
(* Specification                                                           *)
(***************************************************************************)
Init ==
  /\ \E table \in Defaulted([i \in Ids |-> None]) : rows = Loaded(table)
  /\ logs = [t \in Types |-> <<>>]
  /\ running = {}
  /\ jobs = Wanted(rows)
  /\ run = [r \in Runners |-> IdleRun]
  /\ request = [q \in Requesters |-> IdleRequest]
  /\ count = 0
  /\ shared = {}
  /\ crossed = FALSE
  /\ foreign = {}

\* What a started run does; nothing here waits for a user.
Step(r) ==
  \/ Enter(r) \/ Skip(r) \/ Begin(r)
  \/ \E status \in Results : Finish(r, status)
  \/ Raise(r)
  \/ Leave(r) \/ ReadResult(r) \/ WriteResult(r)

Reload(q) ==
  \/ ListJobs(q)
  \/ \E i \in JobIds : RemoveJob(q, i)
  \/ QueryRows(q)
  \/ \E i \in Ids, c \in Crons : AddJob(q, i, c)
  \/ SyncNextRuns(q)
  \/ CommitNextRuns(q)

Change(q) ==
  \/ \E t \in Types, c \in Crons, e \in BOOLEAN : Create(q, t, c, e) \/ CommitUpdate(q, t, c, e)
  \/ \E op \in {"update", "toggle", "delete"}, i \in Ids : Read(q, op, i)
  \/ CommitToggle(q)
  \/ CommitDelete(q)

Next ==
  \/ \E r \in Runners : Step(r) \/ (\E i \in Ids : CronFires(r, i) \/ RunNow(r, i))
                          \/ (\E t \in Types : RunBatch(r, t))
  \/ \E q \in Requesters : Change(q) \/ Reload(q)
  \/ Restart

\* A thread that runs a task gets to run: its waits are network time-outs.
Fairness == \A r \in Runners : WF_vars(Step(r))
Spec == Init /\ [][Next]_vars /\ Fairness

(***************************************************************************)
(* Properties                                                              *)
(***************************************************************************)
RunState ==
  [pc : {"idle", "started", "entered", "handler", "failing", "leaving",
         "reporting", "writing"},
   id : Ids \cup {None}, cron : BOOLEAN, type : Types \cup {None}, log : Nat,
   failed : BOOLEAN, status : Statuses \cup {None}, own : BOOLEAN]

RequestState ==
  [pc : {"idle", "read", "reload", "remove", "query", "add", "sync"},
   op : {"update", "toggle", "delete", None}, id : Ids \cup {None}, was : Row \cup {None},
   todo : SUBSET (JobIds \X (Crons \cup {"interval", None}))]

\* Every variable keeps its type.
TypeOK ==
  /\ rows \in [Ids -> Row \cup {None}]
  /\ logs \in [Types -> Seq(Statuses)]
  /\ running \subseteq Ids
  /\ jobs \in [JobIds -> GoodCrons \cup {"interval", None}]
  /\ run \in [Runners -> RunState]
  /\ request \in [Requesters -> RequestState]
  /\ count \in 0 .. MaxEvents
  /\ shared \subseteq Ids
  /\ crossed \in BOOLEAN
  /\ foreign \subseteq Ids

\* A schedule shown as running is executed by some thread, however its runs
\* ended and overlapped (the finally block of _run_task); and one whose runs
\* never overlapped is shown as running all the while it executes, whatever
\* other schedules of its task type do (the set is keyed by schedule id).
IndicatorIsHonest ==
  /\ \A i \in running : Executing(i) # {}
  /\ \A i \in Ids \ shared : Executing(i) # {} => i \in running

\* When requests were served one at a time, then at rest APScheduler holds the
\* jobs of exactly the enabled schedules whose expression it accepts, with the
\* expression stored last, and the stored plans say so (reload_scheduler).
JobsFollowRows ==
  ~crossed /\ (\A q \in Requesters : request[q].pc = "idle") =>
    /\ jobs = Wanted(rows)
    /\ \A i \in Stored : rows[i].planned <=> jobs[i] # None

\* A schedule is left with the status "running" only by a report that took
\* another task's log for its own (_persist_schedule_result reads the latest
\* log of the task type).
RunningStatusIsForeign ==
  \A i \in Stored : rows[i].last = "running" => i \in foreign

\* The indicator of every schedule clears again and again: no run, failed,
\* skipped or overtaken by a deletion, leaves it on for ever.
IndicatorClears == \A i \in Ids : []<>(i \notin running)

\* "Reload all schedules from database": at rest the jobs are those of the
\* enabled rows, whichever requests overlapped.
JobsAlwaysFollowRows == (\A q \in Requesters : request[q].pc = "idle") => jobs = Wanted(rows)

\* "Tracks which schedule ids are currently executing": an executing schedule
\* is in the set.
ExecutingIsShown == \A i \in Ids : Executing(i) # {} => i \in running

\* The rows of task_logs behave as TaskLog says, whichever runs and batches of a
\* type overlap and wherever the process stops: the n-th log of a type is stored
\* as running, ends at most once and never changes again.
Entries == Types \X (Nat \ {0})
StatusOf(e) == IF e[2] <= Len(logs[e[1]]) THEN logs[e[1]][e[2]] ELSE "none"
TaskLogs == INSTANCE TaskLog WITH status <- [e \in Entries |-> StatusOf(e)]
ImplementsTaskLog == TaskLogs!Spec
=============================================================================
