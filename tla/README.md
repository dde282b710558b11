# Fleet Compliance API: a verification development

The repository is the back end of a fleet-management service. Tachograph-like
activities of drivers are submitted over HTTP; driving-time rules are evaluated
over them in PostgreSQL; violations are recorded and listed. What can go wrong
happens where several actors meet: transactions of several processes in the
unique and exclusion indexes of `fms.activity_records`; two stored procedures
that run for seconds under READ COMMITTED; readers between their commits;
threads around the connection pool; and callbacks of the HTTP server around
keep-alive, lost clients, background tasks and shutdown.

This directory holds TLA+ models of that behaviour, TLC configurations that
check them on small instances, and proofs that TLAPS checks for every instance.

To repeat everything: `tlc -config <cfg> <module>.tla` for each run of
`PROJECT.json`, and `tlapm` for each `...Proofs` module.

## 1. The system

| component | source (below `src/`) | state | operations |
|---|---|---|---|
| activity submission | `routers/activities.py`, `db_script/V6`, constraints in `V3` | `fms.activity_records` | `POST /drivers/{id}/activity` |
| compliance check | `routers/compliance.py:24-74`, `db_script/V8` | `fms.compliance_runs`, `fms.compliance_violations` | `POST .../compliance-check` (202, background task), `sp_run_compliance_check` |
| reprocess | `db_script/V10` (called by operators, from no Python code) | the same tables, a temporary table, an advisory lock per driver | `sp_reprocess_driver_compliance` |
| driving-time rules | the `INSERT ... SELECT`s of V8 and V10 | none | daily, weekly, fortnight, continuous driving |
| compliance reads | `routers/compliance.py:77-388` | none | a run with its summary; violations page by page |
| connection pool | `database.py`, `lib/psycopg_pool/` | connections, queue of clients, `_nconns`, `_growing` | `pool.connection()`, maintenance tasks |
| HTTP serving | `lib/uvicorn` (h11 protocol, server), the parts of `lib/starlette` and `lib/anyio` below the handlers | connections, cycles, tasks, threads | keep-alive, pipelining, background tasks, graceful shutdown |
| driver registration | `routers/drivers.py` | `fms.drivers` | `POST /drivers` |
| health, correlation id | `routers/health.py`, `middleware/correlation.py` | none | `SELECT 1`; a header copied through |
| migrations | `db_script/V1..V11` | the schema | a sequence of scripts |
| seed data | `seed/generate_activity_data.py`, `V11` | a clock | generate activities |
| legacy | `app_old.py`, `models_old.py`, `auth.py`, `exceptions/handlers.py` | - | imported by nothing that runs |
| other vendored packages | `lib/` | - | as installed |

How they interact. Handlers are `async def` functions that call psycopg without
awaiting, so one API process runs one handler at a time, and concurrency on the
activity table comes from several processes (or replicas). A compliance check is
answered before anything is stored; its task runs later in a worker thread of
the same process, so several checks of one process do run at once, limited by
the threads and the pool. Checks, reprocesses, reads and submissions share the
tables and nothing else: a reprocess takes an advisory lock on its driver, a
check does not. Every one of them waits for the same pool.

What is hard, and what makes each part correct:

* *Submission.* Check-then-act twice (key, then overlap) under READ COMMITTED;
  waits in two indexes, deadlocks between them; a commit whose acknowledgement is
  lost; retries. Correct: no overlap, one record per key, true answers,
  recognised retries, every submission answered.
* *Check and reprocess.* Each rule sees another snapshot; an EXCEPTION block
  that runs after its own subtransaction is undone; a delete with a newer
  snapshot than the recomputation; waits for the pool, the lock, the run id and
  the run row. Correct: sound, complete and whole reports, no run failed by
  another, each excess rebuilt once, every call ends.
* *Rules.* Boundaries of days, weeks, gaps and periods; window functions and an
  outer join that must compute what the rule means.
* *Reads.* Two statements with two snapshots; pages of a table whose rows have
  random ids and come and go between two requests. Correct: number and breakdown
  disagree only for a cause that can be named; a listing repeats nothing, misses
  nothing that was there throughout, keeps its `has_more`, and ends.
* *Pool.* A timeout racing a connection handed over; replacements, attempts given
  up, a flag shared by growing tasks; a user that closes its connections. Correct:
  the count is true, no connection is lost, shared or idle beside a waiting
  client, and the pool recovers from an outage.
* *Serving.* Timers, lost connections and failures of one request that meet
  another request on the same connection. Correct: answers in order, lost only
  for a cause, accepted checks executed, shutdown ends.

`PROJECT.json` lists every hazard at its line with the properties that cover it.

## 2. The modules

| module | models | builds on |
|---|---|---|
| `Activities` | request bodies, rows, the two validations, the relations of the two constraints | |
| `ActivityLedger` | what the endpoint promises: an append-only ledger and true answers (abstract) | `Activities` |
| `ActivityRecords` | `submit_activity_record` and `fn_create_activity_record`, statement by statement | `Activities`, implements `ActivityLedger` |
| `DrivingRules` | each rule as a function from a set of activities to the violations it inserts | |
| `DrivingLog` | a growing log, on which the rules are compared with their meaning | `DrivingRules` |
| `RunLedger` | what readers may rely on: the tables change by one whole run at a time (abstract) | |
| `ComplianceRuns` | both procedures, the background task and its pool, beside arriving activities | `DrivingRules`, implements `RunLedger` |
| `ComplianceReads` | the two GET endpoints beside completing calls | composed with `RunLedger` |
| `PoolPromise` | what a pool promises: connections lent to one client at a time, first come first served (abstract) | |
| `ConnectionPool` | psycopg_pool as `database.py` uses it, with a database that goes down and comes back | implements `PoolPromise` |
| `ServicePromise` | what the API promises: requests of a connection one by one, a driver stored by the step that decides on the answer or not at all, accepted checks run at most once (abstract) | |
| `Serving` | one uvicorn process: connections, cycles, handlers, background tasks, shutdown | implements `ServicePromise` |
| `...Proofs` | inductive invariants and the theorems of section 4 | the module named |
| `MC...` | the instances | |

### 2.1 ActivityRecords

`pc[w]` is the statement the process `w` executes next: `idle`, then `validate`
(V6:39-71), `lookup` (V6:77-96), `overlap` (V6:103-134), `insert` and `exclude`
(V6:140-163, in two steps because the row is visible to other transactions'
index checks between the unique and the exclusion index), `commit`
(activities.py:66), `respond` or `except` (the two ways out of the handler).
`records` are the committed rows; `uncommitted[w]` is what the open transaction
of `w` has inserted. A statement's snapshot is `records` when it starts.

How PostgreSQL decides is modelled as it decides: the unique index makes an
INSERT wait for a transaction in progress with the same key and refuses a
committed one (23505); the exclusion constraint inserts its entry first and then
waits for, or is refused by (23P01), what overlaps it, so that two such INSERTs
can wait for each other (`BreakDeadlock`, 40P01). NOT NULL (23502) and the length
of `source_reference` (22001) are checked before, foreign keys (23503) after.
Data is reduced to what the properties tell apart: ids and keys are model
values, times small integers, and a message is one of three.

Faults: the commit that is executed but not acknowledged, the connection lost
before it (also a pool timeout), and the death of the process. A rollback by a
lost session is immediate in the model; in reality the row may block others a
little longer, which is a longer wait, not another outcome. `WaitsFor(w)` is whom
a statement waits for. The deadlock test looks at pairs only, and `NeverStuck` says
that this misses no circle, however long.

`answers` and the field `prior` of a submission are history: they record what
clients were told, and whether the key was already stored on arrival.

### 2.2 DrivingRules and DrivingLog

A rule is written with sets where the SQL has GROUP BY, LEFT JOIN and window
functions: `Biweekly` for the join of a week with the next, `Lag`, `IsNewGroup`
and `GroupId` for the gap detection of rule 4. The thresholds are those of the
code, in seconds. Time is counted from a Monday 00:00 UTC and the session is in
UTC; V8:63 forces UTC for the day, V8:106 and V10:109 take the session's zone, so
a server in another zone would shift the other boundaries.

`DrivingLog` lets one driver's log grow by `Drive`, in any order, and compares:
`Spans` with the relation "driven without a break of more than 15 minutes
between", `Biweekly` with the sum of any two consecutive weeks, the rules on a
period with the rules on the whole log, and the log before with the log after.

### 2.3 ComplianceRuns and RunLedger

A task is one call of either procedure. `work[t]` holds what its transaction has
written and locked; `Commit` publishes it, `Raise` drops it (a plpgsql block with
an EXCEPTION clause is a subtransaction), `Rollback` ends the call. Each rule is
one statement with the snapshot of its moment. The check writes violations
directly, the reprocess into its staging table; the check's rule 3 has no period
filter and its rule 4 is missing from the reprocess, as in the code.

Waits: `GetConnection` for one of `PoolSize` connections; `TakeLock` for the
driver; `InsertRun` for another transaction that inserts the same run id;
`UpdateRun` and `MarkFailed` for one that holds the run's row. `WaitsFor(t)` puts
these together, for `NeverStuck`. `CountViolations` and `UpdateRun` are two steps
because the sub-select of the UPDATE reads its snapshot before the UPDATE waits
for the row.

`SeverityCast` says whether the database has an assignment cast from `text` to
`violation_severity_enum`. No script creates one, and without it a check of a
valid request, and a reprocess, dies in its first rule (run `failed`); all other
runs assume it, as a deployment that works must have it or its equivalent.
Likewise the search path is assumed to contain `fms`: V8:271 and V6:153 use
unqualified names.

`RunLedger` has no transaction, lock or statement: a completed run appears with
its violations in the place of those it replaces, or a second delivery of a check
adds to a run (`AddTo`). Its count is then only bounded from below, because it
was taken in an older snapshot than the one it is written beside.

Left out: `run_type`, `error_message`, the timestamps, `resolved_at`, and two
violations of one rule for one period by one task, which its GROUP BY excludes.

`baseline[t]` is history: the activities that were there when the procedure
began. `ReportsComplete` and `DeletedForCause` are relative to it. The latter says
what can be lost when a reprocess deletes and rebuilds: continuous driving, for
which it has no rule; an excess of which some driving goes on beyond the end of
its period, which its filter leaves out; and one that rests on driving recorded
after it had begun. The runs `rebuilt` and `race` show the first and the last of these
happen. They look only at driving that lies wholly within the reprocess's period, so
that the second is neither's cause: `DeletedAreRebuilt` at reports of continuous
driving, `DeletedAreRecomputed` at the others.

### 2.4 ComplianceReads

The tables change as `RunLedger` allows, by calls given as `Outcomes`: a first
check, its second delivery, a reprocess, a run of another driver. A reprocess
deletes any of the violations it may replace, as its DELETE may have looked before
some of them were committed. Ids are drawn in any order, as `gen_random_uuid()`
draws them. `SelectRun` and `SelectViolations` are the two statements of a GET,
each with its own snapshot (psycopg's default READ COMMITTED); `FetchPage` is one
request for one page, with the LIMIT of one row more, `has_more` and the cursor;
between two pages anything may complete. Rows and pages are sets, since ORDER BY
the id orders either. One client does one thing at a time, as reads change nothing
that another could notice. The limits 20 and 100 are scaled to 1 and 2.

`grown`, `shrunk`, `steady` and `vanished` are history: which runs had a second
delivery, which lost rows to a reprocess, which rows have been there since the
listing began, and whether one was deleted since the last page.

### 2.5 ConnectionPool and PoolPromise

Clients are the threads that call `pool.connection()`; `Checkers` run
`execute_compliance`, which closes its connection before it returns it, unless its
CALL has failed. `Work` is what a client does between `getconn` and `putconn`: its
statements find out that a connection is broken, succeed, or fail for another
reason, which leaves the connection alone. A
critical section under the pool's `_lock` is one step, and so is each step of a
`WaitingClient` under its own condition. Each member of `Conns` is a *place* that
`_nconns` counts: first an `AddConnection` task, then the new connection in a
worker's hand, then idle in the pool or out with a client; a replacement keeps its
place. `TimeOut` is the moment a wait reaches its deadline, `WakeUp` the moment
the client has the condition's lock back: between them a worker may still hand it
a connection. A worker's decision whether to go on growing takes the lock a second
time (`KeepGrowing`), after the connection was added. Positions in the queue that
were given up stay there until a connection skips them; adjacent ones are merged,
since nobody can tell how many there are, only whether the queue is empty.

`GoDown` breaks every connection without the clients' knowing (stale); the next
statement on it fails and marks it closed, so that it is replaced on its return
instead of being lent again (`FailsOnce`); a connection that breaks after the last
statement of its client is returned as it is. `ScheduleAgain` is the back-off of a
failed attempt, `GiveUpConnecting` its end after `reconnect_timeout`.

Left out, as nothing here calls them: `close`, `resize`, `check`, `wait`, reset
and configure hooks, `max_waiting`, the null pool and the async pool.

### 2.6 Serving

Each action of the event loop is one callback. `conn[c]` is the `H11Protocol` of a
connection: its transport, its keep-alive timer, what is buffered, and the flags
of its current `RequestResponseCycle`. `phase[r]` is how far the task of a request
is: created, handled (its answer is in the stream that `BaseHTTPMiddleware` puts
between handler and sender), background, thread, and how its background task
ended. Handlers never await while they work, so each is one step.
`execute_compliance` runs in one of `Threads` worker threads beside the loop. It
begins after its answer is written; in the code it may begin just before the last
chunk is, which nothing that it shares with the loop can tell apart. An error that
leaves a handler or a background task reaches `run_asgi` after the answer and
closes the *connection*, on which the next pipelined request may be in progress by
then (`SendAnswer`, `EndTask`). `ShutDown` and `Exit` are uvicorn's graceful
shutdown: idle connections are closed, busy ones after their answer, and then
tasks are awaited.

`ServicePromise` has neither loop nor timers nor threads: a request of a
connection is decided after the answer to the one before, told at most once, and
its check, if accepted, is run at most once. A driver is stored by the step that
decides on its registration's answer or never; a 201 promises that it is stored, a
500 nothing. It is the specification of a server that serves one request at a
time; pipelining, lost clients and the shutdown only leave steps out.

`CreateDriver` is the registration: one INSERT, two unique constraints, a commit
and no error handling, so that a clash is a 500, and so is a connection that
breaks: before the commit, when nothing is stored, or in it, when the driver may
be stored though its client is not told. The client's retry then clashes with its
own row. `drivers` are the registrations that have stored theirs. PostgreSQL may
execute a commit after the handler has seen the connection break; the model has it
executed by then or never, as it has for submissions and runs. A registration of
the same license or card that comes in between would wait in the unique index for
the outcome, and foreign keys to the row are of no interest while nobody knows its
id. `executions`, `outages` and `faults` are history.

## 3. The runs

| run | question | bounds | result |
|---|---|---|---|
| `submission` | safety, refinement and progress of the endpoint; can all of them wait? | 2 processes, 3 submissions, 8 requests that share keys and periods or are refused, one for each way (about 520,000 states) | holds |
| `twin` | is a simultaneous duplicate recognised? | 2 processes, 2 submissions | violated |
| `rules` | do the rules compute what they mean? | every log of up to 4 of 48 drives around the boundaries | holds |
| `reports` | sound, complete and whole reports; causes of failures and of deletions; the lock; refinement | 2 calls of either kind, 3 activities, pool of 2 (about 336,000 states) | holds |
| `runs_progress` | is somebody always able to go on, and does every call end? | 3 calls, pool of 1 | holds |
| `run_twin` | is a check delivered twice one run? | 2 calls, pool of 2 | violated |
| `failed` | is a failed run, here a reprocess, marked? | 2 calls, `SeverityCast = FALSE` | violated |
| `rebuilt` | is the continuous driving that a reprocess deletes rebuilt? | 2 calls, one after the other (pool of 1), 3 activities | violated |
| `race` | is what it deletes of the other rules recomputed? | 2 calls, pool of 2, 3 activities | violated |
| `pool` | the pool's safety, its promise, its recovery | 3 clients, one of them a checker; 1 to 2 connections in 3 places (about 420,000 states) | holds |
| `reads` | what readers are shown while calls complete | 5 ids, 4 outcomes, limits 1 and 2 (about 432,000 states) | holds |
| `serving` | the promise, losses, background work, registration, shutdown | 2 connections, 5 requests, 1 worker thread (about 531,000 states) | holds |

Why the bounds are enough. Every conflict on the activity table is between two
transactions, and two of the three submissions can follow one another: store, lose
the answer, retry; longer circles of waits than two are left to the proof of
`NeverStuck`. For the rules, a span boundary depends on two neighbours and what
surrounds them, so four drives show every case; the drives reach exactly, below
and above each limit, gap and midnight. For runs, the two procedures meet in
pairs; the progress run has three calls so that a queue forms behind a lock
holder. One reprocess of `reports` covers the two days of the drives exactly and
one ends in the middle of a drive, so that each cause of a deletion in
`DeletedForCause` occurs and none can be left out. In the pool, three clients make
a queue of two behind a user, the length at which its order matters, and two
connections are the least with which the pool grows, shrinks and has two to
confuse; a third place would be taken if the pool ever grew beyond `MaxSize`. For
reads, five ids allow a full page, the row behind it, a cursor whose row is
deleted and a row inserted on either side. In serving, pipelining and a timer or
fault of a request that meets the next one need two or three requests on a
connection, and a second connection competes for the thread. More actors than that
are covered by the proofs, which know no bound. `MaxAttempts`, `MaxLog`, `Tasks`,
`Ids`, `Conns` and `Script` are the only bounds inside the modules.

Deadlock checking is off because behaviours end when their bounded submissions,
logs, tasks, outcomes or requests are used up; waiting for ever is what the
liveness properties exclude.

Fairness is weak fairness throughout, and for what the program, its scheduler or
the server do by themselves:

* `submission`, `runs_progress`: `Progress` of each process and task. The
  interpreter and PostgreSQL execute the next statement when it can run, a lock
  waiter is woken when the lock is free, and the deadlock detector fires after
  `deadlock_timeout`. Nothing is assumed of clients, of faults or of the pool's
  timeout. Weak fairness is enough as the number of calls is bounded: nobody can
  be overtaken for ever.
* `pool`: `ClientStep` of each client (a wait ends at its deadline, a handler
  returns), `WorkerStep` of each place, `KeepGrowing`. Nothing is assumed of
  requests or of the database: `Recovers` takes "the database is up for good and
  clients keep coming" as its hypothesis. It does not promise service to a client
  that was already waiting: when every attempt to connect has been given up, only
  the next `getconn` makes the pool grow again.
* `reads`: the client asks for the next page and is answered.
* `serving`: the loop runs ready tasks, worker threads end, a closed transport is
  reported lost, the main loop ticks. A shutdown without
  `timeout_graceful_shutdown`, as configured here, waits for clients that never
  read; the model's answers are small and do not wait for them.

Refinements, each a PROPERTY of a run: `ImplementsLedger` (`ActivityRecords`
implements `ActivityLedger`), `PublishesWholeRuns` (`ComplianceRuns` implements
`RunLedger`), `KeepsPromise` (`ConnectionPool` implements `PoolPromise`, where the queue
with its given-up positions is the set of those who wait, `InLine`, and who of
them came before whom, `Earlier`), and the `KeepsPromise` of `Serving` (which
implements `ServicePromise` with its own `result`, `answers`, `drivers` and
`executions`). All four are also proved (section 4).

Some facts are proved and in no run, since a run would say nothing more: the type
invariants of the pool, the reads and the server; `AnswersInOrder`, which
`KeepsPromise` contains; and `TimerNeverInterrupts`, without which `LostForCause`
could not hold.

What the violated runs show is listed under `findings`: a simultaneous duplicate
is refused (23505, answered 500) instead of recognised; a check delivered twice at
once records its violations twice; a failed run leaves no FAILED row: in the trace
a reprocess, which dies in its first rule because no script makes the severity's
text an enum value; a reprocess that runs after a check loses the continuous
driving which the check had reported; and beside a check it loses a weekly
violation that the check has found in an activity recorded after the reprocess's
rules had run, and has committed before its DELETE. Two more disagreements are
hazards with a note and no run: the function's own handler overwrites its custom
overlap error (V6:178), and V9 adds a column that V2 has created.

## 4. The proofs

All hold for every value of the constants, under the named assumptions of the
module.

**ActivityRecordsProofs** proves `TypeCorrect`, `NeverOverlapping`,
`UniqueSource`, `TruthfulAnswers`, `RetriesAreRecognised`, `NoSubmissionStuck`
(`NeverStuck`) and `Refinement` (to `ActivityLedger`). The assumptions are those
of `Activities`: requests are well-formed, `Absent` is not a reference, the bound
is a natural number. None of the properties is inductive: that the table has no
overlap after a commit depends on what the committing transaction, and every other
one past the exclusion check, had established before. `IInv` adds:

* `Numbering`: submissions are numbered once and answered at most once, so a
  row's id belongs to one submission;
* `InFlight`: exactly between INSERT and end of transaction is a row in
  flight, and it is the one the request describes;
* `Established`: what the process knows at each statement (valid request,
  stored twin, own row stored, a true cause for each error);
* `KeyOwned`: the key of a row in flight is in no other row, committed or not;
* `PeriodOwned`: from the exclusion check to the commit, so is its period;
* `PriorFound`: a submission whose key was stored never passes the lookup.

The heart is `KeyOwnedKept` and `PeriodOwnedKept`: `InsertRecord` sees every other
row in flight and every committed row, so the key is free when it is taken, and
`CheckExclusion` the same for the period. That somebody can always move
follows from the same invariant: who waits in the unique index waits for a row in
flight, who waits with a row of its own in flight waits in the exclusion index for
one that overlaps it, and since overlapping is symmetric that one either waits for
it in turn, so that the detector has its pair, or is past the check and only has
to commit (`RowInFlightMoves`). The refinement maps `Commit` and
`CommitUnacknowledged` with a row in flight to `Store`, `Respond` and
`RespondError` to `Answer`, all else to stuttering.

**ComplianceRunsProofs** proves `RunsWhole` (`RunsAreWhole`), `FailuresHaveCause`
(`FailsForCause`, assuming `SeverityCast`), `NoCallStuck` (`NeverStuck`) and
`Refinement` (to `RunLedger`).
`IInv` says of each task, by the statement it is at, whether its transaction is
clean, owns its run or has joined another's, what it has reported and counted,
and that its counters are in order; and, as `Exclusive`, that at most one
transaction holds a run's row or inserts its id. The lemma `PublishOwned` shows
that a commit of an owned run is `Appear`, `PublishJoined` that one of a joined
run is `AddTo`. The rules enter only as functions that return finite sets.

`NoCallStuck` follows the order in which things are taken: connection, driver lock,
run id, run row. Who has a version of a run's row waits for nobody
(`RowHolderGoes`), so who waits for a row or an id waits for one that can go on
(`RowWaitEnds`); who has the driver's lock is past `TakeLock` and can at most wait
for those (`LockWaitEnds`, with `Spanned`: the lock is held from `TakeLock` to the
end of the transaction and at no other time); and who waits for a connection waits
for somebody that has one.

**DrivingRulesProofs** has the lemmas about the rules as functions of a set of
activities. Sums are folds that take a member by CHOOSE. A recursive function is
its own equation only if a function with that equation exists, so `SumExists` and
`SumUnique` come first; then `SumMember`: the sum is that of any member and the
others, in whatever order, and `SumOfCounts`: the counts of all groups add up.
There is no induction scheme to call upon; each of these looks at a smallest
subset for which it fails (`Smallest`, from the well-foundedness of strict
inclusion) and takes a member out of it. `RulesGrow` is what the other modules
use: what the rules find in some of a driver's activities they find, or more, in
all. For the calendar rules this is that sums grow; for rule 4, that an activity
in a gap only joins spans (`GroupsGrow`: a group that began between two activities
of one group would have a long gap before it, in which the shorter log had an
activity too).

**DrivingLogProofs** proves `Lasting` (`ExcessStays`), `NothingInvented`
(`WindowNeverInvents`), `Fortnights` (`NoFortnightMissed`) and `Unbroken`
(`SpansAreUnbroken`) for logs of any length over any periods. The invariant says
that the table holds a log: finite, in order, without overlap.

**ViolationsProofs** proves `RebuiltOnceOnly` (`RebuiltOnce`) on top of the
invariant of `ComplianceRunsProofs`: the driver's lock is held by one task from
`TakeLock` to its end (`LockExclusive`), each rebuilt violation has one author
(`Authored`), and what a reprocess has deleted or staged cannot be authored by
another before it commits. It goes on to `TypeCorrect` (`TypeOK`),
`ReportsBorneOut` (`ReportsSound`) and `NoneOverlooked` (`ReportsComplete`).
Neither report property is inductive, as a commit shows what was found several
statements before, from another snapshot. `ReportInv` therefore says of each
task, from its first rule to its commit: what it has found the activities bear
out *now* (`Justified`; that it survives arriving activities is `RulesGrow`), no
rule that it has behind it has missed what was there when it began (`Complete`),
and what it has noted to delete is still there (`Typed`; that nobody else takes it
away needs the lock again). That a driver's activities do not overlap
(`NoOverlap`) is part of it, as `RecordActivity` admits what the exclusion
constraint admits.

Last comes `LossesHaveCause` (`DeletedForCause`), about the step in which a
reprocess commits. It alone deletes (`WhoDeletes`). Take a violation it deletes
for none of the three causes. By `ReportsSound` the driver's activities still have
an excess of that rule and period; its driving began within the reprocess's period,
was there when it began and ends in time, so it is among what the reprocess has
looked at; a sum depends on the driving in its period only (`Recomputed`), so the
rule has found it (`Complete`), and has staged what covers the violation. That
covering excess and violation have one period, not overlapping ones, needs a
further invariant: `LengthInv`, that reports by the calendar are as long as their
limit says, in the table and in every transaction.

**ServingProofs** proves `TypeCorrect`, `AnswersCorrect`, `TimerCorrect`,
`LossesCorrect`, `AcceptedCorrect`, `RegistrationCorrect`, `ShutDownCorrect`
(`ShutDownDrains`) and `PromiseKept` (`KeepsPromise`). Its invariant has
the shape of the protocol object (`TypeInv`), which phase a request can have
given the connection's cycle (`Tracked`, `Working`), what has been written
(`Told`), why a connection is closed (the cause of each loss), how often a check
was executed (`Accounted`), that an exited server has nothing left to do (`Quiet`),
that only registrations store drivers (`Stored`), that threads do not exceed
their number (`Threaded`), that answers are written one after the other (`Serial`:
a connection has been told as many as lie before its current request), and that a
stopping server has closed or will close every connection (`Draining`).

For `PromiseKept` each action has one lemma. A request that is handled or answered
is the current one of its connection, hence by `Serial` the one whose turn it is
(`CurrentHasItsTurn`). A handler is then `Accept`, `Enter`, `Refuse` or `Report`
(`HandlingMaps`), an answer that is written is `Tell` (`SendAnswerMaps`), an
execution is `Run` (`LoneMaps`); timers, lost connections, bytes that come in, the
shutdown and answers that nobody is left to hear stutter (`StepsMap`).

**ConnectionPoolProofs** proves `TypeCorrect`, `CountStaysTrue`, `LentToOne`,
`NothingIdle`, `NoneKnownClosed` and `GrowsOneByOne`. Its invariant `PInv` has two
parts, so that each action is shown to keep the one it disturbs: `PlacesSound`
(the count, the flag, and `Open`: no idle or new connection is known to be closed) and
`LendingSound` (who has what, nothing idle while a client waits, and `Queue`: exactly
the clients that wait with empty hands have a position in the queue, one each). For
`NoneKnownClosed` a third, `Handed`, says that a client has a connection known to be
closed only between its work and the return; each of the two ways to lend one, from
the idle ones and from hand to hand, is shown to pass on only what `PutConn` has
found open or a worker has just made. `GivenUp`
and `Behind` are the facts about the queue when a position leaves it or a
connection skips to the first that still waits; `Added` is `_add_to_pool`.

From `PInv` it also proves `Refinement` (`KeepsPromise`). The lemma `Kept` says
that a queue whose live positions are those of another but one client's, in the
same order, is the other's line without that client; `CutBehind` and `Left` show
it of the two ways in which the code shortens the queue, and `NobodyFirst` that a
connection is put aside only if nobody is in line. `PutConn` is then `PassOn` or
`Return`, `Arrive` is `LendToFirst`, a `WakeUp` with empty hands is `GiveUp`, and
the rest stutters.

**ComplianceReadsProofs** proves `TypeCorrect`, `EachOnce` (`ListedOnce`),
`NoneMissed` (`NothingMissed`), `MoreKept` (`MoreMeansMore`) and `DifferForCause`
(`BreakdownAddsUp`). `Pages` is the fact about one request: if a row more than the
limit was found, the page is all rows up to its last id and others are behind it,
and otherwise it is all there are. It rests on `FirstAndLast`, that a set of rows
has a first and a last one, by well-founded induction over the strict subsets of a
finite set. The invariant `LInv` carries it through a listing: the cursor divides
the steady rows into those listed and those still to come (`Divided`), whatever
was inserted or deleted on either side. `MoreKept` says of each request, after
that, that a page which promises more is not empty and moves the cursor on, and
that the next one is empty only if a deletion came between. For the summary,
`CountsSound` says of every run in the table, and of the row that a GET in
progress has read, that its number is that of its violations or the cause of the
difference is on record (`Traced`); `TotalIs` adds the groups of the second
statement up to the violations of the run.

Only model-checked: liveness (`EventuallyAnswered`, `EventuallyOver`, `Recovers`,
`ListingEnds`, `GracefulExit`), as fairness and ENABLED are out of the prover's
reach. The part of each that is a safety property is proved: that somebody can
always go on (`NoSubmissionStuck`, `NoCallStuck`), that a listing's cursor only moves
on (`MoreKept`), that a stopping server waits for no idle connection
(`ShutDownCorrect`), and that no connection idles while a client waits
(`NothingIdle`). What the properties about progress add to them is that whoever can
go on does. Every invariant, action property and refinement of a passing run is
proved.

The assumptions on the constants are named where they are declared. Those that
come from the program are the CHECK `chk_time_order` (`PossibleAssumption`,
`PeriodsAssumption`: an activity ends after it started), the ids that are never
null (`AbsentAssumption`), the enums of the violations' columns (`EnumsAssumption`,
`OutcomesAssumption`), the pool's and the thread limiter's sizes, and that a
request has two times (`CallsAssumption`). TLC evaluates all of them in the runs.

## 5. The plan

Done: the endpoint, the two procedures and their rules; the reads; the pool; the
server with registration, health check and middleware; an abstract specification
and a proved refinement for each of the four parts that others rely on, clients
included; proofs for all of the state machines, and for the rules.

What is left to state and prove about the models as they are: the safety part of
`Recovers`, in which states of the pool an attempt to connect is always under way;
and that of `GracefulExit`, that a thread of the limiter is free or in use by a check
that ends.

What could be added are other questions: the serving model with bodies in pieces
and slow clients, or the check under a session time zone other than UTC.

## 6. Not modelled

* Most of `lib/`: routing, validation, encodings, TLS, typing machinery and
  command lines of the installed packages, third-party code by far larger
  than the program. It has no state that this program's requests share.
  Modelled are the two packages on whose concurrency the program rests.
* In the server: bodies in several pieces, slow clients and flow control,
  `Connection: close`, websockets, a second signal (`force_exit`).
* The sequence of migrations: a script either runs or stops Flyway before the
  program starts. The schema assumed is the one of a repaired V9.
* Seed generators and SQL tests, run by hand on an empty table.
  `concurrent_insert_test.py` is a client of the activity endpoint; run
  `submission` contains its scenario.
* `auth.py`, `app_old.py`, `models_old.py` and `exceptions/handlers.py` are loaded
  by nothing; `main.py` and `logger_config.py` wire and configure.
* PostgreSQL is modelled by its use: index waits, snapshots, subtransactions,
  advisory locks, the deadlock detector. The contents of error texts are left out.
