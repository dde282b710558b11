--------------------------- MODULE ComplianceRuns ---------------------------
(***************************************************************************)
(* Compliance runs over a driver's activities: POST /drivers/{id}/         *)
(* compliance-check, whose background task calls                           *)
(* fms.sp_run_compliance_check(), and fms.sp_reprocess_driver_compliance(),*)
(* which operators call. Each call is one transaction; calls interleave    *)
(* statement by statement with each other and with activities that arrive. *)
(* READ COMMITTED: each statement sees what is committed when it starts,   *)
(* and the writes of its own transaction.                                  *)
(*                                                                         *)
(* A plpgsql block with an EXCEPTION clause is a subtransaction: when an   *)
(* error leaves the body, all it wrote and locked is undone before the     *)
(* handler runs.                                                           *)
(***************************************************************************)
EXTENDS DrivingRules

CONSTANTS
    Drivers,        \* the driver ids present in fms.drivers
    Possible,       \* the activities that clients may submit
    Calls,          \* the calls that clients and operators make
    Tasks,          \* bound: one task for each call of a behaviour
    PoolSize,       \* connections in the API's pool
    SeverityCast    \* does text have an assignment cast to violation_severity_enum?

ASSUME PoolAssumption == PoolSize \in Nat \ {0}
ASSUME CastAssumption == SeverityCast \in BOOLEAN
ASSUME CallsAssumption ==
    /\ Calls # {}
    /\ \A c \in Calls : c.kind \in {"check", "reprocess"} /\ c.from \in Int /\ c.to \in Int
(* chk_time_order *)
ASSUME PossibleAssumption ==
    \A x \in Possible : x.started \in Int /\ x.ended \in Int /\ x.started < x.ended

VARIABLES
    activities,     \* committed rows of fms.activity_records
    runs,           \* committed rows of fms.compliance_runs
    violations,     \* committed rows of fms.compliance_violations
    pc,             \* pc[t]: the statement t is about to execute
    call,           \* call[t]: the call t serves
    work,           \* work[t]: what t has written and locked, not committed
    baseline        \* history: the activities when t had recorded its run

vars == <<activities, runs, violations, pc, call, work, baseline>>

(* row: t's version of its run's row; inserted: t put the row there;       *)
(* locked: t holds the advisory lock of its driver; staged: t's temporary  *)
(* table; count: v_violation_count, or the sub-select of the last UPDATE.  *)
NoWork ==
    [row |-> {}, inserted |-> FALSE, locked |-> FALSE,
     added |-> {}, removed |-> {}, staged |-> {}, count |-> 0]

Rules     == {"daily", "weekly", "biweekly", "continuous"}
InBody    == Rules \cup {"exists", "lock", "insert", "delete", "rebuild", "count", "update"}
InSession == InBody \cup {"except", "reraise", "commit"}

Init ==
    /\ activities = {}
    /\ runs = {}
    /\ violations = {}
    /\ pc = [t \in Tasks |-> "new"]
    /\ call = [t \in Tasks |-> CHOOSE c \in Calls : TRUE]
    /\ work = [t \in Tasks |-> NoWork]
    /\ baseline = [t \in Tasks |-> {}]

-----------------------------------------------------------------------------
Goto(t, label) == pc' = [pc EXCEPT ![t] = label]

Tables == <<activities, runs, violations>>

(* The next statement, with these writes and locks in hand. *)
Continue(t, label, w) ==
    /\ Goto(t, label)
    /\ work' = [work EXCEPT ![t] = w]
    /\ UNCHANGED <<Tables, call, baseline>>

Raise(t) == Continue(t, "except", NoWork)

(* The transaction is over, with nothing of it left. *)
Rollback(t) == Continue(t, "failed", NoWork)

RowsOf(t) == {r \in runs : r.run = call[t].run}

(* Other transactions that have inserted, or hold a lock on, t's run row. *)
Inserting(t) == {u \in Tasks \ {t} : work[u].inserted /\ call[u].run = call[t].run}
Updating(t)  == {u \in Tasks \ {t} : work[u].row # {} /\ call[u].run = call[t].run}

(* The tasks with the advisory lock of t's driver, and with a connection.  *)
LockHolders(t) == {u \in Tasks : work[u].locked /\ call[u].driver = call[t].driver}
Connected == {u \in Tasks : call[u].kind = "check" /\ pc[u] \in InSession}

-----------------------------------------------------------------------------
(* fn_create_activity_record commits one more activity. *)
RecordActivity(x) ==
    /\ x \notin activities
    /\ \A y \in activities :
         y.driver = x.driver => y.ended <= x.started \/ x.ended <= y.started
    /\ activities' = activities \cup {x}
    /\ UNCHANGED <<runs, violations, pc, call, work, baseline>>

(* The endpoint answers 202 and queues the background task; an operator's  *)
(* call of the reprocess procedure starts at once, in its own session.     *)
Accept(t, c) ==
    /\ pc[t] = "new"
    /\ call' = [call EXCEPT ![t] = c]
    /\ Goto(t, IF c.kind = "check" THEN "queued" ELSE "exists")
    /\ UNCHANGED <<Tables, work, baseline>>

(* pool.connection(): waits for one of the pool's connections. *)
GetConnection(t) ==
    /\ pc[t] = "queued"
    /\ Cardinality(Connected) < PoolSize
    /\ Continue(t, "exists", NoWork)

(* PoolTimeout, or no connection to be had: the accepted run is forgotten. *)
PoolTimeout(t) ==
    /\ pc[t] = "queued"
    /\ Rollback(t)

-----------------------------------------------------------------------------
(* Idempotency: a committed run with this id ends the call. *)
CheckExists(t) ==
    /\ pc[t] = "exists"
    /\ Continue(t, IF RowsOf(t) # {} THEN "commit"
                   ELSE IF call[t].kind = "check" THEN "insert" ELSE "lock", NoWork)

(* Mutant: the lock is tried for, not waited for. *)
TakeLock_Try(t) ==
    /\ pc[t] = "lock"
    /\ Continue(t, "insert", [work[t] EXCEPT !.locked = TRUE])

(* pg_advisory_xact_lock(hashtext(p_driver_id)) *)
TakeLock(t) ==
    /\ pc[t] = "lock"
    /\ LockHolders(t) = {}
    /\ Continue(t, "insert", [work[t] EXCEPT !.locked = TRUE])

(* Mutant: the row says what the endpoint says, which the enum has not. *)
RunRow_Accepted(t, status, found) ==
    [run |-> call[t].run, driver |-> call[t].driver, kind |-> call[t].kind,
     from |-> call[t].from, to |-> call[t].to, status |-> "ACCEPTED", found |-> found]

RunRow(t, status, found) ==
    [run |-> call[t].run, driver |-> call[t].driver, kind |-> call[t].kind,
     from |-> call[t].from, to |-> call[t].to, status |-> status, found |-> found]

(* Mutant: the check's INSERT without ON CONFLICT DO NOTHING. *)
InsertRun_NoOnConflict(t) ==
    /\ pc[t] = "insert"
    /\ Inserting(t) = {}
    /\ IF RowsOf(t) # {}
       THEN Raise(t)
       ELSE /\ Goto(t, "daily")
            /\ work' = [work EXCEPT ![t].row = {RunRow(t, "RUNNING", 0)},
                                    ![t].inserted = TRUE]
            /\ baseline' = [baseline EXCEPT ![t] = activities]
            /\ UNCHANGED <<Tables, call>>

(* The run's row, unless its period is empty. The primary key makes the    *)
(* INSERT wait for a transaction that is inserting the same run id; if the *)
(* id is taken then, the check does nothing (ON CONFLICT) and goes on, the *)
(* reprocess fails. An unknown driver violates the foreign key.            *)
InsertRun(t) ==
    /\ pc[t] = "insert"
    /\ \/ /\ call[t].from >= call[t].to
          /\ Raise(t)
       \/ /\ call[t].from < call[t].to
          /\ Inserting(t) = {}
          /\ IF RowsOf(t) = {}
             THEN IF call[t].driver \in Drivers
                  THEN /\ Goto(t, "daily")
                       /\ work' = [work EXCEPT ![t].row = {RunRow(t, "RUNNING", 0)},
                                               ![t].inserted = TRUE]
                       /\ baseline' = [baseline EXCEPT ![t] = activities]
                       /\ UNCHANGED <<Tables, call>>
                  ELSE Raise(t)
             ELSE IF call[t].kind = "check"
                  THEN /\ Goto(t, "daily")
                       /\ baseline' = [baseline EXCEPT ![t] = activities]
                       /\ UNCHANGED <<Tables, call, work>>
                  ELSE Raise(t)

-----------------------------------------------------------------------------
(* Mutant: activities of every type are counted as driving. *)
Driven_AnyType(t) == {x \in activities : x.driver = call[t].driver}

Driven(t) == Driving(activities, call[t].driver)

InWindow(t) == Within(Driven(t), call[t].from, call[t].to)

(* The excesses as rows of t's run; by makes their violation_id. *)
Reports(t, S) ==
    {[excess |-> e, driver |-> call[t].driver, run |-> call[t].run, by |-> t] : e \in S}

(* A rule's INSERT: straight into the table, or into the staging table. *)
Report(t, S, next) ==
    Continue(t, next, IF call[t].kind = "check"
                      THEN [work[t] EXCEPT !.added = @ \cup Reports(t, S)]
                      ELSE [work[t] EXCEPT !.staged = @ \cup S])

(* The rule's severity is a CASE, so of type text: without an assignment   *)
(* cast the INSERT cannot be analysed.                                     *)
DailyRule(t) ==
    /\ pc[t] = "daily"
    /\ IF SeverityCast THEN Report(t, Daily(InWindow(t)), "weekly") ELSE Raise(t)

WeeklyRule(t) ==
    /\ pc[t] = "weekly"
    /\ Report(t, Weekly(InWindow(t)), "biweekly")

(* Mutant: the check restricts rule 3 to its period, as the reprocess does. *)
BiweeklyRule_InWindow(t) ==
    /\ pc[t] = "biweekly"
    /\ Report(t, Biweekly(InWindow(t)),
              IF call[t].kind = "check" THEN "continuous" ELSE "delete")

(* The check looks at all driving of the driver, whatever its period. *)
BiweeklyRule(t) ==
    /\ pc[t] = "biweekly"
    /\ \/ /\ call[t].kind = "check"
          /\ Report(t, Biweekly(Driven(t)), "continuous")
       \/ /\ call[t].kind = "reprocess"
          /\ Report(t, Biweekly(InWindow(t)), "delete")

(* The check alone has rule 4. *)
ContinuousRule(t) ==
    /\ pc[t] = "continuous"
    /\ Report(t, Continuous(InWindow(t)), "count")

-----------------------------------------------------------------------------
(* Mutant: the violations whose periods overlap the period. *)
Superseded_Overlapping(t) ==
    {v \in violations : /\ v.driver = call[t].driver
                        /\ v.excess.from < call[t].to /\ call[t].from < v.excess.to}

(* The violations of the driver, of every type, within the period. *)
Superseded(t) ==
    {v \in violations : /\ v.driver = call[t].driver
                        /\ call[t].from <= v.excess.from /\ v.excess.to <= call[t].to}

(* Mutant: the deletion is committed before the rebuilt rows are written. *)
DeleteSuperseded_Committed(t) ==
    /\ pc[t] = "delete"
    /\ violations' = violations \ Superseded(t)
    /\ Goto(t, "rebuild")
    /\ work' = [work EXCEPT ![t].count = Cardinality(work[t].staged)]
    /\ UNCHANGED <<activities, runs, call, baseline>>

(* The count of the staging table, then the DELETE. *)
DeleteSuperseded(t) ==
    /\ pc[t] = "delete"
    /\ Continue(t, "rebuild", [work[t] EXCEPT !.count = Cardinality(work[t].staged),
                                              !.removed = Superseded(t)])

InsertRebuilt(t) ==
    /\ pc[t] = "rebuild"
    /\ Continue(t, "update", [work[t] EXCEPT !.added = Reports(t, work[t].staged)])

(* The check's UPDATE starts: its sub-select counts what its snapshot has. *)
CountViolations(t) ==
    /\ pc[t] = "count"
    /\ Continue(t, "update", [work[t] EXCEPT !.count =
         Cardinality({v \in violations \cup work[t].added : v.run = call[t].run})])

(* ... and the UPDATE gets at the row, after waiting for whoever has it. *)
UpdateRun(t) ==
    /\ pc[t] = "update"
    /\ Updating(t) = {}
    /\ Continue(t, "commit", [work[t] EXCEPT !.row =
         {[r EXCEPT !.status = "COMPLETED", !.found = work[t].count] :
             r \in IF work[t].inserted THEN work[t].row ELSE RowsOf(t)}])

-----------------------------------------------------------------------------
(* WHEN OTHERS: what the body wrote is undone already, so there is no row  *)
(* to mark unless another call has committed one under the same id.        *)
MarkFailed(t) ==
    /\ pc[t] = "except"
    /\ Updating(t) = {} \/ RowsOf(t) = {}
    /\ Continue(t, "reraise", [work[t] EXCEPT !.row =
         {[r EXCEPT !.status = "FAILED"] : r \in RowsOf(t)}])

(* Mutant: the connection goes back to the pool in its open transaction. *)
Reraise_Leaked(t) ==
    /\ pc[t] = "reraise"
    /\ Continue(t, "failed", work[t])

(* Mutant: the handler swallows the error, and the caller commits. *)
Reraise_Swallowed(t) ==
    /\ pc[t] = "reraise"
    /\ Continue(t, "commit", work[t])

(* RAISE ends the CALL in an error, and the transaction is rolled back. *)
Reraise(t) ==
    /\ pc[t] = "reraise"
    /\ Rollback(t)

(* Mutant: the advisory lock is the session's, not the transaction's. *)
Publish_LockKept(t) ==
    /\ runs' = (IF work[t].row = {} THEN runs ELSE runs \ RowsOf(t)) \cup work[t].row
    /\ violations' = (violations \ work[t].removed) \cup work[t].added
    /\ work' = [work EXCEPT ![t] = [NoWork EXCEPT !.locked = work[t].locked]]
    /\ UNCHANGED <<activities, call, baseline>>

Publish(t) ==
    /\ runs' = (IF work[t].row = {} THEN runs ELSE runs \ RowsOf(t)) \cup work[t].row
    /\ violations' = (violations \ work[t].removed) \cup work[t].added
    /\ work' = [work EXCEPT ![t] = NoWork]
    /\ UNCHANGED <<activities, call, baseline>>

(* conn.commit(), after which the connection is closed or given back. *)
Commit(t) ==
    /\ pc[t] = "commit"
    /\ Publish(t)
    /\ Goto(t, "done")

(* The connection breaks while it commits. *)
CommitUnacknowledged(t) ==
    /\ pc[t] = "commit"
    /\ Publish(t)
    /\ Goto(t, "failed")

(* The session ends before that: the server rolls back. *)
ConnectionLost(t) ==
    /\ pc[t] \in InSession
    /\ Rollback(t)

(* The API process dies with its tasks, those queued included. *)
Crash ==
    LET dying == {t \in Tasks : call[t].kind = "check" /\ pc[t] \in InSession \cup {"queued"}}
    IN  /\ dying # {}
        /\ pc' = [t \in Tasks |-> IF t \in dying THEN "failed" ELSE pc[t]]
        /\ work' = [t \in Tasks |-> IF t \in dying THEN NoWork ELSE work[t]]
        /\ UNCHANGED <<Tables, call, baseline>>

-----------------------------------------------------------------------------
(* What the code and the server do by themselves. *)
Progress(t) ==
    \/ GetConnection(t)
    \/ CheckExists(t)
    \/ TakeLock(t)
    \/ InsertRun(t)
    \/ DailyRule(t)
    \/ WeeklyRule(t)
    \/ BiweeklyRule(t)
    \/ ContinuousRule(t)
    \/ DeleteSuperseded(t)
    \/ InsertRebuilt(t)
    \/ CountViolations(t)
    \/ UpdateRun(t)
    \/ MarkFailed(t)
    \/ Reraise(t)
    \/ Commit(t)

Fault(t) ==
    \/ PoolTimeout(t)
    \/ CommitUnacknowledged(t)
    \/ ConnectionLost(t)

Next ==
    \/ \E x \in Possible : RecordActivity(x)
    \/ \E t \in Tasks : (\E c \in Calls : Accept(t, c)) \/ Progress(t) \/ Fault(t)
    \/ Crash

Spec == Init /\ [][Next]_vars

(* A statement that can run does run, and lock waiters are served. *)
FairSpec == Spec /\ \A t \in Tasks : WF_vars(Progress(t))

-----------------------------------------------------------------------------
RunRows ==
    [run : {c.run : c \in Calls}, driver : {c.driver : c \in Calls},
     kind : {"check", "reprocess"}, from : Int, to : Int,
     status : {"RUNNING", "COMPLETED", "FAILED"}, found : Nat]

Excesses ==
    [type : {"DAILY_DRIVING_LIMIT", "WEEKLY_DRIVING_LIMIT", "EXCESS_CONTINUOUS_DRIVING"},
     severity : {"HIGH", "CRITICAL"}, from : Int, to : Int,
     measured : Nat, threshold : Nat]

ViolationRows ==
    [excess : Excesses, driver : {c.driver : c \in Calls},
     run : {c.run : c \in Calls}, by : Tasks]

TypeOK ==
    /\ activities \subseteq Possible
    /\ runs \subseteq RunRows
    /\ violations \subseteq ViolationRows
    /\ pc \in [Tasks -> InSession \cup {"new", "queued", "done", "failed"}]
    /\ call \in [Tasks -> Calls]
    /\ \A t \in Tasks :
         /\ work[t].row \subseteq RunRows /\ Cardinality(work[t].row) <= 1
         /\ work[t].inserted \in BOOLEAN /\ work[t].locked \in BOOLEAN
         /\ work[t].added \subseteq ViolationRows
         /\ work[t].removed \subseteq violations
         /\ work[t].staged \subseteq Excesses
         /\ work[t].count \in Nat
    /\ baseline \in [Tasks -> SUBSET Possible]

(* Every violation in the table is borne out by the activities in the      *)
(* table, whenever it was found: its rule still finds it, or more, though  *)
(* each rule of the run looked at another moment of a growing log.         *)
ReportsSound ==
    \A v \in violations :
        \E u \in AllRules(Driving(activities, v.driver)) : Covers(u, v.excess)

(* A run about to commit reports everything that was already wrong when it *)
(* was recorded: what arrives meanwhile can add to it but not hide it. The *)
(* reprocess does not recompute rule 4.                                    *)
ReportsComplete ==
    \A t \in Tasks : pc[t] = "commit" /\ work[t].row # {} =>
        LET all    == Driving(baseline[t], call[t].driver)
            within == Within(all, call[t].from, call[t].to)
        IN  \A e \in Daily(within) \cup Weekly(within) \cup
                 (IF call[t].kind = "check"
                  THEN Biweekly(all) \cup Continuous(within)
                  ELSE Biweekly(within)) :
                \E v \in work[t].added : Covers(v.excess, e)

(* A reader sees a run whole or not at all: RUNNING and FAILED never show, *)
(* a run id has one row, and no violation is without its run.              *)
RunsAreWhole ==
    /\ \A r \in runs : r.status = "COMPLETED"
    /\ \A q, r \in runs : q.run = r.run => q = r
    /\ \A v \in violations : \E r \in runs : r.run = v.run

(* A run fails by itself for a cause in its request alone: its period, its *)
(* driver, or, for a reprocess, a run id already taken. Any other comes to *)
(* its "Mark completed", whatever runs beside it.                          *)
FailsForCause ==
    \A t \in Tasks : pc[t] = "except" =>
        \/ call[t].from >= call[t].to
        \/ call[t].driver \notin Drivers
        \/ call[t].kind = "reprocess" /\ RowsOf(t) # {}

(* The driver's lock: of all reprocesses of a driver, concurrent or not,   *)
(* one alone accounts for an excess that lies within their periods, as     *)
(* each finds and replaces the rows of the one before                      *)
(* ("Driver-level lock", "Prevent concurrent reprocessing").               *)
Inside(v, c) == c.from <= v.excess.from /\ v.excess.to <= c.to

RebuiltOnce ==
    \A v, w \in violations :
        /\ v.driver = w.driver
        /\ v.excess.type = w.excess.type /\ v.excess.threshold = w.excess.threshold
        /\ v.excess.from = w.excess.from
        /\ \A t \in {v.by, w.by} : call[t].kind = "reprocess" /\ Inside(v, call[t])
        => v = w

(* The driving that a report by the calendar is about, as the log has it.  *)
Behind(v) ==
    {x \in Driving(activities, v.driver) :
        v.excess.from <= x.started /\ x.started < v.excess.to}

(* A violation leaves the table with the commit of a reprocess, and is     *)
(* lost for one of three causes: it is of continuous driving, which the    *)
(* reprocess does not recompute; some of its driving goes on beyond the    *)
(* end of the period; or some of it was recorded after the reprocess had   *)
(* begun. Any other is replaced by one that says as much, or more.         *)
DeletedForCause ==
    [][\A v \in violations \ violations' : \E t \in Tasks :
         /\ pc[t] = "commit" /\ pc'[t] # "commit" /\ call[t].kind = "reprocess"
         /\ \/ v.excess.type = "EXCESS_CONTINUOUS_DRIVING"
            \/ \E x \in Behind(v) : x.started < call[t].to /\ call[t].to < x.ended
            \/ \E x \in Behind(v) : x \notin baseline[t]
            \/ \E u \in violations' : u.driver = v.driver /\ Covers(u.excess, v.excess)]_vars

(* Readers are shown whole runs: whatever interleaves, breaks or crashes,  *)
(* the two tables change together, a run at a time, and violations leave   *)
(* only in the step that shows the reprocess that replaces them, with all  *)
(* it has rebuilt and their number: no reader meets a gap.                 *)
Ledger == INSTANCE RunLedger WITH runs <- runs, violations <- violations

PublishesWholeRuns == Ledger!Spec

(* Whom t waits for before its next statement. *)
WaitsFor(t) ==
    CASE pc[t] = "queued" -> IF Cardinality(Connected) < PoolSize THEN {} ELSE Connected
      [] pc[t] = "lock"   -> LockHolders(t)
      [] pc[t] = "insert" -> IF call[t].from < call[t].to THEN Inserting(t) ELSE {}
      [] pc[t] = "update" -> Updating(t)
      [] pc[t] = "except" -> IF RowsOf(t) # {} THEN Updating(t) ELSE {}
      [] OTHER -> {}

Unfinished == {t \in Tasks : pc[t] \in InSession \cup {"queued"}}

(* Not everyone waits for everyone: connection, driver lock, run id and    *)
(* run row are always taken in that order and given back at the end of the *)
(* transaction, so whenever calls are under way one of them can go on.     *)
NeverStuck == Unfinished # {} => \E t \in Unfinished : WaitsFor(t) = {}

(* Every call comes to its end: waits for a connection, for the lock of    *)
(* the driver, for a run id and for a run's row all end.                   *)
EventuallyOver == \A t \in Tasks : pc[t] # "new" ~> pc[t] \in {"done", "failed"}

-----------------------------------------------------------------------------
(* What comments in the procedures say and their code does not keep.       *)

(* "Idempotency for compliance run": a run id stands for one run, so its   *)
(* violations list no excess twice.                                        *)
ReportedOncePerRun ==
    \A v, w \in violations :
        /\ v.run = w.run
        /\ v.excess.type = w.excess.type /\ v.excess.threshold = w.excess.threshold
        /\ v.excess.from = w.excess.from
        => v = w

(* "Mark run failed": a run that ends in an error is there to be seen.     *)
FailedRunsAreMarked ==
    [][\A t \in Tasks : Reraise(t) =>
         \E r \in runs' : r.run = call[t].run /\ r.status = "FAILED"]_vars

(* The commit of the reprocess t deletes v, and all the driving behind v   *)
(* lies within the period of t.                                            *)
DeletesWithin(t, v) ==
    /\ pc[t] = "commit" /\ pc'[t] # "commit" /\ call[t].kind = "reprocess"
    /\ v \in violations \ violations'
    /\ \A x \in Behind(v) : call[t].from <= x.started /\ x.ended <= call[t].to

(* Another violation says what v said, or more. *)
SaidAgain(v) ==
    \E u \in violations' : u.driver = v.driver /\ Covers(u.excess, v.excess)

(* "Insert rebuilt violations": what a reprocess deletes it has rebuilt,   *)
(* continuous driving that its period contains like everything else.       *)
DeletedAreRebuilt ==
    [][\A t \in Tasks, v \in violations :
         DeletesWithin(t, v) /\ v.excess.type = "EXCESS_CONTINUOUS_DRIVING"
             => SaidAgain(v)]_vars

(* "Delete ONLY AFTER successful recomputation": of the rules a reprocess  *)
(* recomputes, it has recomputed what it deletes, if its period contains   *)
(* the driving that is behind it.                                          *)
DeletedAreRecomputed ==
    [][\A t \in Tasks, v \in violations :
         DeletesWithin(t, v) /\ v.excess.type # "EXCESS_CONTINUOUS_DRIVING"
             => SaidAgain(v)]_vars
=============================================================================
