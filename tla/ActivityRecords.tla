-------------------------- MODULE ActivityRecords ---------------------------
(***************************************************************************)
(* POST /drivers/{driver_id}/activity from the request to the answer:      *)
(* submit_activity_record() in routers/activities.py, which calls          *)
(* fms.fn_create_activity_record() in one transaction and commits.         *)
(*                                                                         *)
(* The handler is an `async def` that never awaits, so one API process     *)
(* serves one submission at a time; Workers is the set of API processes    *)
(* on the database. Their transactions interleave statement by statement:  *)
(* READ COMMITTED gives each statement of the function a snapshot of its   *)
(* own, and the INSERT meets the other transactions' uncommitted rows in   *)
(* the unique and in the exclusion index.                                  *)
(***************************************************************************)
EXTENDS Activities

CONSTANT Workers    \* API processes

VARIABLES
    records,        \* committed rows of fms.activity_records
    uncommitted,    \* uncommitted[w]: rows the open transaction of w inserted
    pc,             \* pc[w]: the statement w is about to execute
    current,        \* current[w]: the submission w serves
    result,         \* result[w]: the row the function returned
    error,          \* error[w]: the exception that is propagating
    attempts,       \* number of submissions received so far
    answers         \* history: every answer a client was given

vars == <<records, uncommitted, pc, current, result, error, attempts, answers>>

InFunction == {"validate", "lookup", "overlap", "insert", "exclude"}
InDatabase == InFunction \cup {"commit"}

SqlStates == {"22023", "22001", "23502", "23503", "23505", "23P01", "40P01", "08006"}
Messages  == {"custom overlap", "exclusion constraint", "other"}
Errors    == [sqlstate : SqlStates, message : Messages]
NoError   == [sqlstate |-> "08006", message |-> "other"]

(* prior is history: was the key already in the table on arrival? *)
Submissions  == [attempt : Nat, request : Requests, prior : BOOLEAN]
NoSubmission == [attempt |-> 0, request |-> CHOOSE r \in Requests : TRUE, prior |-> FALSE]
NoResult     == [record |-> {}, was_duplicate |-> FALSE]

Answers ==
    [attempt : Nat, request : Requests, prior : BOOLEAN,
     status : {200, 201, 400, 409, 500}, record : SUBSET Rows,
     sqlstate : SqlStates \cup {"00000"}, message : Messages \cup {"none"}]

TypeOK ==
    /\ records \in SUBSET Rows
    /\ uncommitted \in [Workers -> SUBSET Rows]
    /\ pc \in [Workers -> InDatabase \cup {"idle", "except", "respond"}]
    /\ current \in [Workers -> Submissions \cup {NoSubmission}]
    /\ result \in [Workers -> [record : SUBSET Rows, was_duplicate : BOOLEAN]]
    /\ error \in [Workers -> Errors]
    /\ attempts \in 0..MaxAttempts
    /\ answers \in SUBSET Answers

Init ==
    /\ records = {}
    /\ uncommitted = [w \in Workers |-> {}]
    /\ pc = [w \in Workers |-> "idle"]
    /\ current = [w \in Workers |-> NoSubmission]
    /\ result = [w \in Workers |-> NoResult]
    /\ error = [w \in Workers |-> NoError]
    /\ attempts = 0
    /\ answers = {}

-----------------------------------------------------------------------------
Request(w) == current[w].request
NewRow(w)  == RowOf(Request(w), current[w].attempt)

Goto(w, label) == pc' = [pc EXCEPT ![w] = label]

(* Mutant: the function's EXCEPTION block undoes nothing. *)
Raise_RowKept(w, sqlstate, message) ==
    /\ error' = [error EXCEPT ![w] = [sqlstate |-> sqlstate, message |-> message]]
    /\ Goto(w, "except")
    /\ UNCHANGED <<records, uncommitted, current, result, attempts, answers>>

(* An exception leaves the function: its subtransaction is rolled back, so *)
(* the row it inserted is gone.                                            *)
Raise(w, sqlstate, message) ==
    /\ error' = [error EXCEPT ![w] = [sqlstate |-> sqlstate, message |-> message]]
    /\ uncommitted' = [uncommitted EXCEPT ![w] = {}]
    /\ Goto(w, "except")
    /\ UNCHANGED <<records, current, result, attempts, answers>>

(* The next statement of the function, with nothing written. *)
Continue(w, label) ==
    /\ Goto(w, label)
    /\ UNCHANGED <<records, uncommitted, current, result, error, attempts, answers>>

-----------------------------------------------------------------------------
(* A client sends (or sends again) a request to the process w. *)
Receive(w, r) ==
    /\ pc[w] = "idle"
    /\ attempts < MaxAttempts
    /\ attempts' = attempts + 1
    /\ current' = [current EXCEPT ![w] =
         [attempt |-> attempts + 1, request |-> r,
          prior |-> \E x \in records : SameKey(RowOf(r, 0), x)]]
    /\ Goto(w, "validate")
    /\ UNCHANGED <<records, uncommitted, result, error, answers>>

ValidateActivity(w) ==
    /\ pc[w] = "validate"
    /\ IF Valid(Request(w))
       THEN Continue(w, "lookup")
       ELSE Raise(w, "22023", "other")

(* Mutant: the idempotency check was dropped. *)
LookupSource_Skipped(w) ==
    /\ pc[w] = "lookup"
    /\ Continue(w, "overlap")

(* Idempotency check: a committed row with this key is the answer. *)
LookupSource(w) ==
    /\ pc[w] = "lookup"
    /\ \/ \E x \in records :
            /\ SameKey(NewRow(w), x)
            /\ result' = [result EXCEPT ![w] = [record |-> {x}, was_duplicate |-> TRUE]]
            /\ Goto(w, "commit")
            /\ UNCHANGED <<records, uncommitted, current, error, attempts, answers>>
       \/ /\ \A x \in records : ~SameKey(NewRow(w), x)
          /\ Continue(w, "overlap")

(* Manual overlap detection, against a new snapshot of committed rows. *)
DetectOverlap(w) ==
    /\ pc[w] = "overlap"
    /\ IF \E x \in records : Overlap(NewRow(w), x)
       THEN Raise(w, "23P01", "custom overlap")
       ELSE Continue(w, "insert")

(* Mutant: the unique index looks at committed rows alone. *)
InsertRecord_NoUniqueWait(w) ==
    /\ pc[w] = "insert"
    /\ IF \E x \in records : SameKey(NewRow(w), x)
       THEN Raise(w, "23505", "other")
       ELSE /\ uncommitted' = [uncommitted EXCEPT ![w] = {NewRow(w)}]
            /\ Goto(w, "exclude")
            /\ UNCHANGED <<records, current, result, error, attempts, answers>>

(* Transactions in progress that have inserted a row with w's key. *)
Claimants(w) ==
    {v \in Workers : \E x \in uncommitted[v] : SameKey(NewRow(w), x)}

(* The INSERT up to the index entries. Values that do not fit are refused  *)
(* first. The unique index makes it wait for a transaction in progress     *)
(* with the same key and refuses a committed one; then the row is in both  *)
(* indexes, where other transactions meet it.                              *)
InsertRecord(w) ==
    /\ pc[w] = "insert"
    /\ \/ /\ SourceOf(Request(w)) = Absent
          /\ Raise(w, "23502", "other")
       \/ /\ SourceOf(Request(w)) \in References \ Sources
          /\ Raise(w, "22001", "other")
       \/ /\ SourceOf(Request(w)) \in Sources
          /\ Claimants(w) = {}
          /\ IF \E x \in records : SameKey(NewRow(w), x)
             THEN Raise(w, "23505", "other")
             ELSE /\ uncommitted' = [uncommitted EXCEPT ![w] = {NewRow(w)}]
                  /\ Goto(w, "exclude")
                  /\ UNCHANGED <<records, current, result, error, attempts, answers>>

(* Rows of other transactions in progress that w's row overlaps. *)
Blockers(w) ==
    {v \in Workers \ {w} : \E x \in uncommitted[v] : Overlap(NewRow(w), x)}

(* Mutant: the check alone, without the exclusion constraint's waiting. *)
CheckExclusion_NoWait(w) ==
    /\ pc[w] = "exclude"
    /\ IF \E x \in records : Overlap(NewRow(w), x)
       THEN Raise(w, "23P01", "exclusion constraint")
       ELSE /\ result' = [result EXCEPT ![w] =
                 [record |-> {NewRow(w)}, was_duplicate |-> FALSE]]
            /\ Goto(w, "commit")
            /\ UNCHANGED <<records, uncommitted, current, error, attempts, answers>>

(* The exclusion constraint: a committed overlap refuses the row, one in   *)
(* progress makes the INSERT wait. The foreign keys are checked last.      *)
CheckExclusion(w) ==
    /\ pc[w] = "exclude"
    /\ \/ /\ \E x \in records : Overlap(NewRow(w), x)
          /\ Raise(w, "23P01", "exclusion constraint")
       \/ /\ \A x \in records : ~Overlap(NewRow(w), x)
          /\ Blockers(w) = {}
          /\ IF Request(w).driver \in Drivers /\ Request(w).vehicle \in Vehicles
             THEN /\ result' = [result EXCEPT ![w] =
                       [record |-> {NewRow(w)}, was_duplicate |-> FALSE]]
                  /\ Goto(w, "commit")
                  /\ UNCHANGED <<records, uncommitted, current, error, attempts, answers>>
             ELSE Raise(w, "23503", "other")

(* w is one of two INSERTs that wait for each other. *)
Deadlocked(w) == \E v \in Blockers(w) : pc[v] = "exclude" /\ w \in Blockers(v)

(* Mutant: no deadlock detector. *)
BreakDeadlock_Never(w) == FALSE /\ Raise(w, "40P01", "other")

(* PostgreSQL's deadlock detector aborts one of the two. *)
BreakDeadlock(w) ==
    /\ pc[w] = "exclude"
    /\ Deadlocked(w)
    /\ Raise(w, "40P01", "other")

(* Mutant: the handler answers without conn.commit(). *)
Commit_Forgotten(w) ==
    /\ pc[w] = "commit"
    /\ uncommitted' = [uncommitted EXCEPT ![w] = {}]
    /\ Goto(w, "respond")
    /\ UNCHANGED <<records, current, result, error, attempts, answers>>

(* conn.commit() *)
Commit(w) ==
    /\ pc[w] = "commit"
    /\ records' = records \cup uncommitted[w]
    /\ uncommitted' = [uncommitted EXCEPT ![w] = {}]
    /\ Goto(w, "respond")
    /\ UNCHANGED <<current, result, error, attempts, answers>>

(* conn.commit() is executed, but the connection breaks before it returns. *)
CommitUnacknowledged(w) ==
    /\ pc[w] = "commit"
    /\ records' = records \cup uncommitted[w]
    /\ uncommitted' = [uncommitted EXCEPT ![w] = {}]
    /\ error' = [error EXCEPT ![w] = [sqlstate |-> "08006", message |-> "other"]]
    /\ Goto(w, "except")
    /\ UNCHANGED <<current, result, attempts, answers>>

(* The pool has no connection within its timeout, or the one in use        *)
(* breaks: an OperationalError, and the server rolls back.                 *)
ConnectionLost(w) ==
    /\ pc[w] \in InDatabase
    /\ Raise(w, "08006", "other")

-----------------------------------------------------------------------------
(* The handler is left: its locals vanish and the process is free again. *)
Release(w) ==
    /\ Goto(w, "idle")
    /\ current' = [current EXCEPT ![w] = NoSubmission]
    /\ result' = [result EXCEPT ![w] = NoResult]
    /\ error' = [error EXCEPT ![w] = NoError]

AnswerWith(w, status, record, sqlstate, message) ==
    /\ answers' = answers \cup
         {[attempt |-> current[w].attempt, request |-> Request(w),
           prior |-> current[w].prior, status |-> status, record |-> record,
           sqlstate |-> sqlstate, message |-> message]}
    /\ Release(w)
    /\ UNCHANGED <<records, uncommitted, attempts>>

(* 201 with the new record, or 200 with the existing one. *)
Respond(w) ==
    /\ pc[w] = "respond"
    /\ AnswerWith(w, IF result[w].was_duplicate THEN 200 ELSE 201,
                  result[w].record, "00000", "none")

(* The function's EXCEPTION block: every exclusion_violation that leaves   *)
(* the body, the manual check's own RAISE included, is raised anew.        *)
Reraised(e) ==
    IF e.sqlstate = "23P01"
    THEN [e EXCEPT !.message = "exclusion constraint"]
    ELSE e

(* Mutant: every constraint violation is taken for an overlap. *)
StatusOf_AnyConstraint(sqlstate) ==
    CASE sqlstate \in {"23P01", "23505", "23503", "23502"} -> 409
      [] sqlstate = "22023" -> 400
      [] OTHER -> 500

(* Mutant: invalid input is answered with the framework's own 422. *)
StatusOf_Unprocessable(sqlstate) ==
    CASE sqlstate = "23P01" -> 409
      [] sqlstate = "22023" -> 422
      [] OTHER -> 500

(* The handler's mapping of ex.sqlstate. *)
StatusOf(sqlstate) ==
    CASE sqlstate = "23P01" -> 409
      [] sqlstate = "22023" -> 400
      [] OTHER -> 500

RespondError(w) ==
    /\ pc[w] = "except"
    /\ AnswerWith(w, StatusOf(error[w].sqlstate), {},
                  error[w].sqlstate, Reraised(error[w]).message)

(* The API process dies: the client hears nothing, the transaction is      *)
(* rolled back, and a new process takes its place.                         *)
Crash(w) ==
    /\ pc[w] # "idle"
    /\ uncommitted' = [uncommitted EXCEPT ![w] = {}]
    /\ Release(w)
    /\ UNCHANGED <<records, attempts, answers>>

-----------------------------------------------------------------------------
(* What the code and the server do by themselves. *)
Progress(w) ==
    \/ ValidateActivity(w)
    \/ LookupSource(w)
    \/ DetectOverlap(w)
    \/ InsertRecord(w)
    \/ CheckExclusion(w)
    \/ BreakDeadlock(w)
    \/ Commit(w)
    \/ Respond(w)
    \/ RespondError(w)

(* What may happen to them. *)
Fault(w) ==
    \/ CommitUnacknowledged(w)
    \/ ConnectionLost(w)
    \/ Crash(w)

Next ==
    \E w \in Workers :
        \/ \E r \in Requests : Receive(w, r)
        \/ Progress(w)
        \/ Fault(w)

Spec == Init /\ [][Next]_vars

(* A statement that can run does run, and the deadlock detector fires. *)
FairSpec == Spec /\ \A w \in Workers : WF_vars(Progress(w))

-----------------------------------------------------------------------------
(* The ledger never holds two overlapping activities of one driver, though *)
(* both may have passed the function's own check before either committed   *)
(* (ex_activity_no_overlap, "Prevent overlapping activity windows").       *)
NoOverlap ==
    \A x, y \in records : x # y => ~Overlap(x, y)

(* However often a request is sent, and to however many processes at once, *)
(* its source reference names at most one record of the driver             *)
(* (uq_activity_driver_source, "Unique source event per driver").          *)
OneRecordPerSource ==
    \A x, y \in records : SameKey(x, y) => x = y

(* Every answer is true for good: 201 names the record this submission     *)
(* created and 200 one with the same key, both in the table to stay; 409   *)
(* means an overlapping record is there, 400 that the request is invalid.  *)
Ledger == INSTANCE ActivityLedger WITH records <- records, answers <- answers

AnswersTrue == \A a \in answers : Ledger!TrueAnswer(a)

(* A retry of what is already stored, in particular after an answer was    *)
(* lost, is never refused as a conflict nor stored again: only the         *)
(* infrastructure can keep it from its 200.                                *)
RetryRecognised ==
    \A a \in answers :
        a.prior /\ Valid(a.request) =>
            a.status = 200 \/ (a.status = 500 /\ a.sqlstate = "08006")

(* The detailed protocol implements the atomic ledger. *)
ImplementsLedger == Ledger!Spec

(* Whom w waits for before its next statement. *)
WaitsFor(w) ==
    CASE pc[w] = "insert"  -> IF SourceOf(Request(w)) \in Sources THEN Claimants(w) ELSE {}
      [] pc[w] = "exclude" -> IF \E x \in records : Overlap(NewRow(w), x)
                              THEN {} ELSE Blockers(w)
      [] OTHER -> {}

CanMove(w) == WaitsFor(w) = {} \/ (pc[w] = "exclude" /\ Deadlocked(w))

(* Three or more INSERTs may wait for each other in a circle, but never    *)
(* without two of them being deadlocked, which the detector ends: when     *)
(* submissions are being served, one of them can go on.                    *)
NeverStuck ==
    (\E w \in Workers : pc[w] # "idle") => \E w \in Workers : pc[w] # "idle" /\ CanMove(w)

(* No submission waits forever: lock waits end, deadlocks are broken, and  *)
(* the worker is free for the next request.                                *)
EventuallyAnswered ==
    \A w \in Workers : pc[w] # "idle" ~> pc[w] = "idle"

-----------------------------------------------------------------------------
(* The inductive invariant behind the properties above.                    *)

Active(w) == pc[w] # "idle"

(* Submissions are numbered once, and answered at most once. *)
Numbering ==
    /\ \A w \in Workers : Active(w) =>
         /\ current[w] \in Submissions
         /\ current[w].attempt \in 1..attempts
         /\ \A v \in Workers : Active(v) /\ v # w =>
              current[v].attempt # current[w].attempt
         /\ \A a \in answers : a.attempt # current[w].attempt
         /\ pc[w] \in InDatabase => \A x \in records : x.id # current[w].attempt
    /\ \A a \in answers : a.attempt \in 1..attempts
    /\ \A x \in records : x.id \in 1..attempts

(* A row is in flight from its INSERT to the end of its transaction. *)
InFlight ==
    \A w \in Workers :
        IF pc[w] = "exclude" \/ (pc[w] = "commit" /\ ~result[w].was_duplicate)
        THEN uncommitted[w] = {NewRow(w)}
        ELSE uncommitted[w] = {}

Storable(r) ==
    Valid(r) /\ r.driver \in Drivers /\ r.vehicle \in Vehicles /\ SourceOf(r) \in Sources

(* What a worker has established by the time it reaches a statement. *)
Established ==
    \A w \in Workers :
        /\ pc[w] \in {"lookup", "overlap", "insert", "exclude"} => Valid(Request(w))
        /\ pc[w] = "exclude" => SourceOf(Request(w)) \in Sources
        /\ pc[w] \in {"commit", "respond"} =>
             IF result[w].was_duplicate
             THEN \E x \in records : SameKey(NewRow(w), x) /\ result[w].record = {x}
             ELSE Storable(Request(w)) /\ result[w].record = {NewRow(w)}
        /\ pc[w] = "respond" /\ ~result[w].was_duplicate => NewRow(w) \in records
        /\ pc[w] = "except" =>
             /\ error[w].sqlstate = "23P01" => \E x \in records : Overlap(NewRow(w), x)
             /\ error[w].sqlstate = "22023" => ~Valid(Request(w))

(* A row in flight owns its key; once past the exclusion check it owns its *)
(* period as well.                                                         *)
KeyOwned ==
    \A w \in Workers : uncommitted[w] # {} =>
        /\ \A x \in records : ~SameKey(NewRow(w), x)
        /\ \A v \in Workers \ {w} : uncommitted[v] # {} => ~SameKey(NewRow(w), NewRow(v))

PeriodOwned ==
    \A w \in Workers : pc[w] = "commit" /\ uncommitted[w] # {} =>
        /\ \A x \in records : ~Overlap(NewRow(w), x)
        /\ \A v \in Workers \ {w} : pc[v] = "commit" /\ uncommitted[v] # {} =>
             ~Overlap(NewRow(w), NewRow(v))

(* A submission whose key was stored on arrival never gets past the lookup. *)
PriorFound ==
    \A w \in Workers : Active(w) /\ current[w].prior =>
        /\ \E x \in records : SameKey(NewRow(w), x)
        /\ pc[w] \in {"validate", "lookup", "commit", "respond", "except"}
        /\ pc[w] \in {"commit", "respond"} => result[w].was_duplicate
        /\ pc[w] = "except" =>
             error[w].sqlstate = "08006"
             \/ (error[w].sqlstate = "22023" /\ ~Valid(Request(w)))

IInv ==
    /\ TypeOK
    /\ Numbering
    /\ InFlight
    /\ Established
    /\ KeyOwned
    /\ PeriodOwned
    /\ PriorFound
    /\ NoOverlap
    /\ OneRecordPerSource
    /\ AnswersTrue
    /\ RetryRecognised

-----------------------------------------------------------------------------
(* What a comment of the function says and its code does not keep.         *)

(* "Idempotency check": of two submissions with the same key, the second   *)
(* one is told of the record of the first, never refused because of it.    *)
TwinRecognised ==
    [][\A a \in answers' \ answers :
         a.status = 409 \/ (a.status = 500 /\ a.sqlstate # "08006") =>
             \A x \in records : ~SameKey(RowOf(a.request, a.attempt), x)]_vars
=============================================================================
