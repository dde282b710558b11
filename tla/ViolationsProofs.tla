-------------------------- MODULE ViolationsProofs --------------------------
(***************************************************************************)
(* Proofs about the rows of fms.compliance_violations, for any number of   *)
(* reprocesses, checks, drivers and activities.                            *)
(*                                                                         *)
(* First the lock of the driver: an excess within the periods of several   *)
(* reprocesses is accounted for once. A reprocess notes what to delete     *)
(* with a snapshot older than its commit. That nothing it should delete    *)
(* comes in between is what the lock is for: Fresh says it, Locking and    *)
(* LockExclusive say why.                                                  *)
(*                                                                         *)
(* Then what the rows say: each is borne out by the activities, and none   *)
(* that was due is missing. ReportInv follows both from a rule's INSERT to *)
(* the commit; that it survives the activities that arrive meanwhile is    *)
(* that the rules grow with them (RulesGrow, of DrivingRulesProofs).       *)
(***************************************************************************)
EXTENDS ComplianceRunsProofs, DrivingRulesProofs

(* From its INSERT of the run's row to its end, a reprocess has the lock. *)
Locking(t) ==
    /\ pc[t] = "new" => ~work[t].locked
    /\ call[t].kind = "reprocess" /\ pc[t] \in Begun \cup {"insert"} => work[t].locked
    /\ call[t].kind = "reprocess" /\ pc[t] = "commit" /\ work[t].added # {} => work[t].locked

LockExclusive ==
    \A t, u \in Tasks :
        work[t].locked /\ work[u].locked /\ call[t].driver = call[u].driver => t = u

(* Who has violations in the table has ended, and each is by its task. *)
Authored ==
    /\ \A v \in violations : v.by \in Tasks /\ pc[v.by] \in {"done", "failed"}
    /\ \A t \in Tasks : \A v \in work[t].added : v.by = t

(* Two excesses of one limit from one moment; the limit says how long its  *)
(* period is.                                                              *)
Alike(d, e) == d.type = e.type /\ d.threshold = e.threshold /\ d.from = e.from

Length(e) ==
    IF e.threshold = DailyLimit THEN Day
    ELSE IF e.threshold = WeeklyLimit THEN Week ELSE 2 * Week

OneEach(S) ==
    /\ \A d, e \in S : Alike(d, e) => d = e
    /\ \A e \in S : e.to = e.from + Length(e)

(* What a reprocess has staged, by the rules it has behind it. *)
Staged(t) ==
    call[t].kind = "reprocess" =>
        /\ OneEach(work[t].staged)
        /\ OneEach({v.excess : v \in work[t].added})
        /\ \A v, w \in work[t].added : v.excess = w.excess => v = w
        /\ pc[t] = "daily" => work[t].staged = {}
        /\ pc[t] = "weekly" => \A e \in work[t].staged : e.threshold = DailyLimit
        /\ pc[t] = "biweekly" => \A e \in work[t].staged : e.threshold # BiweeklyLimit

(* What reprocesses have put in the table within t's period is what t will *)
(* delete when it commits.                                                 *)
Fresh(t) ==
    /\ call[t].kind = "reprocess"
    /\ pc[t] \in {"rebuild", "update"} \/ (pc[t] = "commit" /\ work[t].added # {})
    => \A v \in violations :
           v.driver = call[t].driver /\ call[v.by].kind = "reprocess" /\ Inside(v, call[t])
           => v \in work[t].removed

(* The rows of reprocesses have the periods of their limits. *)
Measured ==
    \A v \in violations :
        call[v.by].kind = "reprocess" => v.excess.to = v.excess.from + Length(v.excess)

LockInv ==
    /\ \A t \in Tasks : Locking(t) /\ Staged(t) /\ Fresh(t)
    /\ LockExclusive
    /\ Authored
    /\ Measured
    /\ RebuiltOnce

-----------------------------------------------------------------------------
(* The rules.                                                              *)

(* The limits differ. *)
LEMMA Limits ==
    DailyLimit # WeeklyLimit /\ DailyLimit # BiweeklyLimit /\ WeeklyLimit # BiweeklyLimit
BY DEF DailyLimit, WeeklyLimit, BiweeklyLimit

(* Each rule reports one excess at most from a moment, with the period of  *)
(* its limit.                                                              *)
LEMMA RulesOneEach ==
    ASSUME NEW S
    PROVE  /\ OneEach(Daily(S)) /\ \A e \in Daily(S) : e.threshold = DailyLimit
           /\ OneEach(Weekly(S)) /\ \A e \in Weekly(S) : e.threshold = WeeklyLimit
           /\ OneEach(Biweekly(S)) /\ \A e \in Biweekly(S) : e.threshold = BiweeklyLimit
<1>1. OneEach(Daily(S)) /\ \A e \in Daily(S) : e.threshold = DailyLimit
  <2> DEFINE E(d) == Excess("DAILY_DRIVING_LIMIT",
                            IF DrivenFrom(S, d, Day) > CriticalDaily THEN "CRITICAL" ELSE "HIGH",
                            d, d + Day, DrivenFrom(S, d, Day), DailyLimit)
  <2>1. \A d : E(d).from = d /\ E(d).to = d + Day /\ E(d).threshold = DailyLimit
    BY DEF Excess
  <2>2. \A e \in Daily(S) : \E d : e = E(d)
    BY DEF Daily
  <2> HIDE DEF E
  <2> QED BY <2>1, <2>2 DEF OneEach, Alike, Length
<1>2. OneEach(Weekly(S)) /\ \A e \in Weekly(S) : e.threshold = WeeklyLimit
  <2> DEFINE E(w) == Excess("WEEKLY_DRIVING_LIMIT", "CRITICAL",
                            w, w + Week, DrivenFrom(S, w, Week), WeeklyLimit)
  <2>1. \A w : E(w).from = w /\ E(w).to = w + Week /\ E(w).threshold = WeeklyLimit
    BY DEF Excess
  <2>2. \A e \in Weekly(S) : \E w : e = E(w)
    BY DEF Weekly
  <2> HIDE DEF E
  <2> QED BY <2>1, <2>2, Limits DEF OneEach, Alike, Length
<1>3. OneEach(Biweekly(S)) /\ \A e \in Biweekly(S) : e.threshold = BiweeklyLimit
  <2> DEFINE E(w) == Excess("WEEKLY_DRIVING_LIMIT", "CRITICAL",
                            w, w + 2 * Week, DrivenFrom(S, w, 2 * Week), BiweeklyLimit)
  <2>1. \A w : E(w).from = w /\ E(w).to = w + 2 * Week /\ E(w).threshold = BiweeklyLimit
    BY DEF Excess
  <2>2. \A e \in Biweekly(S) : \E w : e = E(w)
    BY DEF Biweekly
  <2> HIDE DEF E
  <2> QED BY <2>1, <2>2, Limits DEF OneEach, Alike, Length
<1> QED BY <1>1, <1>2, <1>3

(* Excesses of different limits do not get in each other's way. *)
LEMMA OneEachUnion ==
    ASSUME NEW S, NEW T, OneEach(S), OneEach(T),
           \A d \in S, e \in T : d.threshold # e.threshold
    PROVE  OneEach(S \cup T)
BY DEF OneEach, Alike

-----------------------------------------------------------------------------
(* Steps that show nothing.                                                *)

(* What is said of a task depends on the task, the calls and the table. *)
LEMMA AsBefore ==
    ASSUME NEW u \in Tasks, pc'[u] = pc[u], work'[u] = work[u], call' = call,
           violations' = violations, Locking(u), Staged(u), Fresh(u)
    PROVE  Locking(u)' /\ Staged(u)' /\ Fresh(u)'
BY DEF Locking, Staged, Fresh, Inside

(* A step of t that leaves t as it should be is safe for the others. *)
LEMMA Quiet ==
    ASSUME IInv, LockInv, NEW t \in Tasks, Local(t), pc[t] \notin {"done", "failed"},
           Locking(t)', Staged(t)', Fresh(t)',
           work'[t].locked =>
               \/ work[t].locked
               \/ \A u \in Tasks \ {t} : work[u].locked => call[u].driver # call[t].driver,
           \A v \in work'[t].added : v.by = t
    PROVE  LockInv'
<1>1. /\ call' = call /\ violations' = violations
      /\ \A u \in Tasks \ {t} : pc'[u] = pc[u] /\ work'[u] = work[u]
  BY DEF Local, Tables, IInv, Shape
<1>2. \A u \in Tasks \ {t} : Locking(u)' /\ Staged(u)' /\ Fresh(u)'
  BY <1>1, AsBefore DEF LockInv
<1>3. LockExclusive'
  <2> SUFFICES ASSUME NEW u \in Tasks, NEW v \in Tasks, work'[u].locked, work'[v].locked,
                      call[u].driver = call[v].driver
               PROVE  u = v
    BY <1>1 DEF LockExclusive
  <2> QED BY <1>1 DEF LockInv, LockExclusive
<1>4. Authored'
  BY <1>1 DEF LockInv, Authored
<1>5. Measured' /\ RebuiltOnce'
  BY <1>1 DEF LockInv, Measured, RebuiltOnce, Inside
<1> QED BY <1>2, <1>3, <1>4, <1>5 DEF LockInv

(* Nothing is no trouble. *)
LEMMA NoneEach == OneEach({})
BY DEF OneEach

(* A step that drops everything is safe. *)
LEMMA QuietRest ==
    ASSUME IInv, LockInv, NEW t \in Tasks, NEW l, Continue(t, l, NoWork),
           pc[t] \notin {"done", "failed"}, l \notin Begun,
           l = "insert" => call[t].kind = "check"
    PROVE  LockInv'
<1>1. /\ Local(t) /\ pc'[t] = l /\ work'[t] = NoWork /\ call' = call
  BY NoWorkClean, Continued DEF IInv
<1>2. work'[t].added = {} /\ work'[t].staged = {} /\ ~work'[t].locked
  BY <1>1 DEF NoWork
<1>3. Locking(t)'
  BY <1>1, <1>2 DEF Locking
<1>4. Staged(t)'
  <2>1. l \notin {"daily", "weekly", "biweekly"}
    BY DEF Begun, Rules
  <2>2. {v.excess : v \in work'[t].added} = {}
    BY <1>2
  <2> QED BY <1>1, <1>2, <2>1, <2>2, NoneEach DEF Staged
<1>5. Fresh(t)'
  BY <1>1, <1>2 DEF Fresh, Begun
<1> QED BY <1>1, <1>2, <1>3, <1>4, <1>5, Quiet

(* Beginning, failing and giving up. *)
LEMMA RestLocked ==
    ASSUME IInv, LockInv, NEW t \in Tasks,
           \/ GetConnection(t) \/ PoolTimeout(t) \/ CheckExists(t)
           \/ Reraise(t) \/ ConnectionLost(t)
    PROVE  LockInv'
<1>1. CASE GetConnection(t)
  BY <1>1, QuietRest DEF GetConnection, Begun, Rules
<1>2. CASE PoolTimeout(t)
  BY <1>2, QuietRest DEF PoolTimeout, Rollback, Begun, Rules
<1>3. CASE CheckExists(t)
  BY <1>3, QuietRest DEF CheckExists, Begun, Rules
<1>4. CASE Reraise(t)
  BY <1>4, QuietRest DEF Reraise, Rollback, Begun, Rules
<1>5. CASE ConnectionLost(t)
  BY <1>5, QuietRest DEF ConnectionLost, Rollback, InSession, InBody, Begun, Rules
<1> QED BY <1>1, <1>2, <1>3, <1>4, <1>5

(* A statement of the body that leaves the staging table, the added rows   *)
(* and the lock as they are.                                               *)
LEMMA QuietCarry ==
    ASSUME IInv, LockInv, NEW t \in Tasks, NEW l, NEW w, IsWork(w), Continue(t, l, w),
           pc[t] \notin {"new", "done", "failed"}, l \notin {"new"} \cup Rules,
           w.added = work[t].added, w.staged = work[t].staged, w.locked = work[t].locked,
           Locking(t)', Fresh(t)'
    PROVE  LockInv'
<1>1. /\ Local(t) /\ pc'[t] = l /\ work'[t] = w /\ call' = call
  BY Continued DEF IInv
<1>2. Staged(t)'
  BY <1>1 DEF LockInv, Staged, Rules
<1>3. \A v \in work'[t].added : v.by = t
  BY <1>1 DEF LockInv, Authored
<1> QED BY <1>1, <1>2, <1>3, Quiet

(* Who takes the lock takes it from nobody. *)
LEMMA TakeLockLocked ==
    ASSUME IInv, LockInv, NEW t \in Tasks, TakeLock(t)
    PROVE  LockInv'
<1> DEFINE w == WithLocked(work[t], TRUE)
<1>1. /\ pc[t] = "lock" /\ Continue(t, "insert", w)
      /\ \A u \in Tasks : work[u].locked => call[u].driver # call[t].driver
      /\ IsWork(work[t])
  BY DEF TakeLock, LockHolders, WithLocked, IInv, Shape
<1>2. Differs(work[t], w, {"locked"}) /\ w.locked = TRUE
  BY <1>1, FieldLocked
<1> HIDE DEF w
<1>3. IsWork(w) /\ w.added = work[t].added /\ w.staged = work[t].staged
  BY <1>2 DEF Differs
<1>4. /\ Local(t) /\ pc'[t] = "insert" /\ work'[t] = w /\ call' = call
  BY <1>1, <1>3, Continued DEF IInv
<1>5. Locking(t)' /\ Fresh(t)'
  BY <1>2, <1>4 DEF Locking, Fresh
<1>6. Staged(t)'
  BY <1>1, <1>3, <1>4 DEF LockInv, Staged
<1>7. \A v \in work'[t].added : v.by = t
  BY <1>3, <1>4 DEF LockInv, Authored
<1> QED BY <1>1, <1>4, <1>5, <1>6, <1>7, Quiet

(* The INSERT of the run's row needs the lock of a reprocess, and keeps it. *)
LEMMA InsertLocked ==
    ASSUME IInv, LockInv, NEW t \in Tasks, InsertRun(t)
    PROVE  LockInv'
<1>1. /\ pc[t] = "insert" /\ Clean(work[t]) /\ IsWork(work[t]) /\ Shape
      /\ call[t].kind = "reprocess" => work[t].locked
  BY DEF InsertRun, IInv, TaskInv, Begun, Rules, Shape, LockInv, Locking
<1>2. CASE Raise(t)
  BY <1>1, <1>2, QuietRest DEF Raise, Begun, Rules
<1>3. ASSUME Goto(t, "daily"), UNCHANGED <<Tables, call>>,
             NEW w, IsWork(w), work' = [work EXCEPT ![t] = w],
             w.added = {}, w.staged = {}, w.locked = work[t].locked
      PROVE  LockInv'
  <2>1. Local(t) /\ pc'[t] = "daily" /\ work'[t] = w /\ call' = call
    BY <1>1, <1>3 DEF Local, Goto, Shape, Tables
  <2>2. Locking(t)' /\ Fresh(t)'
    BY <1>1, <1>3, <2>1 DEF Locking, Fresh
  <2>3. {v.excess : v \in work'[t].added} = {}
    BY <1>3, <2>1
  <2>4. Staged(t)'
    BY <1>3, <2>1, <2>3, NoneEach DEF Staged
  <2> QED BY <1>1, <1>3, <2>1, <2>2, <2>4, Quiet
<1>4. ASSUME Goto(t, "daily"), UNCHANGED <<Tables, call>>,
             work' = [work EXCEPT ![t].row = {RunRow(t, "RUNNING", 0)}, ![t].inserted = TRUE]
      PROVE  LockInv'
  <2> DEFINE w == Work({RunRow(t, "RUNNING", 0)}, TRUE, work[t].locked, {}, {}, {}, 0)
  <2>1. work' = [work EXCEPT ![t] = w]
    <3>1. PICK r : r = {RunRow(t, "RUNNING", 0)}
      OBVIOUS
    <3>2. /\ work' = [work EXCEPT ![t].row = r, ![t].inserted = TRUE]
          /\ work = [u \in Tasks |-> work[u]] /\ IsWork(work[t]) /\ Clean(work[t])
      BY <1>1, <1>4, <3>1 DEF Shape
    <3>3. /\ work' = [work EXCEPT ![t] = work'[t]]
          /\ work'[t] = [row |-> r, inserted |-> TRUE, locked |-> work[t].locked,
                         added |-> work[t].added, removed |-> work[t].removed,
                         staged |-> work[t].staged, count |-> work[t].count]
      BY <3>2 DEF IsWork
    <3> QED BY <3>1, <3>2, <3>3 DEF Work, Clean
  <2>2. IsWork(w) /\ w.added = {} /\ w.staged = {} /\ w.locked = work[t].locked
    BY DEF IsWork, Work
  <2> HIDE DEF w
  <2> QED BY <1>3, <1>4, <2>1, <2>2
<1>5. ASSUME Goto(t, "daily"), UNCHANGED <<Tables, call, work>>
      PROVE  LockInv'
  <2>1. work' = [work EXCEPT ![t] = work[t]]
    BY <1>1, <1>5 DEF Shape
  <2> QED BY <1>1, <1>3, <1>5, <2>1 DEF Clean
<1> QED BY <1>2, <1>4, <1>5 DEF InsertRun

(* Rules of different limits add to the staging table one after another. *)
LEMMA ReportLocked ==
    ASSUME IInv, LockInv, NEW t \in Tasks, NEW S, NEW l, Report(t, S, l), pc[t] \in Rules,
           l \in {"weekly", "biweekly", "continuous", "count", "delete"},
           call[t].kind = "reprocess" =>
               /\ OneEach(work[t].staged \cup S)
               /\ l = "weekly" => \A e \in work[t].staged \cup S : e.threshold = DailyLimit
               /\ l = "biweekly" =>
                      \A e \in work[t].staged \cup S : e.threshold # BiweeklyLimit
    PROVE  LockInv'
<1>1. /\ IsWork(work[t]) /\ Shape /\ pc[t] \in Begun /\ pc[t] \notin {"new", "done", "failed"}
      /\ Locking(t) /\ Staged(t) /\ \A v \in work[t].added : v.by = t
  BY DEF IInv, Shape, Begun, Rules, LockInv, Authored
<1>2. CASE call[t].kind = "check"
  <2> DEFINE w == WithAdded(work[t], work[t].added \cup Reports(t, S))
  <2>1. Continue(t, l, w)
    BY <1>2 DEF Report, WithAdded
  <2>2. Differs(work[t], w, {"added"}) /\ w.added = work[t].added \cup Reports(t, S)
    BY <1>1, FieldAdded
  <2> HIDE DEF w
  <2>3. IsWork(w) /\ w.locked = work[t].locked
    BY <2>2 DEF Differs
  <2>4. Local(t) /\ pc'[t] = l /\ work'[t] = w /\ call' = call
    BY <1>1, <2>1, <2>3, Continued
  <2>5. Locking(t)' /\ Staged(t)' /\ Fresh(t)'
    BY <1>2, <2>4 DEF Locking, Staged, Fresh
  <2>6. \A v \in w.added : v.by = t
    BY <1>1, <2>2 DEF Reports
  <2> QED BY <1>1, <2>3, <2>4, <2>5, <2>6, Quiet
<1>3. CASE call[t].kind # "check"
  <2> DEFINE w == WithStaged(work[t], work[t].staged \cup S)
  <2>1. Continue(t, l, w)
    BY <1>3 DEF Report, WithStaged
  <2>2. Differs(work[t], w, {"staged"}) /\ w.staged = work[t].staged \cup S
    BY <1>1, FieldStaged
  <2> HIDE DEF w
  <2>3. IsWork(w) /\ w.locked = work[t].locked /\ w.added = work[t].added
    BY <2>2 DEF Differs
  <2>4. Local(t) /\ pc'[t] = l /\ work'[t] = w /\ call' = call
    BY <1>1, <2>1, <2>3, Continued
  <2>5. Locking(t)' /\ Fresh(t)'
    BY <1>1, <2>3, <2>4 DEF Locking, Fresh
  <2>6. Staged(t)'
    BY <1>1, <2>2, <2>3, <2>4 DEF Staged
  <2> QED BY <1>1, <2>3, <2>4, <2>5, <2>6, Quiet
<1> QED BY <1>2, <1>3

(* The four rules. *)
LEMMA RulesLocked ==
    ASSUME IInv, LockInv, NEW t \in Tasks,
           DailyRule(t) \/ WeeklyRule(t) \/ BiweeklyRule(t) \/ ContinuousRule(t)
    PROVE  LockInv'
<1>0. Staged(t)
  BY DEF LockInv
<1>1. CASE DailyRule(t)
  <2> DEFINE S == Daily(InWindow(t))
  <2>1. OneEach(S) /\ \A e \in S : e.threshold = DailyLimit
    BY RulesOneEach
  <2>2. pc[t] = "daily"
    BY <1>1 DEF DailyRule
  <2>3. CASE Report(t, S, "weekly")
    <3> HIDE DEF S
    <3>1. call[t].kind = "reprocess" => work[t].staged \cup S = S
      BY <1>0, <2>2 DEF Staged
    <3> QED BY <2>1, <2>2, <2>3, <3>1, ReportLocked DEF Rules
  <2>4. CASE Raise(t)
    BY <2>2, <2>4, QuietRest DEF Raise, Begun, Rules
  <2> QED BY <1>1, <2>3, <2>4 DEF DailyRule
<1>2. CASE WeeklyRule(t)
  <2> DEFINE S == Weekly(InWindow(t))
  <2>1. OneEach(S) /\ \A e \in S : e.threshold = WeeklyLimit
    BY RulesOneEach
  <2>2. pc[t] = "weekly" /\ Report(t, S, "biweekly")
    BY <1>2 DEF WeeklyRule
  <2> HIDE DEF S
  <2>3. call[t].kind = "reprocess" =>
            /\ OneEach(work[t].staged \cup S)
            /\ \A e \in work[t].staged \cup S : e.threshold # BiweeklyLimit
    BY <1>0, <2>1, <2>2, OneEachUnion, Limits DEF Staged
  <2> QED BY <2>2, <2>3, ReportLocked DEF Rules
<1>3. CASE BiweeklyRule(t)
  <2>1. CASE call[t].kind = "check" /\ Report(t, Biweekly(Driven(t)), "continuous")
    BY <1>3, <2>1, ReportLocked DEF BiweeklyRule, Rules
  <2>2. CASE call[t].kind = "reprocess" /\ Report(t, Biweekly(InWindow(t)), "delete")
    <3> DEFINE S == Biweekly(InWindow(t))
    <3>1. OneEach(S) /\ \A e \in S : e.threshold = BiweeklyLimit
      BY RulesOneEach
    <3>2. pc[t] = "biweekly" /\ Report(t, S, "delete")
      BY <1>3, <2>2 DEF BiweeklyRule
    <3> HIDE DEF S
    <3>3. OneEach(work[t].staged \cup S)
      BY <1>0, <2>2, <3>1, <3>2, OneEachUnion DEF Staged
    <3> QED BY <3>2, <3>3, ReportLocked DEF Rules
  <2> QED BY <1>3, <2>1, <2>2 DEF BiweeklyRule
<1>4. CASE ContinuousRule(t)
  <2>1. pc[t] = "continuous" /\ Report(t, Continuous(InWindow(t)), "count")
    BY <1>4 DEF ContinuousRule
  <2>2. call[t].kind = "check"
    BY <2>1 DEF IInv, TaskInv, InOrder, Begun, Rules
  <2> QED BY <2>1, <2>2, ReportLocked DEF Rules
<1> QED BY <1>1, <1>2, <1>3, <1>4

(* What t notes to delete is all that is there now. *)
LEMMA DeleteLocked ==
    ASSUME IInv, LockInv, NEW t \in Tasks, DeleteSuperseded(t)
    PROVE  LockInv'
<1> DEFINE w == WithCountRemoved(work[t], Cardinality(work[t].staged), Superseded(t))
<1>1. /\ pc[t] = "delete" /\ Continue(t, "rebuild", w) /\ IsWork(work[t]) /\ Shape
      /\ Locking(t)
  BY DEF DeleteSuperseded, WithCountRemoved, IInv, Shape, LockInv
<1>2. Differs(work[t], w, {"count", "removed"}) /\ w.removed = Superseded(t)
  BY <1>1, FieldCountRemoved
<1> HIDE DEF w
<1>3. /\ IsWork(w) /\ w.added = work[t].added /\ w.staged = work[t].staged
      /\ w.locked = work[t].locked
  BY <1>2 DEF Differs
<1>4. /\ Local(t) /\ pc'[t] = "rebuild" /\ work'[t] = w /\ call' = call
      /\ violations' = violations
  BY <1>1, <1>3, Continued DEF Local, Tables
<1>5. Locking(t)'
  BY <1>1, <1>3, <1>4 DEF Locking, Begun
<1>6. Fresh(t)'
  BY <1>2, <1>4 DEF Fresh, Superseded, Inside
<1> QED BY <1>1, <1>3, <1>5, <1>6, QuietCarry DEF Rules

(* The rebuilt rows are what was staged. *)
LEMMA RebuildLocked ==
    ASSUME IInv, LockInv, NEW t \in Tasks, InsertRebuilt(t)
    PROVE  LockInv'
<1> DEFINE w == WithAdded(work[t], Reports(t, work[t].staged))
<1>1. /\ pc[t] = "rebuild" /\ Continue(t, "update", w) /\ IsWork(work[t]) /\ Shape
      /\ Locking(t) /\ Staged(t) /\ Fresh(t) /\ call[t].kind = "reprocess"
  BY DEF InsertRebuilt, WithAdded, IInv, TaskInv, InOrder, Begun, Shape, LockInv
<1>2. Differs(work[t], w, {"added"}) /\ w.added = Reports(t, work[t].staged)
  BY <1>1, FieldAdded
<1> HIDE DEF w
<1>3. /\ IsWork(w) /\ w.staged = work[t].staged /\ w.locked = work[t].locked
      /\ w.removed = work[t].removed
  BY <1>2 DEF Differs
<1>4. /\ Local(t) /\ pc'[t] = "update" /\ work'[t] = w /\ call' = call
      /\ violations' = violations
  BY <1>1, <1>3, Continued DEF Local, Tables
<1>5. Locking(t)' /\ Fresh(t)'
  BY <1>1, <1>3, <1>4 DEF Locking, Fresh, Begun, Inside
<1>6. Staged(t)'
  <2>1. {v.excess : v \in w.added} = work[t].staged
    <3>1. \A v \in w.added : v.excess \in work[t].staged
      BY <1>2 DEF Reports
    <3>2. ASSUME NEW e \in work[t].staged
          PROVE  \E v \in w.added : v.excess = e
      <4> DEFINE v == [excess |-> e, driver |-> call[t].driver, run |-> call[t].run, by |-> t]
      <4>1. v \in w.added
        BY <1>2 DEF Reports
      <4>2. v.excess = e
        OBVIOUS
      <4> QED BY <4>1, <4>2
    <3> QED BY <3>1, <3>2
  <2>2. \A v, x \in w.added : v.excess = x.excess => v = x
    BY <1>2 DEF Reports
  <2> QED BY <1>1, <1>3, <1>4, <2>1, <2>2 DEF Staged
<1>7. \A v \in work'[t].added : v.by = t
  BY <1>2, <1>4 DEF Reports
<1> QED BY <1>1, <1>3, <1>4, <1>5, <1>6, <1>7, Quiet

(* A check has no part in this. *)
LEMMA CountLocked ==
    ASSUME IInv, LockInv, NEW t \in Tasks, CountViolations(t)
    PROVE  LockInv'
<1> DEFINE n == Cardinality({v \in violations \cup work[t].added : v.run = call[t].run})
           w == WithCount(work[t], n)
<1>1. /\ pc[t] = "count" /\ Continue(t, "update", w) /\ IsWork(work[t]) /\ Shape
      /\ call[t].kind = "check"
  BY DEF CountViolations, WithCount, IInv, TaskInv, InOrder, Begun, Shape
<1>2. Differs(work[t], w, {"count"})
  BY <1>1, FieldCount
<1> HIDE DEF w
<1>3. /\ IsWork(w) /\ w.added = work[t].added /\ w.staged = work[t].staged
      /\ w.locked = work[t].locked
  BY <1>2 DEF Differs
<1>4. pc'[t] = "update" /\ call' = call
  BY <1>1, <1>3, Continued
<1>5. Locking(t)' /\ Fresh(t)'
  BY <1>1, <1>4 DEF Locking, Fresh
<1> QED BY <1>1, <1>3, <1>5, QuietCarry DEF Rules

(* The run's row changes, what is added and deleted does not. *)
LEMMA UpdateLocked ==
    ASSUME IInv, LockInv, NEW t \in Tasks, UpdateRun(t)
    PROVE  LockInv'
<1> DEFINE R == {[r EXCEPT !.status = "COMPLETED", !.found = work[t].count] :
                    r \in IF work[t].inserted THEN work[t].row ELSE RowsOf(t)}
           w == WithRow(work[t], R)
<1>1. /\ pc[t] = "update" /\ Continue(t, "commit", w) /\ IsWork(work[t]) /\ Shape
      /\ Locking(t) /\ Fresh(t)
  BY DEF UpdateRun, WithRow, IInv, Shape, LockInv
<1> HIDE DEF R
<1>2. Differs(work[t], w, {"row"})
  BY <1>1, FieldRow
<1> HIDE DEF w
<1>3. /\ IsWork(w) /\ w.added = work[t].added /\ w.staged = work[t].staged
      /\ w.locked = work[t].locked /\ w.removed = work[t].removed
  BY <1>2 DEF Differs
<1>4. /\ pc'[t] = "commit" /\ work'[t] = w /\ call' = call /\ violations' = violations
  BY <1>1, <1>3, Continued DEF Local, Tables
<1>5. Locking(t)' /\ Fresh(t)'
  BY <1>1, <1>3, <1>4 DEF Locking, Fresh, Begun, Inside
<1> QED BY <1>1, <1>3, <1>5, QuietCarry DEF Rules

(* Nor does it when the handler marks a run failed. *)
LEMMA MarkLocked ==
    ASSUME IInv, LockInv, NEW t \in Tasks, MarkFailed(t)
    PROVE  LockInv'
<1> DEFINE R == {[r EXCEPT !.status = "FAILED"] : r \in RowsOf(t)}
           w == WithRow(work[t], R)
<1>1. /\ pc[t] = "except" /\ Continue(t, "reraise", w) /\ IsWork(work[t]) /\ Shape
  BY DEF MarkFailed, WithRow, IInv, Shape
<1> HIDE DEF R
<1>2. Differs(work[t], w, {"row"})
  BY <1>1, FieldRow
<1> HIDE DEF w
<1>3. /\ IsWork(w) /\ w.added = work[t].added /\ w.staged = work[t].staged
      /\ w.locked = work[t].locked
  BY <1>2 DEF Differs
<1>4. pc'[t] = "reraise" /\ call' = call
  BY <1>1, <1>3, Continued
<1>5. Locking(t)' /\ Fresh(t)'
  BY <1>4 DEF Locking, Fresh, Begun, Rules
<1> QED BY <1>1, <1>3, <1>5, QuietCarry DEF Rules

-----------------------------------------------------------------------------
(* Steps of everyone, and the commit.                                      *)

(* Who is accepted now has no violations yet. *)
LEMMA AcceptLocked ==
    ASSUME IInv, LockInv, NEW t \in Tasks, NEW c \in Calls, Accept(t, c)
    PROVE  LockInv'
<1> DEFINE l == IF c.kind = "check" THEN "queued" ELSE "exists"
<1>1. /\ pc[t] = "new" /\ call' = [call EXCEPT ![t] = c] /\ pc' = [pc EXCEPT ![t] = l]
      /\ violations' = violations /\ work' = work /\ Shape
  BY DEF Accept, Goto, Tables, IInv
<1>2. /\ pc'[t] \in {"queued", "exists"} /\ call'[t] = c
      /\ \A u \in Tasks \ {t} : pc'[u] = pc[u] /\ call'[u] = call[u]
  BY <1>1 DEF Shape
<1>3. Clean(work[t]) /\ ~work[t].locked
  BY <1>1 DEF IInv, TaskInv, Begun, Rules, LockInv, Locking
<1>4. \A v \in violations : v.by \in Tasks /\ call'[v.by] = call[v.by] /\ pc'[v.by] = pc[v.by]
  BY <1>1, <1>2 DEF LockInv, Authored
<1>5. Locking(t)' /\ Staged(t)' /\ Fresh(t)'
  <2>1. {v.excess : v \in work'[t].added} = {}
    BY <1>1, <1>3 DEF Clean
  <2> QED BY <1>1, <1>2, <1>3, <2>1, NoneEach DEF Locking, Staged, Fresh, Begun, Rules, Clean
<1>6. ASSUME NEW u \in Tasks \ {t} PROVE Locking(u)' /\ Staged(u)' /\ Fresh(u)'
  <2>1. Locking(u) /\ Staged(u) /\ Fresh(u)
    BY DEF LockInv
  <2>2. Locking(u)' /\ Staged(u)'
    BY <1>1, <1>2, <2>1 DEF Locking, Staged
  <2>3. Fresh(u)'
    BY <1>1, <1>2, <1>4, <2>1 DEF Fresh, Inside
  <2> QED BY <2>2, <2>3
<1>7. LockExclusive'
  BY <1>1, <1>2, <1>3 DEF LockInv, LockExclusive
<1>8. Authored' /\ Measured' /\ RebuiltOnce'
  BY <1>1, <1>4 DEF LockInv, Authored, Measured, RebuiltOnce, Inside
<1> QED BY <1>5, <1>6, <1>7, <1>8 DEF LockInv

(* Activities are no violations. *)
LEMMA RecordLocked ==
    ASSUME LockInv, NEW x, RecordActivity(x)
    PROVE  LockInv'
<1>1. violations' = violations /\ pc' = pc /\ call' = call /\ work' = work
  BY DEF RecordActivity
<1>2. \A u \in Tasks : Locking(u)' /\ Staged(u)' /\ Fresh(u)'
  BY <1>1, AsBefore DEF LockInv
<1>3. LockExclusive' /\ Authored' /\ Measured' /\ RebuiltOnce'
  BY <1>1 DEF LockInv, LockExclusive, Authored, Measured, RebuiltOnce, Inside
<1> QED BY <1>2, <1>3 DEF LockInv

(* A dying process has no reprocess among its tasks. *)
LEMMA CrashLocked ==
    ASSUME IInv, LockInv, Crash
    PROVE  LockInv'
<1> DEFINE dying == {t \in Tasks : call[t].kind = "check" /\ pc[t] \in InSession \cup {"queued"}}
<1>1. /\ pc' = [t \in Tasks |-> IF t \in dying THEN "failed" ELSE pc[t]]
      /\ work' = [t \in Tasks |-> IF t \in dying THEN NoWork ELSE work[t]]
      /\ violations' = violations /\ call' = call
      /\ \A t \in dying : pc[t] \notin {"new", "done", "failed"} /\ call[t].kind = "check"
  BY DEF Crash, Tables, InSession, InBody, Rules
<1> HIDE DEF dying
<1>2. \A t \in Tasks \cap dying : pc'[t] = "failed" /\ work'[t] = NoWork
  BY <1>1
<1>3. \A t \in Tasks \ dying : pc'[t] = pc[t] /\ work'[t] = work[t]
  BY <1>1
<1>4. ~NoWork.locked /\ NoWork.added = {}
  BY DEF NoWork
<1>5. ASSUME NEW u \in Tasks PROVE Locking(u)' /\ Staged(u)' /\ Fresh(u)'
  <2>1. Locking(u) /\ Staged(u) /\ Fresh(u)
    BY DEF LockInv
  <2>2. CASE u \in dying
    <3>1. call'[u].kind = "check" /\ pc'[u] = "failed"
      BY <1>1, <1>2, <2>2
    <3> QED BY <3>1 DEF Locking, Staged, Fresh
  <2>3. CASE u \notin dying
    BY <1>1, <1>3, <2>1, <2>3, AsBefore
  <2> QED BY <2>2, <2>3
<1>6. LockExclusive'
  <2>1. \A u \in Tasks : work'[u].locked => work[u].locked
    BY <1>2, <1>3, <1>4
  <2> QED BY <1>1, <2>1 DEF LockInv, LockExclusive
<1>7. Authored'
  <2>1. \A v \in violations : v.by \in Tasks \ dying
    BY <1>1 DEF LockInv, Authored
  <2>2. \A u \in Tasks : \A v \in work'[u].added : v.by = u
    BY <1>2, <1>3, <1>4 DEF LockInv, Authored
  <2> QED BY <1>1, <1>3, <2>1, <2>2 DEF LockInv, Authored
<1>8. Measured' /\ RebuiltOnce'
  BY <1>1 DEF LockInv, Measured, RebuiltOnce, Inside
<1> QED BY <1>5, <1>6, <1>7, <1>8 DEF LockInv

(* A commit: what t adds stands alone, as what it would repeat is in the   *)
(* set that it removes; and t has the lock, so nobody else relies on what  *)
(* was there.                                                              *)
LEMMA CommitLocked ==
    ASSUME IInv, LockInv, NEW t \in Tasks, Commit(t) \/ CommitUnacknowledged(t)
    PROVE  LockInv'
<1>1. PICK l \in {"done", "failed"} : Goto(t, l)
  BY DEF Commit, CommitUnacknowledged
<1>2. pc[t] = "commit" /\ Publish(t)
  BY DEF Commit, CommitUnacknowledged
<1>3. /\ call' = call /\ pc'[t] = l /\ work'[t] = NoWork
      /\ \A u \in Tasks \ {t} : pc'[u] = pc[u] /\ work'[u] = work[u]
  BY <1>1, <1>2, Published
<1>4. violations' = (violations \ work[t].removed) \cup work[t].added
  BY <1>2 DEF Publish
<1>5. \A v \in work[t].added : v.by = t /\ v.driver = call[t].driver
  BY <1>2 DEF LockInv, Authored, IInv, TaskInv, Reported, Clean
<1>6. \A v \in violations : v.by \in Tasks \ {t} /\ pc'[v.by] \in {"done", "failed"}
  BY <1>2, <1>3 DEF LockInv, Authored
<1>7. Locking(t) /\ Staged(t) /\ Fresh(t)
  BY DEF LockInv
<1>8. ~NoWork.locked /\ NoWork.added = {} /\ NoWork.staged = {}
  BY DEF NoWork
<1>9. Locking(t)' /\ Staged(t)' /\ Fresh(t)'
  <2>1. {v.excess : v \in work'[t].added} = {}
    BY <1>3, <1>8
  <2> QED BY <1>3, <1>8, <2>1, NoneEach DEF Locking, Staged, Fresh, Begun, Rules
<1>10. ASSUME NEW u \in Tasks \ {t} PROVE Locking(u)' /\ Staged(u)' /\ Fresh(u)'
  <2>1. Locking(u) /\ Staged(u) /\ Fresh(u)
    BY DEF LockInv
  <2>2. Locking(u)' /\ Staged(u)'
    BY <1>3, <2>1 DEF Locking, Staged
  <2>3. Fresh(u)'
    <3> SUFFICES ASSUME call[u].kind = "reprocess",
                        \/ pc[u] \in {"rebuild", "update"}
                        \/ pc[u] = "commit" /\ work[u].added # {},
                        NEW v \in violations', v.driver = call[u].driver,
                        call[v.by].kind = "reprocess", Inside(v, call[u])
                 PROVE  v \in work[u].removed
      BY <1>3 DEF Fresh, Inside
    <3>1. work[u].locked
      BY <2>1 DEF Locking, Begun
    <3>2. CASE v \in work[t].added
      <4>1. call[t].kind = "reprocess" /\ call[t].driver = call[u].driver
        BY <1>5, <3>2
      <4>2. work[t].locked
        BY <1>2, <1>7, <3>2, <4>1 DEF Locking
      <4> QED BY <3>1, <4>1, <4>2 DEF LockInv, LockExclusive
    <3>3. CASE v \in violations
      BY <2>1, <3>3 DEF Fresh
    <3> QED BY <1>4, <3>2, <3>3
  <2> QED BY <2>2, <2>3
<1>11. LockExclusive'
  <2>1. \A u \in Tasks : work'[u].locked => work[u].locked
    BY <1>3, <1>8
  <2> QED BY <1>3, <2>1 DEF LockInv, LockExclusive
<1>12. Authored'
  <2>1. \A u \in Tasks : \A v \in work'[u].added : v.by = u
    BY <1>3, <1>8 DEF LockInv, Authored
  <2> QED BY <1>3, <1>4, <1>5, <1>6, <2>1 DEF Authored
<1>13. Measured'
  <2>1. \A v \in work[t].added : call[t].kind = "reprocess" =>
            v.excess.to = v.excess.from + Length(v.excess)
    BY <1>7 DEF Staged, OneEach
  <2> QED BY <1>3, <1>4, <1>5, <2>1 DEF LockInv, Measured
<1>14. RebuiltOnce'
  <2> SUFFICES ASSUME NEW v \in violations', NEW w \in violations',
                      v.driver = w.driver, Alike(v.excess, w.excess),
                      \A u \in {v.by, w.by} : call[u].kind = "reprocess" /\ Inside(v, call[u])
               PROVE  v = w
    BY <1>3 DEF RebuiltOnce, Alike, Inside
  <2>1. v.excess.to = w.excess.to
    BY <1>3, <1>13 DEF Measured, Alike, Length
  <2>2. \A u \in {v.by, w.by} : Inside(w, call[u])
    BY <2>1 DEF Inside, Alike
  <2>3. CASE v \in violations /\ w \in violations
    BY <2>3 DEF LockInv, RebuiltOnce, Alike
  <2>4. CASE v \in work[t].added /\ w \in work[t].added
    <3>1. call[t].kind = "reprocess"
      BY <1>5, <2>4
    <3> QED BY <1>7, <2>4, <3>1 DEF Staged, OneEach
  <2>5. CASE v \in work[t].added /\ w \in violations \ work[t].removed
    BY <1>2, <1>5, <1>7, <2>2, <2>5 DEF Fresh
  <2>6. CASE w \in work[t].added /\ v \in violations \ work[t].removed
    BY <1>2, <1>5, <1>7, <2>6 DEF Fresh
  <2> QED BY <1>4, <2>3, <2>4, <2>5, <2>6
<1> QED BY <1>9, <1>10, <1>11, <1>12, <1>13, <1>14 DEF LockInv

-----------------------------------------------------------------------------
(* Initially nobody has a lock and there is nothing to repeat. *)
LEMMA LockInit == Init => LockInv
<1> SUFFICES ASSUME Init PROVE LockInv
  OBVIOUS
<1>1. /\ violations = {} /\ \A t \in Tasks : pc[t] = "new" /\ work[t] = NoWork
  BY DEF Init
<1>2. ~NoWork.locked /\ NoWork.added = {} /\ NoWork.staged = {}
  BY DEF NoWork
<1>3. ASSUME NEW t \in Tasks PROVE Locking(t) /\ Staged(t) /\ Fresh(t)
  <2>1. {v.excess : v \in work[t].added} = {}
    BY <1>1, <1>2
  <2> QED BY <1>1, <1>2, <2>1, NoneEach DEF Locking, Staged, Fresh, Begun, Rules
<1>4. LockExclusive /\ Authored /\ Measured /\ RebuiltOnce
  BY <1>1, <1>2 DEF LockExclusive, Authored, Measured, RebuiltOnce
<1> QED BY <1>3, <1>4 DEF LockInv

(* One lemma for each action. *)
LEMMA LockStep == IInv /\ LockInv /\ [Next]_vars => LockInv'
<1> SUFFICES ASSUME IInv, LockInv, [Next]_vars PROVE LockInv'
  OBVIOUS
<1>1. CASE UNCHANGED vars
  <2>1. violations' = violations /\ pc' = pc /\ call' = call /\ work' = work
    BY <1>1 DEF vars
  <2>2. \A u \in Tasks : Locking(u)' /\ Staged(u)' /\ Fresh(u)'
    BY <2>1, AsBefore DEF LockInv
  <2>3. LockExclusive' /\ Authored' /\ Measured' /\ RebuiltOnce'
    BY <2>1 DEF LockInv, LockExclusive, Authored, Measured, RebuiltOnce, Inside
  <2> QED BY <2>2, <2>3 DEF LockInv
<1>2. ASSUME NEW x \in Possible, RecordActivity(x) PROVE LockInv'
  BY <1>2, RecordLocked
<1>3. ASSUME NEW t \in Tasks, NEW c \in Calls, Accept(t, c) PROVE LockInv'
  BY <1>3, AcceptLocked
<1>4. ASSUME NEW t \in Tasks, Progress(t) \/ Fault(t) PROVE LockInv'
  BY <1>4, RestLocked, TakeLockLocked, InsertLocked, RulesLocked, DeleteLocked, RebuildLocked,
     CountLocked, UpdateLocked, MarkLocked, CommitLocked
     DEF Progress, Fault
<1>5. CASE Crash
  BY <1>5, CrashLocked
<1> QED BY <1>1, <1>2, <1>3, <1>4, <1>5 DEF Next

(* However many reprocesses of a driver there are, concurrent or not, and  *)
(* whatever checks, activities and faults come between: of all that cover  *)
(* an excess, one alone accounts for it ("Driver-level lock").             *)
THEOREM RebuiltOnceOnly == Spec => []RebuiltOnce
<1>1. Init => LockInv
  BY LockInit
<1>2. IInv /\ LockInv /\ [Next]_vars => LockInv'
  BY LockStep
<1>3. LockInv => RebuiltOnce
  BY DEF LockInv
<1> QED BY <1>1, <1>2, <1>3, Invariance, PTL DEF Spec

-----------------------------------------------------------------------------
(* What the rows say.                                                      *)

Labels == InSession \cup {"new", "queued", "done", "failed"}

(* ex_activity_no_overlap *)
NoOverlap ==
    \A x, y \in activities :
        x # y /\ x.driver = y.driver => x.ended <= y.started \/ y.ended <= x.started

(* What t has in hand is of its type; what it deletes is in the table, and *)
(* stays there as long as it has the lock.                                 *)
Typed(t) ==
    /\ pc[t] \in Labels
    /\ call[t] \in Calls
    /\ work[t].row \subseteq RunRows /\ Cardinality(work[t].row) <= 1
    /\ work[t].inserted \in BOOLEAN /\ work[t].locked \in BOOLEAN
    /\ work[t].added \subseteq ViolationRows
    /\ work[t].removed \subseteq violations
    /\ work[t].removed # {} => work[t].locked
    /\ \A v \in work[t].removed : v.driver = call[t].driver
    /\ work[t].staged \subseteq Excesses
    /\ work[t].count \in Nat

BorneOut(e, d) == \E u \in AllRules(Driving(activities, d)) : Covers(u, e)

(* What t has found, the activities bear out. *)
Justified(t) ==
    /\ \A v \in work[t].added : BorneOut(v.excess, v.driver)
    /\ \A e \in work[t].staged : BorneOut(e, call[t].driver)

(* What t has found so far, and what there was to be found when it began. *)
Found(t) ==
    IF call[t].kind = "check" THEN {v.excess : v \in work[t].added} ELSE work[t].staged

Known(t) == Driving(baseline[t], call[t].driver)

KnownInPeriod(t) == Within(Known(t), call[t].from, call[t].to)

Finds(F, S) == \A e \in S : \E f \in F : Covers(f, e)

(* The statements that have the rule behind them. *)
AfterDaily      == (Begun \ {"daily"}) \cup {"commit"}
AfterWeekly     == AfterDaily \ {"weekly"}
AfterBiweekly   == AfterWeekly \ {"biweekly"}
AfterContinuous == {"count", "update", "commit"}

(* No rule that t has behind it has missed what was there when it began.   *)
Complete(t) ==
    pc[t] \in Begun \/ (pc[t] = "commit" /\ work[t].row # {}) =>
        /\ baseline[t] \subseteq activities
        /\ pc[t] \in AfterDaily => Finds(Found(t), Daily(KnownInPeriod(t)))
        /\ pc[t] \in AfterWeekly => Finds(Found(t), Weekly(KnownInPeriod(t)))
        /\ pc[t] \in AfterBiweekly =>
             Finds(Found(t), IF call[t].kind = "check" THEN Biweekly(Known(t))
                             ELSE Biweekly(KnownInPeriod(t)))
        /\ call[t].kind = "check" /\ pc[t] \in AfterContinuous =>
             Finds(Found(t), Continuous(KnownInPeriod(t)))
        /\ call[t].kind # "check" /\ pc[t] \in {"update", "commit"} =>
             work[t].staged \subseteq {v.excess : v \in work[t].added}

ReportInv ==
    /\ activities \subseteq Possible /\ NoOverlap
    /\ runs \subseteq RunRows /\ violations \subseteq ViolationRows
    /\ pc = [t \in Tasks |-> pc[t]] /\ call = [t \in Tasks |-> call[t]]
    /\ baseline \in [Tasks -> SUBSET Possible]
    /\ \A t \in Tasks : Typed(t) /\ Justified(t) /\ Complete(t)
    /\ ReportsSound

-----------------------------------------------------------------------------
(* What the rules report is of its type. *)
LEMMA RulesTyped ==
    ASSUME NEW S, Log(S), NEW e \in AllRules(S)
    PROVE  e \in Excesses
<1>1. Figures(e)  BY RulesGrow
<1>2. CASE e \in Daily(S)
  <2>1. PICK d : e = Excess("DAILY_DRIVING_LIMIT",
            IF DrivenFrom(S, d, Day) > CriticalDaily THEN "CRITICAL" ELSE "HIGH",
            d, d + Day, DrivenFrom(S, d, Day), DailyLimit)
    BY <1>2 DEF Daily
  <2>2. DailyLimit \in Nat  BY DEF DailyLimit
  <2> QED BY <1>1, <2>1, <2>2 DEF Figures, Excess, Excesses
<1>3. CASE e \in Weekly(S)
  <2>1. PICK w : e = Excess("WEEKLY_DRIVING_LIMIT", "CRITICAL",
            w, w + Week, DrivenFrom(S, w, Week), WeeklyLimit)
    BY <1>3 DEF Weekly
  <2>2. WeeklyLimit \in Nat  BY DEF WeeklyLimit
  <2> QED BY <1>1, <2>1, <2>2 DEF Figures, Excess, Excesses
<1>4. CASE e \in Biweekly(S)
  <2>1. PICK w : e = Excess("WEEKLY_DRIVING_LIMIT", "CRITICAL",
            w, w + 2 * Week, DrivenFrom(S, w, 2 * Week), BiweeklyLimit)
    BY <1>4 DEF Biweekly
  <2>2. BiweeklyLimit \in Nat  BY DEF BiweeklyLimit
  <2> QED BY <1>1, <2>1, <2>2 DEF Figures, Excess, Excesses
<1>5. CASE e \in Continuous(S)
  <2>1. PICK span : e = Excess("EXCESS_CONTINUOUS_DRIVING", "HIGH",
            Min({x.started : x \in span}), Max({x.ended : x \in span}),
            Seconds(span), ContinuousLimit)
    BY <1>5 DEF Continuous
  <2>2. ContinuousLimit \in Nat  BY DEF ContinuousLimit
  <2> QED BY <1>1, <2>1, <2>2 DEF Figures, Excess, Excesses
<1> QED BY <1>2, <1>3, <1>4, <1>5 DEF AllRules

(* What is borne out by some activities is borne out by more. *)
LEMMA CoveredMore ==
    ASSUME NEW T, Log(T), NEW S \in SUBSET T, NEW e \in Excesses,
           \E u \in AllRules(S) : Covers(u, e)
    PROVE  \E u \in AllRules(T) : Covers(u, e)
<1>1. PICK u \in AllRules(S) : Covers(u, e)  OBVIOUS
<1>2. Figures(u) /\ \E w \in AllRules(T) : Covers(w, u)  BY RulesGrow
<1>3. PICK w \in AllRules(T) : Covers(w, u)  BY <1>2
<1>4. Figures(w)  BY RulesGrow
<1>5. Figures(e)  BY DEF Figures, Excesses
<1> QED BY <1>1, <1>2, <1>3, <1>4, <1>5, CoversIs

(* The driving of a driver is a log. *)
LEMMA DrivingIsLog ==
    ASSUME IsFiniteSet(activities), activities \subseteq Possible, NoOverlap, NEW d
    PROVE  Log(Driving(activities, d))
<1>1. IsFiniteSet(Driving(activities, d))  BY FS_Subset DEF Driving
<1>2. \A x \in Driving(activities, d) : x \in activities /\ x \in Possible /\ x.driver = d
  BY DEF Driving
<1> QED BY <1>1, <1>2, PossibleAssumption DEF Log, Logged, NoOverlap

(* What t's statements look at: a log, and of it what was there when t     *)
(* began.                                                                  *)
LEMMA LooksAt ==
    ASSUME IInv, ReportInv, NEW t \in Tasks
    PROVE  /\ Log(Driven(t)) /\ Log(InWindow(t)) /\ InWindow(t) \in SUBSET Driven(t)
           /\ baseline[t] \subseteq activities =>
                Known(t) \in SUBSET Driven(t) /\ KnownInPeriod(t) \in SUBSET InWindow(t)
<1>1. Log(Driven(t))
  BY DrivingIsLog DEF IInv, Shape, ReportInv, Driven
<1>2. InWindow(t) \in SUBSET Driven(t)  BY DEF InWindow, Within
<1>3. Log(InWindow(t))  BY <1>1, <1>2, LogPart
<1>4. baseline[t] \subseteq activities =>
        Known(t) \in SUBSET Driven(t) /\ KnownInPeriod(t) \in SUBSET InWindow(t)
  BY DEF Known, Driven, KnownInPeriod, InWindow, Driving, Within
<1> QED BY <1>1, <1>2, <1>3, <1>4

(* What the rules report of it is borne out. *)
LEMMA RuleJustified ==
    ASSUME IInv, ReportInv, NEW t \in Tasks, NEW S \in {Driven(t), InWindow(t)},
           NEW e \in AllRules(S)
    PROVE  e \in Excesses /\ BorneOut(e, call[t].driver)
<1>1. Log(Driven(t)) /\ Log(S) /\ S \in SUBSET Driven(t)  BY LooksAt
<1>2. e \in Excesses  BY <1>1, RulesTyped
<1>3. \E u \in AllRules(Driven(t)) : Covers(u, e)  BY <1>1, RulesGrow
<1> QED BY <1>2, <1>3 DEF BorneOut, Driven

-----------------------------------------------------------------------------
(* Steps that show nothing.                                                *)

(* What is said of a task depends on the task, the calls and the tables. *)
LEMMA SameReport ==
    ASSUME NEW u \in Tasks, pc'[u] = pc[u], work'[u] = work[u], call'[u] = call[u],
           baseline'[u] = baseline[u], activities' = activities,
           work[u].removed \subseteq violations',
           Typed(u), Justified(u), Complete(u)
    PROVE  Typed(u)' /\ Justified(u)' /\ Complete(u)'
<1>1. Typed(u)'  BY DEF Typed
<1>2. Justified(u)'  BY DEF Justified, BorneOut
<1>3. Found(u)' = Found(u) /\ Known(u)' = Known(u) /\ KnownInPeriod(u)' = KnownInPeriod(u)
  BY DEF Found, Known, KnownInPeriod
<1>4. Complete(u)'  BY <1>3 DEF Complete
<1> QED BY <1>1, <1>2, <1>4

(* A step of t that leaves t as it should be is safe for the others. *)
LEMMA ReportKept ==
    ASSUME IInv, ReportInv, NEW t \in Tasks, Local(t),
           \A u \in Tasks \ {t} : baseline'[u] = baseline[u],
           baseline' \in [Tasks -> SUBSET Possible],
           Typed(t)', Justified(t)', Complete(t)'
    PROVE  ReportInv'
<1>1. /\ activities' = activities /\ runs' = runs /\ violations' = violations
      /\ call' = call
      /\ \A u \in Tasks \ {t} : pc'[u] = pc[u] /\ work'[u] = work[u]
      /\ pc' = [u \in Tasks |-> pc'[u]]
  BY DEF Local, Tables, ReportInv, IInv, Shape
<1>2. ASSUME NEW u \in Tasks \ {t} PROVE Typed(u)' /\ Justified(u)' /\ Complete(u)'
  <2>1. Typed(u) /\ Justified(u) /\ Complete(u)  BY DEF ReportInv
  <2>2. work[u].removed \subseteq violations'  BY <1>1, <2>1 DEF Typed
  <2> QED BY <1>1, <2>1, <2>2, SameReport
<1>3. NoOverlap' /\ ReportsSound'
  BY <1>1 DEF ReportInv, NoOverlap, ReportsSound
<1> QED BY <1>1, <1>2, <1>3 DEF ReportInv

(* ... where it goes on to a statement with other work in hand. *)
LEMMA ReportGoes ==
    ASSUME IInv, ReportInv, NEW t \in Tasks, NEW l, NEW w, IsWork(w), Continue(t, l, w),
           Typed(t)', Justified(t)', Complete(t)'
    PROVE  ReportInv'
<1>1. Local(t) /\ baseline' = baseline
  BY Continued DEF IInv, Continue
<1> QED BY <1>1, ReportKept DEF ReportInv

(* Of no rows there are none. *)
LEMMA NoneCounted == Cardinality({}) = 0 /\ 0 \in Nat
BY FS_EmptySet

(* A step that drops everything is safe. *)
LEMMA ReportRest ==
    ASSUME IInv, ReportInv, NEW t \in Tasks, NEW l \in Labels \ Begun,
           Continue(t, l, NoWork)
    PROVE  ReportInv'
<1>1. /\ Local(t) /\ pc'[t] = l /\ work'[t] = NoWork /\ call' = call
  BY NoWorkClean, Continued DEF IInv
<1>2. /\ NoWork.row = {} /\ NoWork.added = {} /\ NoWork.removed = {} /\ NoWork.staged = {}
      /\ NoWork.count = 0 /\ NoWork.locked \in BOOLEAN /\ NoWork.inserted \in BOOLEAN
  BY DEF NoWork
<1>3. call[t] \in Calls  BY DEF ReportInv, Typed
<1>4. Typed(t)' /\ Justified(t)'
  BY <1>1, <1>2, <1>3, NoneCounted DEF Typed, Justified
<1>5. Complete(t)'
  BY <1>1, <1>2 DEF Complete
<1> QED BY <1>4, <1>5, NoWorkClean, ReportGoes

(* Beginning, failing and giving up. *)
LEMMA RestReport ==
    ASSUME IInv, ReportInv, NEW t \in Tasks,
           \/ GetConnection(t) \/ PoolTimeout(t) \/ CheckExists(t)
           \/ Reraise(t) \/ ConnectionLost(t)
    PROVE  ReportInv'
<1> USE DEF Labels, InSession, InBody, Begun, Rules
<1>1. CASE GetConnection(t)
  BY <1>1, ReportRest DEF GetConnection
<1>2. CASE PoolTimeout(t)
  BY <1>2, ReportRest DEF PoolTimeout, Rollback
<1>3. CASE CheckExists(t)
  BY <1>3, ReportRest DEF CheckExists
<1>4. CASE Reraise(t)
  BY <1>4, ReportRest DEF Reraise, Rollback
<1>5. CASE ConnectionLost(t)
  BY <1>5, ReportRest DEF ConnectionLost, Rollback
<1> QED BY <1>1, <1>2, <1>3, <1>4, <1>5

(* The lock has no part in what is found. *)
LEMMA TakeLockReport ==
    ASSUME IInv, ReportInv, NEW t \in Tasks, TakeLock(t)
    PROVE  ReportInv'
<1> DEFINE w == WithLocked(work[t], TRUE)
<1>1. /\ pc[t] = "lock" /\ Continue(t, "insert", w) /\ IsWork(work[t]) /\ Clean(work[t])
      /\ Typed(t) /\ Justified(t)
  BY DEF TakeLock, WithLocked, IInv, Shape, TaskInv, Begun, Rules, ReportInv
<1>2. Differs(work[t], w, {"locked"}) /\ w.locked = TRUE
  BY <1>1, FieldLocked
<1> HIDE DEF w
<1>3. IsWork(w) /\ Clean(w) /\ w.inserted = work[t].inserted
  BY <1>1, <1>2 DEF Differs, Clean
<1>4. /\ Local(t) /\ pc'[t] = "insert" /\ work'[t] = w /\ call' = call
  BY <1>1, <1>3, Continued DEF IInv
<1>5. Typed(t)' /\ Justified(t)'
  BY <1>1, <1>2, <1>3, <1>4, NoneCounted DEF Typed, Justified, Clean, Labels, InSession, InBody
<1>6. Complete(t)'
  BY <1>4 DEF Complete, Begun, Rules
<1> QED BY <1>1, <1>3, <1>5, <1>6, ReportGoes

(* t has begun: what is there now is what it must report. *)
LEMMA InsertReport ==
    ASSUME IInv, ReportInv, NEW t \in Tasks, InsertRun(t)
    PROVE  ReportInv'
<1>1. /\ pc[t] = "insert" /\ Clean(work[t]) /\ IsWork(work[t]) /\ Shape /\ Typed(t)
  BY DEF InsertRun, IInv, TaskInv, Begun, Rules, Shape, ReportInv
<1>2. CASE Raise(t)
  BY <1>1, <1>2, ReportRest DEF Raise, Begun, Rules, Labels, InSession, InBody
<1>3. ASSUME Goto(t, "daily"), UNCHANGED <<Tables, call>>,
             baseline' = [baseline EXCEPT ![t] = activities],
             NEW w, IsWork(w), work' = [work EXCEPT ![t] = w],
             w.row = {} \/ w.row = {RunRow(t, "RUNNING", 0)}, w.inserted \in BOOLEAN,
             w.added = {}, w.staged = {}, w.removed = {}, w.count = 0,
             w.locked = work[t].locked
      PROVE  ReportInv'
  <2>1. /\ Local(t) /\ pc'[t] = "daily" /\ work'[t] = w /\ call' = call
        /\ activities' = activities
    BY <1>1, <1>3 DEF Local, Goto, Shape, Tables
  <2>2. /\ \A u \in Tasks \ {t} : baseline'[u] = baseline[u]
        /\ baseline' \in [Tasks -> SUBSET Possible] /\ baseline'[t] = activities
    BY <1>3 DEF ReportInv
  <2>3. w.row \subseteq RunRows /\ Cardinality(w.row) <= 1
    <3>1. RunRow(t, "RUNNING", 0) \in RunRows
      BY <1>1, CallsAssumption DEF RunRow, RunRows, Typed
    <3>2. CASE w.row = {}  BY <3>2, NoneCounted
    <3>3. CASE w.row = {RunRow(t, "RUNNING", 0)}
      <4>1. Cardinality(w.row) = 1  BY <3>3, FS_Singleton
      <4> QED BY <3>1, <3>3, <4>1
    <3> QED BY <1>3, <3>2, <3>3
  <2>4. Typed(t)' /\ Justified(t)'
    BY <1>1, <1>3, <2>1, <2>3 DEF Typed, Justified, Labels, InSession, InBody, Rules
  <2>5. Complete(t)'
    BY <2>1, <2>2 DEF Complete, AfterDaily, AfterWeekly, AfterBiweekly, AfterContinuous
  <2> QED BY <2>1, <2>2, <2>4, <2>5, ReportKept
<1>4. ASSUME Goto(t, "daily"), UNCHANGED <<Tables, call>>,
             baseline' = [baseline EXCEPT ![t] = activities],
             work' = [work EXCEPT ![t].row = {RunRow(t, "RUNNING", 0)}, ![t].inserted = TRUE]
      PROVE  ReportInv'
  <2> DEFINE w == Work({RunRow(t, "RUNNING", 0)}, TRUE, work[t].locked, {}, {}, {}, 0)
  <2>1. work' = [work EXCEPT ![t] = w]
    <3>1. PICK r : r = {RunRow(t, "RUNNING", 0)}
      OBVIOUS
    <3>2. /\ work' = [work EXCEPT ![t].row = r, ![t].inserted = TRUE]
          /\ work = [u \in Tasks |-> work[u]] /\ IsWork(work[t]) /\ Clean(work[t])
      BY <1>1, <1>4, <3>1 DEF Shape
    <3>3. /\ work' = [work EXCEPT ![t] = work'[t]]
          /\ work'[t] = [row |-> r, inserted |-> TRUE, locked |-> work[t].locked,
                         added |-> work[t].added, removed |-> work[t].removed,
                         staged |-> work[t].staged, count |-> work[t].count]
      BY <3>2 DEF IsWork
    <3> QED BY <3>1, <3>2, <3>3 DEF Work, Clean
  <2>2. /\ IsWork(w) /\ w.row = {RunRow(t, "RUNNING", 0)} /\ w.inserted = TRUE
        /\ w.added = {} /\ w.staged = {} /\ w.removed = {} /\ w.count = 0
        /\ w.locked = work[t].locked
    BY DEF IsWork, Work
  <2> HIDE DEF w
  <2> QED BY <1>3, <1>4, <2>1, <2>2
<1>5. ASSUME Goto(t, "daily"), UNCHANGED <<Tables, call, work>>,
             baseline' = [baseline EXCEPT ![t] = activities]
      PROVE  ReportInv'
  <2>1. work' = [work EXCEPT ![t] = work[t]]
    BY <1>1, <1>5 DEF Shape
  <2>2. work[t].inserted \in BOOLEAN  BY <1>1 DEF Typed
  <2> QED BY <1>1, <1>3, <1>5, <2>1, <2>2 DEF Clean
<1> QED BY <1>2, <1>4, <1>5 DEF InsertRun

-----------------------------------------------------------------------------
(* The rules.                                                              *)

(* A rule's INSERT adds what it finds to what t has found. *)
LEMMA ReportFound ==
    ASSUME IInv, ReportInv, NEW t \in Tasks, NEW S, NEW l \in Begun, Report(t, S, l),
           pc[t] \in Rules,
           \A e \in S : e \in Excesses /\ BorneOut(e, call[t].driver)
    PROVE  \E w : /\ IsWork(w) /\ Continue(t, l, w)
                  /\ w.row = work[t].row
                  /\ Typed(t)' /\ Justified(t)' /\ Found(t)' = Found(t) \cup S
<1>1. /\ IsWork(work[t]) /\ Shape /\ Typed(t) /\ Justified(t)
      /\ l \in Labels
  BY DEF IInv, Shape, ReportInv, Begun, Rules, Labels, InSession, InBody
<1>2. CASE call[t].kind = "check"
  <2> DEFINE w == WithAdded(work[t], work[t].added \cup Reports(t, S))
  <2>1. Continue(t, l, w)
    BY <1>2 DEF Report, WithAdded
  <2>2. Differs(work[t], w, {"added"}) /\ w.added = work[t].added \cup Reports(t, S)
    BY <1>1, FieldAdded
  <2> HIDE DEF w
  <2>3. /\ IsWork(w) /\ w.row = work[t].row /\ w.inserted = work[t].inserted
        /\ w.removed = work[t].removed /\ w.staged = work[t].staged
        /\ w.locked = work[t].locked /\ w.count = work[t].count
    BY <2>2 DEF Differs
  <2>4. /\ pc'[t] = l /\ work'[t] = w /\ call' = call
        /\ activities' = activities /\ violations' = violations
    BY <1>1, <2>1, <2>3, Continued DEF Local, Tables
  <2>5. \A v \in Reports(t, S) : v \in ViolationRows /\ BorneOut(v.excess, v.driver)
    <3>1. \A e \in S : [excess |-> e, driver |-> call[t].driver, run |-> call[t].run,
                        by |-> t] \in ViolationRows
      BY <1>1 DEF ViolationRows, Typed
    <3> QED BY <3>1 DEF Reports
  <2>6. Typed(t)' /\ Justified(t)'
    BY <1>1, <2>2, <2>3, <2>4, <2>5 DEF Typed, Justified, BorneOut
  <2>7. {v.excess : v \in Reports(t, S)} = S
    <3>1. \A v \in Reports(t, S) : v.excess \in S  BY DEF Reports
    <3>2. ASSUME NEW e \in S PROVE \E v \in Reports(t, S) : v.excess = e
      <4> DEFINE v == [excess |-> e, driver |-> call[t].driver, run |-> call[t].run, by |-> t]
      <4>1. v \in Reports(t, S) /\ v.excess = e  BY DEF Reports
      <4> QED BY <4>1
    <3> QED BY <3>1, <3>2
  <2>8. Found(t)' = Found(t) \cup S
    <3>1. {v.excess : v \in w.added} = {v.excess : v \in work[t].added} \cup S
      BY <2>2, <2>7
    <3> QED BY <1>2, <2>4, <3>1 DEF Found
  <2> QED BY <2>1, <2>3, <2>6, <2>8
<1>3. CASE call[t].kind # "check"
  <2> DEFINE w == WithStaged(work[t], work[t].staged \cup S)
  <2>1. Continue(t, l, w)
    BY <1>3 DEF Report, WithStaged
  <2>2. Differs(work[t], w, {"staged"}) /\ w.staged = work[t].staged \cup S
    BY <1>1, FieldStaged
  <2> HIDE DEF w
  <2>3. /\ IsWork(w) /\ w.row = work[t].row /\ w.inserted = work[t].inserted
        /\ w.removed = work[t].removed /\ w.added = work[t].added
        /\ w.locked = work[t].locked /\ w.count = work[t].count
    BY <2>2 DEF Differs
  <2>4. /\ pc'[t] = l /\ work'[t] = w /\ call' = call
        /\ activities' = activities /\ violations' = violations
    BY <1>1, <2>1, <2>3, Continued DEF Local, Tables
  <2>5. Typed(t)' /\ Justified(t)'
    BY <1>1, <2>2, <2>3, <2>4 DEF Typed, Justified, BorneOut
  <2>6. Found(t)' = Found(t) \cup S
    BY <1>3, <2>2, <2>4 DEF Found
  <2> QED BY <2>1, <2>3, <2>5, <2>6
<1> QED BY <1>2, <1>3

(* Who has found enough finds enough with more. *)
LEMMA FindsUnion ==
    ASSUME NEW F, NEW S, NEW X, Finds(F, X) \/ Finds(S, X)
    PROVE  Finds(F \cup S, X)
BY DEF Finds

(* Each rule finds what was there, or more. *)
LEMMA RuleFinds ==
    ASSUME IInv, ReportInv, NEW t \in Tasks, baseline[t] \subseteq activities
    PROVE  /\ Finds(Daily(InWindow(t)), Daily(KnownInPeriod(t)))
           /\ Finds(Weekly(InWindow(t)), Weekly(KnownInPeriod(t)))
           /\ Finds(Biweekly(InWindow(t)), Biweekly(KnownInPeriod(t)))
           /\ Finds(Biweekly(Driven(t)), Biweekly(Known(t)))
           /\ Finds(Continuous(InWindow(t)), Continuous(KnownInPeriod(t)))
<1>1. /\ Log(Driven(t)) /\ Log(InWindow(t)) /\ Logged(Driven(t)) /\ Logged(InWindow(t))
      /\ Known(t) \in SUBSET Driven(t) /\ KnownInPeriod(t) \in SUBSET InWindow(t)
  BY LooksAt DEF Log
<1> QED BY <1>1, DailyGrows, WeeklyGrows, BiweeklyGrows, ContinuousGrows DEF Finds

(* The four rules. *)
LEMMA RulesReport ==
    ASSUME IInv, ReportInv, NEW t \in Tasks,
           DailyRule(t) \/ WeeklyRule(t) \/ BiweeklyRule(t) \/ ContinuousRule(t)
    PROVE  ReportInv'
<1> USE DEF AfterDaily, AfterWeekly, AfterBiweekly, AfterContinuous, Begun, Rules
<1>1. /\ Complete(t)
      /\ pc[t] \in Rules => baseline[t] \subseteq activities
      /\ pc[t] \in {"continuous", "count"} => call[t].kind = "check"
  BY DEF ReportInv, Complete, IInv, TaskInv, InOrder
<1>2. \A S \in {Driven(t), InWindow(t)} : \A e \in AllRules(S) :
        e \in Excesses /\ BorneOut(e, call[t].driver)
  BY RuleJustified
<1>3. ASSUME NEW S, NEW l \in Begun, Report(t, S, l), pc[t] \in Rules,
             S \subseteq AllRules(Driven(t)) \cup AllRules(InWindow(t)),
             \A F : F = Found(t) \cup S =>
               /\ l \in AfterDaily => Finds(F, Daily(KnownInPeriod(t)))
               /\ l \in AfterWeekly => Finds(F, Weekly(KnownInPeriod(t)))
               /\ l \in AfterBiweekly =>
                    Finds(F, IF call[t].kind = "check" THEN Biweekly(Known(t))
                             ELSE Biweekly(KnownInPeriod(t)))
               /\ call[t].kind = "check" /\ l \in AfterContinuous =>
                    Finds(F, Continuous(KnownInPeriod(t))),
             l # "update"
      PROVE  ReportInv'
  <2>1. \A e \in S : e \in Excesses /\ BorneOut(e, call[t].driver)
    BY <1>2, <1>3
  <2>2. PICK w : /\ IsWork(w) /\ Continue(t, l, w)
                 /\ w.row = work[t].row
                 /\ Typed(t)' /\ Justified(t)' /\ Found(t)' = Found(t) \cup S
    BY <1>3, <2>1, ReportFound
  <2>3. /\ pc'[t] = l /\ call' = call /\ activities' = activities /\ baseline' = baseline
    BY <2>2, Continued DEF Local, Tables, IInv, Continue
  <2>4. Known(t)' = Known(t) /\ KnownInPeriod(t)' = KnownInPeriod(t)
    BY <2>3 DEF Known, KnownInPeriod
  <2>5. Complete(t)'
    BY <1>1, <1>3, <2>2, <2>3, <2>4 DEF Complete
  <2> QED BY <2>2, <2>5, ReportGoes
<1>4. CASE DailyRule(t)
  <2>1. CASE SeverityCast
    <3>1. Report(t, Daily(InWindow(t)), "weekly") /\ pc[t] = "daily"
      BY <1>4, <2>1 DEF DailyRule
    <3>2. Finds(Daily(InWindow(t)), Daily(KnownInPeriod(t)))
      BY <1>1, <3>1, RuleFinds
    <3> QED BY <1>3, <3>1, <3>2, FindsUnion DEF AllRules
  <2>2. CASE ~SeverityCast
    <3>1. Continue(t, "except", NoWork)
      BY <1>4, <2>2 DEF DailyRule, Raise
    <3> QED BY <3>1, ReportRest DEF Labels, InSession, InBody
  <2> QED BY <2>1, <2>2
<1>5. CASE WeeklyRule(t)
  <2>1. Report(t, Weekly(InWindow(t)), "biweekly") /\ pc[t] = "weekly"
    BY <1>5 DEF WeeklyRule
  <2>2. Finds(Weekly(InWindow(t)), Weekly(KnownInPeriod(t)))
    BY <1>1, <2>1, RuleFinds
  <2>3. Finds(Found(t), Daily(KnownInPeriod(t)))
    BY <1>1, <2>1 DEF Complete
  <2> QED BY <1>3, <2>1, <2>2, <2>3, FindsUnion DEF AllRules
<1>6. CASE BiweeklyRule(t)
  <2>1. pc[t] = "biweekly"
    BY <1>6 DEF BiweeklyRule
  <2>2. Finds(Found(t), Daily(KnownInPeriod(t))) /\ Finds(Found(t), Weekly(KnownInPeriod(t)))
    BY <1>1, <2>1 DEF Complete
  <2>3. CASE call[t].kind = "check" /\ Report(t, Biweekly(Driven(t)), "continuous")
    <3>1. Finds(Biweekly(Driven(t)), Biweekly(Known(t)))
      BY <1>1, <2>1, RuleFinds
    <3> QED BY <1>3, <2>1, <2>2, <2>3, <3>1, FindsUnion DEF AllRules
  <2>4. CASE call[t].kind = "reprocess" /\ Report(t, Biweekly(InWindow(t)), "delete")
    <3>1. Finds(Biweekly(InWindow(t)), Biweekly(KnownInPeriod(t)))
      BY <1>1, <2>1, RuleFinds
    <3> QED BY <1>3, <2>1, <2>2, <2>4, <3>1, FindsUnion DEF AllRules
  <2> QED BY <1>6, <2>3, <2>4 DEF BiweeklyRule
<1>7. CASE ContinuousRule(t)
  <2>1. Report(t, Continuous(InWindow(t)), "count") /\ pc[t] = "continuous"
    BY <1>7 DEF ContinuousRule
  <2>2. Finds(Continuous(InWindow(t)), Continuous(KnownInPeriod(t)))
    BY <1>1, <2>1, RuleFinds
  <2>3. /\ Finds(Found(t), Daily(KnownInPeriod(t))) /\ Finds(Found(t), Weekly(KnownInPeriod(t)))
        /\ Finds(Found(t), Biweekly(Known(t))) /\ call[t].kind = "check"
    BY <1>1, <2>1 DEF Complete
  <2> QED BY <1>3, <2>1, <2>2, <2>3, FindsUnion DEF AllRules
<1> QED BY <1>4, <1>5, <1>6, <1>7

-----------------------------------------------------------------------------
(* The other statements of the body.                                       *)

(* What t has found, and what there was to find, are as they were. *)
LEMMA FoundBefore ==
    ASSUME NEW t \in Tasks, call' = call, activities' = activities, baseline' = baseline,
           work'[t].added = work[t].added, work'[t].staged = work[t].staged
    PROVE  /\ Found(t)' = Found(t) /\ Known(t)' = Known(t)
           /\ KnownInPeriod(t)' = KnownInPeriod(t)
           /\ Justified(t) => Justified(t)'
BY DEF Found, Known, KnownInPeriod, Justified, BorneOut

(* What a reprocess notes to delete is in the table, and it has the lock. *)
LEMMA DeleteReport ==
    ASSUME IInv, LockInv, ReportInv, NEW t \in Tasks, DeleteSuperseded(t)
    PROVE  ReportInv'
<1> DEFINE w == WithCountRemoved(work[t], Cardinality(work[t].staged), Superseded(t))
<1>1. /\ pc[t] = "delete" /\ Continue(t, "rebuild", w)
      /\ Reported(t) /\ InOrder(t) /\ IsWork(work[t]) /\ Shape
      /\ Typed(t) /\ Justified(t) /\ Complete(t) /\ Locking(t)
  BY DEF DeleteSuperseded, WithCountRemoved, IInv, TaskInv, Begun, Shape, ReportInv, LockInv
<1>2. /\ Differs(work[t], w, {"count", "removed"})
      /\ w.count = Cardinality(work[t].staged) /\ w.removed = Superseded(t)
  BY <1>1, FieldCountRemoved
<1> HIDE DEF w
<1>3. /\ IsWork(w) /\ w.row = work[t].row /\ w.inserted = work[t].inserted
      /\ w.added = work[t].added /\ w.staged = work[t].staged /\ w.locked = work[t].locked
  BY <1>2 DEF Differs
<1>4. /\ Local(t) /\ pc'[t] = "rebuild" /\ work'[t] = w /\ call' = call
      /\ activities' = activities /\ violations' = violations /\ baseline' = baseline
  BY <1>1, <1>3, Continued DEF Local, Tables, Continue
<1>5. call[t].kind = "reprocess" /\ work[t].locked
  BY <1>1 DEF InOrder, Locking, Begun
<1>6. w.count \in Nat
  BY <1>1, <1>2, FS_CardinalityType DEF Reported
<1>7. Typed(t)'
  BY <1>1, <1>2, <1>3, <1>4, <1>5, <1>6
     DEF Typed, Superseded, Labels, InSession, InBody
<1>8. Justified(t)'
  BY <1>1, <1>3, <1>4, FoundBefore
<1>9. Complete(t)'
  BY <1>1, <1>3, <1>4, FoundBefore
     DEF Complete, Begun, Rules, AfterDaily, AfterWeekly, AfterBiweekly, AfterContinuous
<1> QED BY <1>1, <1>3, <1>7, <1>8, <1>9, ReportGoes

(* All that was staged is inserted. *)
LEMMA RebuildReport ==
    ASSUME IInv, ReportInv, NEW t \in Tasks, InsertRebuilt(t)
    PROVE  ReportInv'
<1> DEFINE w == WithAdded(work[t], Reports(t, work[t].staged))
<1>1. /\ pc[t] = "rebuild" /\ Continue(t, "update", w)
      /\ InOrder(t) /\ IsWork(work[t]) /\ Shape
      /\ Typed(t) /\ Justified(t) /\ Complete(t)
  BY DEF InsertRebuilt, WithAdded, IInv, TaskInv, Begun, Shape, ReportInv
<1>2. Differs(work[t], w, {"added"}) /\ w.added = Reports(t, work[t].staged)
  BY <1>1, FieldAdded
<1> HIDE DEF w
<1>3. /\ IsWork(w) /\ w.row = work[t].row /\ w.inserted = work[t].inserted
      /\ w.removed = work[t].removed /\ w.staged = work[t].staged
      /\ w.count = work[t].count /\ w.locked = work[t].locked
  BY <1>2 DEF Differs
<1>4. /\ Local(t) /\ pc'[t] = "update" /\ work'[t] = w /\ call' = call
      /\ activities' = activities /\ violations' = violations /\ baseline' = baseline
  BY <1>1, <1>3, Continued DEF Local, Tables, Continue
<1>5. call[t].kind = "reprocess"
  BY <1>1 DEF InOrder
<1>6. ASSUME NEW e \in work[t].staged
      PROVE  LET v == [excess |-> e, driver |-> call[t].driver, run |-> call[t].run, by |-> t]
             IN  /\ v \in w.added /\ v.excess = e /\ v \in ViolationRows
                 /\ BorneOut(v.excess, v.driver)
  BY <1>1, <1>2 DEF Reports, ViolationRows, Typed, Justified
<1>7. \A v \in w.added : v \in ViolationRows /\ BorneOut(v.excess, v.driver)
  BY <1>2, <1>6 DEF Reports
<1>8. work[t].staged \subseteq {v.excess : v \in w.added}
  BY <1>6
<1>9. Typed(t)' /\ Justified(t)'
  BY <1>1, <1>3, <1>4, <1>7 DEF Typed, Justified, BorneOut, Labels, InSession, InBody
<1>10. Found(t)' = Found(t) /\ Known(t)' = Known(t) /\ KnownInPeriod(t)' = KnownInPeriod(t)
  BY <1>3, <1>4, <1>5 DEF Found, Known, KnownInPeriod
<1>11. Complete(t)'
  BY <1>1, <1>3, <1>4, <1>5, <1>8, <1>10
     DEF Complete, Begun, Rules, AfterDaily, AfterWeekly, AfterBiweekly, AfterContinuous
<1> QED BY <1>1, <1>3, <1>9, <1>11, ReportGoes

(* Counting finds nothing. *)
LEMMA CountReport ==
    ASSUME IInv, ReportInv, NEW t \in Tasks, CountViolations(t)
    PROVE  ReportInv'
<1> DEFINE n == Cardinality({v \in violations \cup work[t].added : v.run = call[t].run})
           w == WithCount(work[t], n)
<1>1. /\ pc[t] = "count" /\ Continue(t, "update", w) /\ IsWork(work[t]) /\ Shape
      /\ call[t].kind = "check" /\ Typed(t) /\ Justified(t) /\ Complete(t) /\ Reported(t)
  BY DEF CountViolations, WithCount, IInv, TaskInv, InOrder, Begun, Shape, ReportInv
<1>2. Differs(work[t], w, {"count"}) /\ w.count = n
  BY <1>1, FieldCount
<1>3. n \in Nat
  <2>1. IsFiniteSet(violations \cup work[t].added)
    BY <1>1, FS_Union DEF Reported, Shape
  <2> QED BY <2>1, FS_Subset, FS_CardinalityType
<1> HIDE DEF w, n
<1>4. /\ IsWork(w) /\ w.row = work[t].row /\ w.inserted = work[t].inserted
      /\ w.removed = work[t].removed /\ w.staged = work[t].staged
      /\ w.added = work[t].added /\ w.locked = work[t].locked
  BY <1>2 DEF Differs
<1>5. /\ Local(t) /\ pc'[t] = "update" /\ work'[t] = w /\ call' = call
      /\ activities' = activities /\ violations' = violations /\ baseline' = baseline
  <2>1. Shape /\ IsWork(w) /\ Continue(t, "update", w)
    BY <1>1, <1>4
  <2>2. Local(t) /\ pc'[t] = "update" /\ work'[t] = w /\ call' = call
    BY <2>1, Continued
  <2> QED BY <2>1, <2>2 DEF Continue, Tables
<1>6. Typed(t)'
  BY <1>1, <1>2, <1>3, <1>4, <1>5 DEF Typed, Labels, InSession, InBody
<1>7. Justified(t)'
  BY <1>1, <1>4, <1>5, FoundBefore
<1>8. Complete(t)'
  BY <1>1, <1>4, <1>5, FoundBefore
     DEF Complete, Begun, Rules, AfterDaily, AfterWeekly, AfterBiweekly, AfterContinuous
<1> QED BY <1>1, <1>4, <1>6, <1>7, <1>8, ReportGoes

(* The one row of a run, changed, is one row still. *)
LEMMA OneRow ==
    ASSUME NEW S, S \subseteq RunRows, \A q, r \in S : q = r, NEW R,
           NEW f, R = {f[r] : r \in S}, \A r \in S : f[r] \in RunRows
    PROVE  R \subseteq RunRows /\ Cardinality(R) <= 1
<1>1. CASE S = {}
  <2>1. R = {}  BY <1>1
  <2> QED BY <2>1, NoneCounted
<1>2. CASE S # {}
  <2>1. PICK r \in S : S = {r}  BY <1>2
  <2>2. R = {f[r]}  BY <2>1
  <2>3. Cardinality(R) = 1  BY <2>2, FS_Singleton
  <2> QED BY <2>2, <2>3
<1> QED BY <1>1, <1>2

(* A run has one row. *)
LEMMA RowsOfOne ==
    ASSUME IInv, ReportInv, NEW t \in Tasks
    PROVE  RowsOf(t) \subseteq RunRows /\ \A q, r \in RowsOf(t) : q = r
BY DEF IInv, RunsAreWhole, ReportInv, RowsOf

(* "Mark completed" marks one row. *)
LEMMA UpdateReport ==
    ASSUME IInv, ReportInv, NEW t \in Tasks, UpdateRun(t)
    PROVE  ReportInv'
<1> DEFINE S == IF work[t].inserted THEN work[t].row ELSE RowsOf(t)
           f == [r \in S |-> Completed(r, work[t].count)]
           R == {Completed(r, work[t].count) : r \in S}
           w == WithRow(work[t], R)
<1>1. /\ pc[t] = "update" /\ Continue(t, "commit", w) /\ IsWork(work[t]) /\ Shape
      /\ Typed(t) /\ Justified(t) /\ Complete(t)
      /\ Owned(t, "RUNNING", 0) \/ Joined(t)
  BY DEF UpdateRun, WithRow, Completed, IInv, TaskInv, Begun, Shape, ReportInv
<1>2. Differs(work[t], w, {"row"}) /\ w.row = R
  BY <1>1, FieldRow
<1>3. R \subseteq RunRows /\ Cardinality(R) <= 1
  <2>1. S \subseteq RunRows /\ \A q, r \in S : q = r
    BY <1>1, RowsOfOne DEF Owned, Joined, Typed
  <2>2. \A r \in S : Completed(r, work[t].count) \in RunRows
    BY <1>1, <2>1 DEF Completed, RunRows, Typed
  <2>3. R = {f[r] : r \in S} /\ \A r \in S : f[r] \in RunRows
    BY <2>2
  <2> HIDE DEF S, f, R
  <2> QED BY <2>1, <2>3, OneRow
<1> HIDE DEF w, R, f, S
<1>4. /\ IsWork(w) /\ w.added = work[t].added /\ w.staged = work[t].staged
      /\ w.locked = work[t].locked /\ w.removed = work[t].removed
      /\ w.inserted = work[t].inserted /\ w.count = work[t].count
  BY <1>2 DEF Differs
<1>5. /\ Local(t) /\ pc'[t] = "commit" /\ work'[t] = w /\ call' = call
      /\ activities' = activities /\ violations' = violations /\ baseline' = baseline
  BY <1>1, <1>4, Continued DEF Local, Tables, Continue
<1>6. Typed(t)'
  BY <1>1, <1>2, <1>3, <1>4, <1>5 DEF Typed, Labels, InSession
<1>7. Justified(t)'
  BY <1>1, <1>4, <1>5, FoundBefore
<1>8. Complete(t)'
  BY <1>1, <1>4, <1>5, FoundBefore
     DEF Complete, Begun, Rules, AfterDaily, AfterWeekly, AfterBiweekly, AfterContinuous
<1> QED BY <1>1, <1>4, <1>6, <1>7, <1>8, ReportGoes

(* ... and "Mark failed" at most one. *)
LEMMA MarkReport ==
    ASSUME IInv, ReportInv, NEW t \in Tasks, MarkFailed(t)
    PROVE  ReportInv'
<1> DEFINE f == [r \in RowsOf(t) |-> [r EXCEPT !.status = "FAILED"]]
           R == {[r EXCEPT !.status = "FAILED"] : r \in RowsOf(t)}
           w == WithRow(work[t], R)
<1>1. /\ pc[t] = "except" /\ Continue(t, "reraise", w) /\ IsWork(work[t]) /\ Shape
      /\ Typed(t) /\ Justified(t)
  BY DEF MarkFailed, WithRow, IInv, Shape, ReportInv
<1>2. Differs(work[t], w, {"row"}) /\ w.row = R
  BY <1>1, FieldRow
<1>3. R \subseteq RunRows /\ Cardinality(R) <= 1
  <2>1. RowsOf(t) \subseteq RunRows /\ \A q, r \in RowsOf(t) : q = r
    BY RowsOfOne
  <2>2. \A r \in RowsOf(t) : [r EXCEPT !.status = "FAILED"] \in RunRows
    BY <2>1 DEF RunRows
  <2>3. R = {f[r] : r \in RowsOf(t)} /\ \A r \in RowsOf(t) : f[r] \in RunRows
    BY <2>2
  <2> HIDE DEF f, R
  <2> QED BY <2>1, <2>3, OneRow
<1> HIDE DEF w, R, f
<1>4. /\ IsWork(w) /\ w.added = work[t].added /\ w.staged = work[t].staged
      /\ w.locked = work[t].locked /\ w.removed = work[t].removed
      /\ w.inserted = work[t].inserted /\ w.count = work[t].count
  BY <1>2 DEF Differs
<1>5. /\ Local(t) /\ pc'[t] = "reraise" /\ work'[t] = w /\ call' = call
      /\ activities' = activities /\ violations' = violations /\ baseline' = baseline
  BY <1>1, <1>4, Continued DEF Local, Tables, Continue
<1>6. Typed(t)'
  BY <1>1, <1>2, <1>3, <1>4, <1>5 DEF Typed, Labels, InSession
<1>7. Justified(t)'
  BY <1>1, <1>4, <1>5, FoundBefore
<1>8. Complete(t)'
  BY <1>5 DEF Complete, Begun, Rules
<1> QED BY <1>1, <1>4, <1>6, <1>7, <1>8, ReportGoes

-----------------------------------------------------------------------------
(* Steps of everyone, and the commit.                                      *)

(* Who is accepted now has found nothing yet. *)
LEMMA AcceptReport ==
    ASSUME IInv, LockInv, ReportInv, NEW t \in Tasks, NEW c \in Calls, Accept(t, c)
    PROVE  ReportInv'
<1> DEFINE l == IF c.kind = "check" THEN "queued" ELSE "exists"
<1>1. /\ pc[t] = "new" /\ call' = [call EXCEPT ![t] = c] /\ pc' = [pc EXCEPT ![t] = l]
      /\ activities' = activities /\ runs' = runs /\ violations' = violations
      /\ work' = work /\ baseline' = baseline /\ Shape
  BY DEF Accept, Goto, Tables, IInv
<1>2. /\ pc'[t] \in {"queued", "exists"} /\ call'[t] = c
      /\ \A u \in Tasks \ {t} : pc'[u] = pc[u] /\ call'[u] = call[u]
      /\ pc' = [u \in Tasks |-> pc'[u]] /\ call' = [u \in Tasks |-> call'[u]]
  BY <1>1 DEF Shape
<1>3. Clean(work[t]) /\ Typed(t)
  BY <1>1 DEF IInv, TaskInv, Begun, Rules, ReportInv
<1>4. Typed(t)' /\ Justified(t)' /\ Complete(t)'
  <2>1. Typed(t)'
    BY <1>1, <1>2, <1>3 DEF Typed, Clean, Labels, InSession, InBody
  <2>2. Justified(t)'  BY <1>1, <1>3 DEF Justified, Clean
  <2>3. Complete(t)'  BY <1>2 DEF Complete, Begun, Rules
  <2> QED BY <2>1, <2>2, <2>3
<1>5. ASSUME NEW u \in Tasks \ {t} PROVE Typed(u)' /\ Justified(u)' /\ Complete(u)'
  <2>1. Typed(u) /\ Justified(u) /\ Complete(u)  BY DEF ReportInv
  <2>2. work[u].removed \subseteq violations'  BY <1>1, <2>1 DEF Typed
  <2> QED BY <1>1, <1>2, <2>1, <2>2, SameReport
<1>6. NoOverlap' /\ ReportsSound'
  BY <1>1 DEF ReportInv, NoOverlap, ReportsSound
<1> QED BY <1>1, <1>2, <1>4, <1>5, <1>6 DEF ReportInv

(* An activity more: what was borne out still is. *)
LEMMA RecordReport ==
    ASSUME IInv, ReportInv, NEW x \in Possible, RecordActivity(x)
    PROVE  ReportInv'
<1>1. /\ activities' = activities \cup {x} /\ runs' = runs /\ violations' = violations
      /\ pc' = pc /\ call' = call /\ work' = work /\ baseline' = baseline
      /\ x \notin activities
      /\ \A y \in activities :
           y.driver = x.driver => y.ended <= x.started \/ x.ended <= y.started
  BY DEF RecordActivity
<1>2. activities' \subseteq Possible /\ NoOverlap'
  BY <1>1 DEF ReportInv, NoOverlap
<1>3. IsFiniteSet(activities')
  BY <1>1, FS_AddElement DEF IInv, Shape
<1>4. ASSUME NEW d, NEW e \in Excesses, BorneOut(e, d) PROVE BorneOut(e, d)'
  <2>1. Log(Driving(activities', d))
    <3>1. IsFiniteSet(Driving(activities', d))  BY <1>3, FS_Subset DEF Driving
    <3>2. \A y \in Driving(activities', d) :
            y \in activities' /\ y \in Possible /\ y.driver = d
      BY <1>2 DEF Driving
    <3> QED BY <1>2, <3>1, <3>2, PossibleAssumption DEF Log, Logged, NoOverlap
  <2>2. Driving(activities, d) \in SUBSET Driving(activities', d)
    BY <1>1 DEF Driving
  <2>3. \E u \in AllRules(Driving(activities, d)) : Covers(u, e)
    BY <1>4 DEF BorneOut
  <2>4. \E u \in AllRules(Driving(activities', d)) : Covers(u, e)
    BY <2>1, <2>2, <2>3, CoveredMore
  <2> QED BY <2>4 DEF BorneOut
<1>5. ASSUME NEW u \in Tasks PROVE Typed(u)' /\ Justified(u)' /\ Complete(u)'
  <2>1. Typed(u) /\ Justified(u) /\ Complete(u)  BY DEF ReportInv
  <2>2. Typed(u)'  BY <1>1, <2>1 DEF Typed
  <2>3. /\ \A v \in work[u].added : v.excess \in Excesses
        /\ \A e \in work[u].staged : e \in Excesses
    BY <2>1 DEF Typed, ViolationRows
  <2>4. Justified(u)'
    <3>1. \A v \in work[u].added : BorneOut(v.excess, v.driver)'
      BY <1>4, <2>1, <2>3 DEF Justified
    <3>2. \A e \in work[u].staged : BorneOut(e, call[u].driver)'
      <4>1. PICK d : d = call[u].driver  OBVIOUS
      <4>2. \A e \in work[u].staged : BorneOut(e, d)'
        BY <1>4, <2>1, <2>3, <4>1 DEF Justified
      <4>3. call'[u].driver = d  BY <1>1, <4>1
      <4> QED BY <4>2, <4>3 DEF BorneOut
    <3> QED BY <1>1, <3>1, <3>2 DEF Justified
  <2>5. Found(u)' = Found(u) /\ Known(u)' = Known(u) /\ KnownInPeriod(u)' = KnownInPeriod(u)
    BY <1>1 DEF Found, Known, KnownInPeriod
  <2>6. Complete(u)'  BY <1>1, <2>1, <2>5 DEF Complete
  <2> QED BY <2>2, <2>4, <2>6
<1>6. ReportsSound'
  <2> SUFFICES ASSUME NEW v \in violations
               PROVE  \E u \in AllRules(Driving(activities', v.driver)) : Covers(u, v.excess)
    BY <1>1 DEF ReportsSound
  <2>1. v.excess \in Excesses  BY DEF ReportInv, ViolationRows
  <2>2. BorneOut(v.excess, v.driver)  BY DEF ReportInv, ReportsSound, BorneOut
  <2>3. BorneOut(v.excess, v.driver)'  BY <1>4, <2>1, <2>2
  <2> QED BY <2>3 DEF BorneOut
<1> QED BY <1>1, <1>2, <1>5, <1>6 DEF ReportInv

(* Who dies drops what it found. *)
LEMMA CrashReport ==
    ASSUME IInv, ReportInv, Crash
    PROVE  ReportInv'
<1> DEFINE dying == {t \in Tasks : call[t].kind = "check" /\ pc[t] \in InSession \cup {"queued"}}
<1>1. /\ pc' = [t \in Tasks |-> IF t \in dying THEN "failed" ELSE pc[t]]
      /\ work' = [t \in Tasks |-> IF t \in dying THEN NoWork ELSE work[t]]
      /\ activities' = activities /\ runs' = runs /\ violations' = violations
      /\ call' = call /\ baseline' = baseline
  BY DEF Crash, Tables
<1> HIDE DEF dying
<1>2. pc' = [t \in Tasks |-> pc'[t]]  BY <1>1
<1>3. ASSUME NEW u \in Tasks PROVE Typed(u)' /\ Justified(u)' /\ Complete(u)'
  <2>1. Typed(u) /\ Justified(u) /\ Complete(u)  BY DEF ReportInv
  <2>2. CASE u \in dying
    <3>1. pc'[u] = "failed" /\ work'[u] = NoWork  BY <1>1, <2>2
    <3>2. /\ NoWork.row = {} /\ NoWork.added = {} /\ NoWork.removed = {}
          /\ NoWork.staged = {} /\ NoWork.count = 0
          /\ NoWork.locked \in BOOLEAN /\ NoWork.inserted \in BOOLEAN
      BY DEF NoWork
    <3>3. Typed(u)' /\ Justified(u)'
      <4>1. pc'[u] \in Labels  BY <3>1 DEF Labels
      <4>2. call'[u] \in Calls  BY <1>1, <2>1 DEF Typed
      <4> QED BY <3>1, <3>2, <4>1, <4>2, NoneCounted DEF Typed, Justified
    <3>4. Complete(u)'  BY <3>1 DEF Complete, Begun, Rules
    <3> QED BY <3>3, <3>4
  <2>3. CASE u \notin dying
    <3>1. pc'[u] = pc[u] /\ work'[u] = work[u]  BY <1>1, <2>3
    <3>2. work[u].removed \subseteq violations'  BY <1>1, <2>1 DEF Typed
    <3> QED BY <1>1, <2>1, <3>1, <3>2, SameReport
  <2> QED BY <2>2, <2>3
<1>4. NoOverlap' /\ ReportsSound'
  BY <1>1 DEF ReportInv, NoOverlap, ReportsSound
<1> QED BY <1>1, <1>2, <1>3, <1>4 DEF ReportInv

(* A commit shows what t has found, and takes from no other what it noted  *)
(* to delete: who notes to delete rows of a driver has the driver's lock.  *)
LEMMA CommitReport ==
    ASSUME IInv, LockInv, ReportInv, NEW t \in Tasks, Commit(t) \/ CommitUnacknowledged(t)
    PROVE  ReportInv'
<1>1. PICK l \in {"done", "failed"} : Goto(t, l)
  BY DEF Commit, CommitUnacknowledged
<1>2. pc[t] = "commit" /\ Publish(t)
  BY DEF Commit, CommitUnacknowledged
<1>3. /\ activities' = activities /\ call' = call /\ pc'[t] = l /\ work'[t] = NoWork
      /\ \A u \in Tasks \ {t} : pc'[u] = pc[u] /\ work'[u] = work[u]
      /\ pc' = [u \in Tasks |-> pc'[u]]
  BY <1>1, <1>2, Published
<1>4. /\ violations' = (violations \ work[t].removed) \cup work[t].added
      /\ runs' \subseteq runs \cup work[t].row /\ baseline' = baseline
  BY <1>2 DEF Publish
<1>5. Typed(t) /\ Justified(t)  BY DEF ReportInv
<1>6. runs' \subseteq RunRows /\ violations' \subseteq ViolationRows
  BY <1>4, <1>5 DEF ReportInv, Typed
<1>7. Typed(t)' /\ Justified(t)' /\ Complete(t)'
  <2>1. /\ NoWork.row = {} /\ NoWork.added = {} /\ NoWork.removed = {}
        /\ NoWork.staged = {} /\ NoWork.count = 0
        /\ NoWork.locked \in BOOLEAN /\ NoWork.inserted \in BOOLEAN
    BY DEF NoWork
  <2>2. Typed(t)' /\ Justified(t)'
    BY <1>3, <1>5, <2>1, NoneCounted DEF Typed, Justified, Labels
  <2>3. Complete(t)'  BY <1>3 DEF Complete, Begun, Rules
  <2> QED BY <2>2, <2>3
<1>8. ASSUME NEW u \in Tasks \ {t} PROVE Typed(u)' /\ Justified(u)' /\ Complete(u)'
  <2>1. Typed(u) /\ Justified(u) /\ Complete(u)  BY DEF ReportInv
  <2>2. ASSUME NEW v \in work[u].removed PROVE v \notin work[t].removed
    <3> SUFFICES ASSUME v \in work[t].removed PROVE FALSE
      OBVIOUS
    <3>1. work[u].locked /\ work[t].locked /\ call[u].driver = call[t].driver
      BY <1>5, <2>1, <2>2 DEF Typed
    <3> QED BY <3>1 DEF LockInv, LockExclusive
  <2>3. work[u].removed \subseteq violations'
    BY <1>4, <2>1, <2>2 DEF Typed
  <2> QED BY <1>3, <1>4, <2>1, <2>3, SameReport
<1>9. NoOverlap'  BY <1>3 DEF ReportInv, NoOverlap
<1>10. ReportsSound'
  <2> SUFFICES ASSUME NEW v \in violations'
               PROVE  \E u \in AllRules(Driving(activities, v.driver)) : Covers(u, v.excess)
    BY <1>3 DEF ReportsSound
  <2>1. CASE v \in violations  BY <2>1 DEF ReportInv, ReportsSound
  <2>2. CASE v \in work[t].added  BY <1>5, <2>2 DEF Justified, BorneOut
  <2> QED BY <1>4, <2>1, <2>2
<1> QED BY <1>3, <1>4, <1>6, <1>7, <1>8, <1>9, <1>10 DEF ReportInv

-----------------------------------------------------------------------------
(* Initially there is nothing. *)
LEMMA ReportInit == Init => ReportInv
<1> SUFFICES ASSUME Init PROVE ReportInv
  OBVIOUS
<1>1. /\ activities = {} /\ runs = {} /\ violations = {}
      /\ pc = [t \in Tasks |-> "new"] /\ call = [t \in Tasks |-> CHOOSE c \in Calls : TRUE]
      /\ work = [t \in Tasks |-> NoWork] /\ baseline = [t \in Tasks |-> {}]
  BY DEF Init
<1>2. (CHOOSE c \in Calls : TRUE) \in Calls
  BY CallsAssumption
<1>3. /\ NoWork.row = {} /\ NoWork.added = {} /\ NoWork.removed = {}
      /\ NoWork.staged = {} /\ NoWork.count = 0
      /\ NoWork.locked \in BOOLEAN /\ NoWork.inserted \in BOOLEAN
  BY DEF NoWork
<1>4. ASSUME NEW t \in Tasks PROVE Typed(t) /\ Justified(t) /\ Complete(t)
  <2>1. pc[t] = "new" /\ call[t] \in Calls /\ work[t] = NoWork  BY <1>1, <1>2
  <2>2. Typed(t) /\ Justified(t)
    BY <1>3, <2>1, NoneCounted DEF Typed, Justified, Labels
  <2>3. Complete(t)  BY <2>1 DEF Complete, Begun, Rules
  <2> QED BY <2>2, <2>3
<1>5. NoOverlap /\ ReportsSound  BY <1>1 DEF NoOverlap, ReportsSound
<1> QED BY <1>1, <1>4, <1>5 DEF ReportInv

(* One lemma for each action. *)
LEMMA ReportsStep == IInv /\ LockInv /\ ReportInv /\ [Next]_vars => ReportInv'
<1> SUFFICES ASSUME IInv, LockInv, ReportInv, [Next]_vars PROVE ReportInv'
  OBVIOUS
<1>1. CASE UNCHANGED vars
  <2>1. /\ activities' = activities /\ runs' = runs /\ violations' = violations
        /\ pc' = pc /\ call' = call /\ work' = work /\ baseline' = baseline
    BY <1>1 DEF vars
  <2>2. ASSUME NEW u \in Tasks PROVE Typed(u)' /\ Justified(u)' /\ Complete(u)'
    <3>1. Typed(u) /\ Justified(u) /\ Complete(u)  BY DEF ReportInv
    <3>2. work[u].removed \subseteq violations'  BY <2>1, <3>1 DEF Typed
    <3> QED BY <2>1, <3>1, <3>2, SameReport
  <2>3. NoOverlap' /\ ReportsSound'
    BY <2>1 DEF ReportInv, NoOverlap, ReportsSound
  <2> QED BY <2>1, <2>2, <2>3 DEF ReportInv
<1>2. ASSUME NEW x \in Possible, RecordActivity(x) PROVE ReportInv'
  BY <1>2, RecordReport
<1>3. ASSUME NEW t \in Tasks, NEW c \in Calls, Accept(t, c) PROVE ReportInv'
  BY <1>3, AcceptReport
<1>4. ASSUME NEW t \in Tasks, Progress(t) \/ Fault(t) PROVE ReportInv'
  BY <1>4, RestReport, TakeLockReport, InsertReport, RulesReport, DeleteReport, RebuildReport,
     CountReport, UpdateReport, MarkReport, CommitReport
     DEF Progress, Fault
<1>5. CASE Crash
  BY <1>5, CrashReport
<1> QED BY <1>1, <1>2, <1>3, <1>4, <1>5 DEF Next

(* The invariant. *)
LEMMA ReportInvariance == Spec => []ReportInv
<1>1. Init => ReportInv
  BY ReportInit
<1>2. Init => LockInv
  BY LockInit
<1>3. IInv /\ LockInv /\ [Next]_vars => LockInv'
  BY LockStep
<1>4. IInv /\ LockInv /\ ReportInv /\ [Next]_vars => ReportInv'
  BY ReportsStep
<1> QED BY <1>1, <1>2, <1>3, <1>4, Invariance, PTL DEF Spec

(* Rows, staging tables and locks are of their types in every state, and   *)
(* what a reprocess has noted to delete is still there.                    *)
THEOREM TypeCorrect == Spec => []TypeOK
<1>1. ReportInv => TypeOK
  BY DEF ReportInv, Typed, Labels, TypeOK
<1> QED BY <1>1, ReportInvariance, PTL

(* Whatever calls, activities and faults come between, each violation in   *)
(* the table is borne out by the activities in the table: the rules of     *)
(* both procedures still find it, or more.                                 *)
THEOREM ReportsBorneOut == Spec => []ReportsSound
<1>1. ReportInv => ReportsSound
  BY DEF ReportInv
<1> QED BY <1>1, ReportInvariance, PTL

(* What was wrong when a run began is in what it commits, though each of   *)
(* its rules has looked at another moment of the log.                      *)
THEOREM NoneOverlooked == Spec => []ReportsComplete
<1>1. ReportInv => ReportsComplete
  <2> SUFFICES ASSUME ReportInv, NEW t \in Tasks, pc[t] = "commit", work[t].row # {},
                      NEW e \in Daily(KnownInPeriod(t)) \cup Weekly(KnownInPeriod(t)) \cup
                        (IF call[t].kind = "check"
                         THEN Biweekly(Known(t)) \cup Continuous(KnownInPeriod(t))
                         ELSE Biweekly(KnownInPeriod(t)))
               PROVE  \E v \in work[t].added : Covers(v.excess, e)
    BY DEF ReportsComplete, Known, KnownInPeriod
  <2>1. Complete(t)  BY DEF ReportInv
  <2>2. Found(t) \subseteq {v.excess : v \in work[t].added}
    BY <2>1 DEF Complete, Found
  <2>3. \E f \in Found(t) : Covers(f, e)
    BY <2>1 DEF Complete, Finds, AfterDaily, AfterWeekly, AfterBiweekly, AfterContinuous,
                Begun, Rules
  <2> QED BY <2>2, <2>3
<1> QED BY <1>1, ReportInvariance, PTL

-----------------------------------------------------------------------------
(* What a reprocess deletes.                                               *)

(* A report by the calendar is as long as its limit says. *)
HasLength(e) ==
    e.type # "EXCESS_CONTINUOUS_DRIVING" => e.to = e.from + Length(e)

Regular(w) ==
    /\ \A v \in w.added : HasLength(v.excess)
    /\ \A e \in w.staged : HasLength(e)

(* ... whoever has it in hand, and in the table. *)
LengthInv ==
    /\ \A v \in violations : HasLength(v.excess)
    /\ \A t \in Tasks : Regular(work[t])

(* So do the rules report. *)
LEMMA RulesHaveLength ==
    ASSUME NEW S, NEW e \in AllRules(S)
    PROVE  /\ HasLength(e)
           /\ e \in Continuous(S) => e.type = "EXCESS_CONTINUOUS_DRIVING"
<1>1. \A x \in Daily(S) \cup Weekly(S) \cup Biweekly(S) : x.to = x.from + Length(x)
  BY RulesOneEach DEF OneEach
<1>2. ASSUME NEW x \in Continuous(S) PROVE x.type = "EXCESS_CONTINUOUS_DRIVING"
  <2>1. PICK span : x = Excess("EXCESS_CONTINUOUS_DRIVING", "HIGH",
            Min({y.started : y \in span}), Max({y.ended : y \in span}),
            Seconds(span), ContinuousLimit)
    BY <1>2 DEF Continuous
  <2> QED BY <2>1 DEF Excess
<1> QED BY <1>1, <1>2 DEF AllRules, HasLength

LEMMA NoWorkRegular == Regular(NoWork)
BY DEF Regular, NoWork

(* A step of t that goes on with such reports. *)
LEMMA LengthGoes ==
    ASSUME IInv, LengthInv, NEW t \in Tasks, NEW w, Regular(w),
           work' = [work EXCEPT ![t] = w], violations' = violations
    PROVE  LengthInv'
<1>1. work'[t] = w /\ \A u \in Tasks \ {t} : work'[u] = work[u]
  BY DEF IInv, Shape
<1> QED BY <1>1 DEF LengthInv

(* The statements before the rules, and the ways out. *)
LEMMA RestLength ==
    ASSUME IInv, LengthInv, NEW t \in Tasks,
           \/ GetConnection(t) \/ PoolTimeout(t) \/ CheckExists(t) \/ TakeLock(t)
           \/ InsertRun(t) \/ Reraise(t) \/ ConnectionLost(t)
    PROVE  LengthInv'
<1>1. IsWork(work[t]) /\ Regular(work[t])
  BY DEF IInv, Shape, LengthInv
<1>2. ASSUME NEW l, Continue(t, l, NoWork) PROVE LengthInv'
  BY <1>2, NoWorkRegular, LengthGoes DEF Continue, Tables
<1>3. CASE TakeLock(t)
  <2> DEFINE w == WithLocked(work[t], TRUE)
  <2>1. Continue(t, "insert", w)
    BY <1>3 DEF TakeLock, WithLocked
  <2>2. Differs(work[t], w, {"locked"})
    BY <1>1, FieldLocked
  <2> HIDE DEF w
  <2>3. Regular(w)
    BY <1>1, <2>2 DEF Differs, Regular
  <2> QED BY <2>1, <2>3, LengthGoes DEF Continue, Tables
<1>4. ASSUME InsertRun(t), ~Raise(t) PROVE LengthInv'
  <2>1. violations' = violations
    BY <1>4 DEF InsertRun, Tables
  <2>2. CASE work' = work
    BY <2>1, <2>2 DEF LengthInv
  <2>3. CASE work' = [work EXCEPT ![t].row = {RunRow(t, "RUNNING", 0)}, ![t].inserted = TRUE]
    <3>1. /\ work'[t].added = work[t].added /\ work'[t].staged = work[t].staged
          /\ \A u \in Tasks \ {t} : work'[u] = work[u]
      <4>1. /\ work'[t] = [work[t] EXCEPT !.row = {RunRow(t, "RUNNING", 0)}, !.inserted = TRUE]
            /\ \A u \in Tasks \ {t} : work'[u] = work[u]
        BY <2>3 DEF IInv, Shape
      <4> QED BY <1>1, <4>1 DEF IsWork
    <3> QED BY <1>1, <2>1, <3>1 DEF LengthInv, Regular
  <2> QED BY <1>4, <2>2, <2>3 DEF InsertRun
<1> QED BY <1>2, <1>3, <1>4 DEF GetConnection, PoolTimeout, CheckExists, Reraise,
                                ConnectionLost, Rollback, Raise

(* The rules' INSERTs. *)
LEMMA RulesLength ==
    ASSUME IInv, LengthInv, NEW t \in Tasks,
           DailyRule(t) \/ WeeklyRule(t) \/ BiweeklyRule(t) \/ ContinuousRule(t)
    PROVE  LengthInv'
<1>1. IsWork(work[t]) /\ Regular(work[t])
  BY DEF IInv, Shape, LengthInv
<1>2. CASE Raise(t)
  BY <1>2, NoWorkRegular, LengthGoes DEF Raise, Continue, Tables
<1>3. ASSUME NEW S, NEW l, Report(t, S, l), \A e \in S : HasLength(e) PROVE LengthInv'
  <2>1. PICK w : Continue(t, l, w) /\ Regular(w)
    <3>1. CASE call[t].kind = "check"
      <4>1. Continue(t, l, WithAdded(work[t], work[t].added \cup Reports(t, S)))
        BY <1>3, <3>1 DEF Report, WithAdded
      <4>2. \A v \in Reports(t, S) : HasLength(v.excess)
        BY <1>3 DEF Reports
      <4>3. Regular(WithAdded(work[t], work[t].added \cup Reports(t, S)))
        BY <1>1, <4>2, FieldAdded DEF Differs, Regular
      <4> QED BY <4>1, <4>3
    <3>2. CASE call[t].kind # "check"
      <4>1. Continue(t, l, WithStaged(work[t], work[t].staged \cup S))
        BY <1>3, <3>2 DEF Report, WithStaged
      <4>2. Regular(WithStaged(work[t], work[t].staged \cup S))
        BY <1>1, <1>3, FieldStaged DEF Differs, Regular
      <4> QED BY <4>1, <4>2
    <3> QED BY <3>1, <3>2
  <2> QED BY <2>1, LengthGoes DEF Continue, Tables
<1>4. \A S : \A e \in Daily(S) \cup Weekly(S) \cup Biweekly(S) \cup Continuous(S) : HasLength(e)
  BY RulesHaveLength DEF AllRules
<1> QED BY <1>2, <1>3, <1>4 DEF DailyRule, WeeklyRule, BiweeklyRule, ContinuousRule

(* The statements after the rules. *)
LEMMA LaterLength ==
    ASSUME IInv, LengthInv, NEW t \in Tasks,
           \/ DeleteSuperseded(t) \/ InsertRebuilt(t) \/ CountViolations(t)
           \/ UpdateRun(t) \/ MarkFailed(t)
    PROVE  LengthInv'
<1>1. IsWork(work[t]) /\ Regular(work[t])
  BY DEF IInv, Shape, LengthInv
<1>2. ASSUME NEW l, NEW w, Continue(t, l, w), Regular(w) PROVE LengthInv'
  BY <1>2, LengthGoes DEF Continue, Tables
<1>3. CASE DeleteSuperseded(t)
  <2> DEFINE w == WithCountRemoved(work[t], Cardinality(work[t].staged), Superseded(t))
  <2>1. Continue(t, "rebuild", w)
    BY <1>3 DEF DeleteSuperseded, WithCountRemoved
  <2>2. Regular(w)
    BY <1>1, FieldCountRemoved DEF Differs, Regular
  <2> HIDE DEF w
  <2> QED BY <1>2, <2>1, <2>2
<1>4. CASE InsertRebuilt(t)
  <2> DEFINE w == WithAdded(work[t], Reports(t, work[t].staged))
  <2>1. Continue(t, "update", w)
    BY <1>4 DEF InsertRebuilt, WithAdded
  <2>2. \A v \in Reports(t, work[t].staged) : HasLength(v.excess)
    BY <1>1 DEF Reports, Regular
  <2>3. Regular(w)
    BY <1>1, <2>2, FieldAdded DEF Differs, Regular
  <2> HIDE DEF w
  <2> QED BY <1>2, <2>1, <2>3
<1>5. CASE CountViolations(t)
  <2>1. PICK n : Continue(t, "update", WithCount(work[t], n))
    BY <1>5 DEF CountViolations, WithCount
  <2>2. Regular(WithCount(work[t], n))
    BY <1>1, FieldCount DEF Differs, Regular
  <2> QED BY <1>2, <2>1, <2>2
<1>6. CASE UpdateRun(t) \/ MarkFailed(t)
  <2>1. PICK l, r : Continue(t, l, WithRow(work[t], r))
    BY <1>6 DEF UpdateRun, MarkFailed, WithRow
  <2>2. Regular(WithRow(work[t], r))
    BY <1>1, FieldRow DEF Differs, Regular
  <2> QED BY <1>2, <2>1, <2>2
<1> QED BY <1>3, <1>4, <1>5, <1>6

(* A commit. *)
LEMMA CommitLength ==
    ASSUME IInv, LengthInv, NEW t \in Tasks, Publish(t)
    PROVE  LengthInv'
<1>1. /\ work'[t] = NoWork /\ \A u \in Tasks \ {t} : work'[u] = work[u]
      /\ violations' = (violations \ work[t].removed) \cup work[t].added
  BY DEF Publish, IInv, Shape
<1> QED BY <1>1, NoWorkRegular DEF LengthInv, Regular

(* Every step. *)
LEMMA LengthKept == IInv /\ LengthInv /\ [Next]_vars => LengthInv'
<1> SUFFICES ASSUME IInv, LengthInv, [Next]_vars PROVE LengthInv'
  OBVIOUS
<1>1. CASE UNCHANGED vars
  BY <1>1 DEF vars, LengthInv
<1>2. ASSUME NEW x \in Possible, RecordActivity(x) PROVE LengthInv'
  BY <1>2 DEF RecordActivity, LengthInv
<1>3. ASSUME NEW t \in Tasks, NEW c \in Calls, Accept(t, c) PROVE LengthInv'
  BY <1>3 DEF Accept, Tables, LengthInv
<1>4. ASSUME NEW t \in Tasks, Progress(t) \/ Fault(t) PROVE LengthInv'
  BY <1>4, RestLength, RulesLength, LaterLength, CommitLength
     DEF Progress, Fault, Commit, CommitUnacknowledged
<1>5. CASE Crash
  <2>1. violations' = violations /\ \A t \in Tasks : work'[t] \in {NoWork, work[t]}
    BY <1>5 DEF Crash, Tables
  <2> QED BY <2>1, NoWorkRegular DEF LengthInv
<1> QED BY <1>1, <1>2, <1>3, <1>4, <1>5 DEF Next

(* What one of the calendar rules reports depends on the driving in its    *)
(* period alone.                                                           *)
LEMMA SameDriven ==
    ASSUME NEW S, NEW B \in SUBSET S, NEW t, NEW length,
           \A x \in S : t <= x.started /\ x.started < t + length => x \in B
    PROVE  DrivenFrom(B, t, length) = DrivenFrom(S, t, length)
<1>1. {x \in B : t <= x.started /\ x.started < t + length}
        = {x \in S : t <= x.started /\ x.started < t + length}
  OBVIOUS
<1> QED BY <1>1 DEF DrivenFrom

LEMMA Recomputed ==
    ASSUME NEW S, Logged(S), NEW B \in SUBSET S, NEW u,
           \A x \in S : u.from <= x.started /\ x.started < u.to => x \in B
    PROVE  /\ u \in Daily(S) => u \in Daily(B)
           /\ u \in Weekly(S) => u \in Weekly(B)
           /\ u \in Biweekly(S) => u \in Biweekly(B)
<1>1. ASSUME u \in Daily(S) PROVE u \in Daily(B)
  <2>1. PICK y \in S : LET d == StartOf(y, Day) IN
          /\ DrivenFrom(S, d, Day) > DailyLimit
          /\ u = Excess("DAILY_DRIVING_LIMIT",
                   IF DrivenFrom(S, d, Day) > CriticalDaily THEN "CRITICAL" ELSE "HIGH",
                   d, d + Day, DrivenFrom(S, d, Day), DailyLimit)
    BY <1>1 DEF Daily
  <2> DEFINE d == StartOf(y, Day)
  <2>2. u.from = d /\ u.to = d + Day
    BY <2>1 DEF Excess
  <2>3. d <= y.started /\ y.started < d + Day
    BY DEF StartOf, Day, Logged
  <2> HIDE DEF d
  <2>4. y \in B /\ DrivenFrom(B, d, Day) = DrivenFrom(S, d, Day)
    BY <2>2, <2>3, SameDriven
  <2> QED BY <2>1, <2>4 DEF Daily, d
<1>2. ASSUME u \in Weekly(S) PROVE u \in Weekly(B)
  <2>1. PICK y \in S : LET w == StartOf(y, Week) IN
          /\ DrivenFrom(S, w, Week) > WeeklyLimit
          /\ u = Excess("WEEKLY_DRIVING_LIMIT", "CRITICAL",
                   w, w + Week, DrivenFrom(S, w, Week), WeeklyLimit)
    BY <1>2 DEF Weekly
  <2> DEFINE w == StartOf(y, Week)
  <2>2. u.from = w /\ u.to = w + Week
    BY <2>1 DEF Excess
  <2>3. w <= y.started /\ y.started < w + Week
    BY DEF StartOf, Week, Day, Logged
  <2> HIDE DEF w
  <2>4. y \in B /\ DrivenFrom(B, w, Week) = DrivenFrom(S, w, Week)
    BY <2>2, <2>3, SameDriven
  <2> QED BY <2>1, <2>4 DEF Weekly, w
<1>3. ASSUME u \in Biweekly(S) PROVE u \in Biweekly(B)
  <2>1. PICK y \in S : LET w == StartOf(y, Week) IN
          /\ DrivenFrom(S, w, 2 * Week) > BiweeklyLimit
          /\ u = Excess("WEEKLY_DRIVING_LIMIT", "CRITICAL",
                   w, w + 2 * Week, DrivenFrom(S, w, 2 * Week), BiweeklyLimit)
    BY <1>3 DEF Biweekly
  <2> DEFINE w == StartOf(y, Week)
  <2>2. u.from = w /\ u.to = w + 2 * Week
    BY <2>1 DEF Excess
  <2>3. w <= y.started /\ y.started < w + 2 * Week
    BY DEF StartOf, Week, Day, Logged
  <2> HIDE DEF w
  <2>4. y \in B /\ DrivenFrom(B, w, 2 * Week) = DrivenFrom(S, w, 2 * Week)
    BY <2>2, <2>3, SameDriven
  <2> QED BY <2>1, <2>4 DEF Biweekly, w
<1> QED BY <1>1, <1>2, <1>3

(* Of two reports by the calendar, one that covers the other is of the     *)
(* same period.                                                            *)
LEMMA SamePeriod ==
    ASSUME NEW u, NEW e, Covers(u, e), Figures(u), Figures(e), HasLength(u), HasLength(e),
           e.type # "EXCESS_CONTINUOUS_DRIVING"
    PROVE  u.from = e.from /\ u.to = e.to
<1>1. Length(u) = Length(e) /\ Length(e) \in Int
  BY DEF Covers, Length, Day, Week
<1>2. u.to = u.from + Length(u) /\ e.to = e.from + Length(e)
  BY DEF Covers, HasLength
<1> HIDE DEF Length
<1> QED BY <1>1, <1>2 DEF Covers, Figures

(* Only a commit takes violations from the table, those noted to delete. *)
LEMMA WhoDeletes ==
    ASSUME [Next]_vars, NEW v \in violations, v \notin violations'
    PROVE  \E t \in Tasks : /\ pc[t] = "commit" /\ v \in work[t].removed
                            /\ violations' = (violations \ work[t].removed) \cup work[t].added
                            /\ Commit(t) \/ CommitUnacknowledged(t)
<1>1. \A t \in Tasks : ~(UNCHANGED Ledger!vars)
  BY DEF Ledger!vars
<1>2. ~(UNCHANGED vars) /\ ~Crash /\ ~\E x \in Possible : RecordActivity(x)
  BY DEF vars, Crash, Tables, RecordActivity
<1>3. \A t \in Tasks, c \in Calls : ~Accept(t, c)
  BY DEF Accept, Tables
<1>4. PICK t \in Tasks : Progress(t) \/ Fault(t)
  BY <1>2, <1>3 DEF Next
<1>5. Commit(t) \/ CommitUnacknowledged(t)
  BY <1>1, <1>4, ShowsNothing DEF Progress, Fault
<1> QED BY <1>5 DEF Commit, CommitUnacknowledged, Publish

(* What a reprocess deletes it replaces by a report that says as much,     *)
(* unless the report is of continuous driving, some of its driving goes on *)
(* beyond the end of the period, or some of it was recorded after the      *)
(* reprocess had begun: the causes of loss are these three, for any        *)
(* number of calls, drivers and activities.                                *)
THEOREM LossesHaveCause == Spec => DeletedForCause
<1> DEFINE Lost(v) == \E t \in Tasks :
         /\ pc[t] = "commit" /\ pc'[t] # "commit" /\ call[t].kind = "reprocess"
         /\ \/ v.excess.type = "EXCESS_CONTINUOUS_DRIVING"
            \/ \E x \in Behind(v) : x.started < call[t].to /\ call[t].to < x.ended
            \/ \E x \in Behind(v) : x \notin baseline[t]
            \/ \E u \in violations' : u.driver = v.driver /\ Covers(u.excess, v.excess)
<1>1. Init => LengthInv
  BY NoWorkRegular DEF Init, LengthInv
<1>2. IInv /\ LengthInv /\ [Next]_vars => LengthInv'
  BY LengthKept
<1>3. IInv /\ ReportInv /\ LengthInv /\ [Next]_vars => [\A v \in violations \ violations' : Lost(v)]_vars
  <2> SUFFICES ASSUME IInv, ReportInv, LengthInv, [Next]_vars,
                      NEW v \in violations, v \notin violations'
               PROVE  Lost(v)
    OBVIOUS
  <2>1. PICK t \in Tasks : /\ pc[t] = "commit" /\ v \in work[t].removed
                           /\ violations' = (violations \ work[t].removed) \cup work[t].added
                           /\ Commit(t) \/ CommitUnacknowledged(t)
    BY WhoDeletes
  <2>2. /\ pc'[t] # "commit"
        /\ Reported(t) /\ work[t].row # {} /\ Complete(t) /\ Typed(t)
    <3>1. pc'[t] # "commit"
      BY <2>1 DEF Commit, CommitUnacknowledged, Goto, IInv, Shape
    <3>2. TaskInv(t) /\ ~Clean(work[t]) /\ Complete(t) /\ Typed(t)
      BY <2>1 DEF IInv, Clean, ReportInv
    <3>3. Reported(t) /\ work[t].row # {}
      BY <2>1, <3>2 DEF TaskInv, Owned, Joined
    <3> QED BY <3>1, <3>2, <3>3
  <2>3. /\ call[t].kind = "reprocess" /\ v.driver = call[t].driver
        /\ call[t].from <= v.excess.from /\ v.excess.to <= call[t].to
    BY <2>1, <2>2 DEF Reported
  <2>4. ASSUME v.excess.type # "EXCESS_CONTINUOUS_DRIVING",
               \A x \in Behind(v) : ~(x.started < call[t].to /\ call[t].to < x.ended),
               \A x \in Behind(v) : x \in baseline[t]
        PROVE  \E u \in violations' : u.driver = v.driver /\ Covers(u.excess, v.excess)
    <3> DEFINE e == v.excess
               S == Driven(t)
               B == KnownInPeriod(t)
    <3>1. /\ baseline[t] \subseteq activities
          /\ Finds(Found(t), Daily(B)) /\ Finds(Found(t), Weekly(B))
          /\ Finds(Found(t), Biweekly(B))
          /\ Found(t) \subseteq {w.excess : w \in work[t].added}
      BY <2>1, <2>2, <2>3
         DEF Complete, Found, Begun, Rules, AfterDaily, AfterWeekly, AfterBiweekly
    <3>2. Log(S) /\ Logged(S) /\ B \in SUBSET S
      BY <3>1, LooksAt DEF Log
    <3>3. e \in Excesses /\ Figures(e) /\ HasLength(e)
      BY DEF ReportInv, ViolationRows, LengthInv, Excesses, Figures
    <3>4. PICK u \in AllRules(S) : Covers(u, e)
      BY <2>3 DEF ReportInv, ReportsSound, Driven
    <3>5. Figures(u) /\ HasLength(u) /\ u \notin Continuous(S)
      BY <2>4, <3>2, <3>4, RulesGrow, RulesHaveLength DEF Covers
    <3>6. u.from = e.from /\ u.to = e.to
      BY <2>4, <3>3, <3>4, <3>5, SamePeriod
    <3>7. ASSUME NEW x \in S, u.from <= x.started, x.started < u.to PROVE x \in B
      <4>1. x \in Behind(v)
        BY <2>3, <3>6, <3>7 DEF Behind, Driven
      <4>2. x \in baseline[t] /\ ~(x.started < call[t].to /\ call[t].to < x.ended)
        BY <2>4, <4>1
      <4>3. /\ x.started \in Int /\ x.ended \in Int /\ e.from \in Int /\ e.to \in Int
            /\ call[t].from \in Int /\ call[t].to \in Int
        BY <2>2, <3>2, <3>3, CallsAssumption DEF Logged, Figures, Typed
      <4>4. call[t].from <= x.started /\ x.ended <= call[t].to
        BY <2>3, <3>6, <3>7, <4>2, <4>3
      <4>5. x.driver = call[t].driver /\ x.type = "DRIVING"
        BY <3>7 DEF Driven, Driving
      <4> QED BY <4>2, <4>4, <4>5 DEF KnownInPeriod, Known, Within, Driving
    <3>8. u \in Daily(B) \cup Weekly(B) \cup Biweekly(B)
      <4>1. u \in Daily(S) \cup Weekly(S) \cup Biweekly(S)
        BY <3>4, <3>5 DEF AllRules
      <4> HIDE DEF S, B
      <4> QED BY <3>2, <3>7, <4>1, Recomputed
    <3>9. PICK w \in work[t].added : Covers(w.excess, u)
      BY <3>1, <3>8 DEF Finds
    <3>10. Figures(w.excess) /\ w.driver = call[t].driver
      BY <2>2 DEF Typed, ViolationRows, Excesses, Figures, Reported
    <3>11. Covers(w.excess, e)
      BY <3>3, <3>4, <3>5, <3>9, <3>10, CoversIs
    <3> QED BY <2>1, <2>3, <3>10, <3>11
  <2> QED BY <2>1, <2>2, <2>3, <2>4
<1> HIDE DEF Lost
<1>4. Spec => [][\A v \in violations \ violations' : Lost(v)]_vars
  BY <1>1, <1>2, <1>3, Invariance, ReportInvariance, PTL DEF Spec
<1> QED BY <1>4 DEF DeletedForCause, Lost
=============================================================================
