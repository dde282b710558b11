------------------------ MODULE ComplianceRunsProofs ------------------------
(***************************************************************************)
(* Proofs about ComplianceRuns, for any number of calls, tasks, drivers    *)
(* and activities.                                                         *)
(*                                                                         *)
(* That the tables are whole is not inductive: what a commit shows depends *)
(* on what the transaction has in hand, and on nobody else having a        *)
(* version of the same row in hand. IInv says what a task has written at   *)
(* each of its statements (TaskInv), and that at most one holds a run's    *)
(* row (Exclusive).                                                        *)
(***************************************************************************)
EXTENDS ComplianceRuns, FiniteSetTheorems, TLAPS

(* The statements after the INSERT of the run's row. *)
Begun == Rules \cup {"delete", "rebuild", "count", "update"}

(* Records have the fields they have: what there is to know of their kind  *)
(* without knowing the activities.                                         *)
IsWork(w) ==
    w = [row |-> w.row, inserted |-> w.inserted, locked |-> w.locked, added |-> w.added,
         removed |-> w.removed, staged |-> w.staged, count |-> w.count]

IsRow(r) ==
    r = [run |-> r.run, driver |-> r.driver, kind |-> r.kind, from |-> r.from, to |-> r.to,
         status |-> r.status, found |-> r.found]

Shape ==
    /\ pc = [t \in Tasks |-> pc[t]]
    /\ call = [t \in Tasks |-> call[t]]
    /\ work = [t \in Tasks |-> work[t]]
    /\ \A t \in Tasks : IsWork(work[t])
    /\ \A r \in runs : IsRow(r)
    /\ IsFiniteSet(activities) /\ IsFiniteSet(violations)

(* Nothing is written; the advisory lock may be held. *)
Clean(w) ==
    /\ w.row = {} /\ ~w.inserted /\ w.added = {} /\ w.removed = {} /\ w.staged = {}
    /\ w.count = 0

(* t's run is its own, not committed; or, for a check only, it is another  *)
(* delivery's, which is.                                                   *)
Owned(t, status, found) ==
    /\ work[t].inserted
    /\ work[t].row = {RunRow(t, status, found)}
    /\ RowsOf(t) = {}

Joined(t) ==
    /\ ~work[t].inserted
    /\ call[t].kind = "check"
    /\ RowsOf(t) # {}

(* What t has written are violations of its run, what it has deleted are   *)
(* those that its run supersedes.                                          *)
Reported(t) ==
    /\ IsFiniteSet(work[t].added) /\ IsFiniteSet(work[t].staged)
    /\ \A v \in work[t].added : v.run = call[t].run /\ v.driver = call[t].driver
    /\ \A v \in work[t].removed :
         /\ call[t].kind = "reprocess" /\ v.driver = call[t].driver
         /\ call[t].from <= v.excess.from /\ v.excess.to <= call[t].to

(* What t counts: its own violations, and those of the run it joined.      *)
Counted(t) ==
    /\ work[t].inserted => work[t].count = Cardinality(work[t].added)
    /\ ~work[t].inserted =>
         work[t].count \in Nat /\ work[t].count >= Cardinality(work[t].added)

(* A check writes as it goes, a reprocess stages what it will write. *)
InOrder(t) ==
    /\ pc[t] \in {"continuous", "count"} => call[t].kind = "check"
    /\ pc[t] \in {"delete", "rebuild"} => call[t].kind = "reprocess"
    /\ call[t].kind # "check" /\ pc[t] # "update" => work[t].added = {}
    /\ pc[t] = "rebuild" => work[t].count = Cardinality(work[t].staged)
    /\ pc[t] = "update" => Counted(t)

(* A row marked completed keeps all but its status and its count. *)
Completed(r, n) == [r EXCEPT !.status = "COMPLETED", !.found = n]

(* What t has in hand, by the statement it is about to execute. *)
TaskInv(t) ==
    /\ pc[t] # "new" => call[t] \in Calls
    /\ pc[t] \notin Begun \cup {"commit", "reraise"} => Clean(work[t])
    /\ pc[t] \in Begun =>
         /\ Owned(t, "RUNNING", 0) \/ (Joined(t) /\ work[t].row = {})
         /\ Reported(t) /\ InOrder(t)
    /\ pc[t] = "commit" =>
         \/ Clean(work[t])
         \/ Owned(t, "COMPLETED", work[t].count) /\ Reported(t) /\ Counted(t)
         \/ /\ Joined(t) /\ Reported(t) /\ Counted(t)
            /\ work[t].row = {Completed(q, work[t].count) : q \in RowsOf(t)}
    /\ pc[t] = "reraise" => ~work[t].inserted /\ (work[t].row # {} => RowsOf(t) # {})

(* Of all that have a version of a run's row in hand, there is one. *)
Exclusive ==
    \A t, u \in Tasks :
        work[t].row # {} /\ work[u].row # {} /\ call[t].run = call[u].run => t = u

(* The inductive invariant. *)
IInv ==
    /\ Shape
    /\ \A t \in Tasks : TaskInv(t)
    /\ Exclusive
    /\ RunsAreWhole
    /\ SeverityCast => FailsForCause

-----------------------------------------------------------------------------
(* What the rules find is finite.                                          *)

(* The image of a finite set is finite, and as large if nothing is merged. *)
LEMMA ImageFinite ==
    ASSUME NEW S, IsFiniteSet(S), NEW f, f = [x \in S |-> f[x]]
    PROVE  /\ IsFiniteSet({f[x] : x \in S})
           /\ (\A x, y \in S : f[x] = f[y] => x = y) =>
                Cardinality({f[x] : x \in S}) = Cardinality(S)
<1> DEFINE T == {f[x] : x \in S}
<1>1. f \in Surjection(S, T)
  BY DEF Surjection
<1>2. IsFiniteSet(T) /\ (Cardinality(T) = Cardinality(S) <=> f \in Injection(S, T))
  BY <1>1, FS_Surjection
<1>3. (\A x, y \in S : f[x] = f[y] => x = y) => f \in Injection(S, T)
  <2>1. f \in [S -> T]
    BY <1>1 DEF Surjection
  <2> QED BY <2>1 DEF Injection, IsInjective
<1> QED BY <1>2, <1>3

(* Each rule reports at most one excess for each activity. *)
LEMMA RulesFinite ==
    ASSUME NEW S, IsFiniteSet(S)
    PROVE  /\ IsFiniteSet(Daily(S)) /\ IsFiniteSet(Weekly(S))
           /\ IsFiniteSet(Biweekly(S)) /\ IsFiniteSet(Continuous(S))
<1>1. IsFiniteSet(Daily(S))
  <2> DEFINE H == {y \in S : DrivenFrom(S, StartOf(y, Day), Day) > DailyLimit}
             E(d) == Excess("DAILY_DRIVING_LIMIT",
                            IF DrivenFrom(S, d, Day) > CriticalDaily THEN "CRITICAL" ELSE "HIGH",
                            d, d + Day, DrivenFrom(S, d, Day), DailyLimit)
             f == [x \in H |-> E(StartOf(x, Day))]
  <2> HIDE DEF E
  <2>1. IsFiniteSet(H)
    BY FS_Subset
  <2>2. IsFiniteSet({f[x] : x \in H})
    BY <2>1, ImageFinite
  <2>3. Daily(S) = {f[x] : x \in H}
    BY DEF Daily, E
  <2> QED BY <2>2, <2>3
<1>2. IsFiniteSet(Weekly(S))
  <2> DEFINE H == {y \in S : DrivenFrom(S, StartOf(y, Week), Week) > WeeklyLimit}
             E(w) == Excess("WEEKLY_DRIVING_LIMIT", "CRITICAL",
                            w, w + Week, DrivenFrom(S, w, Week), WeeklyLimit)
             f == [x \in H |-> E(StartOf(x, Week))]
  <2> HIDE DEF E
  <2>1. IsFiniteSet(H)
    BY FS_Subset
  <2>2. IsFiniteSet({f[x] : x \in H})
    BY <2>1, ImageFinite
  <2>3. Weekly(S) = {f[x] : x \in H}
    BY DEF Weekly, E
  <2> QED BY <2>2, <2>3
<1>3. IsFiniteSet(Biweekly(S))
  <2> DEFINE H == {y \in S : DrivenFrom(S, StartOf(y, Week), 2 * Week) > BiweeklyLimit}
             E(w) == Excess("WEEKLY_DRIVING_LIMIT", "CRITICAL",
                            w, w + 2 * Week, DrivenFrom(S, w, 2 * Week), BiweeklyLimit)
             f == [x \in H |-> E(StartOf(x, Week))]
  <2> HIDE DEF E
  <2>1. IsFiniteSet(H)
    BY FS_Subset
  <2>2. IsFiniteSet({f[x] : x \in H})
    BY <2>1, ImageFinite
  <2>3. Biweekly(S) = {f[x] : x \in H}
    BY DEF Biweekly, E
  <2> QED BY <2>2, <2>3
<1>4. IsFiniteSet(Continuous(S))
  <2> DEFINE span(x) == {y \in S : GroupId(S, y) = GroupId(S, x)}
             H == {x \in S : Seconds(span(x)) > ContinuousLimit}
             E(s) == Excess("EXCESS_CONTINUOUS_DRIVING", "HIGH",
                            Min({x.started : x \in s}), Max({x.ended : x \in s}),
                            Seconds(s), ContinuousLimit)
             f == [x \in H |-> E(span(x))]
  <2> HIDE DEF E
  <2>1. IsFiniteSet(H)
    BY FS_Subset
  <2>2. IsFiniteSet({f[x] : x \in H})
    BY <2>1, ImageFinite
  <2>3. Continuous(S) = {f[x] : x \in H}
    BY DEF Continuous, Spans, E
  <2> QED BY <2>2, <2>3
<1> QED BY <1>1, <1>2, <1>3, <1>4

(* Its activities, in its period or not, are finitely many. *)
LEMMA DrivenFinite ==
    ASSUME Shape, NEW t \in Tasks
    PROVE  IsFiniteSet(Driven(t)) /\ IsFiniteSet(InWindow(t))
<1>1. IsFiniteSet(Driven(t))
  BY FS_Subset DEF Driven, Driving, Shape
<1>2. InWindow(t) \subseteq Driven(t)
  BY DEF InWindow, Within
<1> QED BY <1>1, <1>2, FS_Subset

(* A set of excesses becomes as many rows, all of t's run and driver. *)
LEMMA ReportsAre ==
    ASSUME NEW t \in Tasks, NEW S, IsFiniteSet(S)
    PROVE  /\ IsFiniteSet(Reports(t, S)) /\ Cardinality(Reports(t, S)) = Cardinality(S)
           /\ \A v \in Reports(t, S) : v.run = call[t].run /\ v.driver = call[t].driver
<1> DEFINE f == [e \in S |-> [excess |-> e, driver |-> call[t].driver,
                              run |-> call[t].run, by |-> t]]
<1>1. Reports(t, S) = {f[e] : e \in S}
  BY DEF Reports
<1>2. \A d, e \in S : f[d] = f[e] => d = e
  <2>1. \A e \in S : f[e].excess = e
    OBVIOUS
  <2> QED BY <2>1
<1>3. f = [x \in S |-> f[x]]
  OBVIOUS
<1>4. \A v \in Reports(t, S) : v.run = call[t].run /\ v.driver = call[t].driver
  BY DEF Reports
<1> HIDE DEF f
<1> QED BY <1>1, <1>2, <1>3, <1>4, ImageFinite

-----------------------------------------------------------------------------
(* What makes t's call fail whatever runs beside it. *)
Cause(t) ==
    \/ call[t].from >= call[t].to
    \/ call[t].driver \notin Drivers
    \/ call[t].kind = "reprocess" /\ RowsOf(t) # {}

(* A step of t that writes nothing to the tables. *)
Local(t) ==
    /\ UNCHANGED <<Tables, call>>
    /\ \E l : pc' = [pc EXCEPT ![t] = l]
    /\ \E w : IsWork(w) /\ work' = [work EXCEPT ![t] = w]

(* If t takes a version of its run's row, nobody else has one. *)
Claim(t) ==
    work'[t].row # {} =>
        \/ work[t].row # {}
        \/ \A u \in Tasks \ {t} : work[u].row # {} => call[u].run # call[t].run

(* What t depends on is its own, and the committed rows of its run. *)
LEMMA Untouched ==
    ASSUME NEW u \in Tasks, TaskInv(u), pc'[u] = pc[u], work'[u] = work[u],
           call'[u] = call[u], RowsOf(u)' = RowsOf(u)
    PROVE  TaskInv(u)'
<1>1. /\ Owned(u, "RUNNING", 0)' <=> Owned(u, "RUNNING", 0)
      /\ Owned(u, "COMPLETED", work[u].count)' <=> Owned(u, "COMPLETED", work[u].count)
  BY DEF Owned, RunRow
<1>2. Joined(u)' <=> Joined(u)
  BY DEF Joined
<1>3. Reported(u)' <=> Reported(u)
  BY DEF Reported
<1>4. /\ Counted(u)' <=> Counted(u)
      /\ InOrder(u)' <=> InOrder(u)
  BY DEF Counted, InOrder
<1> QED BY <1>1, <1>2, <1>3, <1>4 DEF TaskInv

(* A step of t that shows nothing, and leaves t as it should be, is safe.  *)
LEMMA LocalKept ==
    ASSUME IInv, NEW t \in Tasks, Local(t), Claim(t), TaskInv(t)',
           SeverityCast /\ pc'[t] = "except" => Cause(t)
    PROVE  IInv'
<1>0. runs' = runs /\ violations' = violations /\ activities' = activities /\ call' = call
  BY DEF Local, Tables
<1>1. PICK l : pc' = [pc EXCEPT ![t] = l]
  BY DEF Local
<1>2. PICK w : IsWork(w) /\ work' = [work EXCEPT ![t] = w]
  BY DEF Local
<1>3. /\ pc'[t] = l /\ work'[t] = w
      /\ \A u \in Tasks \ {t} : pc'[u] = pc[u] /\ work'[u] = work[u]
      /\ pc' = [u \in Tasks |-> pc'[u]] /\ work' = [u \in Tasks |-> work'[u]]
  BY <1>1, <1>2 DEF IInv, Shape
<1>4. Shape'
  <2>1. \A u \in Tasks : IsWork(work'[u])
    BY <1>2, <1>3 DEF IInv, Shape
  <2> QED BY <1>0, <1>3, <2>1 DEF IInv, Shape, IsWork, IsRow
<1>5. \A u \in Tasks : RowsOf(u)' = RowsOf(u)
  BY <1>0 DEF RowsOf
<1>6. ASSUME NEW u \in Tasks \ {t} PROVE TaskInv(u)'
  <2>1. TaskInv(u)
    BY DEF IInv
  <2> QED BY <1>0, <1>3, <1>5, <2>1, Untouched
<1>7. Exclusive'
  <2> SUFFICES ASSUME NEW u \in Tasks, NEW v \in Tasks,
                      work'[u].row # {}, work'[v].row # {}, call[u].run = call[v].run
               PROVE  u = v
    BY <1>0 DEF Exclusive
  <2>1. Exclusive
    BY DEF IInv
  <2> QED BY <1>3, <2>1 DEF Exclusive, Claim
<1>8. RunsAreWhole'
  BY <1>0 DEF IInv, RunsAreWhole
<1>9. SeverityCast => FailsForCause'
  BY <1>0, <1>3, <1>5 DEF IInv, FailsForCause, Cause
<1> QED BY <1>4, <1>6, <1>7, <1>8, <1>9 DEF IInv

(* What Continue does, stated of t. *)
LEMMA Continued ==
    ASSUME Shape, NEW t \in Tasks, NEW l, NEW w, IsWork(w), Continue(t, l, w)
    PROVE  /\ Local(t) /\ pc'[t] = l /\ work'[t] = w
           /\ call' = call /\ RowsOf(t)' = RowsOf(t)
BY DEF Continue, Goto, Local, Shape, Tables, RowsOf

(* A new transaction has nothing in hand. *)
LEMMA NoWorkClean == IsWork(NoWork) /\ Clean(NoWork)
BY DEF IsWork, NoWork, Clean

(* A step that ends with clean hands. *)
LEMMA Rests ==
    ASSUME IInv, NEW t \in Tasks, NEW l, NEW w, IsWork(w), Clean(w), Continue(t, l, w),
           pc[t] # "new", l \notin Begun \cup {"reraise"},
           SeverityCast /\ l = "except" => Cause(t)
    PROVE  IInv'
<1>1. /\ Local(t) /\ pc'[t] = l /\ work'[t] = w
      /\ call' = call /\ RowsOf(t)' = RowsOf(t)
  BY Continued DEF IInv
<1>2. TaskInv(t)'
  <2>1. TaskInv(t)
    BY DEF IInv
  <2> QED BY <1>1, <2>1 DEF TaskInv
<1>3. Claim(t)
  BY <1>1 DEF Claim, Clean
<1> QED BY <1>1, <1>2, <1>3, LocalKept

(* A step from one statement of the body to another. *)
LEMMA Goes ==
    ASSUME IInv, NEW t \in Tasks, NEW l \in Begun, NEW w, IsWork(w), Continue(t, l, w),
           pc[t] \in Begun, w.row = work[t].row, w.inserted = work[t].inserted,
           Reported(t)', InOrder(t)'
    PROVE  IInv'
<1>1. /\ Local(t) /\ pc'[t] = l /\ work'[t] = w
      /\ call' = call /\ RowsOf(t)' = RowsOf(t)
  BY Continued DEF IInv
<1>2. TaskInv(t)
  BY DEF IInv
<1>3. Owned(t, "RUNNING", 0) => Owned(t, "RUNNING", 0)'
  BY <1>1 DEF Owned, RunRow
<1>4. Joined(t) => Joined(t)'
  BY <1>1 DEF Joined
<1>5. l \notin {"new", "commit", "reraise", "except"} /\ pc[t] # "new"
  BY DEF Begun, Rules
<1>6. TaskInv(t)'
  BY <1>1, <1>2, <1>3, <1>4, <1>5 DEF TaskInv
<1>7. Claim(t)
  BY <1>1 DEF Claim
<1> QED BY <1>1, <1>5, <1>6, <1>7, LocalKept

(* Changing some fields of a record of work keeps the others. *)
Differs(w, x, fields) ==
    /\ IsWork(x)
    /\ "row" \notin fields => x.row = w.row
    /\ "inserted" \notin fields => x.inserted = w.inserted
    /\ "locked" \notin fields => x.locked = w.locked
    /\ "added" \notin fields => x.added = w.added
    /\ "removed" \notin fields => x.removed = w.removed
    /\ "staged" \notin fields => x.staged = w.staged
    /\ "count" \notin fields => x.count = w.count

Work(row, inserted, locked, added, removed, staged, count) ==
    [row |-> row, inserted |-> inserted, locked |-> locked, added |-> added,
     removed |-> removed, staged |-> staged, count |-> count]

WithAdded(w, a) == [w EXCEPT !.added = a]

(* What each change of t's work leaves alone, here and below. *)
LEMMA FieldAdded ==
    ASSUME NEW w, IsWork(w), NEW a
    PROVE  Differs(w, WithAdded(w, a), {"added"}) /\ WithAdded(w, a).added = a
<1>1. PICK x : x = WithAdded(w, a)
  OBVIOUS
<1>2. x = Work(w.row, w.inserted, w.locked, a, w.removed, w.staged, w.count)
  BY <1>1 DEF WithAdded, IsWork, Work
<1>3. Differs(w, x, {"added"}) /\ x.added = a
  BY <1>2 DEF Differs, IsWork, Work
<1> QED BY <1>1, <1>3

WithStaged(w, a) == [w EXCEPT !.staged = a]

(* Staging changes nothing but the staging table. *)
LEMMA FieldStaged ==
    ASSUME NEW w, IsWork(w), NEW a
    PROVE  Differs(w, WithStaged(w, a), {"staged"}) /\ WithStaged(w, a).staged = a
<1>1. PICK x : x = WithStaged(w, a)
  OBVIOUS
<1>2. x = Work(w.row, w.inserted, w.locked, w.added, w.removed, a, w.count)
  BY <1>1 DEF WithStaged, IsWork, Work
<1>3. Differs(w, x, {"staged"}) /\ x.staged = a
  BY <1>2 DEF Differs, IsWork, Work
<1> QED BY <1>1, <1>3

WithCount(w, a) == [w EXCEPT !.count = a]

(* Counting changes nothing but the count. *)
LEMMA FieldCount ==
    ASSUME NEW w, IsWork(w), NEW a
    PROVE  Differs(w, WithCount(w, a), {"count"}) /\ WithCount(w, a).count = a
<1>1. PICK x : x = WithCount(w, a)
  OBVIOUS
<1>2. x = Work(w.row, w.inserted, w.locked, w.added, w.removed, w.staged, a)
  BY <1>1 DEF WithCount, IsWork, Work
<1>3. Differs(w, x, {"count"}) /\ x.count = a
  BY <1>2 DEF Differs, IsWork, Work
<1> QED BY <1>1, <1>3

WithRow(w, a) == [w EXCEPT !.row = a]

(* A version of the run's row is all that changes. *)
LEMMA FieldRow ==
    ASSUME NEW w, IsWork(w), NEW a
    PROVE  Differs(w, WithRow(w, a), {"row"}) /\ WithRow(w, a).row = a
<1>1. PICK x : x = WithRow(w, a)
  OBVIOUS
<1>2. x = Work(a, w.inserted, w.locked, w.added, w.removed, w.staged, w.count)
  BY <1>1 DEF WithRow, IsWork, Work
<1>3. Differs(w, x, {"row"}) /\ x.row = a
  BY <1>2 DEF Differs, IsWork, Work
<1> QED BY <1>1, <1>3

WithLocked(w, a) == [w EXCEPT !.locked = a]

(* A lock changes nothing that is written. *)
LEMMA FieldLocked ==
    ASSUME NEW w, IsWork(w), NEW a
    PROVE  Differs(w, WithLocked(w, a), {"locked"}) /\ WithLocked(w, a).locked = a
<1>1. PICK x : x = WithLocked(w, a)
  OBVIOUS
<1>2. x = Work(w.row, w.inserted, a, w.added, w.removed, w.staged, w.count)
  BY <1>1 DEF WithLocked, IsWork, Work
<1>3. Differs(w, x, {"locked"}) /\ x.locked = a
  BY <1>2 DEF Differs, IsWork, Work
<1> QED BY <1>1, <1>3

WithCountRemoved(w, a, b) == [w EXCEPT !.count = a, !.removed = b]

(* The staging table's count and what is deleted change together. *)
LEMMA FieldCountRemoved ==
    ASSUME NEW w, IsWork(w), NEW a, NEW b
    PROVE  LET x == WithCountRemoved(w, a, b)
           IN  Differs(w, x, {"count", "removed"}) /\ x.count = a /\ x.removed = b
<1>1. PICK x : x = WithCountRemoved(w, a, b)
  OBVIOUS
<1>2. x = Work(w.row, w.inserted, w.locked, w.added, b, w.staged, a)
  BY <1>1 DEF WithCountRemoved, IsWork, Work
<1>3. Differs(w, x, {"count", "removed"}) /\ x.count = a /\ x.removed = b
  BY <1>2 DEF Differs, IsWork, Work
<1> QED BY <1>1, <1>3

(* ... field by field. *)
LEMMA CompletedIs ==
    ASSUME NEW r, IsRow(r), NEW n
    PROVE  Completed(r, n) =
             [run |-> r.run, driver |-> r.driver, kind |-> r.kind, from |-> r.from,
              to |-> r.to, status |-> "COMPLETED", found |-> n]
<1>1. PICK x : x = Completed(r, n)
  OBVIOUS
<1>2. x = [run |-> r.run, driver |-> r.driver, kind |-> r.kind, from |-> r.from,
           to |-> r.to, status |-> "COMPLETED", found |-> n]
  BY <1>1 DEF Completed, IsRow
<1> QED BY <1>1, <1>2

(* A rule's INSERT adds finitely many rows of t's run, or stages them. *)
LEMMA ReportStep ==
    ASSUME IInv, NEW t \in Tasks, NEW S, IsFiniteSet(S), NEW l, Report(t, S, l),
           pc[t] \in Rules, pc[t] = "continuous" => l = "count",
           \/ l \in {"weekly", "biweekly"}
           \/ l \in {"continuous", "count"} /\ call[t].kind = "check"
           \/ l = "delete" /\ call[t].kind = "reprocess"
    PROVE  IInv'
<1>0. /\ Reported(t) /\ InOrder(t) /\ IsWork(work[t]) /\ Shape
      /\ l \in Begun /\ pc[t] \in Begun /\ pc[t] # "update"
  BY DEF IInv, TaskInv, Begun, Rules, Shape
<1>1. CASE call[t].kind = "check"
  <2> DEFINE w == WithAdded(work[t], work[t].added \cup Reports(t, S))
  <2>1. Continue(t, l, w)
    BY <1>1 DEF Report, WithAdded
  <2>2. Differs(work[t], w, {"added"}) /\ w.added = work[t].added \cup Reports(t, S)
    BY <1>0, FieldAdded
  <2> HIDE DEF w
  <2>2a. /\ IsWork(w) /\ w.row = work[t].row /\ w.inserted = work[t].inserted
         /\ w.removed = work[t].removed /\ w.staged = work[t].staged
    BY <2>2 DEF Differs
  <2>3. IsFiniteSet(w.added)
    <3>1. IsFiniteSet(work[t].added) /\ IsFiniteSet(Reports(t, S))
      BY <1>0, ReportsAre DEF Reported
    <3>2. IsFiniteSet(work[t].added \cup Reports(t, S))
      BY <3>1, FS_Union
    <3> QED BY <2>2, <3>2
  <2>4. /\ Local(t) /\ pc'[t] = l /\ work'[t] = w /\ call' = call
    BY <1>0, <2>1, <2>2a, Continued
  <2>5. Reported(t)'
    BY <1>0, <2>2, <2>2a, <2>3, <2>4, ReportsAre DEF Reported
  <2>6. InOrder(t)'
    BY <1>0, <1>1, <2>4 DEF InOrder
  <2> QED BY <1>0, <2>1, <2>2, <2>2a, <2>5, <2>6, Goes
<1>2. CASE call[t].kind # "check"
  <2> DEFINE w == WithStaged(work[t], work[t].staged \cup S)
  <2>1. Continue(t, l, w)
    BY <1>2 DEF Report, WithStaged
  <2>2. Differs(work[t], w, {"staged"}) /\ w.staged = work[t].staged \cup S
    BY <1>0, FieldStaged
  <2> HIDE DEF w
  <2>2a. /\ IsWork(w) /\ w.row = work[t].row /\ w.inserted = work[t].inserted
         /\ w.removed = work[t].removed /\ w.added = work[t].added
    BY <2>2 DEF Differs
  <2>3. IsFiniteSet(w.staged)
    <3>1. IsFiniteSet(work[t].staged) /\ IsFiniteSet(S)
      BY <1>0, ReportsAre DEF Reported
    <3>2. IsFiniteSet(work[t].staged \cup S)
      BY <3>1, FS_Union
    <3> QED BY <2>2, <3>2
  <2>4. /\ Local(t) /\ pc'[t] = l /\ work'[t] = w /\ call' = call
    BY <1>0, <2>1, <2>2a, Continued
  <2>5. Reported(t)'
    BY <1>0, <2>2, <2>2a, <2>3, <2>4 DEF Reported
  <2>6. InOrder(t)'
    BY <1>0, <1>2, <2>2, <2>2a, <2>4 DEF InOrder
  <2> QED BY <1>0, <2>1, <2>2, <2>2a, <2>5, <2>6, Goes
<1> QED BY <1>1, <1>2

(* The four rules. *)
LEMMA RulesKept ==
    ASSUME IInv, NEW t \in Tasks,
           DailyRule(t) \/ WeeklyRule(t) \/ BiweeklyRule(t) \/ ContinuousRule(t)
    PROVE  IInv'
<1>0. IsFiniteSet(Driven(t)) /\ IsFiniteSet(InWindow(t)) /\ InOrder(t)' \in BOOLEAN
  BY DrivenFinite DEF IInv, InOrder
<1>1. CASE DailyRule(t)
  <2>1. CASE SeverityCast
    <3>1. Report(t, Daily(InWindow(t)), "weekly") /\ pc[t] = "daily"
      BY <1>1, <2>1 DEF DailyRule
    <3> QED BY <1>0, <3>1, RulesFinite, ReportStep DEF Rules
  <2>2. CASE ~SeverityCast
    <3>1. Continue(t, "except", NoWork) /\ pc[t] = "daily"
      BY <1>1, <2>2 DEF DailyRule, Raise
    <3> QED BY <2>2, <3>1, NoWorkClean, Rests DEF Begun, Rules
  <2> QED BY <2>1, <2>2
<1>2. CASE WeeklyRule(t)
  <2>1. Report(t, Weekly(InWindow(t)), "biweekly") /\ pc[t] = "weekly"
    BY <1>2 DEF WeeklyRule
  <2> QED BY <1>0, <2>1, RulesFinite, ReportStep DEF Rules
<1>3. CASE BiweeklyRule(t)
  <2>1. pc[t] = "biweekly"
    BY <1>3 DEF BiweeklyRule
  <2>2. CASE call[t].kind = "check" /\ Report(t, Biweekly(Driven(t)), "continuous")
    BY <1>0, <2>1, <2>2, RulesFinite, ReportStep DEF Rules
  <2>3. CASE call[t].kind = "reprocess" /\ Report(t, Biweekly(InWindow(t)), "delete")
    BY <1>0, <2>1, <2>3, RulesFinite, ReportStep DEF Rules
  <2> QED BY <1>3, <2>2, <2>3 DEF BiweeklyRule
<1>4. CASE ContinuousRule(t)
  <2>1. Report(t, Continuous(InWindow(t)), "count") /\ pc[t] = "continuous"
    BY <1>4 DEF ContinuousRule
  <2>2. call[t].kind = "check"
    BY <2>1 DEF IInv, TaskInv, InOrder, Begun, Rules
  <2> QED BY <1>0, <2>1, <2>2, RulesFinite, ReportStep DEF Rules
<1> QED BY <1>1, <1>2, <1>3, <1>4

(* The reprocess notes what its run supersedes. *)
LEMMA DeleteKept ==
    ASSUME IInv, NEW t \in Tasks, DeleteSuperseded(t)
    PROVE  IInv'
<1> DEFINE w == WithCountRemoved(work[t], Cardinality(work[t].staged), Superseded(t))
<1>1. /\ pc[t] = "delete" /\ Continue(t, "rebuild", w)
      /\ Reported(t) /\ InOrder(t) /\ IsWork(work[t]) /\ Shape
  BY DEF DeleteSuperseded, WithCountRemoved, IInv, TaskInv, Begun, Shape
<1>2. /\ Differs(work[t], w, {"count", "removed"})
      /\ w.count = Cardinality(work[t].staged) /\ w.removed = Superseded(t)
  BY <1>1, FieldCountRemoved
<1> HIDE DEF w
<1>3. /\ IsWork(w) /\ w.row = work[t].row /\ w.inserted = work[t].inserted
      /\ w.added = work[t].added /\ w.staged = work[t].staged
  BY <1>2 DEF Differs
<1>4. Local(t) /\ pc'[t] = "rebuild" /\ work'[t] = w /\ call' = call
  BY <1>1, <1>3, Continued
<1>5. Reported(t)'
  <2>1. call[t].kind = "reprocess"
    BY <1>1 DEF InOrder
  <2> QED BY <1>1, <1>2, <1>3, <1>4, <2>1 DEF Reported, Superseded
<1>6. InOrder(t)'
  BY <1>1, <1>2, <1>3, <1>4 DEF InOrder
<1> QED BY <1>1, <1>3, <1>5, <1>6, Goes DEF Begun

(* The rebuilt rows are as many as were staged. *)
LEMMA InsertRebuiltKept ==
    ASSUME IInv, NEW t \in Tasks, InsertRebuilt(t)
    PROVE  IInv'
<1> DEFINE w == WithAdded(work[t], Reports(t, work[t].staged))
<1>1. /\ pc[t] = "rebuild" /\ Continue(t, "update", w)
      /\ Reported(t) /\ InOrder(t) /\ IsWork(work[t]) /\ Shape
      /\ work[t].inserted \/ Joined(t)
  BY DEF InsertRebuilt, WithAdded, IInv, TaskInv, Begun, Shape, Owned
<1>2. Differs(work[t], w, {"added"}) /\ w.added = Reports(t, work[t].staged)
  BY <1>1, FieldAdded
<1> HIDE DEF w
<1>3. /\ IsWork(w) /\ w.row = work[t].row /\ w.inserted = work[t].inserted
      /\ w.removed = work[t].removed /\ w.staged = work[t].staged
      /\ w.count = work[t].count
  BY <1>2 DEF Differs
<1>4. Local(t) /\ pc'[t] = "update" /\ work'[t] = w /\ call' = call
  BY <1>1, <1>3, Continued
<1>5. /\ IsFiniteSet(w.added) /\ Cardinality(w.added) = Cardinality(work[t].staged)
      /\ \A v \in w.added : v.run = call[t].run /\ v.driver = call[t].driver
  BY <1>1, <1>2, ReportsAre DEF Reported
<1>6. Reported(t)'
  BY <1>1, <1>3, <1>4, <1>5 DEF Reported
<1>7. InOrder(t)'
  <2>1. call[t].kind = "reprocess" /\ w.count = Cardinality(w.added) /\ w.inserted
    BY <1>1, <1>3, <1>5 DEF InOrder, Joined
  <2> QED BY <1>4, <2>1 DEF InOrder, Counted
<1> QED BY <1>1, <1>3, <1>6, <1>7, Goes DEF Begun

(* The sub-select counts all the task has added, and what it sees besides. *)
LEMMA CountKept ==
    ASSUME IInv, NEW t \in Tasks, CountViolations(t)
    PROVE  IInv'
<1> DEFINE V == {v \in violations \cup work[t].added : v.run = call[t].run}
           w == WithCount(work[t], Cardinality(V))
<1>1. /\ pc[t] = "count" /\ Continue(t, "update", w)
      /\ Reported(t) /\ InOrder(t) /\ IsWork(work[t]) /\ Shape
      /\ Owned(t, "RUNNING", 0) \/ Joined(t)
  BY DEF CountViolations, WithCount, IInv, TaskInv, Begun, Shape
<1>2. Differs(work[t], w, {"count"}) /\ w.count = Cardinality(V)
  BY <1>1, FieldCount
<1> HIDE DEF w
<1>3. /\ IsWork(w) /\ w.row = work[t].row /\ w.inserted = work[t].inserted
      /\ w.removed = work[t].removed /\ w.staged = work[t].staged
      /\ w.added = work[t].added
  BY <1>2 DEF Differs
<1>4. Local(t) /\ pc'[t] = "update" /\ work'[t] = w /\ call' = call
  BY <1>1, <1>3, Continued
<1>5. Reported(t)'
  BY <1>1, <1>3, <1>4 DEF Reported
<1>6. IsFiniteSet(V) /\ work[t].added \subseteq V
  <2>1. IsFiniteSet(violations \cup work[t].added)
    BY <1>1, FS_Union DEF Reported, Shape
  <2> QED BY <1>1, <2>1, FS_Subset DEF Reported
<1>7. Counted(t)'
  <2>1. CASE work[t].inserted
    <3>1. RowsOf(t) = {}
      BY <1>1, <2>1 DEF Owned, Joined
    <3>2. \A v \in violations : v.run # call[t].run
      BY <3>1 DEF IInv, RunsAreWhole, RowsOf
    <3>3. V = work[t].added
      BY <1>6, <3>2
    <3> QED BY <1>2, <1>3, <1>4, <2>1, <3>3 DEF Counted
  <2>2. CASE ~work[t].inserted
    <3>1. Cardinality(V) \in Nat /\ Cardinality(work[t].added) <= Cardinality(V)
      BY <1>6, FS_Subset, FS_CardinalityType
    <3>2. Cardinality(work[t].added) \in Nat
      BY <1>6, FS_Subset, FS_CardinalityType
    <3> QED BY <1>2, <1>3, <1>4, <2>2, <3>1, <3>2 DEF Counted
  <2> QED BY <2>1, <2>2
<1>8. InOrder(t)'
  BY <1>4, <1>7 DEF InOrder
<1> QED BY <1>1, <1>3, <1>5, <1>8, Goes DEF Begun

(* Who has a version of a run's row has inserted it, or found it there. *)
LEMMA RowMeans ==
    ASSUME IInv, NEW t \in Tasks, work[t].row # {}
    PROVE  work[t].inserted \/ RowsOf(t) # {}
<1>1. TaskInv(t)
  BY DEF IInv
<1>2. CASE pc[t] \in Begun
  BY <1>1, <1>2 DEF TaskInv, Owned
<1>3. CASE pc[t] = "commit"
  BY <1>1, <1>3 DEF TaskInv, Owned, Joined, Clean
<1>4. CASE pc[t] \notin Begun \cup {"commit"}
  BY <1>1, <1>4 DEF TaskInv, Clean
<1> QED BY <1>2, <1>3, <1>4

(* The run's row is inserted, found, or refused for a cause. *)
LEMMA InsertKept ==
    ASSUME IInv, NEW t \in Tasks, InsertRun(t)
    PROVE  IInv'
<1>1. /\ pc[t] = "insert" /\ Clean(work[t]) /\ IsWork(work[t]) /\ Shape
      /\ Cause(t) \in BOOLEAN /\ call[t] \in Calls
  BY DEF InsertRun, IInv, TaskInv, Begun, Rules, Shape, Cause
<1>2. ASSUME Raise(t), Cause(t)
      PROVE  IInv'
  BY <1>1, <1>2, NoWorkClean, Rests DEF Raise, Begun, Rules
<1>3. ASSUME Inserting(t) = {}, RowsOf(t) = {}, Goto(t, "daily"), UNCHANGED <<Tables, call>>,
             work' = [work EXCEPT ![t].row = {RunRow(t, "RUNNING", 0)}, ![t].inserted = TRUE]
      PROVE  IInv'
  <2> DEFINE w == Work({RunRow(t, "RUNNING", 0)}, TRUE, work[t].locked, {}, {}, {}, 0)
  <2>1. work' = [work EXCEPT ![t] = w]
    <3>1. PICK r : r = {RunRow(t, "RUNNING", 0)}
      OBVIOUS
    <3>2. /\ work' = [work EXCEPT ![t].row = r, ![t].inserted = TRUE]
          /\ work = [u \in Tasks |-> work[u]] /\ IsWork(work[t]) /\ Clean(work[t])
      BY <1>1, <1>3, <3>1 DEF Shape
    <3>3. /\ work' = [work EXCEPT ![t] = work'[t]]
          /\ work'[t] = [row |-> r, inserted |-> TRUE, locked |-> work[t].locked,
                         added |-> work[t].added, removed |-> work[t].removed,
                         staged |-> work[t].staged, count |-> work[t].count]
      BY <3>2 DEF IsWork
    <3> QED BY <3>1, <3>2, <3>3 DEF Work, Clean
  <2>2. IsWork(w) /\ w.row = {RunRow(t, "RUNNING", 0)} /\ w.inserted
        /\ w.added = {} /\ w.removed = {} /\ w.staged = {}
    BY DEF IsWork, Work
  <2> HIDE DEF w
  <2>3. /\ Local(t) /\ pc'[t] = "daily" /\ work'[t] = w
        /\ call' = call /\ RowsOf(t)' = RowsOf(t)
    BY <1>1, <1>3, <2>1, <2>2 DEF Local, Goto, Shape, RowsOf, Tables
  <2>4. Claim(t)
    <3> SUFFICES ASSUME NEW u \in Tasks \ {t}, work[u].row # {}, call[u].run = call[t].run
                 PROVE  FALSE
      BY DEF Claim
    <3>1. ~work[u].inserted
      BY <1>3 DEF Inserting
    <3>2. RowsOf(u) = {}
      BY <1>3 DEF RowsOf
    <3> QED BY <3>1, <3>2, RowMeans
  <2>5. TaskInv(t)'
    <3>1. Owned(t, "RUNNING", 0)'
      BY <1>3, <2>2, <2>3 DEF Owned, RunRow
    <3>2. Reported(t)'
      BY <2>2, <2>3, FS_EmptySet DEF Reported
    <3>3. InOrder(t)'
      BY <2>2, <2>3 DEF InOrder
    <3> QED BY <1>1, <2>3, <3>1, <3>2, <3>3 DEF TaskInv, Begun, Rules
  <2> QED BY <2>3, <2>4, <2>5, LocalKept
<1>4. ASSUME RowsOf(t) # {}, call[t].kind = "check", Goto(t, "daily"),
             UNCHANGED <<Tables, call, work>>
      PROVE  IInv'
  <2>1. /\ Local(t) /\ pc'[t] = "daily" /\ work' = work
        /\ call' = call /\ RowsOf(t)' = RowsOf(t)
    <3>1. work' = [work EXCEPT ![t] = work[t]]
      BY <1>1, <1>4 DEF Shape
    <3> QED BY <1>1, <1>4, <3>1 DEF Local, Goto, Shape, RowsOf, Tables
  <2>2. Claim(t)
    BY <2>1 DEF Claim
  <2>3. TaskInv(t)'
    <3>1. Joined(t)' /\ (work[t].row = {})'
      BY <1>1, <1>4, <2>1 DEF Joined, Clean
    <3>2. Reported(t)'
      BY <1>1, <2>1, FS_EmptySet DEF Reported, Clean
    <3>3. InOrder(t)'
      BY <1>1, <1>4, <2>1 DEF InOrder
    <3> QED BY <1>1, <2>1, <3>1, <3>2, <3>3 DEF TaskInv, Begun, Rules
  <2> QED BY <2>1, <2>2, <2>3, LocalKept
<1> QED
  <2>1. call[t].kind \in {"check", "reprocess"}
    BY <1>1, CallsAssumption
  <2> QED BY <1>2, <1>3, <1>4, <2>1 DEF InsertRun, Cause

(* "Mark completed" takes the row when no other has a version of it. *)
LEMMA UpdateKept ==
    ASSUME IInv, NEW t \in Tasks, UpdateRun(t)
    PROVE  IInv'
<1> DEFINE R == {Completed(r, work[t].count) :
                    r \in IF work[t].inserted THEN work[t].row ELSE RowsOf(t)}
           w == WithRow(work[t], R)
<1>1. /\ pc[t] = "update" /\ Continue(t, "commit", w) /\ Updating(t) = {}
      /\ Reported(t) /\ Counted(t) /\ IsWork(work[t]) /\ Shape /\ call[t] \in Calls
      /\ Owned(t, "RUNNING", 0) \/ Joined(t)
  BY DEF UpdateRun, WithRow, Completed, IInv, TaskInv, InOrder, Begun, Shape
<1>2. Differs(work[t], w, {"row"}) /\ w.row = R
  BY <1>1, FieldRow
<1> HIDE DEF w
<1>3. /\ IsWork(w) /\ w.inserted = work[t].inserted /\ w.count = work[t].count
      /\ w.removed = work[t].removed /\ w.staged = work[t].staged
      /\ w.added = work[t].added
  BY <1>2 DEF Differs
<1>4. /\ Local(t) /\ pc'[t] = "commit" /\ work'[t] = w
      /\ call' = call /\ RowsOf(t)' = RowsOf(t)
  BY <1>1, <1>3, Continued
<1>5. Reported(t)' /\ Counted(t)'
  BY <1>1, <1>3, <1>4 DEF Reported, Counted
<1>6. Claim(t)
  BY <1>1 DEF Claim, Updating
<1>7. CASE Owned(t, "RUNNING", 0)
  <2>1. R = {RunRow(t, "COMPLETED", work[t].count)}
    <3>1. R = {Completed(RunRow(t, "RUNNING", 0), work[t].count)}
      BY <1>7 DEF Owned
    <3>2. IsRow(RunRow(t, "RUNNING", 0))
      BY DEF IsRow, RunRow
    <3> QED BY <3>1, <3>2, CompletedIs DEF RunRow
  <2>2. Owned(t, "COMPLETED", work[t].count)'
    BY <1>2, <1>3, <1>4, <1>7, <2>1 DEF Owned, RunRow
  <2>3. TaskInv(t)'
    BY <1>1, <1>4, <1>5, <2>2 DEF TaskInv, Begun, Rules
  <2> QED BY <1>4, <1>6, <2>3, LocalKept
<1>8. CASE Joined(t)
  <2>1. R = {Completed(r, work[t].count) : r \in RowsOf(t)}
    BY <1>8 DEF Joined
  <2>2. Joined(t)'
    BY <1>3, <1>4, <1>8 DEF Joined
  <2>3. TaskInv(t)'
    BY <1>1, <1>2, <1>3, <1>4, <1>5, <2>1, <2>2 DEF TaskInv, Begun, Rules
  <2> QED BY <1>4, <1>6, <2>3, LocalKept
<1> QED BY <1>1, <1>7, <1>8

(* "Mark failed" finds a row only where another call committed one. *)
LEMMA MarkKept ==
    ASSUME IInv, NEW t \in Tasks, MarkFailed(t)
    PROVE  IInv'
<1> DEFINE R == {[r EXCEPT !.status = "FAILED"] : r \in RowsOf(t)}
           w == WithRow(work[t], R)
<1>1. /\ pc[t] = "except" /\ Continue(t, "reraise", w)
      /\ Updating(t) = {} \/ RowsOf(t) = {}
      /\ Clean(work[t]) /\ IsWork(work[t]) /\ Shape /\ call[t] \in Calls
  BY DEF MarkFailed, WithRow, IInv, TaskInv, Begun, Rules, Shape
<1>2. Differs(work[t], w, {"row"}) /\ w.row = R
  BY <1>1, FieldRow
<1> HIDE DEF w
<1>3. IsWork(w) /\ w.inserted = work[t].inserted
  BY <1>2 DEF Differs
<1>4. /\ Local(t) /\ pc'[t] = "reraise" /\ work'[t] = w
      /\ call' = call /\ RowsOf(t)' = RowsOf(t)
  BY <1>1, <1>3, Continued
<1>5. w.row # {} => RowsOf(t) # {}
  BY <1>2
<1>6. Claim(t)
  BY <1>1, <1>4, <1>5 DEF Claim, Updating
<1>7. TaskInv(t)'
  BY <1>1, <1>3, <1>4, <1>5 DEF TaskInv, Begun, Rules, Clean
<1> QED BY <1>4, <1>6, <1>7, LocalKept

(* Steps that leave the task without anything written. *)
LEMMA RestKept ==
    ASSUME IInv, NEW t \in Tasks,
           \/ GetConnection(t) \/ PoolTimeout(t) \/ CheckExists(t) \/ TakeLock(t)
           \/ Reraise(t) \/ ConnectionLost(t)
    PROVE  IInv'
<1>1. ASSUME NEW l, Continue(t, l, NoWork), pc[t] # "new",
             l \notin Begun \cup {"reraise", "except"}
      PROVE  IInv'
  BY <1>1, NoWorkClean, Rests
<1>2. CASE GetConnection(t)
  BY <1>1, <1>2 DEF GetConnection, Begun, Rules
<1>3. CASE PoolTimeout(t)
  BY <1>1, <1>3 DEF PoolTimeout, Rollback, Begun, Rules
<1>4. CASE CheckExists(t)
  BY <1>1, <1>4 DEF CheckExists, Begun, Rules
<1>5. CASE Reraise(t)
  BY <1>1, <1>5 DEF Reraise, Rollback, Begun, Rules
<1>6. CASE ConnectionLost(t)
  BY <1>1, <1>6 DEF ConnectionLost, Rollback, InSession, InBody, Begun, Rules
<1>7. CASE TakeLock(t)
  <2> DEFINE w == WithLocked(work[t], TRUE)
  <2>1. /\ pc[t] = "lock" /\ Continue(t, "insert", w)
        /\ Clean(work[t]) /\ IsWork(work[t])
    BY <1>7 DEF TakeLock, WithLocked, IInv, TaskInv, Begun, Rules, Shape
  <2>2. Differs(work[t], w, {"locked"})
    BY <2>1, FieldLocked
  <2> HIDE DEF w
  <2>3. IsWork(w) /\ Clean(w)
    BY <2>1, <2>2 DEF Differs, Clean
  <2> QED BY <2>1, <2>3, Rests DEF Begun, Rules
<1> QED BY <1>2, <1>3, <1>4, <1>5, <1>6, <1>7

(* A call is accepted: no other task notices. *)
LEMMA AcceptKept ==
    ASSUME IInv, NEW t \in Tasks, NEW c \in Calls, Accept(t, c)
    PROVE  IInv'
<1> DEFINE l == IF c.kind = "check" THEN "queued" ELSE "exists"
<1>1. /\ pc[t] = "new" /\ call' = [call EXCEPT ![t] = c] /\ pc' = [pc EXCEPT ![t] = l]
      /\ runs' = runs /\ violations' = violations /\ activities' = activities
      /\ work' = work /\ Shape
  BY DEF Accept, Goto, Tables, IInv
<1>2. /\ call'[t] = c /\ pc'[t] \in {"queued", "exists"}
      /\ \A u \in Tasks \ {t} : pc'[u] = pc[u] /\ call'[u] = call[u]
      /\ pc' = [u \in Tasks |-> pc'[u]] /\ call' = [u \in Tasks |-> call'[u]]
  BY <1>1 DEF Shape
<1>3. Shape'
  BY <1>1, <1>2 DEF Shape, IsWork, IsRow
<1>4. Clean(work[t])
  BY <1>1 DEF IInv, TaskInv, Begun, Rules
<1>5. TaskInv(t)'
  BY <1>1, <1>2, <1>4 DEF TaskInv, Begun, Rules, Clean
<1>6. ASSUME NEW u \in Tasks \ {t} PROVE TaskInv(u)' /\ RowsOf(u)' = RowsOf(u)
  <2>1. RowsOf(u)' = RowsOf(u)
    BY <1>1, <1>2 DEF RowsOf
  <2>2. TaskInv(u)
    BY DEF IInv
  <2> QED BY <1>1, <1>2, <2>1, <2>2, Untouched
<1>7. Exclusive'
  <2> SUFFICES ASSUME NEW u \in Tasks, NEW v \in Tasks, work[u].row # {}, work[v].row # {},
                      call'[u].run = call'[v].run
               PROVE  u = v
    BY <1>1 DEF Exclusive
  <2>1. u # t /\ v # t
    BY <1>4 DEF Clean
  <2> QED BY <1>2, <2>1 DEF IInv, Exclusive
<1>8. RunsAreWhole'
  BY <1>1 DEF IInv, RunsAreWhole
<1>9. SeverityCast => FailsForCause'
  BY <1>2, <1>6 DEF IInv, FailsForCause
<1> QED BY <1>3, <1>5, <1>6, <1>7, <1>8, <1>9 DEF IInv

(* An activity arrives: no task notices at once. *)
LEMMA RecordKept ==
    ASSUME IInv, NEW x, RecordActivity(x)
    PROVE  IInv'
<1>1. /\ activities' = activities \cup {x}
      /\ runs' = runs /\ violations' = violations /\ pc' = pc /\ call' = call
      /\ work' = work
  BY DEF RecordActivity
<1>2. IsFiniteSet(activities')
  BY <1>1, FS_AddElement DEF IInv, Shape
<1>3. Shape'
  BY <1>1, <1>2 DEF IInv, Shape, IsWork, IsRow
<1>4. ASSUME NEW u \in Tasks PROVE TaskInv(u)' /\ RowsOf(u)' = RowsOf(u)
  <2>1. RowsOf(u)' = RowsOf(u)
    BY <1>1 DEF RowsOf
  <2>2. TaskInv(u)
    BY DEF IInv
  <2> QED BY <1>1, <2>1, <2>2, Untouched
<1>5. Exclusive' /\ RunsAreWhole'
  BY <1>1 DEF IInv, Exclusive, RunsAreWhole
<1>6. SeverityCast => FailsForCause'
  BY <1>1, <1>4 DEF IInv, FailsForCause
<1> QED BY <1>3, <1>4, <1>5, <1>6 DEF IInv

(* The process dies: its tasks drop what they had in hand. *)
LEMMA CrashKept ==
    ASSUME IInv, Crash
    PROVE  IInv'
<1> DEFINE dying == {t \in Tasks : call[t].kind = "check" /\ pc[t] \in InSession \cup {"queued"}}
<1>1. /\ pc' = [t \in Tasks |-> IF t \in dying THEN "failed" ELSE pc[t]]
      /\ work' = [t \in Tasks |-> IF t \in dying THEN NoWork ELSE work[t]]
      /\ runs' = runs /\ violations' = violations /\ activities' = activities
      /\ call' = call
      /\ \A t \in dying : pc[t] # "new"
  BY DEF Crash, Tables, InSession, InBody, Rules
<1> HIDE DEF dying
<1>2. \A t \in Tasks \cap dying : pc'[t] = "failed" /\ work'[t] = NoWork
  BY <1>1
<1>3. \A t \in Tasks \ dying : pc'[t] = pc[t] /\ work'[t] = work[t]
  BY <1>1
<1>4. Shape'
  <2>1. pc' = [t \in Tasks |-> pc'[t]] /\ work' = [t \in Tasks |-> work'[t]]
    BY <1>1
  <2>2. \A t \in Tasks : IsWork(work'[t])
    BY <1>2, <1>3, NoWorkClean DEF IInv, Shape
  <2> QED BY <1>1, <2>1, <2>2 DEF IInv, Shape, IsWork, IsRow
<1>5. ASSUME NEW u \in Tasks PROVE RowsOf(u)' = RowsOf(u) /\ TaskInv(u)'
  <2>1. RowsOf(u)' = RowsOf(u)
    BY <1>1 DEF RowsOf
  <2>2. TaskInv(u)
    BY DEF IInv
  <2>3. CASE u \in dying
    BY <1>1, <1>2, <2>1, <2>2, <2>3, NoWorkClean DEF TaskInv, Begun, Rules, Clean
  <2>4. CASE u \notin dying
    BY <1>1, <1>3, <2>1, <2>2, <2>4, Untouched
  <2> QED BY <2>1, <2>3, <2>4
<1>6. Exclusive'
  <2>1. \A u \in Tasks : work'[u].row # {} => work'[u].row = work[u].row
    BY <1>2, <1>3, NoWorkClean DEF Clean
  <2> QED BY <1>1, <2>1 DEF IInv, Exclusive
<1>7. RunsAreWhole'
  BY <1>1 DEF IInv, RunsAreWhole
<1>8. SeverityCast => FailsForCause'
  <2>1. \A u \in Tasks : pc'[u] = "except" => pc[u] = "except"
    BY <1>2, <1>3
  <2> QED BY <1>1, <1>5, <2>1 DEF IInv, FailsForCause
<1> QED BY <1>4, <1>5, <1>6, <1>7, <1>8 DEF IInv

-----------------------------------------------------------------------------
(* The steps that change the tables.                                       *)

(* The ledger counts as the procedures do. *)
LEMMA SameSize == \A S : Ledger!Cardinality(S) = Cardinality(S)
BY DEF Cardinality, Ledger!Cardinality, IsFiniteSet, Ledger!IsFiniteSet

(* A transaction that has done nothing shows nothing. *)
LEMMA PublishNothing ==
    ASSUME IInv, NEW t \in Tasks, pc[t] = "commit", Clean(work[t]), Publish(t),
           NEW l \in {"done", "failed"}, Goto(t, l)
    PROVE  IInv' /\ UNCHANGED <<runs, violations>>
<1>1. runs' = runs /\ violations' = violations
  BY DEF Publish, Clean
<1>2. Continue(t, l, NoWork)
  BY <1>1 DEF Publish, Continue, Tables
<1> QED BY <1>1, <1>2, NoWorkClean, Rests DEF Begun, Rules

(* What a commit leaves of the rest, for tasks other than t and of t. *)
LEMMA Published ==
    ASSUME IInv, NEW t \in Tasks, pc[t] = "commit", Publish(t),
           NEW l \in {"done", "failed"}, Goto(t, l)
    PROVE  /\ activities' = activities /\ call' = call
           /\ pc'[t] = l /\ work'[t] = NoWork
           /\ \A u \in Tasks \ {t} : pc'[u] = pc[u] /\ work'[u] = work[u]
           /\ pc' = [u \in Tasks |-> pc'[u]] /\ work' = [u \in Tasks |-> work'[u]]
           /\ \A u \in Tasks : IsWork(work'[u])
           /\ Exclusive'
<1>1. /\ activities' = activities /\ call' = call
      /\ pc'[t] = l /\ work'[t] = NoWork
      /\ \A u \in Tasks \ {t} : pc'[u] = pc[u] /\ work'[u] = work[u]
      /\ pc' = [u \in Tasks |-> pc'[u]] /\ work' = [u \in Tasks |-> work'[u]]
  BY DEF Publish, Goto, IInv, Shape
<1>2. \A u \in Tasks : IsWork(work'[u])
  BY <1>1, NoWorkClean DEF IInv, Shape
<1>3. Exclusive'
  <2>1. \A u \in Tasks : work'[u].row # {} => work'[u].row = work[u].row
    BY <1>1, NoWorkClean DEF Clean
  <2> QED BY <1>1, <2>1 DEF IInv, Exclusive
<1> QED BY <1>1, <1>2, <1>3

(* When t has a version of its run's row, another delivery has none: it    *)
(* has found the committed row, or has nothing.                            *)
LEMMA Beside ==
    ASSUME IInv, NEW t \in Tasks, work[t].row # {}, NEW u \in Tasks \ {t},
           call[u].run = call[t].run
    PROVE  /\ work[u].row = {}
           /\ pc[u] \in Begun => Joined(u) /\ Reported(u) /\ InOrder(u)
           /\ pc[u] = "commit" => Clean(work[u])
<1>1. work[u].row = {}
  BY DEF IInv, Exclusive
<1>2. TaskInv(u)
  BY DEF IInv
<1>3. ~Owned(u, "RUNNING", 0) /\ ~Owned(u, "COMPLETED", work[u].count)
  BY <1>1 DEF Owned
<1>4. Joined(u) => {Completed(q, work[u].count) : q \in RowsOf(u)} # {}
  BY DEF Joined
<1> QED BY <1>1, <1>2, <1>3, <1>4 DEF TaskInv

(* Other tasks keep their part of the invariant when the rows of t's run   *)
(* change and do not vanish.                                               *)
LEMMA OthersKept ==
    ASSUME IInv, NEW t \in Tasks, work[t].row # {}, NEW u \in Tasks \ {t},
           pc'[u] = pc[u], work'[u] = work[u], call' = call,
           call[u].run # call[t].run => RowsOf(u)' = RowsOf(u),
           RowsOf(u) # {} => RowsOf(u)' # {}
    PROVE  TaskInv(u)'
<1>1. TaskInv(u)
  BY DEF IInv
<1>2. CASE call[u].run # call[t].run
  BY <1>1, <1>2, Untouched
<1>3. CASE call[u].run = call[t].run
  <2>1. /\ Joined(u) => Joined(u)'
        /\ Reported(u)' <=> Reported(u)
        /\ InOrder(u)' <=> InOrder(u)
    BY DEF Joined, Reported, InOrder, Counted
  <2>2. /\ work[u].row = {}
        /\ pc[u] \in Begun => Joined(u) /\ Reported(u) /\ InOrder(u)
        /\ pc[u] = "commit" => Clean(work[u])
    BY <1>3, Beside
  <2> QED BY <1>1, <2>1, <2>2 DEF TaskInv
<1> QED BY <1>2, <1>3

(* A new run appears, with the violations it has found. *)
LEMMA PublishOwned ==
    ASSUME IInv, NEW t \in Tasks, pc[t] = "commit", Publish(t),
           NEW l \in {"done", "failed"}, Goto(t, l),
           Owned(t, "COMPLETED", work[t].count), Reported(t), Counted(t)
    PROVE  IInv' /\ Ledger!Next
<1> DEFINE r == RunRow(t, "COMPLETED", work[t].count)
<1>0. /\ r.run = call[t].run /\ r.driver = call[t].driver /\ r.kind = call[t].kind
      /\ r.from = call[t].from /\ r.to = call[t].to
      /\ r.status = "COMPLETED" /\ r.found = work[t].count /\ IsRow(r)
  BY DEF RunRow, IsRow
<1> HIDE DEF r
<1>1. /\ runs' = runs \cup {r}
      /\ violations' = (violations \ work[t].removed) \cup work[t].added
  BY DEF Publish, Owned, r
<1>2. \A q \in runs : q.run # call[t].run
  BY DEF Owned, RowsOf
<1>3. /\ \A u \in Tasks : call[u].run # call[t].run => RowsOf(u)' = RowsOf(u)
      /\ \A u \in Tasks : RowsOf(u) \subseteq RowsOf(u)'
  BY <1>0, <1>1, Published DEF RowsOf
<1>4. Shape'
  <2>1. IsFiniteSet(violations')
    BY <1>1, FS_Union, FS_Difference DEF Reported, IInv, Shape
  <2> QED BY <1>0, <1>1, <2>1, Published DEF IInv, Shape, IsRow
<1>5. ASSUME NEW u \in Tasks PROVE TaskInv(u)'
  <2>1. CASE u = t
    <3>1. pc'[t] \in {"done", "failed"} /\ Clean(work'[t]) /\ call'[t] = call[t]
      BY Published, NoWorkClean
    <3>2. call[t] \in Calls
      BY DEF IInv, TaskInv
    <3> QED BY <2>1, <3>1, <3>2 DEF TaskInv, Begun, Rules
  <2>2. CASE u # t
    <3>1. work[t].row # {}
      BY DEF Owned
    <3> QED BY <1>3, <2>2, <3>1, Published, OthersKept
  <2> QED BY <2>1, <2>2
<1>6. RunsAreWhole'
  BY <1>0, <1>1, <1>2 DEF IInv, RunsAreWhole, Reported
<1>7. SeverityCast => FailsForCause'
  <2>1. \A u \in Tasks : pc'[u] = "except" => pc[u] = "except"
    BY Published
  <2> QED BY <1>3, <2>1, Published DEF IInv, FailsForCause
<1>8. Ledger!Next
  <2> DEFINE gone == violations \ violations'
             new  == violations' \ violations
  <2>1. ~Ledger!Known(r.run)
    BY <1>0, <1>2 DEF Ledger!Known
  <2>2. gone \subseteq (IF r.kind = "reprocess" THEN Ledger!Replaceable(r) ELSE {})
    BY <1>0, <1>1 DEF Reported, Ledger!Replaceable
  <2>3. new = work[t].added
    <3>1. \A v \in violations : v.run # call[t].run
      BY <1>2 DEF IInv, RunsAreWhole
    <3> QED BY <1>1, <3>1 DEF Reported
  <2>4. \A v \in new : v.run = r.run /\ v.driver = r.driver
    BY <1>0, <2>3 DEF Reported
  <2>5. r.found = Cardinality(new)
    BY <1>0, <2>3 DEF Counted, Owned
  <2>6. violations' = (violations \ gone) \cup new
    OBVIOUS
  <2>7. r \in runs' /\ Ledger!Complete(r, gone, new)
    BY <1>0, <1>1, <2>1, <2>2, <2>4, <2>5, <2>6, SameSize DEF Ledger!Complete, Ledger!Appear
  <2> QED BY <2>7 DEF Ledger!Next
<1> QED BY <1>4, <1>5, Published, <1>6, <1>7, <1>8 DEF IInv

(* A delivery that had found its run there adds to it. *)
LEMMA PublishJoined ==
    ASSUME IInv, NEW t \in Tasks, pc[t] = "commit", Publish(t),
           NEW l \in {"done", "failed"}, Goto(t, l),
           Joined(t), Reported(t), Counted(t),
           work[t].row = {Completed(q, work[t].count) : q \in RowsOf(t)}
    PROVE  IInv' /\ Ledger!Next
<1>1. PICK q \in runs : q.run = call[t].run
  BY DEF Joined, RowsOf
<1>2. RowsOf(t) = {q} /\ q.status = "COMPLETED" /\ IsRow(q)
  BY <1>1 DEF IInv, RunsAreWhole, RowsOf, Shape
<1> DEFINE r == Completed(q, work[t].count)
<1>3. /\ r = [run |-> q.run, driver |-> q.driver, kind |-> q.kind, from |-> q.from,
               to |-> q.to, status |-> "COMPLETED", found |-> work[t].count]
      /\ work[t].row = {r}
  BY <1>2, CompletedIs
<1> HIDE DEF r
<1>4. IsRow(r) /\ r.run = call[t].run /\ r.status = "COMPLETED" /\ r.found = work[t].count
  BY <1>1, <1>3 DEF IsRow
<1>5. work[t].removed = {}
  BY DEF Reported, Joined
<1>6. /\ runs' = (runs \ {q}) \cup {r}
      /\ violations' = violations \cup work[t].added
  BY <1>2, <1>3, <1>5 DEF Publish
<1>7. /\ \A u \in Tasks : call[u].run # call[t].run => RowsOf(u)' = RowsOf(u)
      /\ \A u \in Tasks : RowsOf(u) # {} => RowsOf(u)' # {}
  <2>1. call' = call
    BY Published
  <2> QED BY <1>1, <1>4, <1>6, <2>1 DEF RowsOf
<1>8. Shape'
  <2>1. IsFiniteSet(violations')
    BY <1>6, FS_Union DEF Reported, IInv, Shape
  <2> QED BY <1>4, <1>6, <2>1, Published DEF IInv, Shape, IsRow
<1>9. ASSUME NEW u \in Tasks PROVE TaskInv(u)'
  <2>1. CASE u = t
    <3>1. pc'[t] \in {"done", "failed"} /\ Clean(work'[t]) /\ call'[t] = call[t]
      BY Published, NoWorkClean
    <3>2. call[t] \in Calls
      BY DEF IInv, TaskInv
    <3> QED BY <2>1, <3>1, <3>2 DEF TaskInv, Begun, Rules
  <2>2. CASE u # t
    BY <1>3, <1>7, <2>2, Published, OthersKept
  <2> QED BY <2>1, <2>2
<1>10. RunsAreWhole'
  BY <1>1, <1>2, <1>4, <1>6 DEF IInv, RunsAreWhole, Reported, RowsOf
<1>11. SeverityCast => FailsForCause'
  <2>1. \A u \in Tasks : pc'[u] = "except" => pc[u] = "except"
    BY Published
  <2> QED BY <1>7, <2>1, Published DEF IInv, FailsForCause
<1>12. Ledger!Next
  <2> DEFINE gone == violations \ violations'
             new  == violations' \ violations
  <2>1. gone = {} /\ new \subseteq work[t].added /\ violations' = violations \cup new
    BY <1>6
  <2>2. r = [q EXCEPT !.found = r.found]
    <3>1. PICK x : x = [q EXCEPT !.found = work[t].count]
      OBVIOUS
    <3>2. x = [run |-> q.run, driver |-> q.driver, kind |-> q.kind, from |-> q.from,
               to |-> q.to, status |-> "COMPLETED", found |-> work[t].count]
      BY <1>2, <3>1 DEF IsRow
    <3> QED BY <1>3, <1>4, <3>1, <3>2
  <2>3. \A v \in new : v.run = r.run
    BY <1>4, <2>1 DEF Reported
  <2>4. r.found >= Cardinality(new)
    <3>1. Cardinality(new) \in Nat /\ Cardinality(work[t].added) \in Nat
          /\ Cardinality(new) <= Cardinality(work[t].added)
      BY <2>1, FS_Subset, FS_CardinalityType DEF Reported
    <3>2. work[t].count \in Nat /\ work[t].count >= Cardinality(work[t].added)
      BY DEF Counted, Joined
    <3> QED BY <1>4, <3>1, <3>2
  <2>5. runs' = {p \in runs : p.run # r.run} \cup {r}
    BY <1>1, <1>2, <1>4, <1>6 DEF RowsOf
  <2> HIDE DEF gone, new
  <2>6. Ledger!AddTo(r, new)
    BY <1>1, <1>4, <2>1, <2>2, <2>3, <2>4, <2>5, SameSize DEF Ledger!AddTo
  <2>7. r \in runs' /\ Ledger!Complete(r, gone, new)
    BY <1>4, <1>6, <2>1, <2>6 DEF Ledger!Complete
  <2> QED BY <2>7 DEF Ledger!Next, gone, new
<1> QED BY <1>8, <1>9, Published, <1>10, <1>11, <1>12 DEF IInv

-----------------------------------------------------------------------------
(* At first the tables are empty and nobody has begun. *)
LEMMA InitHolds == Init => IInv /\ Ledger!Init
<1> SUFFICES ASSUME Init PROVE IInv /\ Ledger!Init
  OBVIOUS
<1>1. /\ activities = {} /\ runs = {} /\ violations = {}
      /\ pc = [t \in Tasks |-> pc[t]] /\ call = [t \in Tasks |-> call[t]]
      /\ work = [t \in Tasks |-> work[t]]
      /\ \A t \in Tasks : pc[t] = "new" /\ work[t] = NoWork
  BY DEF Init
<1>2. Shape
  BY <1>1, NoWorkClean, FS_EmptySet DEF Shape
<1>3. ASSUME NEW t \in Tasks PROVE TaskInv(t)
  BY <1>1, NoWorkClean DEF TaskInv, Begun, Rules
<1>4. Exclusive
  BY <1>1, NoWorkClean DEF Exclusive, Clean
<1>5. RunsAreWhole /\ FailsForCause
  BY <1>1 DEF RunsAreWhole, FailsForCause
<1> QED BY <1>1, <1>2, <1>3, <1>4, <1>5 DEF IInv, Ledger!Init

(* A commit shows nothing, a new run, or more of a run. *)
LEMMA CommitKept ==
    ASSUME IInv, NEW t \in Tasks, Commit(t) \/ CommitUnacknowledged(t)
    PROVE  IInv' /\ [Ledger!Next]_(Ledger!vars)
<1>1. PICK l \in {"done", "failed"} : Goto(t, l)
  BY DEF Commit, CommitUnacknowledged
<1>2. pc[t] = "commit" /\ Publish(t)
  BY DEF Commit, CommitUnacknowledged
<1>3. CASE Clean(work[t])
  BY <1>1, <1>2, <1>3, PublishNothing DEF Ledger!vars
<1>4. CASE Owned(t, "COMPLETED", work[t].count) /\ Reported(t) /\ Counted(t)
  BY <1>1, <1>2, <1>4, PublishOwned
<1>5. CASE /\ Joined(t) /\ Reported(t) /\ Counted(t)
           /\ work[t].row = {Completed(q, work[t].count) : q \in RowsOf(t)}
  BY <1>1, <1>2, <1>5, PublishJoined
<1> QED BY <1>2, <1>3, <1>4, <1>5 DEF IInv, TaskInv

(* Only a commit changes what readers see. *)
LEMMA ShowsNothing ==
    ASSUME NEW t \in Tasks,
           \/ GetConnection(t) \/ PoolTimeout(t) \/ CheckExists(t) \/ TakeLock(t)
           \/ Reraise(t) \/ ConnectionLost(t) \/ InsertRun(t)
           \/ DailyRule(t) \/ WeeklyRule(t) \/ BiweeklyRule(t) \/ ContinuousRule(t)
           \/ DeleteSuperseded(t) \/ InsertRebuilt(t) \/ CountViolations(t)
           \/ UpdateRun(t) \/ MarkFailed(t)
    PROVE  UNCHANGED Ledger!vars
<1>1. (\E l, w : Continue(t, l, w)) => UNCHANGED Tables
  BY DEF Continue
<1>2. CASE \/ GetConnection(t) \/ PoolTimeout(t) \/ CheckExists(t) \/ TakeLock(t)
           \/ Reraise(t) \/ ConnectionLost(t)
  BY <1>1, <1>2 DEF GetConnection, PoolTimeout, CheckExists, TakeLock, Reraise,
                    ConnectionLost, Rollback, Tables, Ledger!vars
<1>3. CASE InsertRun(t)
  BY <1>1, <1>3 DEF InsertRun, Raise, Tables, Ledger!vars
<1>4. CASE DailyRule(t) \/ WeeklyRule(t) \/ BiweeklyRule(t) \/ ContinuousRule(t)
  BY <1>1, <1>4 DEF DailyRule, WeeklyRule, BiweeklyRule, ContinuousRule, Report, Raise,
                    Tables, Ledger!vars
<1>5. CASE \/ DeleteSuperseded(t) \/ InsertRebuilt(t) \/ CountViolations(t)
           \/ UpdateRun(t) \/ MarkFailed(t)
  BY <1>1, <1>5 DEF DeleteSuperseded, InsertRebuilt, CountViolations, UpdateRun, MarkFailed,
                    Tables, Ledger!vars
<1> QED BY <1>2, <1>3, <1>4, <1>5

(* Whatever step is taken, the invariant is kept, and readers see nothing  *)
(* or a step of the ledger.                                                *)
LEMMA StepKeeps == IInv /\ [Next]_vars => IInv' /\ [Ledger!Next]_(Ledger!vars)
<1> SUFFICES ASSUME IInv, [Next]_vars PROVE IInv' /\ [Ledger!Next]_(Ledger!vars)
  OBVIOUS
<1>1. CASE UNCHANGED vars
  <2>1. /\ activities' = activities /\ runs' = runs /\ violations' = violations
        /\ pc' = pc /\ call' = call /\ work' = work
    BY <1>1 DEF vars
  <2>2. Shape' /\ Exclusive' /\ RunsAreWhole' /\ (SeverityCast => FailsForCause')
    BY <2>1 DEF IInv, Shape, IsWork, IsRow, Exclusive, RunsAreWhole, FailsForCause, RowsOf
  <2>3. ASSUME NEW u \in Tasks PROVE TaskInv(u)'
    <3>1. RowsOf(u)' = RowsOf(u)
      BY <2>1 DEF RowsOf
    <3>2. TaskInv(u)
      BY DEF IInv
    <3> QED BY <2>1, <3>1, <3>2, Untouched
  <2> QED BY <2>1, <2>2, <2>3 DEF IInv, Ledger!vars
<1>2. ASSUME NEW x \in Possible, RecordActivity(x)
      PROVE  IInv' /\ [Ledger!Next]_(Ledger!vars)
  BY <1>2, RecordKept DEF RecordActivity, Ledger!vars
<1>3. ASSUME NEW t \in Tasks, NEW c \in Calls, Accept(t, c)
      PROVE  IInv' /\ [Ledger!Next]_(Ledger!vars)
  BY <1>3, AcceptKept DEF Accept, Tables, Ledger!vars
<1>4. ASSUME NEW t \in Tasks, Progress(t) \/ Fault(t)
      PROVE  IInv' /\ [Ledger!Next]_(Ledger!vars)
  <2>1. CASE Commit(t) \/ CommitUnacknowledged(t)
    BY <2>1, CommitKept
  <2>2. CASE \/ GetConnection(t) \/ PoolTimeout(t) \/ CheckExists(t) \/ TakeLock(t)
             \/ Reraise(t) \/ ConnectionLost(t)
    BY <2>2, RestKept, ShowsNothing
  <2>3. CASE InsertRun(t)
    BY <2>3, InsertKept, ShowsNothing
  <2>4. CASE DailyRule(t) \/ WeeklyRule(t) \/ BiweeklyRule(t) \/ ContinuousRule(t)
    BY <2>4, RulesKept, ShowsNothing
  <2>5. CASE DeleteSuperseded(t)
    BY <2>5, DeleteKept, ShowsNothing
  <2>6. CASE InsertRebuilt(t)
    BY <2>6, InsertRebuiltKept, ShowsNothing
  <2>7. CASE CountViolations(t)
    BY <2>7, CountKept, ShowsNothing
  <2>8. CASE UpdateRun(t)
    BY <2>8, UpdateKept, ShowsNothing
  <2>9. CASE MarkFailed(t)
    BY <2>9, MarkKept, ShowsNothing
  <2> QED BY <1>4, <2>1, <2>2, <2>3, <2>4, <2>5, <2>6, <2>7, <2>8, <2>9 DEF Progress, Fault
<1>5. CASE Crash
  BY <1>5, CrashKept DEF Crash, Tables, Ledger!vars
<1> QED BY <1>1, <1>2, <1>3, <1>4, <1>5 DEF Next

(* The inductive invariant holds whatever calls, activities and faults     *)
(* come, in whatever order.                                                *)
THEOREM Invariance == Spec => []IInv
<1>1. Init => IInv
  BY InitHolds
<1>2. IInv /\ [Next]_vars => IInv'
  BY StepKeeps
<1> QED BY <1>1, <1>2, PTL DEF Spec

(* Readers never see a run that is RUNNING or FAILED, a run id with two    *)
(* rows, or a violation without its run: the two tables change by whole    *)
(* transactions of fms.sp_run_compliance_check() and                       *)
(* fms.sp_reprocess_driver_compliance() only.                              *)
THEOREM RunsWhole == Spec => []RunsAreWhole
<1>1. IInv => RunsAreWhole
  BY DEF IInv
<1> QED BY <1>1, Invariance, PTL

(* Where text has an assignment cast to the severity's enum, a call that   *)
(* reaches its EXCEPTION block by itself was wrong from the start: other   *)
(* calls and arriving activities fail none.                                *)
THEOREM FailuresHaveCause ==
    ASSUME SeverityCast
    PROVE  Spec => []FailsForCause
<1>1. IInv => FailsForCause
  BY DEF IInv
<1> QED BY <1>1, Invariance, PTL

(* The procedures, statement by statement and with their faults, implement *)
(* the ledger that changes by one whole run at a time.                     *)
THEOREM Refinement == Spec => PublishesWholeRuns
<1>1. Init => Ledger!Init
  BY InitHolds
<1>2. IInv /\ [Next]_vars => [Ledger!Next]_(Ledger!vars)
  BY StepKeeps
<1> QED BY <1>1, <1>2, Invariance, PTL DEF Spec, PublishesWholeRuns, Ledger!Spec

-----------------------------------------------------------------------------
(* Nobody is stuck. Who waits, waits for a call further on: for the driver *)
(* lock waits who holds nothing, for a run id who holds no more than that  *)
(* lock, for a run's row who holds no row. That a holder of the lock is    *)
(* not itself at an earlier wait is what Spanned says.                     *)

(* The statements between taking the lock and the end of the transaction. *)
Span == Begun \cup {"insert", "commit"}

Spanned == \A t \in Tasks : work[t].locked => pc[t] \in Span

(* A statement after the lock keeps it, and any other has none.            *)
LEMMA SpannedGoes ==
    ASSUME IInv, Spanned, NEW t \in Tasks, NEW l, NEW w, IsWork(w), Continue(t, l, w),
           l \in Span \/ ~w.locked
    PROVE  Spanned'
<1>1. /\ pc'[t] = l /\ work'[t] = w
      /\ \A u \in Tasks \ {t} : pc'[u] = pc[u] /\ work'[u] = work[u]
  BY DEF Continue, Goto, IInv, Shape
<1> QED BY <1>1 DEF Spanned

(* A transaction that is over holds no lock. *)
LEMMA NoWorkUnlocked == IsWork(NoWork) /\ ~NoWork.locked
BY DEF IsWork, NoWork

(* The statements before the run's row and after the body. *)
LEMMA RestSpanned ==
    ASSUME IInv, Spanned, NEW t \in Tasks,
           \/ GetConnection(t) \/ PoolTimeout(t) \/ CheckExists(t) \/ TakeLock(t)
           \/ Reraise(t) \/ ConnectionLost(t)
    PROVE  Spanned'
<1>1. ASSUME NEW l, Continue(t, l, NoWork) PROVE Spanned'
  BY <1>1, NoWorkUnlocked, SpannedGoes
<1>2. CASE TakeLock(t)
  <2> DEFINE w == WithLocked(work[t], TRUE)
  <2>1. Continue(t, "insert", w) /\ IsWork(work[t])
    BY <1>2 DEF TakeLock, WithLocked, IInv, Shape
  <2>2. IsWork(w)
    BY <2>1, FieldLocked DEF Differs
  <2> HIDE DEF w
  <2> QED BY <2>1, <2>2, SpannedGoes DEF Span
<1> QED BY <1>1, <1>2 DEF GetConnection, PoolTimeout, CheckExists, Reraise, ConnectionLost,
                          Rollback

(* The INSERT of the run's row. *)
LEMMA InsertSpanned ==
    ASSUME IInv, Spanned, NEW t \in Tasks, InsertRun(t)
    PROVE  Spanned'
<1>1. CASE Raise(t)
  BY <1>1, NoWorkUnlocked, SpannedGoes DEF Raise
<1>2. CASE pc' = [pc EXCEPT ![t] = "daily"]
  <2>1. /\ pc'[t] = "daily"
        /\ \A u \in Tasks \ {t} : pc'[u] = pc[u] /\ work'[u] = work[u]
    BY <1>2 DEF InsertRun, Continue, Raise, Goto, IInv, Shape
  <2> QED BY <2>1 DEF Spanned, Span, Begun, Rules
<1> QED BY <1>1, <1>2 DEF InsertRun, Goto

(* The rules' INSERTs. *)
LEMMA RulesSpanned ==
    ASSUME IInv, Spanned, NEW t \in Tasks,
           DailyRule(t) \/ WeeklyRule(t) \/ BiweeklyRule(t) \/ ContinuousRule(t)
    PROVE  Spanned'
<1>1. CASE Raise(t)
  BY <1>1, NoWorkUnlocked, SpannedGoes DEF Raise
<1>2. ASSUME NEW S, NEW l \in Begun, Report(t, S, l) PROVE Spanned'
  <2>1. IsWork(work[t])
    BY DEF IInv, Shape
  <2>2. PICK w : Continue(t, l, w) /\ IsWork(w)
    <3>1. CASE call[t].kind = "check"
      <4>1. Continue(t, l, WithAdded(work[t], work[t].added \cup Reports(t, S)))
        BY <1>2, <3>1 DEF Report, WithAdded
      <4> QED BY <2>1, <4>1, FieldAdded DEF Differs
    <3>2. CASE call[t].kind # "check"
      <4>1. Continue(t, l, WithStaged(work[t], work[t].staged \cup S))
        BY <1>2, <3>2 DEF Report, WithStaged
      <4> QED BY <2>1, <4>1, FieldStaged DEF Differs
    <3> QED BY <3>1, <3>2
  <2> QED BY <2>2, SpannedGoes DEF Span
<1> QED BY <1>1, <1>2 DEF DailyRule, WeeklyRule, BiweeklyRule, ContinuousRule, Begun, Rules

(* The statements after the rules, and the handler's UPDATE. *)
LEMMA LaterSpanned ==
    ASSUME IInv, Spanned, NEW t \in Tasks,
           \/ DeleteSuperseded(t) \/ InsertRebuilt(t) \/ CountViolations(t)
           \/ UpdateRun(t) \/ MarkFailed(t)
    PROVE  Spanned'
<1>1. IsWork(work[t])
  BY DEF IInv, Shape
<1>2. CASE DeleteSuperseded(t)
  <2>1. Continue(t, "rebuild", WithCountRemoved(work[t], Cardinality(work[t].staged),
                                                Superseded(t)))
    BY <1>2 DEF DeleteSuperseded, WithCountRemoved
  <2>2. IsWork(WithCountRemoved(work[t], Cardinality(work[t].staged), Superseded(t)))
    BY <1>1, FieldCountRemoved DEF Differs
  <2> QED BY <2>1, <2>2, SpannedGoes DEF Span, Begun
<1>3. CASE InsertRebuilt(t)
  <2>1. Continue(t, "update", WithAdded(work[t], Reports(t, work[t].staged)))
    BY <1>3 DEF InsertRebuilt, WithAdded
  <2>2. IsWork(WithAdded(work[t], Reports(t, work[t].staged)))
    BY <1>1, FieldAdded DEF Differs
  <2> QED BY <2>1, <2>2, SpannedGoes DEF Span, Begun
<1>4. CASE CountViolations(t)
  <2>1. PICK n : Continue(t, "update", WithCount(work[t], n))
    BY <1>4 DEF CountViolations, WithCount
  <2>2. IsWork(WithCount(work[t], n))
    BY <1>1, FieldCount DEF Differs
  <2> QED BY <2>1, <2>2, SpannedGoes DEF Span, Begun
<1>5. CASE UpdateRun(t)
  <2>1. PICK r : Continue(t, "commit", WithRow(work[t], r))
    BY <1>5 DEF UpdateRun, WithRow
  <2>2. IsWork(WithRow(work[t], r))
    BY <1>1, FieldRow DEF Differs
  <2> QED BY <2>1, <2>2, SpannedGoes DEF Span
<1>6. CASE MarkFailed(t)
  <2>1. PICK r : Continue(t, "reraise", WithRow(work[t], r))
    BY <1>6 DEF MarkFailed, WithRow
  <2>2. ~work[t].locked
    BY <1>6 DEF MarkFailed, Spanned, Span, Begun, Rules
  <2>3. IsWork(WithRow(work[t], r)) /\ ~WithRow(work[t], r).locked
    BY <1>1, <2>2, FieldRow DEF Differs
  <2> QED BY <2>1, <2>3, SpannedGoes
<1> QED BY <1>2, <1>3, <1>4, <1>5, <1>6

(* Locks are held within transactions, whatever step is taken. *)
LEMMA SpannedKept == IInv /\ Spanned /\ [Next]_vars => Spanned'
<1> SUFFICES ASSUME IInv, Spanned, [Next]_vars PROVE Spanned'
  OBVIOUS
<1>1. CASE UNCHANGED vars
  BY <1>1 DEF vars, Spanned
<1>2. ASSUME NEW x \in Possible, RecordActivity(x) PROVE Spanned'
  BY <1>2 DEF RecordActivity, Spanned
<1>3. ASSUME NEW t \in Tasks, NEW c \in Calls, Accept(t, c) PROVE Spanned'
  <2>1. /\ pc[t] = "new" /\ work' = work
        /\ \A u \in Tasks \ {t} : pc'[u] = pc[u]
    BY <1>3 DEF Accept, Goto, IInv, Shape
  <2> QED BY <2>1 DEF Spanned, Span, Begun, Rules
<1>4. ASSUME NEW t \in Tasks, Progress(t) \/ Fault(t) PROVE Spanned'
  <2>1. CASE Commit(t) \/ CommitUnacknowledged(t)
    <3>1. /\ work'[t] = NoWork
          /\ \A u \in Tasks \ {t} : pc'[u] = pc[u] /\ work'[u] = work[u]
      BY <2>1 DEF Commit, CommitUnacknowledged, Publish, Goto, IInv, Shape
    <3> QED BY <3>1, NoWorkUnlocked DEF Spanned
  <2> QED BY <1>4, <2>1, RestSpanned, InsertSpanned, RulesSpanned, LaterSpanned
          DEF Progress, Fault
<1>5. CASE Crash
  <2>1. \A t \in Tasks : work'[t] = NoWork \/ (pc'[t] = pc[t] /\ work'[t] = work[t])
    BY <1>5 DEF Crash
  <2> QED BY <2>1, NoWorkUnlocked DEF Spanned
<1> QED BY <1>1, <1>2, <1>3, <1>4, <1>5 DEF Next

(* Who has a version of a run's row waits for nobody: it has inserted the  *)
(* row, when nobody else can have it, or had to have it alone.             *)
LEMMA RowHolderGoes ==
    ASSUME IInv, NEW t \in Tasks, work[t].row # {}
    PROVE  t \in Unfinished /\ WaitsFor(t) = {}
<1>1. TaskInv(t) /\ Exclusive
  BY DEF IInv
<1>2. pc[t] \in Begun \cup {"commit", "reraise"}
  BY <1>1 DEF TaskInv, Clean
<1>3. t \in Unfinished
  BY <1>2 DEF Unfinished, InSession, InBody, Begun, Rules
<1>4. Updating(t) = {}
  BY <1>1 DEF Updating, Exclusive
<1> QED BY <1>2, <1>3, <1>4 DEF WaitsFor, Begun, Rules

(* Who waits for a row, or for a run id, waits for one that can go on or   *)
(* that waits for a row in its turn.                                       *)
LEMMA RowWaitEnds ==
    ASSUME IInv, NEW t \in Tasks, pc[t] \in {"insert", "update", "except"}
    PROVE  \E u \in Unfinished : WaitsFor(u) = {}
<1>1. CASE WaitsFor(t) = {}
  BY <1>1 DEF Unfinished, InSession, InBody
<1>2. CASE WaitsFor(t) # {}
  <2>1. PICK u \in Tasks : work[u].inserted \/ work[u].row # {}
    BY <1>2 DEF WaitsFor, Inserting, Updating
  <2>2. work[u].row # {}
    <3>1. TaskInv(u)
      BY DEF IInv
    <3>2. work[u].inserted => ~Clean(work[u]) /\ ~Joined(u) /\ pc[u] # "reraise"
      BY <3>1 DEF Clean, Joined, TaskInv
    <3>3. Owned(u, "RUNNING", 0) \/ Owned(u, "COMPLETED", work[u].count)
            => work[u].row # {}
      BY DEF Owned
    <3> QED BY <2>1, <3>1, <3>2, <3>3 DEF TaskInv
  <2> QED BY <2>2, RowHolderGoes
<1> QED BY <1>1, <1>2

(* Who waits for the driver's lock waits for one that is past it. *)
LEMMA LockWaitEnds ==
    ASSUME IInv, Spanned, NEW t \in Unfinished, pc[t] # "queued"
    PROVE  \E u \in Unfinished : WaitsFor(u) = {}
<1>1. CASE WaitsFor(t) = {}
  BY <1>1
<1>2. CASE pc[t] \in {"insert", "update", "except"}
  BY <1>2, RowWaitEnds DEF Unfinished
<1>3. CASE WaitsFor(t) # {} /\ pc[t] = "lock"
  <2>1. PICK u \in Tasks : work[u].locked
    BY <1>3 DEF WaitsFor, LockHolders
  <2>2. pc[u] \in Span
    BY <2>1 DEF Spanned
  <2>3. u \in Unfinished
    BY <2>2 DEF Unfinished, Span, Begun, Rules, InSession, InBody
  <2>4. pc[u] \in {"insert", "update"} \/ WaitsFor(u) = {}
    BY <2>2 DEF WaitsFor, Span, Begun, Rules
  <2> QED BY <2>3, <2>4, RowWaitEnds
<1> QED BY <1>1, <1>2, <1>3 DEF WaitsFor

(* Whatever calls of the two procedures run side by side, however many and *)
(* with whatever faults, one that is under way can take its next step: the *)
(* pool's connections, pg_advisory_xact_lock, the primary key and the row  *)
(* locks of fms.compliance_runs never close a circle.                      *)
THEOREM NoCallStuck == Spec => []NeverStuck
<1>1. Init => Spanned
  BY NoWorkUnlocked DEF Init, Spanned
<1>2. IInv /\ Spanned => NeverStuck
  <2> SUFFICES ASSUME IInv, Spanned, NEW t \in Unfinished
               PROVE  \E u \in Unfinished : WaitsFor(u) = {}
    BY DEF NeverStuck
  <2>1. CASE pc[t] # "queued"
    BY <2>1, LockWaitEnds
  <2>2. CASE pc[t] = "queued" /\ WaitsFor(t) # {}
    <3>1. PICK u \in Connected : TRUE
      BY <2>2 DEF WaitsFor
    <3>2. u \in Unfinished /\ pc[u] # "queued"
      BY DEF Connected, Unfinished, InSession, InBody, Rules
    <3> QED BY <3>2, LockWaitEnds
  <2> QED BY <2>1, <2>2
<1>3. IInv /\ Spanned /\ [Next]_vars => Spanned'
  BY SpannedKept
<1> QED BY <1>1, <1>2, <1>3, Invariance, PTL DEF Spec
=============================================================================
