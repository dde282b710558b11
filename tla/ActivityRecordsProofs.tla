----------------------- MODULE ActivityRecordsProofs ------------------------
(***************************************************************************)
(* Proofs about ActivityRecords, for any number of processes, submissions  *)
(* and requests.                                                           *)
(***************************************************************************)
EXTENDS ActivityRecords, TLAPS

(* The actions in which a step of one worker consists. *)
Step(w) == (\E r \in Requests : Receive(w, r)) \/ Progress(w) \/ Fault(w)

-----------------------------------------------------------------------------
(* The relations on rows.                                                  *)

(* Sharing a key is symmetric: the unique index refuses either row because *)
(* of the other.                                                           *)
LEMMA SameKeySymmetric == \A x, y : SameKey(x, y) => SameKey(y, x)
  BY DEF SameKey

(* Overlapping is symmetric, like && on ranges. *)
LEMMA OverlapSymmetric == \A x, y : Overlap(x, y) => Overlap(y, x)
  BY DEF Overlap

(* The INSERT builds a row of the table. *)
LEMMA RowOfType ==
  ASSUME NEW r \in Requests, NEW n \in Nat
  PROVE  RowOf(r, n) \in Rows /\ RowOf(r, n).id = n
  <1>1. r \in RequestSpace
    BY RequestsAssumption
  <1>2. SourceOf(r) \in References \cup {Absent}
    BY <1>1 DEF SourceOf, RequestSpace
  <1>3. QED
    BY <1>1, <1>2 DEF RowOf, Rows, RequestSpace

(* Two numberings of a request share the key and the period. *)
LEMMA RowOfRelations ==
  ASSUME NEW r, NEW m, NEW n, NEW x
  PROVE  /\ SameKey(RowOf(r, m), x) <=> SameKey(RowOf(r, n), x)
         /\ Overlap(RowOf(r, m), x) <=> Overlap(RowOf(r, n), x)
  BY DEF SameKey, Overlap, RowOf

-----------------------------------------------------------------------------
(* Type correctness.                                                       *)

(* At the start every variable has its type, and nothing is numbered yet.  *)
LEMMA InitTyped == Init => TypeOK /\ Numbering
  BY MaxAttemptsAssumption
     DEF Init, TypeOK, Numbering, Active, InDatabase, InFunction, NoResult,
         NoError, Errors, SqlStates, Messages

(* Every exception the function raises is of the known kinds. *)
LEMMA RaiseTyped ==
  ASSUME TypeOK, NEW w \in Workers,
         NEW s \in SqlStates, NEW m \in Messages, Raise(w, s, m)
  PROVE  TypeOK'
  BY DEF TypeOK, Raise, Goto, Errors

(* An answer is well-formed. *)
LEMMA AnswerTyped ==
  ASSUME TypeOK, NEW w \in Workers, current[w] \in Submissions,
         NEW s \in {200, 201, 400, 409, 500}, NEW rec \in SUBSET Rows,
         NEW q \in SqlStates \cup {"00000"}, NEW m \in Messages \cup {"none"},
         AnswerWith(w, s, rec, q, m)
  PROVE  TypeOK'
  <1>1. [attempt |-> current[w].attempt, request |-> Request(w),
         prior |-> current[w].prior, status |-> s, record |-> rec,
         sqlstate |-> q, message |-> m] \in Answers
    BY DEF Submissions, Answers, Request
  <1>2. answers' \in SUBSET Answers
    BY <1>1 DEF AnswerWith, TypeOK
  <1>3. QED
    BY <1>2 DEF TypeOK, AnswerWith, Release, Goto, NoResult, NoError, Errors,
                SqlStates, Messages

(* Every action keeps the types. The numbering is needed for the           *)
(* submission counter and for what the serving process works on.           *)
LEMMA StepTyped ==
  ASSUME TypeOK, Numbering, NEW w \in Workers, Step(w)
  PROVE  TypeOK'
  <1> USE DEF InDatabase, InFunction
  <1>a. "22023" \in SqlStates /\ "22001" \in SqlStates /\ "23502" \in SqlStates
        /\ "23503" \in SqlStates /\ "23505" \in SqlStates /\ "23P01" \in SqlStates
        /\ "40P01" \in SqlStates /\ "08006" \in SqlStates
        /\ "custom overlap" \in Messages /\ "exclusion constraint" \in Messages
        /\ "other" \in Messages
    BY DEF SqlStates, Messages
  <1>b. pc[w] # "idle" => current[w] \in Submissions /\ NewRow(w) \in Rows
    BY RowOfType DEF Numbering, Active, Submissions, NewRow, Request
  <1>1. CASE \E r \in Requests : Receive(w, r)
    <2> PICK r \in Requests : Receive(w, r)
      BY <1>1
    <2>1. [attempt |-> attempts + 1, request |-> r,
           prior |-> \E x \in records : SameKey(RowOf(r, 0), x)] \in Submissions
      BY DEF Submissions, TypeOK
    <2>2. current' \in [Workers -> Submissions \cup {NoSubmission}]
      BY <2>1 DEF Receive, TypeOK
    <2>3. attempts' \in 0..MaxAttempts
      BY MaxAttemptsAssumption DEF Receive, TypeOK
    <2> QED
      BY <2>2, <2>3 DEF Receive, TypeOK, Goto
  <1>2. CASE ValidateActivity(w)
    BY <1>2, <1>a, RaiseTyped DEF ValidateActivity, TypeOK, Continue, Goto
  <1>3. CASE LookupSource(w)
    <2>1. ASSUME NEW x \in records,
                 result' = [result EXCEPT ![w] = [record |-> {x}, was_duplicate |-> TRUE]],
                 Goto(w, "commit"),
                 UNCHANGED <<records, uncommitted, current, error, attempts, answers>>
          PROVE  TypeOK'
      <3>1. {x} \in SUBSET Rows
        BY DEF TypeOK
      <3> QED
        BY <2>1, <3>1 DEF TypeOK, Goto
    <2> QED
      BY <1>3, <2>1 DEF LookupSource, TypeOK, Continue, Goto
  <1>4. CASE DetectOverlap(w)
    BY <1>4, <1>a, RaiseTyped DEF DetectOverlap, TypeOK, Continue, Goto
  <1>5. CASE InsertRecord(w)
    <2>1. CASE uncommitted' = [uncommitted EXCEPT ![w] = {NewRow(w)}]
               /\ Goto(w, "exclude")
               /\ UNCHANGED <<records, current, result, error, attempts, answers>>
      BY <1>5, <1>b, <2>1 DEF InsertRecord, TypeOK, Goto
    <2> QED
      BY <1>5, <1>a, <2>1, RaiseTyped DEF InsertRecord
  <1>6. CASE CheckExclusion(w)
    <2>1. CASE result' = [result EXCEPT ![w] =
                    [record |-> {NewRow(w)}, was_duplicate |-> FALSE]]
               /\ Goto(w, "commit")
               /\ UNCHANGED <<records, uncommitted, current, error, attempts, answers>>
      BY <1>6, <1>b, <2>1 DEF CheckExclusion, TypeOK, Goto
    <2> QED
      BY <1>6, <1>a, <2>1, RaiseTyped DEF CheckExclusion
  <1>7. CASE BreakDeadlock(w)
    BY <1>7, <1>a, RaiseTyped DEF BreakDeadlock
  <1>8. CASE Commit(w)
    BY <1>8 DEF Commit, TypeOK, Goto
  <1>9. CASE Respond(w)
    <2>1. result[w].record \in SUBSET Rows
      BY DEF TypeOK
    <2> QED
      BY <1>9, <1>b, <2>1, AnswerTyped DEF Respond
  <1>10. CASE RespondError(w)
    <2>1. error[w] \in Errors
      BY DEF TypeOK
    <2>2. error[w].sqlstate \in SqlStates /\ Reraised(error[w]).message \in Messages
      BY <1>a, <2>1 DEF Errors, Reraised
    <2>3. StatusOf(error[w].sqlstate) \in {200, 201, 400, 409, 500}
      BY DEF StatusOf
    <2> QED
      BY <1>10, <1>b, <2>2, <2>3, AnswerTyped DEF RespondError
  <1>11. CASE CommitUnacknowledged(w)
    BY <1>11, <1>a DEF CommitUnacknowledged, TypeOK, Goto, Errors
  <1>12. CASE ConnectionLost(w)
    BY <1>12, <1>a, RaiseTyped DEF ConnectionLost
  <1>13. CASE Crash(w)
    BY <1>13 DEF Crash, Release, TypeOK, Goto, NoResult, NoError, Errors, SqlStates, Messages
  <1> QED
    BY <1>1, <1>2, <1>3, <1>4, <1>5, <1>6, <1>7, <1>8, <1>9, <1>10, <1>11, <1>12, <1>13
       DEF Step, Progress, Fault

-----------------------------------------------------------------------------
(* What a step leaves alone. A worker's step does not touch the others,    *)
(* and only a commit, acknowledged or not, adds to the table.              *)
LEMMA StepFrame ==
  ASSUME TypeOK, NEW w \in Workers, Step(w), NEW v \in Workers, v # w
  PROVE  /\ pc'[v] = pc[v]
         /\ current'[v] = current[v]
         /\ result'[v] = result[v]
         /\ error'[v] = error[v]
         /\ uncommitted'[v] = uncommitted[v]
  BY DEF TypeOK, Step, Progress, Fault, Receive, ValidateActivity, LookupSource,
         DetectOverlap, InsertRecord, CheckExclusion, BreakDeadlock, Commit,
         Respond, RespondError, CommitUnacknowledged, ConnectionLost, Crash,
         Raise, Continue, Goto, AnswerWith, Release

(* The table changes by a commit alone, and then by the rows in flight. *)
LEMMA StepRecords ==
  ASSUME NEW w \in Workers, Step(w)
  PROVE  \/ records' = records
         \/ /\ pc[w] = "commit"
            /\ Commit(w) \/ CommitUnacknowledged(w)
            /\ records' = records \cup uncommitted[w]
  BY DEF Step, Progress, Fault, Receive, ValidateActivity, LookupSource,
         DetectOverlap, InsertRecord, CheckExclusion, BreakDeadlock, Commit,
         Respond, RespondError, CommitUnacknowledged, ConnectionLost, Crash,
         Raise, Continue, AnswerWith

(* Answers are given by Respond and RespondError alone. *)
LEMMA StepAnswers ==
  ASSUME NEW w \in Workers, Step(w)
  PROVE  \/ answers' = answers
         \/ Respond(w)
         \/ RespondError(w)
  BY DEF Step, Progress, Fault, Receive, ValidateActivity, LookupSource,
         DetectOverlap, InsertRecord, CheckExclusion, BreakDeadlock, Commit,
         CommitUnacknowledged, ConnectionLost, Crash, Raise, Continue

(* A submission is worked on under the number it was received with. *)
LEMMA StepCurrent ==
  ASSUME TypeOK, NEW w \in Workers, Step(w)
  PROVE  \/ \E r \in Requests : Receive(w, r)
         \/ pc[w] # "idle" /\ pc'[w] = "idle" /\ attempts' = attempts
         \/ /\ pc[w] # "idle" /\ current'[w] = current[w] /\ attempts' = attempts
            /\ answers' = answers
  BY DEF TypeOK, Step, Progress, Fault, ValidateActivity, LookupSource,
         DetectOverlap, InsertRecord, CheckExclusion, BreakDeadlock, Commit,
         Respond, RespondError, CommitUnacknowledged, ConnectionLost, Crash,
         Raise, Continue, Goto, AnswerWith, Release, InDatabase, InFunction

(* The rows of w in flight after its step: none, the one it inserted in    *)
(* this step, or the one it has had checked for overlaps in this step.     *)
LEMMA StepUncommitted ==
  ASSUME TypeOK, NEW w \in Workers, Step(w), InFlight
  PROVE  \/ uncommitted'[w] = {}
         \/ /\ InsertRecord(w)
            /\ pc'[w] = "exclude"
            /\ \A v \in Workers : \A x \in uncommitted[v] : ~SameKey(NewRow(w), x)
            /\ \A x \in records : ~SameKey(NewRow(w), x)
            /\ UNCHANGED <<records, current>>
         \/ /\ CheckExclusion(w)
            /\ pc'[w] = "commit" /\ pc[w] = "exclude"
            /\ uncommitted'[w] = uncommitted[w]
            /\ Blockers(w) = {}
            /\ \A x \in records : ~Overlap(NewRow(w), x)
            /\ UNCHANGED <<records, current>>
  <1> USE DEF Goto, Raise, Continue
  <1>1. CASE \E r \in Requests : Receive(w, r)
    BY <1>1 DEF Receive, TypeOK, InFlight
  <1>2. CASE ValidateActivity(w) \/ LookupSource(w) \/ DetectOverlap(w)
    BY <1>2 DEF ValidateActivity, LookupSource, DetectOverlap, TypeOK, InFlight
  <1>3. CASE InsertRecord(w)
    BY <1>3 DEF InsertRecord, Claimants, TypeOK
  <1>4. CASE CheckExclusion(w)
    BY <1>4 DEF CheckExclusion, TypeOK
  <1>5. CASE BreakDeadlock(w) \/ Commit(w) \/ CommitUnacknowledged(w) \/ ConnectionLost(w)
    BY <1>5 DEF BreakDeadlock, Commit, CommitUnacknowledged, ConnectionLost, TypeOK
  <1>6. CASE Respond(w) \/ RespondError(w)
    BY <1>6 DEF Respond, RespondError, AnswerWith, TypeOK, InFlight
  <1>7. CASE Crash(w)
    BY <1>7 DEF Crash, TypeOK
  <1> QED
    BY <1>1, <1>2, <1>3, <1>4, <1>5, <1>6, <1>7 DEF Step, Progress, Fault

(* Nothing is ever taken from the table, and what a step adds to it is the *)
(* row w had in flight, at the end of its transaction.                     *)
LEMMA StepAdds ==
  ASSUME TypeOK, InFlight, NEW w \in Workers, Step(w)
  PROVE  /\ records \subseteq records'
         /\ records' # records =>
              /\ pc[w] = "commit" /\ pc'[w] \in {"respond", "except"}
              /\ uncommitted[w] = {NewRow(w)}
              /\ records' = records \cup {NewRow(w)}
              /\ current' = current /\ uncommitted'[w] = {}
  <1>1. CASE records' = records
    BY <1>1
  <1>2. CASE Commit(w) \/ CommitUnacknowledged(w)
    <2>1. records' = records \cup uncommitted[w] /\ pc[w] = "commit"
          /\ pc'[w] \in {"respond", "except"} /\ uncommitted'[w] = {} /\ current' = current
      BY <1>2 DEF Commit, CommitUnacknowledged, Goto, TypeOK
    <2> QED
      BY <2>1 DEF InFlight
  <1> QED
    BY <1>1, <1>2, StepRecords

(* An answer carries the number of the submission w served, and w is free. *)
LEMMA StepAnswersTo ==
  ASSUME TypeOK, NEW w \in Workers, Step(w)
  PROVE  /\ answers \subseteq answers'
         /\ answers' # answers => pc[w] \in {"respond", "except"} /\ pc'[w] = "idle"
         /\ \A a \in answers' \ answers : a.attempt = current[w].attempt
  <1>1. CASE answers' = answers
    BY <1>1
  <1>2. CASE Respond(w)
    BY <1>2 DEF Respond, AnswerWith, Release, Goto, TypeOK
  <1>3. CASE RespondError(w)
    BY <1>3 DEF RespondError, AnswerWith, Release, Goto, TypeOK
  <1> QED
    BY <1>1, <1>2, <1>3, StepAnswers

-----------------------------------------------------------------------------
(* The conjuncts of the inductive invariant, one by one.                   *)

(* Submissions are numbered once and answered once, so an id names a row.  *)
LEMMA NumberingKept ==
  ASSUME TypeOK, Numbering, InFlight, NEW w \in Workers, Step(w)
  PROVE  Numbering'
  <1> USE DEF Active
  <1>1. attempts \in Nat
    BY MaxAttemptsAssumption DEF TypeOK
  <1>2. pc[w] # "idle" =>
          current[w].attempt \in 1..attempts /\ NewRow(w).id = current[w].attempt
    BY <1>1, RowOfType DEF Numbering, Submissions, NewRow, Request
  <1>3. CASE \E r \in Requests : Receive(w, r)
    <2> PICK r \in Requests : Receive(w, r)
      BY <1>3
    <2>1. /\ current'[w] \in Submissions
          /\ current'[w].attempt = attempts + 1
          /\ attempts' = attempts + 1
          /\ records' = records /\ answers' = answers
      BY <1>1 DEF Receive, Submissions, TypeOK
    <2> QED
      BY <1>1, <2>1, StepFrame DEF Numbering
  <1>4. CASE attempts' = attempts /\ pc[w] # "idle"
             /\ (pc'[w] = "idle" \/ (current'[w] = current[w] /\ answers' = answers))
    <2>1. \A x \in records' : x \in records \/ x = NewRow(w)
      BY StepAdds
    <2>2. \A x \in records' : x.id \in 1..attempts
      BY <1>2, <1>4, <2>1 DEF Numbering
    <2>3. \A a \in answers' : a \in answers \/ a.attempt = current[w].attempt
      BY StepAnswersTo
    <2>4. ASSUME NEW v \in Workers, pc'[v] # "idle"
          PROVE  /\ current'[v] = current[v] /\ pc[v] # "idle"
                 /\ \A a \in answers' : a.attempt # current[v].attempt
                 /\ pc'[v] \in InDatabase => \A x \in records' : x.id # current[v].attempt
      <3>1. CASE v = w
        <4>1. pc'[w] \in InDatabase => records' = records /\ pc[w] \in InDatabase
          <5>1. pc'[w] \in InDatabase => records' = records
            BY StepAdds DEF InDatabase, InFunction
          <5>2. pc'[w] \in InDatabase => pc[w] \in InDatabase
            BY <1>4, <2>4, <3>1
               DEF Step, Progress, Fault, Receive, ValidateActivity, LookupSource,
                 DetectOverlap, InsertRecord, CheckExclusion, BreakDeadlock, Commit,
                 Respond, RespondError, CommitUnacknowledged, ConnectionLost, Crash,
                 Raise, Continue, Goto, AnswerWith, Release, InDatabase, InFunction, TypeOK
          <5> QED
            BY <5>1, <5>2
        <4> QED
          BY <1>4, <2>4, <3>1, <4>1 DEF Numbering
      <3>2. CASE v # w
        BY <1>2, <1>4, <2>1, <2>3, <2>4, <3>2, StepFrame DEF Numbering
      <3> QED
        BY <3>1, <3>2
    <2>5. \A a \in answers' : a.attempt \in 1..attempts
      BY <1>2, <1>4, <2>3 DEF Numbering
    <2> QED
      BY <1>4, <2>2, <2>4, <2>5 DEF Numbering
  <1>5. \/ \E r \in Requests : Receive(w, r)
        \/ pc[w] # "idle" /\ pc'[w] = "idle" /\ attempts' = attempts
        \/ /\ pc[w] # "idle" /\ current'[w] = current[w] /\ attempts' = attempts
           /\ answers' = answers
    BY StepCurrent
  <1> QED
    BY <1>3, <1>4, <1>5

(* A transaction has a row in flight exactly from its INSERT to its end.   *)
LEMMA InFlightKept ==
  ASSUME TypeOK, Numbering, InFlight, NEW w \in Workers, Step(w)
  PROVE  InFlight'
  <1>1. ASSUME NEW v \in Workers, v # w
        PROVE  NewRow(v)' = NewRow(v)
    BY <1>1, StepFrame DEF NewRow, Request
  <1>2. IF pc'[w] = "exclude" \/ (pc'[w] = "commit" /\ ~result'[w].was_duplicate)
        THEN uncommitted'[w] = {NewRow(w)'}
        ELSE uncommitted'[w] = {}
    <2> USE DEF Goto, Raise, Continue, NewRow, Request
    <2>1. CASE \E r \in Requests : Receive(w, r)
      BY <2>1 DEF Receive, TypeOK, InFlight
    <2>2. CASE ValidateActivity(w) \/ DetectOverlap(w)
      BY <2>2 DEF ValidateActivity, DetectOverlap, TypeOK, InFlight
    <2>3. CASE LookupSource(w)
      BY <2>3 DEF LookupSource, TypeOK, InFlight
    <2>4. CASE InsertRecord(w)
      BY <2>4 DEF InsertRecord, TypeOK
    <2>5. CASE CheckExclusion(w)
      <3>1. uncommitted[w] = {NewRow(w)} /\ current' = current
        BY <2>5 DEF CheckExclusion, InFlight
      <3>2. \/ uncommitted' = uncommitted /\ pc'[w] = "commit" /\ ~result'[w].was_duplicate
            \/ uncommitted'[w] = {} /\ pc'[w] = "except"
        <4>1. CASE Raise(w, "23P01", "exclusion constraint") \/ Raise(w, "23503", "other")
          BY <4>1 DEF TypeOK
        <4>2. CASE /\ result' = [result EXCEPT ![w] =
                        [record |-> {NewRow(w)}, was_duplicate |-> FALSE]]
                   /\ pc' = [pc EXCEPT ![w] = "commit"]
                   /\ uncommitted' = uncommitted
          BY <4>2 DEF TypeOK
        <4> QED
          BY <2>5, <4>1, <4>2 DEF CheckExclusion
      <3> QED
        BY <3>1, <3>2
    <2>6. CASE BreakDeadlock(w) \/ Commit(w) \/ CommitUnacknowledged(w) \/ ConnectionLost(w)
      BY <2>6 DEF BreakDeadlock, Commit, CommitUnacknowledged, ConnectionLost, TypeOK
    <2>7. CASE Respond(w) \/ RespondError(w)
      BY <2>7 DEF Respond, RespondError, AnswerWith, Release, TypeOK, InFlight
    <2>8. CASE Crash(w)
      BY <2>8 DEF Crash, Release, TypeOK
    <2> QED
      BY <2>1, <2>2, <2>3, <2>4, <2>5, <2>6, <2>7, <2>8 DEF Step, Progress, Fault
  <1> QED
    BY <1>1, <1>2, StepFrame DEF InFlight

(* Nothing another worker has established is undone by a step of w. *)
LEMMA EstablishedKept ==
  ASSUME TypeOK, Numbering, InFlight, Established, NEW w \in Workers, Step(w)
  PROVE  Established'
  <1> DEFINE Here(v) ==
        /\ pc[v] \in {"lookup", "overlap", "insert", "exclude"} => Valid(Request(v))
        /\ pc[v] = "exclude" => SourceOf(Request(v)) \in Sources
        /\ pc[v] \in {"commit", "respond"} =>
             IF result[v].was_duplicate
             THEN \E x \in records : SameKey(NewRow(v), x) /\ result[v].record = {x}
             ELSE Storable(Request(v)) /\ result[v].record = {NewRow(v)}
        /\ pc[v] = "respond" /\ ~result[v].was_duplicate => NewRow(v) \in records
        /\ pc[v] = "except" =>
             /\ error[v].sqlstate = "23P01" => \E x \in records : Overlap(NewRow(v), x)
             /\ error[v].sqlstate = "22023" => ~Valid(Request(v))
  <1>1. Here(w)
    BY DEF Established
  <1>2. records \subseteq records'
    BY StepAdds
  <1>3. ASSUME NEW v \in Workers, v # w
        PROVE  Here(v)'
    <2>1. Here(v)
      BY DEF Established
    <2>2. /\ Request(v)' = Request(v) /\ NewRow(v)' = NewRow(v) /\ pc'[v] = pc[v]
          /\ result'[v] = result[v] /\ error'[v] = error[v]
      BY <1>3, StepFrame DEF Request, NewRow
    <2> QED
      BY <1>2, <2>1, <2>2
  <1>4. Here(w)'
    <2> USE DEF Goto, Continue
    <2>1. CASE \E r \in Requests : Receive(w, r)
      BY <2>1 DEF Receive, TypeOK
    <2>2. ASSUME NEW s, NEW m, Raise(w, s, m),
                 s = "23P01" => \E x \in records : Overlap(NewRow(w), x),
                 s = "22023" => ~Valid(Request(w))
          PROVE  Here(w)'
      <3>1. /\ pc'[w] = "except" /\ error'[w].sqlstate = s
            /\ records' = records /\ current' = current
        BY <2>2 DEF Raise, TypeOK
      <3>2. Request(w)' = Request(w) /\ NewRow(w)' = NewRow(w)
        BY <3>1 DEF Request, NewRow
      <3> QED
        BY <2>2, <3>1, <3>2
    <2>3. ASSUME UNCHANGED <<current, records, result>>
          PROVE  Request(w)' = Request(w) /\ NewRow(w)' = NewRow(w)
      BY <2>3 DEF Request, NewRow
    <2>4. CASE ValidateActivity(w)
      <3>1. CASE Valid(Request(w)) /\ Continue(w, "lookup")
        BY <3>1, <2>3 DEF TypeOK
      <3> QED
        BY <2>2, <2>4, <3>1 DEF ValidateActivity
    <2>5. CASE LookupSource(w)
      <3>1. ASSUME NEW x \in records, SameKey(NewRow(w), x),
                   result' = [result EXCEPT ![w] = [record |-> {x}, was_duplicate |-> TRUE]],
                   pc' = [pc EXCEPT ![w] = "commit"],
                   UNCHANGED <<records, current>>
            PROVE  Here(w)'
        <4>1. NewRow(w)' = NewRow(w) /\ pc'[w] = "commit" /\ result'[w].was_duplicate
              /\ result'[w].record = {x}
          BY <3>1 DEF Request, NewRow, TypeOK
        <4> QED
          BY <3>1, <4>1
      <3>2. CASE Continue(w, "overlap")
        BY <1>1, <2>5, <3>2, <2>3 DEF TypeOK, LookupSource
      <3> QED
        BY <2>5, <3>1, <3>2 DEF LookupSource
    <2>6. CASE DetectOverlap(w)
      <3>1. CASE Continue(w, "insert")
        BY <1>1, <2>6, <3>1, <2>3 DEF TypeOK, DetectOverlap
      <3> QED
        BY <2>2, <2>6, <3>1 DEF DetectOverlap
    <2>7. CASE InsertRecord(w)
      <3>1. CASE /\ SourceOf(Request(w)) \in Sources
                 /\ pc' = [pc EXCEPT ![w] = "exclude"]
                 /\ UNCHANGED <<records, current, result, error>>
        BY <1>1, <2>7, <3>1, <2>3 DEF TypeOK, InsertRecord
      <3> QED
        BY <2>2, <2>7, <3>1 DEF InsertRecord
    <2>8. CASE CheckExclusion(w)
      <3>1. ASSUME Request(w).driver \in Drivers, Request(w).vehicle \in Vehicles,
                   result' = [result EXCEPT ![w] =
                       [record |-> {NewRow(w)}, was_duplicate |-> FALSE]],
                   pc' = [pc EXCEPT ![w] = "commit"],
                   UNCHANGED <<records, current>>
            PROVE  Here(w)'
        <4>1. /\ Request(w)' = Request(w) /\ NewRow(w)' = NewRow(w) /\ pc'[w] = "commit"
              /\ ~result'[w].was_duplicate /\ result'[w].record = {NewRow(w)}
          BY <3>1 DEF Request, NewRow, TypeOK
        <4>2. Storable(Request(w))
          BY <1>1, <2>8, <3>1 DEF CheckExclusion, Storable
        <4> QED
          BY <4>1, <4>2
      <3> QED
        BY <2>2, <2>8, <3>1 DEF CheckExclusion
    <2>9. CASE BreakDeadlock(w) \/ ConnectionLost(w)
      BY <2>2, <2>9 DEF BreakDeadlock, ConnectionLost
    <2>10. CASE Commit(w)
      <3>1. /\ Request(w)' = Request(w) /\ NewRow(w)' = NewRow(w) /\ pc'[w] = "respond"
            /\ result' = result /\ pc[w] = "commit"
        BY <2>10 DEF Commit, TypeOK, Request, NewRow
      <3>2. ~result[w].was_duplicate => NewRow(w) \in records'
        BY <2>10 DEF Commit, InFlight
      <3> QED
        BY <1>1, <1>2, <3>1, <3>2
    <2>11. CASE CommitUnacknowledged(w)
      BY <2>11 DEF CommitUnacknowledged, TypeOK
    <2>12. CASE Respond(w) \/ RespondError(w) \/ Crash(w)
      BY <2>12 DEF Respond, RespondError, Crash, AnswerWith, Release, TypeOK
    <2> QED
      BY <2>1, <2>4, <2>5, <2>6, <2>7, <2>8, <2>9, <2>10, <2>11, <2>12
         DEF Step, Progress, Fault
  <1> QED
    BY <1>3, <1>4 DEF Established

(* The unique index: a row in flight keeps its key to itself. *)
LEMMA KeyOwnedKept ==
  ASSUME TypeOK, InFlight, KeyOwned, NEW w \in Workers, Step(w)
  PROVE  KeyOwned'
  <1>1. ASSUME NEW v \in Workers, v # w
        PROVE  uncommitted'[v] = uncommitted[v] /\ NewRow(v)' = NewRow(v)
    BY <1>1, StepFrame DEF NewRow, Request
  <1>2. uncommitted'[w] # {} =>
          /\ records' = records /\ NewRow(w)' = NewRow(w)
          /\ \A x \in records : ~SameKey(NewRow(w), x)
          /\ \A v \in Workers \ {w} : uncommitted[v] # {} => ~SameKey(NewRow(w), NewRow(v))
    <2>1. CASE /\ \A v \in Workers : \A x \in uncommitted[v] : ~SameKey(NewRow(w), x)
               /\ \A x \in records : ~SameKey(NewRow(w), x)
               /\ UNCHANGED <<records, current>>
      <3>1. \A v \in Workers : uncommitted[v] # {} => NewRow(v) \in uncommitted[v]
        BY DEF InFlight
      <3> QED
        BY <2>1, <3>1 DEF NewRow, Request
    <2>2. CASE uncommitted'[w] = uncommitted[w] /\ UNCHANGED <<records, current>>
      BY <2>2 DEF KeyOwned, NewRow, Request
    <2> QED
      BY <2>1, <2>2, StepUncommitted
  <1>3. \A x \in records' : x \in records \/ (x = NewRow(w) /\ uncommitted[w] # {})
    BY StepAdds
  <1>4. ASSUME NEW v \in Workers, v # w, uncommitted'[v] # {}
        PROVE  /\ \A x \in records' : ~SameKey(NewRow(v), x)
               /\ \A u \in Workers \ {v} : uncommitted'[u] # {} =>
                    ~SameKey(NewRow(v), NewRow(u)')
    <2>1. uncommitted[v] # {}
      BY <1>1, <1>4
    <2>2. \A x \in records' : ~SameKey(NewRow(v), x)
      BY <1>3, <1>4, <2>1 DEF KeyOwned
    <2>3. uncommitted'[w] # {} => ~SameKey(NewRow(v), NewRow(w)')
      BY <1>2, <1>4, <2>1, SameKeySymmetric
    <2> QED
      BY <1>1, <1>4, <2>1, <2>2, <2>3 DEF KeyOwned
  <1> QED
    BY <1>1, <1>2, <1>4 DEF KeyOwned

(* The exclusion index: a row that has passed it keeps its period. *)
LEMMA PeriodOwnedKept ==
  ASSUME TypeOK, InFlight, PeriodOwned, NEW w \in Workers, Step(w)
  PROVE  PeriodOwned'
  <1>1. ASSUME NEW v \in Workers, v # w
        PROVE  uncommitted'[v] = uncommitted[v] /\ NewRow(v)' = NewRow(v) /\ pc'[v] = pc[v]
    BY <1>1, StepFrame DEF NewRow, Request
  <1>2. pc'[w] = "commit" /\ uncommitted'[w] # {} =>
          /\ records' = records /\ NewRow(w)' = NewRow(w)
          /\ \A x \in records : ~Overlap(NewRow(w), x)
          /\ \A v \in Workers \ {w} : uncommitted[v] # {} => ~Overlap(NewRow(w), NewRow(v))
    <2>1. CASE /\ Blockers(w) = {} /\ \A x \in records : ~Overlap(NewRow(w), x)
               /\ UNCHANGED <<records, current>>
      <3>1. \A v \in Workers : uncommitted[v] # {} => NewRow(v) \in uncommitted[v]
        BY DEF InFlight
      <3> QED
        BY <2>1, <3>1 DEF NewRow, Request, Blockers
    <2>2. pc'[w] = "commit" /\ uncommitted'[w] # {} =>
            /\ Blockers(w) = {} /\ \A x \in records : ~Overlap(NewRow(w), x)
            /\ UNCHANGED <<records, current>>
      BY StepUncommitted
    <2> QED
      BY <2>1, <2>2
  <1>3. \A x \in records' :
          x \in records \/ (x = NewRow(w) /\ pc[w] = "commit" /\ uncommitted[w] # {})
    BY StepAdds
  <1>4. ASSUME NEW v \in Workers, v # w, pc'[v] = "commit", uncommitted'[v] # {}
        PROVE  /\ \A x \in records' : ~Overlap(NewRow(v), x)
               /\ \A u \in Workers \ {v} : pc'[u] = "commit" /\ uncommitted'[u] # {} =>
                    ~Overlap(NewRow(v), NewRow(u)')
    <2>1. uncommitted[v] # {} /\ pc[v] = "commit"
      BY <1>1, <1>4
    <2>2. \A x \in records' : ~Overlap(NewRow(v), x)
      BY <1>3, <1>4, <2>1 DEF PeriodOwned
    <2>3. pc'[w] = "commit" /\ uncommitted'[w] # {} => ~Overlap(NewRow(v), NewRow(w)')
      BY <1>2, <1>4, <2>1, OverlapSymmetric
    <2> QED
      BY <1>1, <1>4, <2>1, <2>2, <2>3 DEF PeriodOwned
  <1> QED
    BY <1>1, <1>2, <1>4 DEF PeriodOwned

(* A submission whose key was there on arrival stops at the lookup. *)
LEMMA PriorFoundKept ==
  ASSUME TypeOK, Numbering, InFlight, Established, PriorFound, NEW w \in Workers, Step(w)
  PROVE  PriorFound'
  <1> USE DEF Active
  <1>1. records \subseteq records'
    BY StepAdds
  <1>2. ASSUME NEW v \in Workers, v # w
        PROVE  /\ pc'[v] = pc[v] /\ current'[v] = current[v] /\ result'[v] = result[v]
               /\ error'[v] = error[v]
               /\ NewRow(v)' = NewRow(v) /\ Request(v)' = Request(v)
    BY <1>2, StepFrame DEF NewRow, Request
  <1>3. ASSUME pc'[w] # "idle", current'[w].prior
        PROVE  /\ \E x \in records' : SameKey(NewRow(w)', x)
               /\ pc'[w] \in {"validate", "lookup", "commit", "respond", "except"}
               /\ pc'[w] \in {"commit", "respond"} => result'[w].was_duplicate
               /\ pc'[w] = "except" =>
                    error'[w].sqlstate = "08006"
                    \/ (error'[w].sqlstate = "22023" /\ ~Valid(Request(w)'))
    <2>1. CASE \E r \in Requests : Receive(w, r)
      <3> PICK r \in Requests : Receive(w, r)
        BY <2>1
      <3>1. /\ pc'[w] = "validate" /\ records' = records
            /\ current'[w] = [attempt |-> attempts + 1, request |-> r,
                              prior |-> \E x \in records : SameKey(RowOf(r, 0), x)]
        BY DEF Receive, Goto, TypeOK
      <3>2. \E x \in records : SameKey(RowOf(r, 0), x)
        BY <1>3, <3>1
      <3>3. NewRow(w)' = RowOf(r, attempts + 1)
        BY <3>1 DEF NewRow, Request
      <3> QED
        BY <3>1, <3>2, <3>3, RowOfRelations
    <2>2. CASE pc[w] # "idle" /\ current'[w] = current[w]
      <3>1. NewRow(w)' = NewRow(w) /\ Request(w)' = Request(w)
        BY <2>2 DEF NewRow, Request
      <3>2. /\ \E x \in records : SameKey(NewRow(w), x)
            /\ pc[w] \in {"validate", "lookup", "commit", "respond", "except"}
            /\ pc[w] \in {"commit", "respond"} => result[w].was_duplicate
        BY <1>3, <2>2 DEF PriorFound
      <3>3. CASE ValidateActivity(w)
        BY <1>3, <3>1, <3>2, <3>3
           DEF ValidateActivity, Raise, Continue, Goto, TypeOK
      <3>4. CASE LookupSource(w)
        <4>1. /\ pc'[w] = "commit" /\ result'[w].was_duplicate /\ records' = records
          BY <3>2, <3>4 DEF LookupSource, Goto, TypeOK
        <4> QED
          BY <3>1, <3>2, <4>1
      <3>5. CASE Commit(w)
        BY <1>1, <3>1, <3>2, <3>5 DEF Commit, Goto, TypeOK
      <3>6. CASE CommitUnacknowledged(w) \/ ConnectionLost(w)
        BY <1>1, <3>1, <3>2, <3>6 DEF CommitUnacknowledged, ConnectionLost, Raise, Goto, TypeOK
      <3>7. CASE DetectOverlap(w) \/ InsertRecord(w) \/ CheckExclusion(w) \/ BreakDeadlock(w)
        BY <3>2, <3>7 DEF DetectOverlap, InsertRecord, CheckExclusion, BreakDeadlock
      <3>8. CASE Respond(w) \/ RespondError(w) \/ Crash(w)
        BY <1>3, <3>8 DEF Respond, RespondError, Crash, AnswerWith, Release, Goto, TypeOK
      <3>9. CASE \E r \in Requests : Receive(w, r)
        BY <2>2, <3>9 DEF Receive
      <3> QED
        BY <3>3, <3>4, <3>5, <3>6, <3>7, <3>8, <3>9 DEF Step, Progress, Fault
    <2> QED
      BY <1>3, <2>1, <2>2, StepCurrent
  <1>4. ASSUME NEW v \in Workers, v # w, pc'[v] # "idle", current'[v].prior
        PROVE  /\ \E x \in records' : SameKey(NewRow(v)', x)
               /\ pc'[v] \in {"validate", "lookup", "commit", "respond", "except"}
               /\ pc'[v] \in {"commit", "respond"} => result'[v].was_duplicate
               /\ pc'[v] = "except" =>
                    error'[v].sqlstate = "08006"
                    \/ (error'[v].sqlstate = "22023" /\ ~Valid(Request(v)'))
    BY <1>1, <1>2, <1>4 DEF PriorFound
  <1> QED
    BY <1>3, <1>4 DEF PriorFound

(* What a commit adds overlaps nothing and shares its key with nothing. *)
LEMMA TableKept ==
  ASSUME TypeOK, InFlight, KeyOwned, PeriodOwned, NoOverlap, OneRecordPerSource,
         NEW w \in Workers, Step(w)
  PROVE  NoOverlap' /\ OneRecordPerSource'
  <1>1. CASE records' = records
    BY <1>1 DEF NoOverlap, OneRecordPerSource
  <1>2. CASE records' # records
    <2>1. /\ records' = records \cup {NewRow(w)} /\ pc[w] = "commit"
          /\ uncommitted[w] # {}
      BY <1>2, StepAdds
    <2>2. \A x \in records : ~Overlap(NewRow(w), x) /\ ~Overlap(x, NewRow(w))
      BY <2>1, OverlapSymmetric DEF PeriodOwned
    <2>3. \A x \in records : ~SameKey(NewRow(w), x) /\ ~SameKey(x, NewRow(w))
      BY <2>1, SameKeySymmetric DEF KeyOwned
    <2> QED
      BY <2>1, <2>2, <2>3 DEF NoOverlap, OneRecordPerSource
  <1> QED
    BY <1>1, <1>2

(* The ledger's truth of an answer, with the operators of this module. *)
LEMMA LedgerTruth ==
  ASSUME NEW a
  PROVE  Ledger!TrueAnswer(a) <=>
           \/ /\ a.status = 201
              /\ RowOf(a.request, a.attempt) \in records
              /\ a.record = {RowOf(a.request, a.attempt)}
           \/ /\ a.status = 200
              /\ \E x \in records :
                   SameKey(RowOf(a.request, a.attempt), x) /\ a.record = {x}
           \/ /\ a.status = 409
              /\ \E x \in records : Overlap(RowOf(a.request, a.attempt), x)
           \/ a.status = 400 /\ ~Valid(a.request)
           \/ a.status = 500
  BY DEF Ledger!TrueAnswer, Ledger!RowOf, RowOf, Ledger!SourceOf, SourceOf,
         Ledger!SameKey, SameKey, Ledger!Overlap, Overlap, Ledger!Valid, Valid,
         Ledger!ValidType, ValidType, Ledger!ValidTimes, ValidTimes

(* An answer, once true, stays true: nothing leaves the table. *)
LEMMA TruthStays ==
  ASSUME NEW a, records \subseteq records', Ledger!TrueAnswer(a)
  PROVE  Ledger!TrueAnswer(a)'
  BY DEF Ledger!TrueAnswer

(* The answers w gives are true when it gives them. *)
LEMMA AnswerIsTrue ==
  ASSUME TypeOK, Established, NEW w \in Workers, Step(w), NEW a \in answers' \ answers
  PROVE  Ledger!TrueAnswer(a) /\ records' = records
  <1>1. CASE Respond(w)
    <2>1. /\ a.attempt = current[w].attempt /\ a.request = Request(w)
          /\ a.status = (IF result[w].was_duplicate THEN 200 ELSE 201)
          /\ a.record = result[w].record /\ pc[w] = "respond" /\ records' = records
      BY <1>1 DEF Respond, AnswerWith
    <2>2. RowOf(a.request, a.attempt) = NewRow(w)
      BY <2>1 DEF NewRow
    <2>3. CASE result[w].was_duplicate
      <3>1. \E x \in records : SameKey(NewRow(w), x) /\ result[w].record = {x}
        BY <2>1, <2>3 DEF Established
      <3> QED
        BY <2>1, <2>2, <2>3, <3>1, LedgerTruth
    <2>4. CASE ~result[w].was_duplicate
      <3>1. NewRow(w) \in records /\ result[w].record = {NewRow(w)}
        BY <2>1, <2>4 DEF Established
      <3> QED
        BY <2>1, <2>2, <2>4, <3>1, LedgerTruth
    <2> QED
      BY <2>3, <2>4
  <1>2. CASE RespondError(w)
    <2>1. /\ a.attempt = current[w].attempt /\ a.request = Request(w)
          /\ a.status = StatusOf(error[w].sqlstate) /\ pc[w] = "except" /\ records' = records
      BY <1>2 DEF RespondError, AnswerWith
    <2>2. RowOf(a.request, a.attempt) = NewRow(w)
      BY <2>1 DEF NewRow
    <2>3. /\ error[w].sqlstate = "23P01" => \E x \in records : Overlap(NewRow(w), x)
          /\ error[w].sqlstate = "22023" => ~Valid(Request(w))
      BY <2>1 DEF Established
    <2> QED
      BY <2>1, <2>2, <2>3, LedgerTruth DEF StatusOf
  <1> QED
    BY <1>1, <1>2, StepAnswers

(* Answers stay true, and RetryRecognised stays true of them.              *)
LEMMA AnswersKept ==
  ASSUME TypeOK, Numbering, InFlight, Established, PriorFound, AnswersTrue, RetryRecognised,
         NEW w \in Workers, Step(w)
  PROVE  AnswersTrue' /\ RetryRecognised'
  <1>1. AnswersTrue'
    <2>1. records \subseteq records'
      BY StepAdds
    <2> SUFFICES ASSUME NEW a \in answers'
                 PROVE  Ledger!TrueAnswer(a)'
      BY DEF AnswersTrue
    <2>2. Ledger!TrueAnswer(a)
      BY AnswerIsTrue DEF AnswersTrue
    <2> QED
      BY <2>1, <2>2, TruthStays
  <1>2. RetryRecognised'
    <2> SUFFICES ASSUME NEW a \in answers', a \notin answers, a.prior, Valid(a.request)
                 PROVE  a.status = 200 \/ (a.status = 500 /\ a.sqlstate = "08006")
      BY DEF RetryRecognised
    <2>1. CASE Respond(w)
      <3>0. current[w].prior \in BOOLEAN
        BY <2>1 DEF Respond, RespondError, Numbering, Active, Submissions
      <3>1. /\ pc[w] = "respond"
            /\ a.status = (IF result[w].was_duplicate THEN 200 ELSE 201)
        BY <2>1 DEF Respond, AnswerWith
      <3>2. current[w].prior
        <4>1. a = [attempt |-> current[w].attempt, request |-> Request(w),
                   prior |-> current[w].prior,
                   status |-> IF result[w].was_duplicate THEN 200 ELSE 201,
                   record |-> result[w].record, sqlstate |-> "00000",
                   message |-> "none"]
          BY <2>1 DEF Respond, AnswerWith
        <4>2. a.prior = current[w].prior
          BY <4>1, Zenon
        <4> QED
          BY <4>2, <3>0
      <3>3. result[w].was_duplicate
        BY <3>1, <3>2 DEF PriorFound, Active
      <3> QED
        BY <3>1, <3>3
    <2>2. CASE RespondError(w)
      <3>0. current[w].prior \in BOOLEAN
        BY <2>2 DEF Respond, RespondError, Numbering, Active, Submissions
      <3>1. /\ pc[w] = "except" /\ a.request = Request(w)
            /\ a.status = StatusOf(error[w].sqlstate) /\ a.sqlstate = error[w].sqlstate
        BY <2>2 DEF RespondError, AnswerWith
      <3>2. current[w].prior
        <4>1. a = [attempt |-> current[w].attempt, request |-> Request(w),
                   prior |-> current[w].prior,
                   status |-> StatusOf(error[w].sqlstate),
                   record |-> {}, sqlstate |-> error[w].sqlstate,
                   message |-> Reraised(error[w]).message]
          BY <2>2 DEF RespondError, AnswerWith
        <4>2. a.prior = current[w].prior
          BY <4>1, Zenon
        <4> QED
          BY <4>2, <3>0
      <3>3. error[w].sqlstate = "08006"
        BY <3>1, <3>2 DEF PriorFound, Active
      <3> QED
        BY <3>1, <3>3 DEF StatusOf
    <2> QED
      BY <2>1, <2>2, StepAnswers
  <1> QED
    BY <1>1, <1>2

-----------------------------------------------------------------------------
(* The theorems.                                                           *)

(* The inductive invariant holds of an empty table and idle processes.     *)
LEMMA InvariantHoldsAtStart == Init => IInv
  <1> SUFFICES ASSUME Init PROVE IInv
    OBVIOUS
  <1>1. TypeOK /\ Numbering
    BY InitTyped
  <1>2. records = {} /\ answers = {}
        /\ \A w \in Workers : pc[w] = "idle" /\ uncommitted[w] = {}
    BY DEF Init
  <1> QED
    BY <1>1, <1>2 DEF IInv, InFlight, Established, KeyOwned, PeriodOwned, PriorFound,
       NoOverlap, OneRecordPerSource, AnswersTrue, RetryRecognised, Active

(* Every step of every process keeps it.                                   *)
LEMMA InvariantKept == IInv /\ [Next]_vars => IInv'
  <1> SUFFICES ASSUME IInv, [Next]_vars PROVE IInv'
    OBVIOUS
  <1>1. CASE Next
    <2> PICK w \in Workers : Step(w)
      BY <1>1 DEF Next, Step
    <2> USE DEF IInv
    <2>1. TypeOK' /\ Numbering' /\ InFlight'
      BY StepTyped, NumberingKept, InFlightKept
    <2>2. Established' /\ KeyOwned' /\ PeriodOwned' /\ PriorFound'
      BY EstablishedKept, KeyOwnedKept, PeriodOwnedKept, PriorFoundKept
    <2>3. NoOverlap' /\ OneRecordPerSource' /\ AnswersTrue' /\ RetryRecognised'
      BY TableKept, AnswersKept
    <2> QED
      BY <2>1, <2>2, <2>3
  <1>2. CASE UNCHANGED vars
    BY <1>2
       DEF vars, IInv, TypeOK, Numbering, InFlight, Established, KeyOwned, PeriodOwned,
           PriorFound, NoOverlap, OneRecordPerSource, AnswersTrue, RetryRecognised,
           Active, NewRow, Request, Ledger!TrueAnswer
  <1> QED
    BY <1>1, <1>2

(* The inductive invariant holds throughout, whatever the number of API    *)
(* processes and however their transactions on activity_records interleave.*)
THEOREM Invariant == Spec => []IInv
  BY InvariantHoldsAtStart, InvariantKept, PTL DEF Spec

(* Every variable of the endpoint keeps its type: rows built by the INSERT *)
(* of fn_create_activity_record, statuses the handler can answer with.     *)
THEOREM TypeCorrect == Spec => []TypeOK
  <1>1. IInv => TypeOK
    BY DEF IInv
  <1> QED
    BY <1>1, Invariant, PTL

(* ex_activity_no_overlap: no two records of a driver ever overlap.        *)
THEOREM NeverOverlapping == Spec => []NoOverlap
  <1>1. IInv => NoOverlap
    BY DEF IInv
  <1> QED
    BY <1>1, Invariant, PTL

(* uq_activity_driver_source: a source reference names one record of a     *)
(* driver, however often and to however many processes it is submitted.    *)
THEOREM UniqueSource == Spec => []OneRecordPerSource
  <1>1. IInv => OneRecordPerSource
    BY DEF IInv
  <1> QED
    BY <1>1, Invariant, PTL

(* Every answer submit_activity_record() has given is true of the table,   *)
(* then and ever after.                                                    *)
THEOREM TruthfulAnswers == Spec => []AnswersTrue
  <1>1. IInv => AnswersTrue
    BY DEF IInv
  <1> QED
    BY <1>1, Invariant, PTL

(* A retry of a stored submission gets its 200, or a failure of the        *)
(* infrastructure: the lookup of fn_create_activity_record comes first.    *)
THEOREM RetriesAreRecognised == Spec => []RetryRecognised
  <1>1. IInv => RetryRecognised
    BY DEF IInv
  <1> QED
    BY <1>1, Invariant, PTL

(* Who has a row in flight goes on to commit it, waits for another row in  *)
(* flight that overlaps its own, or need not wait, for its row is refused. *)
LEMMA RowInFlightMoves ==
  ASSUME IInv, NEW v \in Workers, uncommitted[v] # {}, ~CanMove(v)
  PROVE  \E u \in Workers : pc[u] # "idle" /\ CanMove(u)
  <1>1. pc[v] = "exclude" /\ uncommitted[v] = {NewRow(v)}
    BY DEF IInv, InFlight, CanMove, WaitsFor
  <1>2. PICK u \in Blockers(v) : TRUE
    BY <1>1 DEF CanMove, WaitsFor
  <1>3. u \in Workers /\ u # v /\ uncommitted[u] # {}
    BY DEF Blockers
  <1>4. pc[u] \in {"exclude", "commit"} /\ uncommitted[u] = {NewRow(u)}
    BY <1>3 DEF IInv, InFlight
  <1>5. CASE pc[u] = "commit"
    BY <1>3, <1>5 DEF CanMove, WaitsFor
  <1>6. CASE pc[u] = "exclude"
    <2>1. Overlap(NewRow(v), NewRow(u))
      BY <1>4 DEF Blockers
    <2>2. v \in Blockers(u)
      BY <1>1, <1>3, <2>1, OverlapSymmetric DEF Blockers
    <2>3. Deadlocked(u)
      BY <1>1, <1>2, <2>2 DEF Deadlocked
    <2> QED
      BY <1>3, <1>6, <2>3 DEF CanMove
  <1> QED
    BY <1>4, <1>5, <1>6

(* However many processes serve submissions, and whatever rows of theirs   *)
(* meet in the unique and in the exclusion index of fms.activity_records,  *)
(* one of them can take its next step. Two INSERTs that wait for each      *)
(* other are all the detector needs to know of: overlap is symmetric, so   *)
(* every circle of waits has such a pair in it.                            *)
THEOREM NoSubmissionStuck == Spec => []NeverStuck
  <1>1. IInv => NeverStuck
    <2> SUFFICES ASSUME IInv, NEW w \in Workers, pc[w] # "idle"
                 PROVE  \E u \in Workers : pc[u] # "idle" /\ CanMove(u)
      BY DEF NeverStuck
    <2>1. CASE CanMove(w)
      BY <2>1
    <2>2. CASE ~CanMove(w)
      <3>1. PICK v \in Workers : uncommitted[v] # {}
        BY <2>2 DEF CanMove, WaitsFor, Claimants, Blockers
      <3>2. pc[v] # "idle"
        BY <3>1 DEF IInv, InFlight
      <3> QED
        BY <3>1, <3>2, RowInFlightMoves
    <2> QED
      BY <2>1, <2>2
  <1> QED
    BY <1>1, Invariant, PTL

-----------------------------------------------------------------------------
(* Refinement.                                                             *)

(* A commit that adds a row is the ledger's Store. *)
LEMMA CommitStores ==
  ASSUME IInv, NEW w \in Workers, Step(w), records' # records
  PROVE  Ledger!Store(Request(w), current[w].attempt)
         /\ Request(w) \in Requests /\ current[w].attempt \in 1..MaxAttempts
  <1> USE DEF IInv
  <1>1. /\ pc[w] = "commit" /\ uncommitted[w] = {NewRow(w)}
        /\ records' = records \cup {NewRow(w)}
    BY StepAdds
  <1>2. ~result[w].was_duplicate
    BY <1>1 DEF InFlight
  <1>3. Storable(Request(w))
    BY <1>1, <1>2 DEF Established
  <1>4. \A x \in records : ~Overlap(NewRow(w), x) /\ ~SameKey(NewRow(w), x)
    BY <1>1 DEF PeriodOwned, KeyOwned
  <1>5. /\ current[w] \in Submissions /\ current[w].attempt \in 1..attempts
        /\ \A x \in records : x.id # current[w].attempt
    BY <1>1 DEF Numbering, Active, InDatabase
  <1>6. Request(w) \in Requests /\ current[w].attempt \in 1..MaxAttempts
    BY <1>5, MaxAttemptsAssumption DEF TypeOK, Submissions, Request
  <1>7. answers' = answers
    BY <1>1, StepAnswers DEF Respond, RespondError
  <1> QED
    BY <1>1, <1>3, <1>4, <1>5, <1>6, <1>7
       DEF Ledger!Store, NewRow, Storable, Ledger!RowOf, RowOf, Ledger!SourceOf, SourceOf,
           Ledger!SameKey, SameKey, Ledger!Overlap, Overlap, Ledger!Valid, Valid,
           Ledger!ValidType, ValidType, Ledger!ValidTimes, ValidTimes

(* A new answer is the ledger's Answer. *)
LEMMA RespondAnswers ==
  ASSUME IInv, NEW w \in Workers, Step(w), answers' # answers
  PROVE  Ledger!Answer
  <1> USE DEF IInv
  <1>1. PICK a : answers' = answers \cup {a}
    BY StepAnswers DEF Respond, RespondError, AnswerWith
  <1>2. a \in answers' \ answers
    BY <1>1
  <1>3. Ledger!TrueAnswer(a) /\ records' = records
    BY <1>2, AnswerIsTrue
  <1>4. pc[w] # "idle" /\ a.attempt = current[w].attempt
    BY <1>2, StepAnswersTo
  <1>5. \A b \in answers : b.attempt # a.attempt
    BY <1>4 DEF Numbering, Active
  <1> QED
    BY <1>1, <1>2, <1>3, <1>5 DEF Ledger!Answer

(* Each step of a process is a step of the ledger or a stutter.            *)
LEMMA RefinementStep == IInv /\ [Next]_vars => [Ledger!Next]_(Ledger!vars)
  <1> SUFFICES ASSUME IInv, [Next]_vars PROVE [Ledger!Next]_(Ledger!vars)
    OBVIOUS
  <1>1. CASE Next
    <2> PICK w \in Workers : Step(w)
      BY <1>1 DEF Next, Step
    <2>1. CASE records' # records
      BY <2>1, CommitStores DEF Ledger!Next
    <2>2. CASE answers' # answers
      BY <2>2, RespondAnswers DEF Ledger!Next
    <2>3. CASE records' = records /\ answers' = answers
      BY <2>3 DEF Ledger!vars
    <2> QED
      BY <2>1, <2>2, <2>3
  <1>2. CASE UNCHANGED vars
    BY <1>2 DEF vars, Ledger!vars
  <1> QED
    BY <1>1, <1>2

(* The endpoint, with its interleaved transactions, lost connections and   *)
(* crashes, implements the atomic append-only ledger.                      *)
THEOREM Refinement == Spec => ImplementsLedger
  <1>1. Init => Ledger!Init
    BY DEF Init, Ledger!Init
  <1> QED
    BY <1>1, Invariant, RefinementStep, PTL DEF Spec, ImplementsLedger, Ledger!Spec
=============================================================================
