--------------------------- MODULE ActivityLedger ---------------------------
(***************************************************************************)
(* What the activity endpoint promises, with no worker, transaction or     *)
(* index in sight: an append-only ledger in which no two records of a      *)
(* driver overlap or share a source reference, and answers that are true   *)
(* of the ledger at the moment they are given.                             *)
(***************************************************************************)
EXTENDS Activities

VARIABLES
    records,    \* the ledger
    answers     \* every answer given so far

vars == <<records, answers>>

(* What a client is told: HTTP status and, for 200 and 201, the record. *)
TrueAnswer(a) ==
    \/ /\ a.status = 201
       /\ RowOf(a.request, a.attempt) \in records
       /\ a.record = {RowOf(a.request, a.attempt)}
    \/ /\ a.status = 200
       /\ \E x \in records : SameKey(RowOf(a.request, a.attempt), x) /\ a.record = {x}
    \/ /\ a.status = 409
       /\ \E x \in records : Overlap(RowOf(a.request, a.attempt), x)
    \/ a.status = 400 /\ ~Valid(a.request)
    \/ a.status = 500

Init == records = {} /\ answers = {}

(* A valid submission enters the ledger. *)
Store(r, n) ==
    /\ Valid(r)
    /\ r.driver \in Drivers
    /\ r.vehicle \in Vehicles
    /\ SourceOf(r) \in Sources
    /\ \A x \in records :
         ~Overlap(RowOf(r, n), x) /\ ~SameKey(RowOf(r, n), x) /\ x.id # n
    /\ records' = records \cup {RowOf(r, n)}
    /\ UNCHANGED answers

(* A client is given one more answer, and it is true. *)
Answer ==
    /\ \E a \in answers' :
         /\ TrueAnswer(a)
         /\ \A b \in answers : b.attempt # a.attempt
         /\ answers' = answers \cup {a}
    /\ UNCHANGED records

Next ==
    \/ \E r \in Requests, n \in 1..MaxAttempts : Store(r, n)
    \/ Answer

Spec == Init /\ [][Next]_vars
=============================================================================
