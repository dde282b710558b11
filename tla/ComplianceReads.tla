-------------------------- MODULE ComplianceReads --------------------------
(***************************************************************************)
(* The two reads of routers/compliance.py, beside calls that complete:     *)
(* GET compliance-runs/{run_id} reads the run and its violations in two    *)
(* statements, each with a snapshot of its own; GET violations lists a     *)
(* driver's violations in pages, which a client asks for one by one with   *)
(* the cursor of the page before. Violation ids are random, so a new row   *)
(* may sort anywhere.                                                      *)
(*                                                                         *)
(* One client reads, one thing at a time; reads do not disturb each other. *)
(* What completes is taken from RunLedger, which ComplianceRuns implements.*)
(***************************************************************************)
EXTENDS Integers, FiniteSets, FiniteSetsExt

CONSTANTS
    Ids,            \* bound: the violation ids that will be drawn, in their order
    Outcomes,       \* the calls that will complete: [row, finds, delivery]
    Gets,           \* requests for a run: [run, driver]
    Malformed,      \* an id that is no UUID
    Types,          \* violation_type_enum
    Severities,     \* violation_severity_enum
    Listings,       \* requests: [driver, type, severity, limit]
    DefaultLimit,   \* 20 in the code
    MaxLimit,       \* 100 in the code
    Absent          \* an absent filter or cursor

ASSUME IdsAssumption == Ids \subseteq Nat \ {0}
ASSUME EnumsAssumption == IsFiniteSet(Types) /\ IsFiniteSet(Severities)
ASSUME OutcomesAssumption ==
    \A o \in Outcomes :
        /\ IsFiniteSet(o.finds)
        /\ \A e \in o.finds : e.type \in Types /\ e.severity \in Severities
        /\ o.row = [run |-> o.row.run, driver |-> o.row.driver, kind |-> o.row.kind,
                    from |-> o.row.from, to |-> o.row.to, status |-> o.row.status,
                    found |-> o.row.found]
ASSUME LimitAssumption ==
    /\ DefaultLimit \in Nat \ {0} /\ MaxLimit \in Nat /\ DefaultLimit <= MaxLimit
    /\ \A q \in Listings : q.limit \in Int
ASSUME AbsentAssumption == Absent \notin Types \cup Severities /\ Absent \notin Ids

VARIABLES
    runs, violations,   \* the committed tables
    pending,            \* the outcomes that are still to complete
    used,               \* ids drawn so far
    get,                \* the GET of a run in progress
    view,               \* the answer of the last one
    listing,            \* the client's listing; listed and inOrder are history
    grown, shrunk,      \* history: runs a second delivery added to, a reprocess took from
    steady,             \* history: rows to be listed, there since the listing began
    vanished            \* history: has a row been deleted since the last page?

tables == <<runs, violations, pending, used, grown, shrunk>>
vars   == <<tables, get, view, listing, steady, vanished>>

Ledger == INSTANCE RunLedger WITH runs <- runs, violations <- violations

NoRequest == CHOOSE q \in Gets : TRUE
NoGet     == [pc |-> "idle", request |-> NoRequest, row |-> {}]
NoView    == [request |-> NoRequest, status |-> 0, row |-> {}, summary |-> <<>>]
NoPage    == [pc |-> "over", status |-> 0, cursor |-> Absent, more |-> FALSE,
              page |-> {}, listed |-> {}, inOrder |-> TRUE, request |-> CHOOSE q \in Listings : TRUE]

Init ==
    /\ runs = {} /\ violations = {} /\ pending = Outcomes /\ used = {}
    /\ get = NoGet /\ view = NoView
    /\ listing = NoPage
    /\ grown = {} /\ shrunk = {} /\ steady = {} /\ vanished = FALSE

-----------------------------------------------------------------------------
(* A call commits: its violations get ids that nobody can foresee, and a   *)
(* reprocess deletes, of what it may replace, what its DELETE has seen. A  *)
(* second delivery has counted, with its own, some or all of what its run  *)
(* had when it looked.                                                     *)
NewRows(o, f) ==
    {[id |-> f[e], run |-> o.row.run, driver |-> o.row.driver, excess |-> e] : e \in o.finds}

CompleteRun(o) ==
    /\ o \in pending
    /\ \E f \in [o.finds -> Ids \ used],
          gone \in SUBSET (IF o.row.kind = "reprocess" THEN Ledger!Replaceable(o.row) ELSE {}) :
         LET new  == NewRows(o, f)
             most == IF o.row.run \in shrunk THEN Cardinality(used) ELSE
                     Cardinality(Ledger!ViolationsOf(o.row.run, violations))
         IN  /\ IsInjective(f)
             /\ \E n \in Cardinality(new)..(Cardinality(new) + most) :
                   Ledger!Complete([o.row EXCEPT !.found = n], gone, new)
             /\ used' = used \cup {v.id : v \in new}
             /\ grown' = IF Ledger!Known(o.row.run) THEN grown \cup {o.row.run} ELSE grown
             /\ shrunk' = shrunk \cup {v.run : v \in gone}
             /\ steady' = steady \ gone
             /\ vanished' = (listing.pc = "page" /\ (vanished \/ gone # {}))
    /\ pending' = pending \ {o}
    /\ UNCHANGED <<get, view, listing>>

-----------------------------------------------------------------------------
(* GET compliance-runs/{run_id} *)

ForgetListing == listing' = NoPage /\ steady' = {} /\ vanished' = FALSE

Answer(q, status, row, summary) ==
    /\ view' = [request |-> q, status |-> status, row |-> row, summary |-> summary]
    /\ get' = NoGet
    /\ UNCHANGED tables
    /\ ForgetListing

RunRow(q) == {r \in runs : r.run = q.run /\ r.driver = q.driver}

SelectRun(q) ==
    /\ get.pc = "idle" /\ listing.pc = "over"
    /\ CASE Malformed \in {q.run, q.driver} -> Answer(q, 400, {}, <<>>)
         [] OTHER ->
              IF RunRow(q) = {}
              THEN Answer(q, 404, {}, <<>>)
              ELSE /\ get' = [pc |-> "summary", request |-> q, row |-> RunRow(q)]
                   /\ view' = NoView
                   /\ ForgetListing
                   /\ UNCHANGED tables

(* The groups of the second statement. *)
Group(id, type, severity) ==
    {v \in Ledger!ViolationsOf(id, violations) :
        v.excess.type = type /\ v.excess.severity = severity}

(* Mutant: the group that comes last gives a type its count. *)
TypeCount_Last(breakdown) ==
    IF breakdown["HIGH"] > 0 THEN breakdown["HIGH"] ELSE breakdown["CRITICAL"]

TypeCount(breakdown) == FoldFunction(+, 0, breakdown)

Summary(id) ==
    [type \in Types |->
        LET breakdown == [s \in Severities |-> Cardinality(Group(id, type, s))]
        IN  [count |-> TypeCount(breakdown), breakdown |-> breakdown]]

SelectViolations ==
    /\ get.pc = "summary"
    /\ Answer(get.request, 200, get.row, Summary(get.request.run))

(* No connection in time, or an error of the database in either statement. *)
GetFails(q) ==
    /\ \/ get.pc = "idle" /\ listing.pc = "over" /\ Malformed \notin {q.run, q.driver}
       \/ get.pc = "summary" /\ get.request = q
    /\ Answer(q, 500, {}, <<>>)

-----------------------------------------------------------------------------
(* GET violations *)

Clamp(limit) == IF limit < 1 \/ limit > MaxLimit THEN DefaultLimit ELSE limit

Matches(v, q) ==
    /\ v.driver = q.driver
    /\ q.type # Absent => v.excess.type = q.type
    /\ q.severity # Absent => v.excess.severity = q.severity

(* Mutant: the cursor's own row once more. *)
Beyond_Inclusive(v, cursor) == cursor # Absent => v.id >= cursor

Beyond(v, cursor) == cursor # Absent => v.id > cursor

(* Mutant: LIMIT without the one row more. *)
FetchLimit_Exact(limit) == Clamp(limit)

FetchLimit(limit) == Clamp(limit) + 1

(* ORDER BY violation_id LIMIT n: a page is the set of its rows, which    *)
(* their ids order.                                                        *)
FirstRows(n, S) == {v \in S : Cardinality({w \in S : w.id < v.id}) < n}

(* Mutant: a full page is taken to have a successor. *)
HasMore_Full(rows, limit) == Cardinality(rows) >= Clamp(limit)

HasMore(rows, limit) == Cardinality(rows) > Clamp(limit)

LastId(page) == Max({v.id : v \in page})

(* A client begins a listing, with no cursor. *)
BeginListing(q) ==
    /\ get.pc = "idle" /\ listing.pc = "over"
    /\ view' = NoView
    /\ vanished' = FALSE
    /\ listing' = [NoPage EXCEPT !.pc = "page", !.request = q]
    /\ steady' = {v \in violations : Matches(v, q)}
    /\ UNCHANGED <<tables, get>>

(* The page lies beyond all that was listed before. *)
Follows(page, listed) == \A v \in page, w \in listed : w.id < v.id

(* It asks for one more page, for as long as there is more. An answer that *)
(* is lost, or a 500 from the database, leaves it where it is.             *)
FetchPage ==
    LET q    == listing.request
        rows == FirstRows(FetchLimit(q.limit),
                          {v \in violations : Matches(v, q) /\ Beyond(v, listing.cursor)})
        more == HasMore(rows, q.limit)
        page == FirstRows(Clamp(q.limit), rows)
    IN  /\ listing.pc = "page"
        /\ q.driver # Malformed
        /\ {q.type, q.severity} \subseteq Types \cup Severities \cup {Absent}
        /\ listing' = [pc |-> IF more THEN "page" ELSE "over", status |-> 200,
                       cursor |-> IF more THEN LastId(page) ELSE Absent, more |-> more,
                       page |-> page, listed |-> listing.listed \cup page,
                       inOrder |-> listing.inOrder /\ Follows(page, listing.listed),
                       request |-> q]
        /\ vanished' = FALSE
        /\ UNCHANGED <<tables, get, view, steady>>

(* 400 for a driver id that is no UUID, 500 for a filter that is no member *)
(* of its enum.                                                            *)
RefuseListing ==
    LET q == listing.request
    IN  /\ listing.pc = "page"
        /\ \/ /\ q.driver = Malformed
              /\ listing' = [listing EXCEPT !.pc = "over", !.status = 400]
           \/ /\ q.driver # Malformed
              /\ ~({q.type, q.severity} \subseteq Types \cup Severities \cup {Absent})
              /\ listing' = [listing EXCEPT !.pc = "over", !.status = 500]
        /\ UNCHANGED <<tables, get, view, steady, vanished>>

-----------------------------------------------------------------------------
Next ==
    \/ \E o \in Outcomes : CompleteRun(o)
    \/ \E q \in Gets : SelectRun(q) \/ GetFails(q)
    \/ SelectViolations
    \/ \E q \in Listings : BeginListing(q)
    \/ FetchPage
    \/ RefuseListing

Spec == Init /\ [][Next]_vars

(* The client asks for the next page, and is answered. *)
FairSpec == Spec /\ WF_vars(FetchPage \/ RefuseListing)

-----------------------------------------------------------------------------
TypeOK ==
    /\ pending \subseteq Outcomes /\ used \subseteq Ids
    /\ \A v \in violations : v.id \in used
    /\ \A v, w \in violations : v.id = w.id => v = w
    /\ get.pc \in {"idle", "summary"}
    /\ view.status \in {0, 200, 400, 404, 500}
    /\ listing.pc \in {"page", "over"} /\ listing.cursor \in Ids \cup {Absent}
    /\ Cardinality(listing.page) <= MaxLimit
    /\ steady \subseteq violations

(* violations_found and the breakdown come from two snapshots, and yet     *)
(* they differ only for a cause: the breakdown falls short of the number   *)
(* when a reprocess has deleted violations of the run, and exceeds it when *)
(* a check was delivered again. The groups of a type add up to its count.  *)
BreakdownAddsUp ==
    view.status = 200 =>
        LET total == FoldFunction(LAMBDA x, n : x.count + n, 0, view.summary)
        IN  \A r \in view.row :
                /\ total < r.found => r.run \in shrunk
                /\ total > r.found => r.run \in grown
                /\ \A type \in Types :
                     view.summary[type].count = FoldFunction(+, 0, view.summary[type].breakdown)

(* However rows come and go between two pages, a listing shows each row    *)
(* once, in the order of ids, and only rows that match its filter.         *)
ListedOnce ==
    listing.inOrder /\ \A v \in listing.listed : Matches(v, listing.request)

(* A row that is in the table from the first page to the last is listed.   *)
NothingMissed ==
    listing.pc = "over" /\ listing.status = 200 =>
        steady \subseteq listing.listed

(* has_more and next_cursor are kept: a page that promises more has rows   *)
(* and a cursor beyond the one before, so that no client is sent round in  *)
(* a circle, and the next page is empty only if a deletion intervened.     *)
MoreMeansMore ==
    [][FetchPage =>
          /\ listing.more /\ listing'.page = {} => vanished
          /\ listing'.more =>
               /\ listing'.page # {}
               /\ listing.cursor # Absent => listing.cursor < listing'.cursor]_vars

(* Every listing comes to its last page, as the cursor moves on.           *)
ListingEnds == listing.pc = "page" ~> listing.pc = "over"
=============================================================================
