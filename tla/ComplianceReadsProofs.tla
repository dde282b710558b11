----------------------- MODULE ComplianceReadsProofs ------------------------
(***************************************************************************)
(* Proofs about the two reads of ComplianceReads, for any number of calls, *)
(* violations, filters and limits.                                         *)
(*                                                                         *)
(* First what a page is: the rows up to its last one, as many as the limit *)
(* says or all there are (Pages). Then that the cursor divides the rows    *)
(* that were there throughout into those listed and those to come (LInv).  *)
(*                                                                         *)
(* At the end what a GET of a run shows: the groups add up to the number   *)
(* of violations (TotalIs, from the sums of DrivingRulesProofs), and where *)
(* that is not the number in the run's row there is a cause (CountsSound). *)
(***************************************************************************)
EXTENDS ComplianceReads, DrivingRulesProofs

-----------------------------------------------------------------------------
(* Rows and their ids.                                                     *)

(* S is a finite set of rows, each with an id of its own. *)
Keyed(S) ==
    /\ IsFiniteSet(S)
    /\ \A v \in S : v.id \in Nat
    /\ \A v, w \in S : v.id = w.id => v = w

Below(v, S) == {w \in S : w.id < v.id}

(* A set of rows has a first and a last one: a smallest set without one    *)
(* would have a row that can be taken out.                                 *)
LEMMA FirstAndLast ==
    ASSUME NEW S, Keyed(S), S # {}
    PROVE  /\ \E v \in S : \A w \in S : v.id <= w.id
           /\ \E v \in S : \A w \in S : w.id <= v.id
<1> DEFINE Ends(X) == /\ \E v \in X : \A w \in X : v.id <= w.id
                      /\ \E v \in X : \A w \in X : w.id <= v.id
           Bad == {X \in SUBSET S : X # {} /\ ~Ends(X)}
           R == StrictSubsetOrdering(S)
<1>1. SUFFICES ASSUME Bad # {} PROVE FALSE
  <2>1. S \in SUBSET S  OBVIOUS
  <2> QED BY <2>1
<1>2. IsWellFoundedOn(R, SUBSET S)
  BY FS_StrictSubsetOrderingWellFounded, FS_FiniteSubsetsOfFinite DEF Keyed
<1>3. Bad \subseteq SUBSET S  OBVIOUS
<1>4. PICK X \in Bad : \A Y \in Bad : ~(<<Y, X>> \in R)
  <2> HIDE DEF Bad, R
  <2> QED BY <1>1, <1>2, <1>3, WFMin
<1>5. X \subseteq S /\ X # {} /\ ~Ends(X)  OBVIOUS
<1>6. PICK x \in X : TRUE  BY <1>5
<1>7. \A v \in X : v.id \in Nat  BY <1>5 DEF Keyed
<1>8. X \ {x} # {}
  <2>1. SUFFICES ASSUME X = {x} PROVE Ends(X)  BY <1>5, <1>6
  <2> QED BY <2>1, <1>6, <1>7
<1>9. Ends(X \ {x})
  <2>1. <<X \ {x}, X>> \in R  BY <1>5, <1>6 DEF StrictSubsetOrdering
  <2>2. X \ {x} \notin Bad  BY <2>1, <1>4
  <2> QED BY <2>2, <1>5, <1>8
<1>10. PICK a \in X \ {x}, b \in X \ {x} :
          \A w \in X \ {x} : a.id <= w.id /\ w.id <= b.id
  BY <1>9
<1>11. \E v \in X : \A w \in X : v.id <= w.id
  <2>1. CASE a.id <= x.id  BY <2>1, <1>7, <1>10
  <2>2. CASE ~(a.id <= x.id)  BY <2>2, <1>6, <1>7, <1>10
  <2> QED BY <2>1, <2>2
<1>12. \E v \in X : \A w \in X : w.id <= v.id
  <2>1. CASE x.id <= b.id  BY <2>1, <1>7, <1>10
  <2>2. CASE ~(x.id <= b.id)  BY <2>2, <1>6, <1>7, <1>10
  <2> QED BY <2>1, <2>2
<1> QED BY <1>5, <1>11, <1>12

(* A part of a set of rows is one. *)
LEMMA KeyedPart ==
    ASSUME NEW S, Keyed(S), NEW T \in SUBSET S
    PROVE  Keyed(T) /\ Cardinality(T) \in Nat /\ Cardinality(T) <= Cardinality(S)
BY FS_Subset, FS_CardinalityType DEF Keyed

(* The first n rows come before all others. *)
LEMMA FirstRowsFirst ==
    ASSUME NEW S, Keyed(S), NEW n \in Nat, NEW v \in FirstRows(n, S), NEW w \in S, w.id <= v.id
    PROVE  w \in FirstRows(n, S)
<1>1. Below(w, S) \subseteq Below(v, S)  BY DEF Below, Keyed, FirstRows
<1>2. Keyed(Below(v, S))  BY KeyedPart DEF Below
<1>3. Cardinality(Below(w, S)) <= Cardinality(Below(v, S)) BY <1>1, <1>2, KeyedPart
<1>4. Cardinality(Below(w, S)) \in Nat /\ Cardinality(Below(v, S)) \in Nat
  BY KeyedPart DEF Below
<1> QED BY <1>3, <1>4 DEF FirstRows, Below

(* They are n at most.                                                     *)
LEMMA FirstRowsBounded ==
    ASSUME NEW S, Keyed(S), NEW n \in Nat
    PROVE  Keyed(FirstRows(n, S)) /\ Cardinality(FirstRows(n, S)) \in 0..n
<1> DEFINE F == FirstRows(n, S)
<1>1. F \in SUBSET S  BY DEF FirstRows
<1>2. Keyed(F) /\ Cardinality(F) \in Nat  BY <1>1, KeyedPart
<1>3. CASE F = {}  BY <1>2, <1>3, FS_EmptySet
<1>4. CASE F # {}
  <2>1. PICK v \in F : \A w \in F : w.id <= v.id  BY <1>2, <1>4, FirstAndLast
  <2>2. F \ {v} \subseteq Below(v, S)  BY <1>1, <2>1 DEF Keyed, Below
  <2>3. Keyed(Below(v, S)) /\ Cardinality(Below(v, S)) \in Nat  BY KeyedPart DEF Below
  <2>4. Cardinality(F \ {v}) <= Cardinality(Below(v, S))  BY <2>2, <2>3, KeyedPart
  <2>5. Cardinality(F \ {v}) = Cardinality(F) - 1  BY <1>2, FS_RemoveElement DEF Keyed
  <2>6. Cardinality(Below(v, S)) < n  BY DEF FirstRows, Below
  <2> QED BY <1>2, <2>3, <2>4, <2>5, <2>6
<1> QED BY <1>3, <1>4

(* If they are fewer than n, there are no others.                          *)
LEMMA FirstRowsAll ==
    ASSUME NEW S, Keyed(S), NEW n \in Nat, Cardinality(FirstRows(n, S)) < n
    PROVE  FirstRows(n, S) = S
<1> DEFINE F == FirstRows(n, S)
<1>1. F \in SUBSET S  BY DEF FirstRows
<1>2. SUFFICES ASSUME S \ F # {} PROVE FALSE  BY <1>1
<1>3. PICK v \in S \ F : \A w \in S \ F : v.id <= w.id
  <2>1. Keyed(S \ F)  BY KeyedPart
  <2> QED BY <1>2, <2>1, FirstAndLast
<1>4. Below(v, S) \subseteq F  BY <1>3 DEF Below, Keyed
<1>5. Cardinality(Below(v, S)) <= Cardinality(F) /\ Cardinality(Below(v, S)) \in Nat
      /\ Cardinality(F) \in Nat
  BY <1>1, <1>4, KeyedPart DEF Below
<1>6. Cardinality(Below(v, S)) < n  BY <1>5
<1> QED BY <1>3, <1>6 DEF FirstRows, Below

(* A page of n rows, taken from n + 1: all there are if the one more is    *)
(* missing, and otherwise all up to some row, with others behind it.       *)
LEMMA Pages ==
    ASSUME NEW S, Keyed(S), NEW n \in Nat \ {0}
    PROVE  LET rows == FirstRows(n + 1, S)
               page == FirstRows(n, rows)
           IN  /\ page \subseteq S /\ Keyed(page)
               /\ Cardinality(page) <= n
               /\ Cardinality(rows) > n =>
                    /\ \E v \in page : v.id = LastId(page)
                    /\ \A v \in page : v.id <= LastId(page)
                    /\ \A v \in S \ page : v.id > LastId(page)
                    /\ S \ page # {}
               /\ ~(Cardinality(rows) > n) => page = S
<1> DEFINE rows == FirstRows(n + 1, S)
           page == FirstRows(n, rows)
<1>1. Keyed(rows) /\ Cardinality(rows) \in 0..n + 1 /\ rows \subseteq S
  BY FirstRowsBounded DEF FirstRows
<1>2. Keyed(page) /\ Cardinality(page) \in 0..n /\ page \subseteq rows
  BY <1>1, FirstRowsBounded DEF FirstRows
<1>3. ASSUME ~(Cardinality(rows) > n) PROVE page = S
  <2>1. rows = S  BY <1>1, <1>3, FirstRowsAll
  <2>2. CASE Cardinality(page) < n  BY <1>1, <2>1, <2>2, FirstRowsAll
  <2>3. CASE Cardinality(page) = n
    <3>1. Cardinality(page) <= Cardinality(rows)  BY <1>1, <1>2, KeyedPart
    <3>2. Cardinality(page) = Cardinality(rows)  BY <1>1, <1>2, <1>3, <2>3, <3>1
    <3>3. page = rows  BY <1>1, <1>2, <3>2, FS_Subset DEF Keyed
    <3> QED BY <2>1, <3>3
  <2> QED BY <1>2, <2>2, <2>3
<1>4. ASSUME Cardinality(rows) > n
      PROVE  /\ \E v \in page : v.id = LastId(page)
             /\ \A v \in page : v.id <= LastId(page)
             /\ \A v \in S \ page : v.id > LastId(page)
             /\ S \ page # {}
  <2>1. page # {}
    <3>1. SUFFICES ASSUME page = {} PROVE FALSE  OBVIOUS
    <3>2. Cardinality(page) = 0  BY <3>1, FS_EmptySet
    <3>3. page = rows  BY <1>1, <3>2, FirstRowsAll
    <3> QED BY <1>4, <3>2, <3>3
  <2>2. PICK m \in page : \A w \in page : w.id <= m.id  BY <1>2, <2>1, FirstAndLast
  <2>3. LastId(page) = m.id
    <3> DEFINE I == {v.id : v \in page}
    <3>1. I \subseteq Nat /\ m.id \in I /\ \A i \in I : m.id >= i  BY <1>2, <2>2 DEF Keyed
    <3>2. \A j \in I : (\A i \in I : j >= i) => j = m.id
      <4> HIDE DEF I
      <4>1. SUFFICES ASSUME NEW j \in I, \A i \in I : j >= i PROVE j = m.id  OBVIOUS
      <4>2. j \in Nat /\ m.id \in Nat /\ j >= m.id /\ m.id >= j  BY <3>1, <4>1
      <4> QED BY <4>2
    <3>3. LastId(page) = CHOOSE j \in I : \A i \in I : j >= i  BY DEF LastId, Max
    <3> QED BY <3>1, <3>2, <3>3
  <2>4. ASSUME NEW v \in S \ page PROVE v.id > m.id
    <3>1. v.id \in Nat /\ m.id \in Nat  BY <1>2 DEF Keyed
    <3>2. SUFFICES ASSUME v.id <= m.id PROVE FALSE  BY <3>1
    <3>3. m \in rows  BY <1>2
    <3>4. v \in rows  BY <3>2, <3>3, FirstRowsFirst
    <3>5. v \in page  BY <1>1, <3>2, <3>4, FirstRowsFirst
    <3> QED BY <3>5
  <2>5. S \ page # {}  BY <1>1, <1>2, <1>4
  <2> QED BY <2>2, <2>3, <2>4, <2>5
<1> QED BY <1>1, <1>2, <1>3, <1>4

-----------------------------------------------------------------------------
(* The inductive invariant.                                                *)

TablesSound ==
    /\ pending \subseteq Outcomes
    /\ used \subseteq Ids
    /\ Keyed(violations)
    /\ \A v \in violations : v.id \in used

AnswersSound ==
    /\ get.pc \in {"idle", "summary"}
    /\ view.status \in {0, 200, 400, 404, 500}

(* The rows that the next page is taken from. *)
ToCome ==
    {v \in violations : Matches(v, listing.request) /\ Beyond(v, listing.cursor)}

(* Between two pages the cursor is behind all that was listed, and before  *)
(* what is steady and was not. As long as nothing has vanished, there is   *)
(* more to come if the client was told so.                                 *)
Divided ==
    listing.pc = "page" =>
        /\ listing.request \in Listings
        /\ \A v \in listing.listed :
             listing.cursor # Absent /\ v.id \in Nat /\ v.id <= listing.cursor
        /\ \A v \in steady :
             /\ Matches(v, listing.request)
             /\ v \in listing.listed \/ Beyond(v, listing.cursor)
        /\ listing.more /\ ~vanished => ToCome # {}

ListingSound ==
    /\ listing = [pc |-> listing.pc, status |-> listing.status, cursor |-> listing.cursor,
                  more |-> listing.more, page |-> listing.page, listed |-> listing.listed,
                  inOrder |-> listing.inOrder, request |-> listing.request]
    /\ listing.pc \in {"page", "over"}
    /\ listing.cursor \in Ids \cup {Absent}
    /\ listing.more \in BOOLEAN /\ vanished \in BOOLEAN
    /\ Cardinality(listing.page) <= MaxLimit
    /\ steady \subseteq violations
    /\ ListedOnce
    /\ NothingMissed
    /\ Divided

LInv == TablesSound /\ AnswersSound /\ ListingSound

-----------------------------------------------------------------------------
(* What an action leaves alone.                                            *)

LEMMA TablesUntouched ==
    ASSUME TablesSound, UNCHANGED tables
    PROVE  TablesSound'
BY DEF TablesSound, tables

(* Without a listing there is nothing to keep.                             *)
LEMMA Forgotten == ForgetListing => ListingSound'
<1>1. Cardinality({}) = 0 /\ 0 <= MaxLimit  BY FS_EmptySet, LimitAssumption
<1>2. SUFFICES ASSUME ForgetListing PROVE ListingSound'  OBVIOUS
<1>3. PICK q : NoPage = [pc |-> "over", status |-> 0, cursor |-> Absent, more |-> FALSE,
                         page |-> {}, listed |-> {}, inOrder |-> TRUE, request |-> q]
  BY DEF NoPage
<1>4. listing' = [pc |-> "over", status |-> 0, cursor |-> Absent, more |-> FALSE,
                  page |-> {}, listed |-> {}, inOrder |-> TRUE, request |-> q]
  BY <1>2, <1>3 DEF ForgetListing
<1>5. steady' = {} /\ vanished' = FALSE  BY <1>2 DEF ForgetListing
<1> QED
  BY <1>1, <1>4, <1>5 DEF ListingSound, ListedOnce, NothingMissed, Divided

LEMMA AnswerKeeps ==
    ASSUME LInv, NEW q, NEW status \in {200, 400, 404, 500}, NEW row, NEW summary,
           Answer(q, status, row, summary)
    PROVE  LInv'
<1>1. TablesSound'  BY TablesUntouched DEF LInv, Answer
<1>2. ListingSound'  BY Forgotten DEF Answer
<1>3. AnswersSound'  BY DEF Answer, AnswersSound, NoGet
<1> QED BY <1>1, <1>2, <1>3 DEF LInv

(* The two statements of a GET.                                            *)
LEMMA SelectRunKeeps == ASSUME LInv, NEW q \in Gets, SelectRun(q) PROVE LInv'
<1>1. CASE Malformed \in {q.run, q.driver}
  BY <1>1, AnswerKeeps DEF SelectRun
<1>2. CASE ~(Malformed \in {q.run, q.driver}) /\ RunRow(q) = {}
  BY <1>2, AnswerKeeps DEF SelectRun
<1>3. CASE ~(Malformed \in {q.run, q.driver}) /\ RunRow(q) # {}
  <2>1. /\ get' = [pc |-> "summary", request |-> q, row |-> RunRow(q)]
        /\ view' = NoView
        /\ ForgetListing
        /\ UNCHANGED tables
    BY <1>3 DEF SelectRun
  <2>2. TablesSound'  BY <2>1, TablesUntouched DEF LInv
  <2>3. ListingSound'  BY <2>1, Forgotten
  <2>4. AnswersSound'  BY <2>1 DEF AnswersSound, NoView
  <2> QED BY <2>2, <2>3, <2>4 DEF LInv
<1> QED BY <1>1, <1>2, <1>3

(* A listing begins with all that matches its filter.                      *)
LEMMA BeginKeeps == ASSUME LInv, NEW q \in Listings, BeginListing(q) PROVE LInv'
<1>1. TablesSound'  BY TablesUntouched DEF LInv, BeginListing
<1>2. AnswersSound'  BY DEF LInv, BeginListing, AnswersSound, NoView
<1>3. listing' = [pc |-> "page", status |-> 0, cursor |-> Absent, more |-> FALSE,
                  page |-> {}, listed |-> {}, inOrder |-> TRUE, request |-> q]
  BY DEF BeginListing, NoPage
<1>4. steady' = {v \in violations : Matches(v, q)} /\ vanished' = FALSE /\ violations' = violations
  BY DEF BeginListing, tables
<1>5. Cardinality({}) = 0 /\ 0 <= MaxLimit  BY FS_EmptySet, LimitAssumption
<1>6. ListingSound'
  BY <1>3, <1>4, <1>5 DEF ListingSound, ListedOnce, NothingMissed, Divided, Beyond, Matches
<1> QED BY <1>1, <1>2, <1>6 DEF LInv

LEMMA RefuseKeeps == ASSUME LInv, RefuseListing PROVE LInv'
<1>1. TablesSound'  BY TablesUntouched DEF LInv, RefuseListing
<1>2. AnswersSound'  BY DEF LInv, RefuseListing, AnswersSound
<1>3. /\ \E n \in {400, 500} : listing' = [listing EXCEPT !.pc = "over", !.status = n]
      /\ UNCHANGED <<violations, steady, vanished>>
  BY DEF RefuseListing, tables
<1>4. \E n \in {400, 500} :
         listing' = [pc |-> "over", status |-> n, cursor |-> listing.cursor,
                     more |-> listing.more, page |-> listing.page, listed |-> listing.listed,
                     inOrder |-> listing.inOrder, request |-> listing.request]
  <2>1. listing = [pc |-> listing.pc, status |-> listing.status, cursor |-> listing.cursor,
                  more |-> listing.more, page |-> listing.page, listed |-> listing.listed,
                  inOrder |-> listing.inOrder, request |-> listing.request]
    BY DEF LInv, ListingSound
  <2>2. PICK n \in {400, 500} : listing' = [listing EXCEPT !.pc = "over", !.status = n]
    BY <1>3
  <2>3. listing' = [pc |-> "over", status |-> n, cursor |-> listing.cursor,
                     more |-> listing.more, page |-> listing.page, listed |-> listing.listed,
                     inOrder |-> listing.inOrder, request |-> listing.request]
    BY <2>1, <2>2
  <2> QED BY <2>3
<1>5. ListedOnce' /\ NothingMissed' /\ Divided'
  BY <1>4 DEF LInv, ListingSound, ListedOnce, NothingMissed, Divided, Matches
<1>6. ListingSound'
  <2>1. /\ listing'.pc = "over" /\ listing'.cursor = listing.cursor
        /\ listing'.more = listing.more /\ listing'.page = listing.page
        /\ listing' = [pc |-> listing'.pc, status |-> listing'.status,
                       cursor |-> listing'.cursor, more |-> listing'.more,
                       page |-> listing'.page, listed |-> listing'.listed,
                       inOrder |-> listing'.inOrder, request |-> listing'.request]
    BY <1>4
  <2> QED BY <1>3, <1>5, <2>1 DEF LInv, ListingSound
<1> QED BY <1>1, <1>2, <1>6 DEF LInv

-----------------------------------------------------------------------------
(* A call completes: new rows with new ids, in the place of some old ones. *)
LEMMA Completing ==
    ASSUME TablesSound, NEW o \in Outcomes, CompleteRun(o)
    PROVE  \E gone, fresh :
             /\ gone \subseteq violations /\ Keyed(fresh)
             /\ \A v \in fresh : v.id \in Ids \ used
             /\ violations' = (violations \ gone) \cup fresh
             /\ used' = used \cup {v.id : v \in fresh}
             /\ steady' = steady \ gone
             /\ vanished' = (listing.pc = "page" /\ (vanished \/ gone # {}))
<1>1. PICK f \in [o.finds -> Ids \ used],
           Gone \in SUBSET (IF o.row.kind = "reprocess" THEN Ledger!Replaceable(o.row) ELSE {}) :
        /\ IsInjective(f)
        /\ \E n : Ledger!Complete([o.row EXCEPT !.found = n], Gone, NewRows(o, f))
        /\ used' = used \cup {v.id : v \in NewRows(o, f)}
        /\ steady' = steady \ Gone
        /\ vanished' = (listing.pc = "page" /\ (vanished \/ Gone # {}))
  BY DEF CompleteRun
<1> DEFINE fresh == NewRows(o, f)
<1>2. Gone \in SUBSET violations  BY DEF Ledger!Replaceable
<1>3. violations' = (violations \ Gone) \cup fresh
  BY <1>1 DEF Ledger!Complete, Ledger!Appear, Ledger!AddTo
<1>4. Keyed(fresh) /\ \A v \in fresh : v.id \in Ids \ used
  <2> DEFINE g == [e \in o.finds |-> [id |-> f[e], run |-> o.row.run,
                                     driver |-> o.row.driver, excess |-> e]]
  <2>1. fresh = {g[e] : e \in o.finds}  BY DEF NewRows
  <2>2. g \in Surjection(o.finds, fresh)  BY <2>1 DEF Surjection
  <2>3. IsFiniteSet(fresh)  BY <2>2, FS_Surjection, OutcomesAssumption
  <2>4. \A v \in fresh : \E e \in o.finds : v = g[e] /\ v.id = f[e]  BY <2>1
  <2>5. \A v \in fresh : v.id \in Ids \ used  BY <2>4
  <2>6. \A d, e \in o.finds : f[d] = f[e] => d = e  BY <1>1 DEF IsInjective
  <2>7. \A v, w \in fresh : v.id = w.id => v = w
    <3> HIDE DEF fresh, g
    <3> QED BY <2>4, <2>6
  <2> QED BY <2>3, <2>5, <2>7, IdsAssumption DEF Keyed
<1> QED BY <1>1, <1>2, <1>3, <1>4

LEMMA CompleteKeeps == ASSUME LInv, NEW o \in Outcomes, CompleteRun(o) PROVE LInv'
<1>1. PICK gone, fresh :
        /\ gone \subseteq violations /\ Keyed(fresh)
        /\ \A v \in fresh : v.id \in Ids \ used
        /\ violations' = (violations \ gone) \cup fresh
        /\ used' = used \cup {v.id : v \in fresh}
        /\ steady' = steady \ gone
        /\ vanished' = (listing.pc = "page" /\ (vanished \/ gone # {}))
  BY Completing DEF LInv
<1>2. UNCHANGED <<get, view, listing>> /\ pending' \subseteq Outcomes
  BY DEF LInv, TablesSound, CompleteRun
<1>3. TablesSound'
  <2>1. Keyed(violations \ gone)  BY KeyedPart DEF LInv, TablesSound
  <2>2. IsFiniteSet(violations')  BY <1>1, <2>1, FS_Union DEF Keyed
  <2>3. Keyed(violations')  BY <1>1, <2>1, <2>2 DEF Keyed, LInv, TablesSound
  <2> QED BY <1>1, <1>2, <2>3 DEF LInv, TablesSound
<1>4. AnswersSound'  BY <1>2 DEF LInv, AnswersSound
<1>5. ListingSound'
  <2>1. steady' \subseteq violations' /\ steady' \subseteq steady
    BY <1>1 DEF LInv, ListingSound
  <2>2. Divided'
    <3>1. ASSUME listing.pc = "page", listing.more, ~vanished' PROVE ToCome' # {}
      <4>1. ~vanished /\ gone = {}  BY <1>1, <3>1
      <4>2. ToCome # {}  BY <3>1, <4>1 DEF LInv, ListingSound, Divided
      <4>3. violations \subseteq violations'  BY <1>1, <4>1
      <4> QED BY <1>2, <4>2, <4>3 DEF ToCome, Matches, Beyond
    <3> QED BY <1>2, <2>1, <3>1 DEF LInv, ListingSound, Divided, Matches, Beyond
  <2>3. ListedOnce' /\ NothingMissed'
    BY <1>2, <2>1 DEF LInv, ListingSound, ListedOnce, NothingMissed, Matches
  <2>4. vanished' \in BOOLEAN  BY <1>1
  <2> QED BY <1>2, <2>1, <2>2, <2>3, <2>4 DEF LInv, ListingSound
<1> QED BY <1>3, <1>4, <1>5 DEF LInv

-----------------------------------------------------------------------------
(* A page.                                                                 *)

LEMMA ClampIs == \A q \in Listings : Clamp(q.limit) \in Nat \ {0} /\ Clamp(q.limit) <= MaxLimit
BY LimitAssumption DEF Clamp

(* The page comes from the rows beyond the cursor, and moves it on.        *)
Fetched(page, more, cursor) ==
    /\ listing' = [pc |-> IF more THEN "page" ELSE "over", status |-> 200, cursor |-> cursor,
                   more |-> more, page |-> page, listed |-> listing.listed \cup page,
                   inOrder |-> listing.inOrder /\ Follows(page, listing.listed),
                   request |-> listing.request]
    /\ Cardinality(page) <= MaxLimit
    /\ more => /\ cursor # Absent
               /\ \A v \in page : v.id <= cursor
               /\ \A v \in ToCome \ page : v.id > cursor
               /\ ToCome \ page # {}
    /\ ~more => page = ToCome
    /\ ToCome # {} => page # {}

LEMMA FetchMoves ==
    ASSUME LInv, FetchPage
    PROVE  \E page \in SUBSET ToCome, more \in BOOLEAN, cursor \in Ids \cup {Absent} :
             Fetched(page, more, cursor)
<1> DEFINE n == Clamp(listing.request.limit)
           rows == FirstRows(n + 1, ToCome)
           page == FirstRows(n, rows)
           more == Cardinality(rows) > n
           cursor == IF more THEN LastId(page) ELSE Absent
<1>1. listing.request \in Listings  BY DEF LInv, ListingSound, Divided, FetchPage
<1>2. n \in Nat \ {0} /\ n <= MaxLimit /\ MaxLimit \in Nat  BY <1>1, ClampIs, LimitAssumption
<1>3. Keyed(ToCome)  BY KeyedPart DEF LInv, TablesSound, ToCome
<1>4. /\ page \subseteq ToCome /\ Keyed(page)
      /\ Cardinality(page) <= n
      /\ more => /\ \E v \in page : v.id = LastId(page)
                 /\ \A v \in page : v.id <= LastId(page)
                 /\ \A v \in ToCome \ page : v.id > LastId(page)
                 /\ ToCome \ page # {}
      /\ ~more => page = ToCome
  BY <1>2, <1>3, Pages
<1>5. listing' = [pc |-> IF more THEN "page" ELSE "over", status |-> 200, cursor |-> cursor,
                  more |-> more, page |-> page, listed |-> listing.listed \cup page,
                  inOrder |-> listing.inOrder /\ Follows(page, listing.listed),
                  request |-> listing.request]
  BY DEF FetchPage, HasMore, FetchLimit, ToCome
<1>6. cursor \in Ids \cup {Absent} /\ (more => cursor # Absent)
  BY <1>4, AbsentAssumption DEF LInv, TablesSound, ToCome
<1>7. Cardinality(page) \in Nat  BY <1>4, FS_CardinalityType DEF Keyed
<1>8. Cardinality(page) <= MaxLimit  BY <1>2, <1>4, <1>7
<1> HIDE DEF rows, page, n
<1>9. more \in BOOLEAN  OBVIOUS
<1>10. ToCome # {} => page # {}  BY <1>4
<1>11. Fetched(page, more, cursor)
  <2> HIDE DEF cursor, more
  <2>1. more => /\ cursor # Absent /\ ToCome \ page # {}
                /\ \A v \in page : v.id <= cursor
                /\ \A v \in ToCome \ page : v.id > cursor
    BY <1>4, <1>6 DEF cursor, more
  <2>2. ~more => page = ToCome  BY <1>4 DEF more
  <2> QED BY <1>5, <1>8, <1>10, <2>1, <2>2 DEF Fetched, more, cursor
<1>12. page \in SUBSET ToCome  BY <1>4
<1>13. cursor \in Ids \cup {Absent}  BY <1>6
<1> HIDE DEF cursor, more
<1> QED BY <1>9, <1>11, <1>12, <1>13

LEMMA FetchKeeps == ASSUME LInv, FetchPage PROVE LInv'
<1>1. PICK page \in SUBSET ToCome, more \in BOOLEAN, cursor \in Ids \cup {Absent} :
        Fetched(page, more, cursor)
  BY FetchMoves
<1>2. UNCHANGED <<violations, steady>> /\ vanished' = FALSE  BY DEF FetchPage, tables
<1>3. listing.pc = "page"  BY DEF FetchPage
<1>4. TablesSound'  BY TablesUntouched DEF LInv, FetchPage
<1>5. AnswersSound'  BY DEF LInv, FetchPage, AnswersSound
<1> USE DEF Fetched
<1>6. listing' = [pc |-> IF more THEN "page" ELSE "over", status |-> 200, cursor |-> cursor,
                  more |-> more, page |-> page, listed |-> listing.listed \cup page,
                  inOrder |-> listing.inOrder /\ Follows(page, listing.listed),
                  request |-> listing.request]
  BY <1>1
<1>7. \A v \in ToCome : v.id \in Nat /\ Matches(v, listing.request) /\ Beyond(v, listing.cursor)
  BY DEF LInv, TablesSound, Keyed, ToCome
<1>8. Follows(page, listing.listed)
  BY <1>1, <1>3, <1>7, IdsAssumption DEF LInv, ListingSound, Divided, Follows, Beyond
<1>9. ListedOnce'
  <2>1. \A v \in listing.listed \cup page : Matches(v, listing.request)
    BY <1>1, <1>7 DEF LInv, ListingSound, ListedOnce
  <2> QED BY <1>6, <1>8, <2>1 DEF LInv, ListingSound, ListedOnce, Matches
<1>10. \A v \in steady : Matches(v, listing.request) /\ (v \in listing.listed \/ v \in ToCome)
  BY <1>3 DEF LInv, ListingSound, Divided, ToCome
<1>11. NothingMissed'
  BY <1>1, <1>2, <1>6, <1>10 DEF NothingMissed
<1>12. ASSUME more PROVE Divided'
  <2>1. listing.request \in Listings  BY <1>3 DEF LInv, ListingSound, Divided
  <2>2. ASSUME NEW v \in listing.listed \cup page PROVE v.id \in Nat /\ v.id <= cursor
    <3>1. CASE v \in page  BY <1>1, <1>7, <1>12, <3>1
    <3>2. CASE v \in listing.listed
      <4>1. v.id \in Nat /\ listing.cursor # Absent /\ v.id <= listing.cursor
        BY <1>3, <3>2 DEF LInv, ListingSound, Divided
      <4>2. PICK w \in ToCome \ page : TRUE  BY <1>1, <1>12
      <4>3. PICK u \in page : TRUE  BY <1>1, <4>2
      <4>4. u.id \in Nat /\ u.id > listing.cursor /\ u.id <= cursor
        BY <1>1, <1>7, <1>12, <4>1, <4>3 DEF Beyond
      <4>5. cursor \in Nat /\ listing.cursor \in Nat
        BY <1>1, <1>12, <4>1, IdsAssumption DEF LInv, ListingSound
      <4> QED BY <4>1, <4>4, <4>5
    <3> QED BY <3>1, <3>2
  <2>3. ASSUME NEW v \in steady
        PROVE  Matches(v, listing.request) /\ (v \in listing.listed \cup page \/ Beyond(v, cursor))
    BY <1>1, <1>10, <1>12 DEF Beyond
  <2>4. ToCome' # {}
    <3>1. PICK w \in ToCome \ page : TRUE  BY <1>1, <1>12
    <3>2. w \in violations /\ Matches(w, listing.request) /\ Beyond(w, cursor)
      BY <1>1, <1>7, <1>12, <3>1 DEF ToCome, Beyond
    <3> QED BY <1>2, <1>6, <3>2 DEF ToCome, Matches, Beyond
  <2> QED BY <1>1, <1>2, <1>6, <1>12, <2>1, <2>2, <2>3, <2>4 DEF Divided, Matches, Beyond
<1>13. ListingSound'
  <2>1. Divided'
    <3>1. CASE more  BY <1>12, <3>1
    <3>2. CASE ~more  BY <1>6, <3>2 DEF Divided
    <3> QED BY <1>1, <3>1, <3>2
  <2>2. /\ listing' = [pc |-> listing'.pc, status |-> listing'.status,
                       cursor |-> listing'.cursor, more |-> listing'.more,
                       page |-> listing'.page, listed |-> listing'.listed,
                       inOrder |-> listing'.inOrder, request |-> listing'.request]
        /\ listing'.pc \in {"page", "over"}
        /\ listing'.page = page /\ listing'.more = more /\ listing'.cursor = cursor
    BY <1>6
  <2>3. Cardinality(page) <= MaxLimit /\ more \in BOOLEAN /\ cursor \in Ids \cup {Absent}
    BY <1>1
  <2>4. steady' \subseteq violations' /\ vanished' \in BOOLEAN
    BY <1>2 DEF LInv, ListingSound
  <2> QED BY <1>9, <1>11, <2>1, <2>2, <2>3, <2>4 DEF ListingSound
<1> QED BY <1>4, <1>5, <1>13 DEF LInv

-----------------------------------------------------------------------------
LEMMA InitLInv == Init => LInv
<1> SUFFICES ASSUME Init PROVE LInv  OBVIOUS
<1>1. Cardinality({}) = 0 /\ IsFiniteSet({}) /\ 0 <= MaxLimit  BY FS_EmptySet, LimitAssumption
<1>2. TablesSound  BY <1>1 DEF Init, TablesSound, Keyed
<1>3. AnswersSound  BY DEF Init, AnswersSound, NoGet, NoView
<1>4. ListingSound
  BY <1>1 DEF Init, NoPage, ListingSound, ListedOnce, NothingMissed, Divided
<1> QED BY <1>2, <1>3, <1>4 DEF LInv

LEMMA StepLInv == LInv /\ [Next]_vars => LInv'
<1> SUFFICES ASSUME LInv, [Next]_vars PROVE LInv'  OBVIOUS
<1>1. CASE \E o \in Outcomes : CompleteRun(o)  BY <1>1, CompleteKeeps
<1>2. CASE \E q \in Gets : SelectRun(q)  BY <1>2, SelectRunKeeps
<1>3. CASE \E q \in Gets : GetFails(q)  BY <1>3, AnswerKeeps DEF GetFails
<1>4. CASE SelectViolations  BY <1>4, AnswerKeeps DEF SelectViolations
<1>5. CASE \E q \in Listings : BeginListing(q)  BY <1>5, BeginKeeps
<1>6. CASE FetchPage  BY <1>6, FetchKeeps
<1>7. CASE RefuseListing  BY <1>7, RefuseKeeps
<1>8. CASE UNCHANGED vars
  <2>1. TablesSound'  BY <1>8, TablesUntouched DEF LInv, vars
  <2>2. AnswersSound'  BY <1>8 DEF LInv, AnswersSound, vars
  <2>3. ListingSound'
    BY <1>8 DEF LInv, ListingSound, ListedOnce, NothingMissed, Divided, ToCome,
                Matches, Beyond, vars, tables
  <2> QED BY <2>1, <2>2, <2>3 DEF LInv
<1> QED BY <1>1, <1>2, <1>3, <1>4, <1>5, <1>6, <1>7, <1>8 DEF Next

(* LInv holds always. *)
THEOREM Listing == Spec => []LInv
BY InitLInv, StepLInv, PTL DEF Spec

(* Every variable keeps its type; no id is drawn twice, and no page is     *)
(* longer than the code's maximum, whatever limit was asked for.           *)
THEOREM TypeCorrect == Spec => []TypeOK
<1>1. LInv => TypeOK
  BY DEF LInv, TablesSound, AnswersSound, ListingSound, Keyed, TypeOK
<1> QED BY <1>1, Listing, PTL

(* A listing shows each row once, in the order of ids (compliance.py:300). *)
THEOREM EachOnce == Spec => []ListedOnce
<1>1. LInv => ListedOnce  BY DEF LInv, ListingSound
<1> QED BY <1>1, Listing, PTL

(* A row that is there from the first page to the last is listed.          *)
THEOREM NoneMissed == Spec => []NothingMissed
<1>1. LInv => NothingMissed  BY DEF LInv, ListingSound
<1> QED BY <1>1, Listing, PTL

(* A page that promises more has rows and moves the cursor on, and what it *)
(* promises comes, unless a row has been deleted since (list_violations()).*)
THEOREM MoreKept == Spec => MoreMeansMore
<1> DEFINE Kept == listing.more /\ listing'.page = {} => vanished
           MovesOn == listing'.more =>
                        /\ listing'.page # {}
                        /\ listing.cursor # Absent => listing.cursor < listing'.cursor
<1>1. LInv /\ [Next]_vars => [FetchPage => Kept /\ MovesOn]_vars
  <2> SUFFICES ASSUME LInv, FetchPage PROVE Kept /\ MovesOn
    OBVIOUS
  <2>1. PICK page \in SUBSET ToCome, more \in BOOLEAN, cursor \in Ids \cup {Absent} :
          Fetched(page, more, cursor)
    BY FetchMoves
  <2>2. listing'.page = page
    BY <2>1 DEF LInv, ListingSound, Fetched
  <2>3. ASSUME listing.more, ~vanished PROVE listing'.page # {}
    <3>1. ToCome # {}  BY <2>3 DEF LInv, ListingSound, Divided, FetchPage
    <3> QED BY <2>1, <2>2, <3>1 DEF Fetched
  <2>4. ASSUME listing'.more PROVE MovesOn
    <3>1. /\ listing'.cursor = cursor /\ more
          /\ cursor # Absent /\ \A v \in page : v.id <= cursor
          /\ page # {}
      BY <2>1, <2>4 DEF Fetched
    <3>2. PICK v \in page : v \in ToCome  BY <3>1
    <3>3. ASSUME listing.cursor # Absent PROVE listing.cursor < cursor
      <4>1. v.id \in Nat /\ v.id > listing.cursor
        BY <3>2, <3>3 DEF LInv, TablesSound, Keyed, ToCome, Beyond
      <4>2. cursor \in Nat /\ listing.cursor \in Nat
        BY <3>1, <3>3, IdsAssumption DEF LInv, ListingSound
      <4> QED BY <3>1, <3>2, <4>1, <4>2
    <3> QED BY <2>2, <3>1, <3>3
  <2> QED BY <2>3, <2>4
<1> QED BY <1>1, Listing, PTL DEF Spec, MoreMeansMore

-----------------------------------------------------------------------------
(* A run and its breakdown.                                                *)

ViolationsOf(id) == Ledger!ViolationsOf(id, violations)

(* Where a run's count is not the number of its violations, there is a     *)
(* cause.                                                                  *)
Traced(r) ==
    /\ r.found \in Nat
    /\ Cardinality(ViolationsOf(r.run)) < r.found => r.run \in shrunk
    /\ Cardinality(ViolationsOf(r.run)) > r.found => r.run \in grown

(* Also of the row that the first statement has read, some time ago.       *)
CountsSound ==
    /\ IsFiniteSet(used)
    /\ \A v \in violations : /\ Ledger!Known(v.run)
                             /\ v.excess.type \in Types /\ v.excess.severity \in Severities
    /\ \A r \in runs : Traced(r)
    /\ \A r \in get.row : Traced(r) /\ Ledger!Known(r.run) /\ r.run = get.request.run

BInv == LInv /\ CountsSound /\ BreakdownAddsUp

(* What an answer may say, once these runs have grown and those shrunk.    *)
Total(summary) == FoldFunction(LAMBDA x, n : x.count + n, 0, summary)

Explained(answer, more, fewer) ==
    answer.status = 200 =>
        \A r \in answer.row :
            /\ Total(answer.summary) < r.found => r.run \in fewer
            /\ Total(answer.summary) > r.found => r.run \in more
            /\ \A type \in Types :
                 answer.summary[type].count = TypeCount(answer.summary[type].breakdown)

(* BreakdownAddsUp is said of an answer and two sets of runs. *)
LEMMA BreakdownIsNow == BreakdownAddsUp <=> Explained(view, grown, shrunk)
BY Zenon DEF BreakdownAddsUp, Explained, Total, TypeCount

(* ... now, and after a step. *)
LEMMA BreakdownIs ==
    /\ BreakdownAddsUp <=> Explained(view, grown, shrunk)
    /\ BreakdownAddsUp' <=> Explained(view, grown, shrunk)'
BY BreakdownIsNow, PTL

(* The severities of a type add up to its count, as the code adds them.    *)
LEMMA TypeCountIs ==
    ASSUME TablesSound, CountsSound, NEW id, NEW type \in Types
    PROVE  Summary(id)[type].count = Cardinality({v \in ViolationsOf(id) : v.excess.type = type})
<1> DEFINE V == {v \in ViolationsOf(id) : v.excess.type = type}
           b == [s \in Severities |-> Cardinality(Group(id, type, s))]
           k == [v \in V |-> v.excess.severity]
<1>1. Summary(id)[type].count = TypeCount(b)  BY DEF Summary
<1>2. TypeCount(b) = (CHOOSE f : SumOf(b, f, Severities))[Severities]
  <2>1. DOMAIN b = Severities  OBVIOUS
  <2> HIDE DEF b
  <2> QED BY <2>1 DEF TypeCount, FoldFunction, FoldFunctionOnSet, MapThenFoldSet, SumOf, Pick
<1>3. V \subseteq violations /\ IsFiniteSet(V)
  BY FS_Subset DEF ViolationsOf, Ledger!ViolationsOf, TablesSound, Keyed
<1>4. \A v \in V : k[v] \in Severities  BY <1>3 DEF CountsSound
<1>5. \A s \in Severities : b[s] = CountOf(V, k, s)
  <2>1. ASSUME NEW s \in Severities PROVE Group(id, type, s) = {v \in V : k[v] = s}
    BY DEF Group, ViolationsOf
  <2> QED BY <2>1 DEF CountOf
<1> HIDE DEF V, b, k
<1>6. Sum(b, Severities) = Cardinality(V)
  BY <1>3, <1>4, <1>5, EnumsAssumption, SumOfCounts
<1> QED BY <1>1, <1>2, <1>6 DEF Sum, V

(* ... and the types to the number of the run's violations.                *)
LEMMA TotalIs ==
    ASSUME TablesSound, CountsSound, NEW id
    PROVE  Total(Summary(id)) = Cardinality(ViolationsOf(id))
<1> DEFINE V == ViolationsOf(id)
           w == [t \in Types |-> Summary(id)[t].count]
           k == [v \in V |-> v.excess.type]
           Is(f) == f = [X \in SUBSET Types |->
                           IF X = {} THEN 0
                           ELSE Summary(id)[Pick(X)].count + f[X \ {Pick(X)}]]
<1>1. Total(Summary(id)) = (CHOOSE f : Is(f))[Types]
  <2> DEFINE s == Summary(id)
  <2>1. DOMAIN s = Types  BY DEF Summary
  <2> HIDE DEF s
  <2>2. Total(s) = (CHOOSE f : Is(f))[Types]
    BY <2>1 DEF Total, FoldFunction, FoldFunctionOnSet, MapThenFoldSet, Pick, s
  <2> QED BY <2>2 DEF s
<1>2. \A X \in SUBSET Types : X # {} => w[Pick(X)] = Summary(id)[Pick(X)].count
  BY PickIs
<1>3. ASSUME NEW f PROVE SumOf(w, f, Types) <=> Is(f)
  <2> HIDE DEF w
  <2>1. [X \in SUBSET Types |-> IF X = {} THEN 0 ELSE w[Pick(X)] + f[X \ {Pick(X)}]]
        = [X \in SUBSET Types |->
             IF X = {} THEN 0 ELSE Summary(id)[Pick(X)].count + f[X \ {Pick(X)}]]
    BY <1>2
  <2> QED BY <2>1 DEF SumOf
<1>4. IsFiniteSet(V) /\ V \subseteq violations
  BY FS_Subset DEF ViolationsOf, Ledger!ViolationsOf, TablesSound, Keyed
<1>5. \A v \in V : k[v] \in Types  BY <1>4 DEF CountsSound
<1>6. ASSUME NEW t \in Types PROVE w[t] = CountOf(V, k, t)
  <2>1. {v \in V : k[v] = t} = {v \in ViolationsOf(id) : v.excess.type = t}
    OBVIOUS
  <2>2. w[t] = Summary(id)[t].count  OBVIOUS
  <2> HIDE DEF V, w, k
  <2> QED BY <2>1, <2>2, TypeCountIs DEF CountOf
<1> HIDE DEF V, w, k, Is
<1>7. Sum(w, Types) = Cardinality(V)
  BY <1>4, <1>5, <1>6, EnumsAssumption, SumOfCounts
<1>8. (CHOOSE f : Is(f))[Types] = Sum(w, Types)
  <2>1. PICK f : SumOf(w, f, Types)  BY EnumsAssumption, SumExists
  <2>2. Is(CHOOSE g : Is(g))  BY <1>3, <2>1
  <2>3. SumOf(w, CHOOSE g : Is(g), Types)  BY <1>3, <2>2
  <2> QED BY <2>3, EnumsAssumption, SumGiven
<1> QED BY <1>1, <1>7, <1>8 DEF V

(* The ledger counts as the queries do. *)
LEMMA SameSize == \A S : Ledger!Cardinality(S) = Cardinality(S)
BY DEF Cardinality, Ledger!Cardinality, IsFiniteSet, Ledger!IsFiniteSet

(* What a completing call does to the tables: either a new run with all    *)
(* its violations, or a run that is there has some more.                   *)
Completes(id, gone, fresh, r) ==
    /\ gone \subseteq violations
    /\ IsFiniteSet(fresh) /\ fresh \cap violations = {}
    /\ \A v \in fresh : /\ v.run = id
                        /\ v.excess.type \in Types /\ v.excess.severity \in Severities
    /\ violations' = (violations \ gone) \cup fresh
    /\ shrunk' = shrunk \cup {v.run : v \in gone}
    /\ IsFiniteSet(used')
    /\ r.run = id /\ r.found \in Nat
    /\ \/ /\ ~Ledger!Known(id) /\ grown' = grown
          /\ r.found = Cardinality(fresh)
          /\ runs' = runs \cup {r}
       \/ /\ Ledger!Known(id) /\ grown' = grown \cup {id} /\ gone = {}
          /\ id \in shrunk \/ r.found <= Cardinality(fresh) + Cardinality(ViolationsOf(id))
          /\ runs' = {q \in runs : q.run # id} \cup {r}

(* Every call that completes does. *)
LEMMA CompletingRun ==
    ASSUME LInv, CountsSound, NEW o \in Outcomes, CompleteRun(o)
    PROVE  \E gone, fresh, r : Completes(o.row.run, gone, fresh, r)
<1> DEFINE id == o.row.run
           most == IF id \in shrunk THEN Cardinality(used)
                   ELSE Cardinality(Ledger!ViolationsOf(id, violations))
<1>1. PICK f \in [o.finds -> Ids \ used],
           gone \in SUBSET (IF o.row.kind = "reprocess" THEN Ledger!Replaceable(o.row) ELSE {}) :
        /\ IsInjective(f)
        /\ \E n \in Cardinality(NewRows(o, f))..(Cardinality(NewRows(o, f)) + most) :
             Ledger!Complete([o.row EXCEPT !.found = n], gone, NewRows(o, f))
        /\ used' = used \cup {v.id : v \in NewRows(o, f)}
        /\ grown' = IF Ledger!Known(id) THEN grown \cup {id} ELSE grown
        /\ shrunk' = shrunk \cup {v.run : v \in gone}
  BY DEF CompleteRun
<1> DEFINE fresh == NewRows(o, f)
<1>2. PICK n \in Cardinality(fresh)..(Cardinality(fresh) + most) :
        Ledger!Complete([o.row EXCEPT !.found = n], gone, fresh)
  BY <1>1
<1> DEFINE r == [o.row EXCEPT !.found = n]
<1>3. r.run = id /\ r.found = n
  <2>1. o.row = [run |-> o.row.run, driver |-> o.row.driver, kind |-> o.row.kind,
                 from |-> o.row.from, to |-> o.row.to, status |-> o.row.status,
                 found |-> o.row.found]
    BY OutcomesAssumption
  <2> QED BY <2>1
<1>4. \A v \in fresh : /\ v.run = id /\ v.id \in Ids \ used
                       /\ v.excess.type \in Types /\ v.excess.severity \in Severities
  <2>1. ASSUME NEW v \in fresh
        PROVE  \E e \in o.finds : v.run = id /\ v.id = f[e] /\ v.excess = e
    BY DEF NewRows
  <2> HIDE DEF fresh, id
  <2> QED BY <2>1, OutcomesAssumption
<1>5. IsFiniteSet(fresh)
  <2> DEFINE g == [e \in o.finds |-> [id |-> f[e], run |-> o.row.run,
                                     driver |-> o.row.driver, excess |-> e]]
  <2>1. fresh = {g[e] : e \in o.finds}  BY DEF NewRows
  <2>2. g \in Surjection(o.finds, fresh)  BY <2>1 DEF Surjection
  <2> QED BY <2>2, FS_Surjection, OutcomesAssumption
<1>14. IsFiniteSet(used')
  <2> DEFINE h == [v \in fresh |-> v.id]
             ids == {v.id : v \in fresh}
  <2>1. h \in Surjection(fresh, ids)  BY DEF Surjection
  <2>2. IsFiniteSet(ids)
    <3> HIDE DEF h, ids
    <3> QED BY <1>5, <2>1, FS_Surjection
  <2> HIDE DEF ids
  <2>3. IsFiniteSet(used \cup ids)  BY <2>2, FS_Union DEF CountsSound
  <2> QED BY <1>1, <2>3 DEF ids
<1>6. fresh \cap violations = {}  BY <1>4 DEF LInv, TablesSound
<1>7. gone \subseteq violations  BY DEF Ledger!Replaceable
<1>8. violations' = (violations \ gone) \cup fresh
  BY <1>2 DEF Ledger!Complete, Ledger!Appear, Ledger!AddTo
<1>9. Cardinality(fresh) \in Nat /\ (id \notin shrunk => most = Cardinality(ViolationsOf(id)))
  BY <1>5, FS_CardinalityType DEF ViolationsOf
<1>10. most \in Nat
  <2>1. IsFiniteSet(ViolationsOf(id))
    BY FS_Subset DEF ViolationsOf, Ledger!ViolationsOf, LInv, TablesSound, Keyed
  <2> QED BY <2>1, FS_CardinalityType DEF ViolationsOf, CountsSound
<1>11. n \in Nat  BY <1>9, <1>10
<1> HIDE DEF fresh, most, r
<1>12. \/ /\ ~Ledger!Known(id) /\ r.found = Cardinality(fresh) /\ runs' = runs \cup {r}
       \/ /\ Ledger!Known(id) /\ gone = {} /\ runs' = {q \in runs : q.run # id} \cup {r}
  <2>1. CASE Ledger!Appear(r, gone, fresh)  BY <1>3, <2>1, SameSize DEF Ledger!Appear
  <2>2. CASE gone = {} /\ Ledger!AddTo(r, fresh)
    BY <1>3, <2>2 DEF Ledger!AddTo, Ledger!Known
  <2> QED BY <1>2, <2>1, <2>2 DEF Ledger!Complete, r
<1>13. id \in shrunk \/ n <= Cardinality(fresh) + Cardinality(ViolationsOf(id))
  BY <1>2, <1>9
<1>15. Completes(id, gone, fresh, r)
  <2>1. grown' = IF Ledger!Known(id) THEN grown \cup {id} ELSE grown  BY <1>1
  <2>2. shrunk' = shrunk \cup {v.run : v \in gone}  BY <1>1
  <2> HIDE DEF id
  <2> QED BY <1>3, <1>4, <1>5, <1>6, <1>7, <1>8, <1>11, <1>12, <1>13, <1>14, <2>1, <2>2
          DEF Completes
<1> QED BY <1>15

(* A run's violations are finitely many. *)
LEMMA RunsViolations ==
    ASSUME TablesSound, NEW id
    PROVE  /\ ViolationsOf(id) \subseteq violations /\ IsFiniteSet(ViolationsOf(id))
           /\ Cardinality(ViolationsOf(id)) \in Nat
<1>1. ViolationsOf(id) \in SUBSET violations  BY DEF ViolationsOf, Ledger!ViolationsOf
<1> QED BY <1>1, FS_Subset, FS_CardinalityType DEF TablesSound, Keyed

(* A run that was traced is traced still: what it gains it gains by a      *)
(* second delivery, and what it loses it loses to a reprocess.             *)
LEMMA StaysTraced ==
    ASSUME LInv, CountsSound, LInv', NEW id, NEW gone, NEW fresh, NEW r,
           Completes(id, gone, fresh, r), NEW q, Traced(q), Ledger!Known(q.run)
    PROVE  Traced(q)'
<1> DEFINE V == ViolationsOf(q.run)
           W == ViolationsOf(q.run)'
<1>1. /\ IsFiniteSet(V) /\ Cardinality(V) \in Nat /\ V = {v \in violations : v.run = q.run}
  BY RunsViolations DEF LInv, ViolationsOf, Ledger!ViolationsOf
<1>2. /\ IsFiniteSet(W) /\ Cardinality(W) \in Nat /\ W = {v \in violations' : v.run = q.run}
  <2>1. IsFiniteSet(violations')  BY DEF LInv, TablesSound, Keyed
  <2>2. W \in SUBSET violations' /\ W = {v \in violations' : v.run = q.run}
    BY DEF ViolationsOf, Ledger!ViolationsOf
  <2> QED BY <2>1, <2>2, FS_Subset, FS_CardinalityType
<1>3. q.found \in Nat /\ shrunk \subseteq shrunk' /\ grown \subseteq grown'
  BY DEF Traced, Completes
<1>4. CASE q.run # id
  <2>1. W \subseteq V  BY <1>1, <1>2, <1>4 DEF Completes
  <2>2. Cardinality(W) <= Cardinality(V)  BY <1>1, <2>1, FS_Subset
  <2>3. CASE q.run \in shrunk'
    BY <1>1, <1>2, <1>3, <2>2, <2>3 DEF Traced
  <2>4. CASE q.run \notin shrunk'
    <3>1. W = V  BY <1>1, <1>2, <2>1, <2>4 DEF Completes
    <3> QED BY <1>1, <1>2, <1>3, <2>4, <3>1 DEF Traced
  <2> QED BY <2>3, <2>4
<1>5. CASE q.run = id
  <2>1. q.run \in grown' /\ gone = {}  BY <1>5 DEF Completes
  <2>2. V \subseteq W  BY <1>1, <1>2, <2>1 DEF Completes
  <2>3. Cardinality(V) <= Cardinality(W)  BY <1>2, <2>2, FS_Subset
  <2> HIDE DEF V, W
  <2>4. Cardinality(W) < q.found => q.run \in shrunk'
    BY <1>1, <1>2, <1>3, <2>3 DEF Traced, V
  <2> QED BY <1>3, <2>1, <2>4 DEF Traced, W
<1> QED BY <1>4, <1>5

(* The row that a call leaves is traced.                                   *)
LEMMA NewlyTraced ==
    ASSUME LInv, CountsSound, LInv', NEW id, NEW gone, NEW fresh, NEW r,
           Completes(id, gone, fresh, r)
    PROVE  Traced(r)'
<1> DEFINE V == ViolationsOf(id)
           W == ViolationsOf(id)'
<1>1. /\ IsFiniteSet(V) /\ Cardinality(V) \in Nat /\ V = {v \in violations : v.run = id}
  BY RunsViolations DEF LInv, ViolationsOf, Ledger!ViolationsOf
<1>2. W = {v \in violations' : v.run = id} /\ r.run = id /\ r.found \in Nat
  BY DEF ViolationsOf, Ledger!ViolationsOf, Completes
<1>3. IsFiniteSet(fresh) /\ Cardinality(fresh) \in Nat
  BY FS_CardinalityType DEF Completes
<1>4. CASE ~Ledger!Known(id)
  <2>1. V = {}  BY <1>1, <1>4 DEF CountsSound
  <2>2. W = fresh  BY <1>1, <1>2, <2>1 DEF Completes
  <2>3. r.found = Cardinality(W)  BY <1>4, <2>2 DEF Completes
  <2> QED BY <1>2, <1>3, <2>2, <2>3 DEF Traced
<1>5. CASE Ledger!Known(id)
  <2>1. W = V \cup fresh /\ V \cap fresh = {}  BY <1>1, <1>2, <1>5 DEF Completes
  <2>2. Cardinality(V \cup fresh) = Cardinality(V) + Cardinality(fresh) - Cardinality({})
    BY <1>1, <1>3, <2>1, FS_Union
  <2>3. Cardinality(W) = Cardinality(V) + Cardinality(fresh)
    BY <1>1, <1>3, <2>1, <2>2, FS_EmptySet
  <2>4. r.run \in grown' /\ (id \in shrunk \/ r.found <= Cardinality(fresh) + Cardinality(V))
    BY <1>2, <1>5 DEF Completes
  <2>5. shrunk \subseteq shrunk'  BY DEF Completes
  <2> HIDE DEF V, W
  <2>6. Cardinality(W) < r.found => r.run \in shrunk'
    BY <1>1, <1>2, <1>3, <2>3, <2>4, <2>5
  <2> QED BY <1>2, <2>4, <2>6 DEF Traced, W
<1> QED BY <1>4, <1>5

(* What is known stays known, and the new row is. *)
LEMMA StaysKnown ==
    ASSUME NEW id, NEW gone, NEW fresh, NEW r, Completes(id, gone, fresh, r)
    PROVE  /\ Ledger!Known(id)'
           /\ \A q : Ledger!Known(q) => Ledger!Known(q)'
<1>1. r \in runs' /\ r.run = id  BY DEF Completes
<1>2. \A q \in runs : q.run # id => q \in runs'  BY DEF Completes
<1> QED BY <1>1, <1>2 DEF Ledger!Known

(* Whatever completes between the two statements, what was read is traced. *)
LEMMA CompleteCounts ==
    ASSUME BInv, LInv', NEW o \in Outcomes, CompleteRun(o)
    PROVE  CountsSound' /\ BreakdownAddsUp'
<1> DEFINE id == o.row.run
<1>1. PICK gone, fresh, r : Completes(id, gone, fresh, r)  BY CompletingRun DEF BInv
<1>2. UNCHANGED <<get, view>>  BY DEF CompleteRun
<1> HIDE DEF id
<1>3. ASSUME NEW v \in violations'
      PROVE  /\ Ledger!Known(v.run)'
             /\ v.excess.type \in Types /\ v.excess.severity \in Severities
  <2>1. CASE v \in violations  BY <1>1, <2>1, StaysKnown DEF BInv, CountsSound
  <2>2. CASE v \in fresh
    <3>1. v.run = id /\ v.excess.type \in Types /\ v.excess.severity \in Severities
      BY <1>1, <2>2 DEF Completes
    <3> QED BY <1>1, <3>1, StaysKnown
  <2> QED BY <1>1, <2>1, <2>2 DEF Completes
<1>4. ASSUME NEW q \in runs' PROVE Traced(q)'
  <2>1. CASE q = r  BY <1>1, <2>1, NewlyTraced DEF BInv
  <2>2. CASE q \in runs
    <3>1. Traced(q) /\ Ledger!Known(q.run)  BY <2>2 DEF BInv, CountsSound, Ledger!Known
    <3> QED BY <1>1, <3>1, StaysTraced DEF BInv
  <2> QED BY <1>1, <2>1, <2>2 DEF Completes
<1>5. ASSUME NEW q \in get.row PROVE Traced(q)' /\ Ledger!Known(q.run)' /\ q.run = get.request.run
  BY <1>1, StaysTraced, StaysKnown DEF BInv, CountsSound
<1>6. CountsSound'
  BY <1>1, <1>2, <1>3, <1>4, <1>5 DEF CountsSound, Completes
<1>7. grown \subseteq grown' /\ shrunk \subseteq shrunk'  BY <1>1 DEF Completes
<1>8. BreakdownAddsUp'
  BY <1>2, <1>7, BreakdownIs DEF BInv, Explained
<1> QED BY <1>6, <1>8

(* The second statement finds the run's violations as they are now; its    *)
(* row is as old as the first.                                             *)
LEMMA SummaryCounts ==
    ASSUME BInv, SelectViolations
    PROVE  CountsSound' /\ BreakdownAddsUp'
<1> DEFINE id == get.request.run
<1>1. /\ view' = [request |-> get.request, status |-> 200, row |-> get.row,
                 summary |-> Summary(id)]
      /\ get'.row = {} /\ UNCHANGED tables
  BY DEF SelectViolations, Answer, NoGet
<1>2. Total(Summary(id)) = Cardinality(ViolationsOf(id))
  BY TotalIs DEF BInv, LInv
<1>3. ASSUME NEW type \in Types
      PROVE  Summary(id)[type].count = TypeCount(Summary(id)[type].breakdown)
  BY DEF Summary
<1>4. \A q \in get.row : Traced(q) /\ q.run = id  BY DEF BInv, CountsSound
<1>5. Explained(view', grown', shrunk')
  BY <1>1, <1>2, <1>3, <1>4 DEF Explained, Traced, tables
<1>6. CountsSound'
  BY <1>1 DEF BInv, CountsSound, Traced, ViolationsOf, tables, Ledger!ViolationsOf, Ledger!Known
<1> QED BY <1>5, <1>6, BreakdownIs

(* The first statement finds a row that is traced.                         *)
LEMMA RowCounts ==
    ASSUME BInv, NEW q \in Gets, get'.row \subseteq RunRow(q), get'.row # {} => get'.request = q,
           view'.status # 200, UNCHANGED tables
    PROVE  CountsSound' /\ BreakdownAddsUp'
<1>1. ASSUME NEW r \in get'.row
      PROVE  r \in runs /\ r.run = q.run /\ get'.request = q
  BY DEF RunRow
<1>2. ASSUME NEW r \in get'.row
      PROVE  Traced(r) /\ Ledger!Known(r.run) /\ r.run = get'.request.run
  BY <1>1 DEF BInv, CountsSound, Ledger!Known
<1>3. CountsSound'
  BY <1>2 DEF BInv, CountsSound, Traced, ViolationsOf, tables, Ledger!ViolationsOf, Ledger!Known
<1>4. BreakdownAddsUp'  BY BreakdownIs DEF Explained
<1> QED BY <1>3, <1>4

(* The other steps leave the GET in progress and the tables as they are.   *)
LEMMA OthersCount ==
    ASSUME BInv, UNCHANGED <<tables, get>>, view'.status # 200 \/ view' = view
    PROVE  CountsSound' /\ BreakdownAddsUp'
<1>1. CountsSound'
  BY DEF BInv, CountsSound, Traced, ViolationsOf, tables, Ledger!ViolationsOf, Ledger!Known
<1>2. BreakdownAddsUp'
  <2>1. CASE view'.status # 200  BY <2>1, BreakdownIs DEF Explained
  <2>2. CASE view' = view  BY <2>2, BreakdownIs DEF BInv, Explained, tables
  <2> QED BY <2>1, <2>2
<1> QED BY <1>1, <1>2

(* Initially there is nothing to count. *)
LEMMA InitBInv == Init => BInv
<1> SUFFICES ASSUME Init PROVE BInv
  OBVIOUS
<1>1. LInv  BY InitLInv
<1>2. CountsSound  BY FS_EmptySet DEF Init, CountsSound, NoGet
<1>3. BreakdownAddsUp  BY BreakdownIs DEF Init, NoView, Explained
<1> QED BY <1>1, <1>2, <1>3 DEF BInv

(* One lemma for each action. *)
LEMMA StepBInv == BInv /\ [Next]_vars => BInv'
<1> SUFFICES ASSUME BInv, [Next]_vars PROVE BInv'
  OBVIOUS
<1>1. LInv'  BY StepLInv DEF BInv
<1> SUFFICES CountsSound' /\ BreakdownAddsUp'
  BY <1>1 DEF BInv
<1>2. CASE \E o \in Outcomes : CompleteRun(o)  BY <1>1, <1>2, CompleteCounts
<1>3. ASSUME NEW q \in Gets, SelectRun(q) PROVE CountsSound' /\ BreakdownAddsUp'
  BY <1>3, RowCounts DEF SelectRun, Answer, NoGet, NoView
<1>4. ASSUME NEW q \in Gets, GetFails(q) PROVE CountsSound' /\ BreakdownAddsUp'
  BY <1>4, RowCounts DEF GetFails, Answer, NoGet
<1>5. CASE SelectViolations  BY <1>5, SummaryCounts
<1>6. CASE \E q \in Listings : BeginListing(q)
  BY <1>6, OthersCount DEF BeginListing, NoView
<1>7. CASE FetchPage \/ RefuseListing
  BY <1>7, OthersCount DEF FetchPage, RefuseListing
<1>8. CASE UNCHANGED vars  BY <1>8, OthersCount DEF vars
<1> QED BY <1>2, <1>3, <1>4, <1>5, <1>6, <1>7, <1>8 DEF Next

(* The number of a run and its breakdown differ only for a cause that can  *)
(* be named, though they are from two snapshots (compliance.py:113, 146).  *)
THEOREM DifferForCause == Spec => []BreakdownAddsUp
<1>1. Spec => []BInv  BY InitBInv, StepBInv, PTL DEF Spec
<1> QED BY <1>1, PTL DEF BInv
=============================================================================
