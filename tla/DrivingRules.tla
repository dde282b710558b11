---------------------------- MODULE DrivingRules ----------------------------
(***************************************************************************)
(* The rules of driving time as the two stored procedures compute them:    *)
(* each rule is a function from a set of activities to the set of          *)
(* violations its INSERT ... SELECT adds.                                  *)
(*                                                                         *)
(* Time is in seconds since a Monday 00:00 UTC, and sessions are in UTC,   *)
(* so that calendar days and weeks start at the multiples of their length. *)
(* An activity has at least a driver, a type, a start and an end; those of *)
(* one driver do not overlap (ex_activity_no_overlap).                     *)
(***************************************************************************)
EXTENDS Integers, FiniteSets, FiniteSetsExt

Day  == 86400
Week == 7 * Day

DailyLimit      == 32400
CriticalDaily   == 36000
WeeklyLimit     == 201600
BiweeklyLimit   == 324000
ContinuousLimit == 16200
LongestGap      == 15 * 60   \* driving goes on across a gap of up to 15 minutes

-----------------------------------------------------------------------------
(* The WHERE clauses. *)
Driving(activities, d) == {x \in activities : x.driver = d /\ x.type = "DRIVING"}

Within(S, from, to) == {x \in S : from <= x.started /\ x.ended <= to}

(* SUM(duration_seconds) *)
Seconds(S) == MapThenSumSet(LAMBDA x : x.ended - x.started, S)

(* date_trunc: the start of the day, or of the week, of x. *)
StartOf(x, unit) == x.started - (x.started % unit)

(* The driving that a GROUP BY puts under the time t: all that starts in   *)
(* the unit, whenever it ends.                                             *)
DrivenFrom(S, t, length) ==
    Seconds({x \in S : t <= x.started /\ x.started < t + length})

(* The columns of fms.compliance_violations that a rule computes. *)
Excess(type, severity, from, to, measured, threshold) ==
    [type |-> type, severity |-> severity, from |-> from, to |-> to,
     measured |-> measured, threshold |-> threshold]

-----------------------------------------------------------------------------
(* Rule 1. *)
Daily(S) ==
    {Excess("DAILY_DRIVING_LIMIT",
            IF DrivenFrom(S, d, Day) > CriticalDaily THEN "CRITICAL" ELSE "HIGH",
            d, d + Day, DrivenFrom(S, d, Day), DailyLimit) :
        d \in {StartOf(x, Day) : x \in {y \in S :
                  DrivenFrom(S, StartOf(y, Day), Day) > DailyLimit}}}

(* Rule 2. *)
Weekly(S) ==
    {Excess("WEEKLY_DRIVING_LIMIT", "CRITICAL",
            w, w + Week, DrivenFrom(S, w, Week), WeeklyLimit) :
        w \in {StartOf(x, Week) : x \in {y \in S :
                  DrivenFrom(S, StartOf(y, Week), Week) > WeeklyLimit}}}

(* Mutant: an inner join, so a last week with no week after it is lost. *)
Biweekly_InnerJoin(S) ==
    {Excess("WEEKLY_DRIVING_LIMIT", "CRITICAL",
            w, w + 2 * Week, DrivenFrom(S, w, 2 * Week), BiweeklyLimit) :
        w \in {StartOf(x, Week) : x \in {y \in S :
                  /\ DrivenFrom(S, StartOf(y, Week), 2 * Week) > BiweeklyLimit
                  /\ \E z \in S : StartOf(z, Week) = StartOf(y, Week) + Week}}}

(* Rule 3: a week joined with the week after it, if that has any driving. *)
Biweekly(S) ==
    {Excess("WEEKLY_DRIVING_LIMIT", "CRITICAL",
            w, w + 2 * Week, DrivenFrom(S, w, 2 * Week), BiweeklyLimit) :
        w \in {StartOf(x, Week) : x \in {y \in S :
                  DrivenFrom(S, StartOf(y, Week), 2 * Week) > BiweeklyLimit}}}

-----------------------------------------------------------------------------
(* Rule 4. LAG(...) OVER (ORDER BY started_at): the driving just before x. *)
Lag(S, x) ==
    {y \in S : /\ y.started < x.started
               /\ \A z \in S : z.started <= y.started \/ x.started <= z.started}

(* Mutant: a gap of 15 minutes is a break already. *)
IsNewGroup_Strict(S, x) == \A y \in Lag(S, x) : x.started - y.ended >= LongestGap

IsNewGroup(S, x) == \A y \in Lag(S, x) : x.started - y.ended > LongestGap

(* Mutant: the row itself is left out of the running sum. *)
GroupId_Exclusive(S, x) ==
    Cardinality({y \in S : y.started < x.started /\ IsNewGroup(S, y)})

(* Mutant: is_new_group is grouped by without the running sum. *)
GroupId_NoRunningSum(S, x) == IF IsNewGroup(S, x) THEN 1 ELSE 0

(* SUM(is_new_group) OVER (ORDER BY started_at) *)
GroupId(S, x) == Cardinality({y \in S : y.started <= x.started /\ IsNewGroup(S, y)})

(* GROUP BY group_id *)
Spans(S) == {{y \in S : GroupId(S, y) = GroupId(S, x)} : x \in S}

Continuous(S) ==
    {Excess("EXCESS_CONTINUOUS_DRIVING", "HIGH",
            Min({x.started : x \in span}), Max({x.ended : x \in span}),
            Seconds(span), ContinuousLimit) :
        span \in {s \in Spans(S) : Seconds(s) > ContinuousLimit}}

-----------------------------------------------------------------------------
(* For properties: all that is wrong with S, and what one report says of   *)
(* another. u covers v if it reports all that v reports, or more.          *)
AllRules(S) == Daily(S) \cup Weekly(S) \cup Biweekly(S) \cup Continuous(S)

Covers(u, v) ==
    /\ u.type = v.type /\ u.threshold = v.threshold
    /\ u.from <= v.from /\ v.to <= u.to
    /\ v.measured <= u.measured
=============================================================================
