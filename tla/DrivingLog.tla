----------------------------- MODULE DrivingLog -----------------------------
(***************************************************************************)
(* The rules of DrivingRules against what they are for: a log of one       *)
(* driver's driving grows one activity at a time, in any order, and after  *)
(* each the rules are compared with definitions that do not mention        *)
(* groups, lags or joins.                                                  *)
(***************************************************************************)
EXTENDS DrivingRules

CONSTANTS
    Periods,    \* every <<start, end>> the driver may have driven
    Windows,    \* every <<period_start, period_end>> a check may ask for
    MaxLog      \* bound: activities in the log

ASSUME PeriodsAssumption == \A p \in Periods \cup Windows : p \in Int \X Int /\ p[1] < p[2]

VARIABLE log    \* the driving recorded so far

Apart(x, p) == x.ended <= p[1] \/ p[2] <= x.started

Init == log = {}

(* fn_create_activity_record stores one more activity. *)
Drive(p) ==
    /\ Cardinality(log) < MaxLog
    /\ \A x \in log : Apart(x, p)
    /\ log' = log \cup {[driver |-> "d", type |-> "DRIVING",
                         started |-> p[1], ended |-> p[2]]}

Next == \E p \in Periods : Drive(p)

Spec == Init /\ [][Next]_log

-----------------------------------------------------------------------------
(* y is driven after x with nothing but short gaps of no driving between. *)
Follows(x, y) ==
    /\ x.started < y.started
    /\ \A t \in {z.ended : z \in log} :
         x.ended <= t /\ t < y.started =>
             \E z \in log : t < z.ended /\ z.started <= t + LongestGap

Together(x, y) == x = y \/ Follows(x, y) \/ Follows(y, x)

(* Continuous driving by its meaning: whatever was driven without a break  *)
(* of more than 15 minutes in between is one span, and nothing else is     *)
(* (V8 rule 4, "Detects contiguous driving spans using gap detection").    *)
SpansAreUnbroken == Spans(log) = {{y \in log : Together(x, y)} : x \in log}

(* No pair of consecutive weeks with more than 90 hours goes unreported,   *)
(* whichever of them has driving at all: the join of rule 3 loses none.    *)
NoFortnightMissed ==
    \A w \in {StartOf(x, Week) - k * Week : x \in log, k \in {0, 1}} :
        DrivenFrom(log, w, 2 * Week) > BiweeklyLimit =>
            \E v \in Biweekly(log) :
                v.from \in {w, w + Week} /\ v.measured >= DrivenFrom(log, w, 2 * Week)

(* A check of a part of the log never reports what the whole log does not  *)
(* bear out: asking for a period can hide an excess at its borders but     *)
(* cannot invent one.                                                      *)
WindowNeverInvents ==
    \A p \in Windows : \A v \in AllRules(Within(log, p[1], p[2])) :
        \E u \in AllRules(log) : Covers(u, v)

(* An activity that arrives late never clears an excess: it is reported as *)
(* before or as part of a greater one. Old reports so stay justified.      *)
ExcessStays == [][\A v \in AllRules(log) : \E u \in AllRules(log') : Covers(u, v)]_log
=============================================================================
