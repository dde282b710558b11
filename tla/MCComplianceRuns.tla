-------------------------- MODULE MCComplianceRuns --------------------------
(***************************************************************************)
(* Instances of ComplianceRuns.                                            *)
(***************************************************************************)
EXTENDS ComplianceRuns, TLC

CONSTANTS d1, dX, k1, k2, k3

Hour == 3600

Activity(type, from, to) ==
    [driver |-> d1, type |-> type, started |-> from * Hour, ended |-> to * Hour]

(* 57 hours from Tuesday on, which is a day, a week and a span too much;   *)
(* 34 more the week after, which is a fortnight too much; and a rest right *)
(* before the first, which is no driving.                                  *)
Resting  == Activity("REST", 20, 24)
Tuesday  == Activity("DRIVING", 24, 81)
NextWeek == Activity("DRIVING", 168, 202)

MCDrivers == {d1}

Check(run, from, to) ==
    [kind |-> "check", driver |-> d1, run |-> run, from |-> from, to |-> to]
Reprocess(run, from, to) ==
    [kind |-> "reprocess", driver |-> d1, run |-> run, from |-> from, to |-> to]

(* Checks that share a run id, reprocesses that share a driver, and a      *)
(* reprocess under the id of a check.                                      *)
MCPossible == {Resting, Tuesday, NextWeek}
MCCalls ==
    {Check(k1, 0, 2 * Week), Check(k1, 0, Week), Reprocess(k2, 0, 2 * Week),
     Reprocess(k3, 0, 2 * Day), Reprocess(k1, 0, Week)}

(* Calls that wait for each other's run id, row or driver, or must fail.   *)
WaitingCalls ==
    {Check(k1, 0, Week), Check(k2, Week, Week), [Check(k2, 0, Week) EXCEPT !.driver = dX],
     Reprocess(k1, 0, Week), Reprocess(k3, 0, Week)}

TaskSymmetry == Permutations(Tasks)
=============================================================================
