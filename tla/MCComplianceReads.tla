-------------------------- MODULE MCComplianceReads -------------------------
(***************************************************************************)
(* Instance of ComplianceReads: two drivers; a check that is delivered     *)
(* twice, a check of the other driver, and a reprocess.                    *)
(***************************************************************************)
EXTENDS ComplianceReads

CONSTANTS d1, d2, dBad, k1, k2, k3, Void

Row(run, d, kind) ==
    [run |-> run, driver |-> d, kind |-> kind, from |-> 0, to |-> 2,
     status |-> "COMPLETED", found |-> 0]

Excess(type, severity) == [type |-> type, severity |-> severity, from |-> 0, to |-> 1]

DayHigh  == Excess("DAILY", "HIGH")
DayWorst == Excess("DAILY", "CRITICAL")
Weekly   == Excess("WEEKLY", "CRITICAL")

MCOutcomes ==
    {[row |-> Row(k1, d1, "check"), finds |-> {DayHigh, DayWorst}, delivery |-> 1],
     [row |-> Row(k1, d1, "check"), finds |-> {DayHigh}, delivery |-> 2],
     [row |-> Row(k2, d1, "reprocess"), finds |-> {Weekly}, delivery |-> 1],
     [row |-> Row(k3, d2, "check"), finds |-> {DayHigh}, delivery |-> 1]}

MCGets ==
    {[run |-> k1, driver |-> d1], [run |-> k3, driver |-> d1],
     [run |-> k3, driver |-> dBad]}

List(d, type, severity, limit) ==
    [driver |-> d, type |-> type, severity |-> severity, limit |-> limit]

MCListings ==
    {List(d1, Void, Void, 3), List(d1, Void, Void, 2), List(d1, "DAILY", "HIGH", 0),
     List(d1, "MONTHLY", Void, 3), List(dBad, Void, Void, 1)}
=============================================================================
