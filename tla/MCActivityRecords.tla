------------------------- MODULE MCActivityRecords --------------------------
(***************************************************************************)
(* Instances of ActivityRecords. Each of the request sets holds requests   *)
(* that meet in the table: the same key, an overlapping period, both, or   *)
(* neither.                                                                *)
(***************************************************************************)
EXTENDS ActivityRecords

CONSTANTS d1, dX, v1, vX, k1, k2, k3, kLong, Void

MCDriverIds     == {d1, dX}
MCDrivers       == {d1}
MCVehicleIds    == {v1, vX}
MCVehicles      == {v1}
MCTypeNames     == {"DRIVING", "REST", "FLYING"}
MCActivityTypes == {"DRIVING", "REST"}
MCReferences    == {k1, k2, k3, kLong}
MCSources       == {k1, k2, k3}

Body(s, e, k, ref) ==
    [driver |-> d1, vehicle |-> v1, type |-> "DRIVING",
     started |-> s, ended |-> e, key |-> k, reference |-> ref]

(* A key sent with two periods and by both routes, periods that overlap    *)
(* partly, and one that only touches the others.                           *)
Contending ==
    {Body(0, 2, k1, Void), Body(2, 3, Void, k1), Body(1, 3, k2, Void)}

(* Every way a single request can be refused. *)
Refusable ==
    {Body(4, 4, k1, Void), Body(0, 2, Void, Void), Body(4, 5, kLong, Void),
     [Body(4, 5, k1, Void) EXCEPT !.type = "FLYING"],
     [Body(4, 5, k1, Void) EXCEPT !.driver = dX]}

MCRequests == Contending \cup Refusable
=============================================================================
