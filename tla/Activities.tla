----------------------------- MODULE Activities -----------------------------
(***************************************************************************)
(* The data of driver activities: the request body of POST                 *)
(* /drivers/{driver_id}/activity, the rows of fms.activity_records and     *)
(* the relations the schema's constraints are stated with.                 *)
(*                                                                         *)
(* Timestamps are integers; a period is half-open, [started, ended).       *)
(***************************************************************************)
EXTENDS Integers

CONSTANTS
    DriverIds,      \* every driver id a request may name
    Drivers,        \* the driver ids present in fms.drivers
    VehicleIds,     \* every vehicle id a request may name
    Vehicles,       \* the vehicle ids present in fms.vehicles
    TypeNames,      \* every activity_type text a request may carry
    ActivityTypes,  \* the members of activity_type_enum
    References,     \* every non-empty source reference a client may send
    Sources,        \* those that fit source_reference VARCHAR(200)
    Absent,         \* a header or body field that was not sent
    Requests,       \* the requests the clients send
    MaxAttempts     \* bound: submissions received in a behaviour

(* The JSON body, the path parameter and the Idempotency-Key header. *)
RequestSpace ==
    [driver : DriverIds, vehicle : VehicleIds, type : TypeNames,
     started : Int, ended : Int,
     key : References \cup {Absent}, reference : References \cup {Absent}]

ASSUME RequestsAssumption == Requests \subseteq RequestSpace
ASSUME MaxAttemptsAssumption == MaxAttempts \in Nat
ASSUME SourcesAssumption  == Absent \notin References /\ Sources \subseteq References

(* A row of fms.activity_records; its id is the number of the submission   *)
(* that created it, as gen_random_uuid() never repeats.                    *)
Rows ==
    [id : Nat, driver : DriverIds, vehicle : VehicleIds, type : TypeNames,
     started : Int, ended : Int, source : References \cup {Absent}]

(* source_reference = (idempotency_key or payload.source_reference) *)
SourceOf(r) == IF r.key # Absent THEN r.key ELSE r.reference

(* The two validations of fn_create_activity_record. *)
ValidType(r)  == r.type \in ActivityTypes
ValidTimes(r) == r.started < r.ended
Valid(r)      == ValidType(r) /\ ValidTimes(r)

(* The row the INSERT of the function builds for submission n. *)
RowOf(r, n) ==
    [id |-> n, driver |-> r.driver, vehicle |-> r.vehicle, type |-> r.type,
     started |-> r.started, ended |-> r.ended, source |-> SourceOf(r)]

(* uq_activity_driver_source: an SQL NULL equals nothing, itself included. *)
SameKey(x, y) ==
    x.driver = y.driver /\ x.source = y.source /\ x.source # Absent

(* ex_activity_no_overlap: driver_id WITH =, tstzrange '[)' WITH && *)
Overlap(x, y) ==
    x.driver = y.driver /\ x.started < y.ended /\ y.started < x.ended
=============================================================================
