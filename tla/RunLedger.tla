----------------------------- MODULE RunLedger -----------------------------
(***************************************************************************)
(* What readers may rely on, with no transaction, lock or statement in     *)
(* sight: fms.compliance_runs and fms.compliance_violations change         *)
(* together, by one whole run at a time. A run id never vanishes, its row  *)
(* keeps everything but its count, and a violation leaves only when a new  *)
(* run of the kind "reprocess" replaces it.                                *)
(***************************************************************************)
EXTENDS Integers, FiniteSets

VARIABLES
    runs,       \* completed runs
    violations  \* their violations

vars == <<runs, violations>>

Init == runs = {} /\ violations = {}

Known(id) == \E q \in runs : q.run = id

ViolationsOf(id, V) == {v \in V : v.run = id}

(* What a reprocess with the row r may delete. *)
Replaceable(r) ==
    {v \in violations : v.driver = r.driver /\ r.from <= v.excess.from /\ v.excess.to <= r.to}

(* The run r appears with its violations, in the place of those it         *)
(* replaces.                                                               *)
Appear(r, gone, new) ==
    /\ ~Known(r.run)
    /\ gone \subseteq (IF r.kind = "reprocess" THEN Replaceable(r) ELSE {})
    /\ \A v \in new : v.run = r.run /\ v.driver = r.driver
    /\ r.found = Cardinality(new)
    /\ runs' = runs \cup {r}
    /\ violations' = (violations \ gone) \cup new

(* A check that finds its run id taken while it waits for it adds to that  *)
(* run. What it counts includes its own; of the rest, what was there when  *)
(* it counted, though a reprocess may have deleted it since.               *)
AddTo(r, new) ==
    /\ \E q \in runs : q.run = r.run /\ r = [q EXCEPT !.found = r.found]
    /\ \A v \in new : v.run = r.run
    /\ runs' = {q \in runs : q.run # r.run} \cup {r}
    /\ violations' = violations \cup new
    /\ r.found >= Cardinality(new)

Complete(r, gone, new) ==
    /\ r.status = "COMPLETED"
    /\ \/ Appear(r, gone, new)
       \/ gone = {} /\ AddTo(r, new)

Next ==
    \E r \in runs' : Complete(r, violations \ violations', violations' \ violations)

Spec == Init /\ [][Next]_vars
=============================================================================
