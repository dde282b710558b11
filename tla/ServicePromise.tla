--------------------------- MODULE ServicePromise ---------------------------
(***************************************************************************)
(* What the API promises its clients, without event loop, timers, threads  *)
(* or shutdown: on a connection, requests are handled one after the other, *)
(* each after the answer to the one before; a driver is stored by the very *)
(* step that decides on the answer, never later, always if that is 201 and *)
(* never for a license or card that is taken; and a check that was         *)
(* accepted runs at most once. A 500 promises nothing: the driver may be   *)
(* stored. Any request may be left without an answer, and then no later    *)
(* one on its connection is handled.                                       *)
(***************************************************************************)
EXTENDS Naturals, Sequences

CONSTANTS Connections, Script

VARIABLES
    given,      \* given[<<c, i>>]: the status decided for the i-th request on c, or 0
    told,       \* told[c]: what c was told
    registry,   \* the registrations whose drivers are stored
    ran         \* ran[<<c, i>>]: how often its check ran

vars == <<given, told, registry, ran>>

Requests == UNION {{<<c, i>> : i \in DOMAIN Script[c]} : c \in Connections}

Init ==
    /\ given = [r \in Requests |-> 0]
    /\ told = [c \in Connections |-> <<>>]
    /\ registry = {}
    /\ ran = [r \in Requests |-> 0]

(* Every request before r on its connection was answered, and r was not. *)
Turn(r) == Len(told[r[1]]) = r[2] - 1

Wanted(r) == Script[r[1]][r[2]].driver

Taken(r) ==
    \E q \in registry :
        Wanted(q).license = Wanted(r).license \/ Wanted(q).card = Wanted(r).card

Decide(r, status) ==
    /\ Turn(r) /\ given[r] = 0
    /\ given' = [given EXCEPT ![r] = status]
    /\ UNCHANGED <<told, ran>>

Accept(r) ==
    /\ Script[r[1]][r[2]].kind = "check"
    /\ Decide(r, 202)
    /\ UNCHANGED registry

(* The driver is stored, whether its client is told so or not. *)
Enter(r) ==
    /\ Script[r[1]][r[2]].kind = "register" /\ ~Taken(r)
    /\ Decide(r, 201) \/ Decide(r, 500)
    /\ registry' = registry \cup {r}

(* The registration is refused, or could not be made. *)
Refuse(r) ==
    /\ Script[r[1]][r[2]].kind = "register"
    /\ Decide(r, 500)
    /\ UNCHANGED registry

Report(r) ==
    /\ Script[r[1]][r[2]].kind = "health"
    /\ Decide(r, 200) \/ Decide(r, 503)
    /\ UNCHANGED registry

Tell(r) ==
    /\ Turn(r) /\ given[r] # 0
    /\ told' = [told EXCEPT ![r[1]] = Append(@, [of |-> r[2], status |-> given[r]])]
    /\ UNCHANGED <<given, registry, ran>>

Run(r) ==
    /\ given[r] = 202 /\ ran[r] = 0
    /\ ran' = [ran EXCEPT ![r] = 1]
    /\ UNCHANGED <<given, told, registry>>

Next ==
    \E r \in Requests :
        Accept(r) \/ Enter(r) \/ Refuse(r) \/ Report(r) \/ Tell(r) \/ Run(r)

Spec == Init /\ [][Next]_vars
=============================================================================
