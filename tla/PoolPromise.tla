---------------------------- MODULE PoolPromise ----------------------------
(***************************************************************************)
(* What pool.connection() promises its callers: a connection is lent to    *)
(* one client at a time, and in the order in which the clients came. A     *)
(* client that gives up leaves the line and is lent nothing.               *)
(***************************************************************************)
CONSTANTS Clients, Conns

VARIABLES
    line,   \* the clients that wait
    before, \* <<c, d>>: of those, c came before d
    lent    \* lent[c]: the connection c has, if any

vars == <<line, before, lent>>

Init ==
    /\ line = {} /\ before = {}
    /\ lent = [c \in Clients |-> {}]

Idle(c) == lent[c] = {} /\ c \notin line

Unlent(x) == \A c \in Clients : x \notin lent[c]

First(c) == c \in line /\ \A d \in line : <<d, c>> \notin before

Leave(c) ==
    /\ line' = line \ {c}
    /\ before' = {p \in before : c \notin {p[1], p[2]}}

Ask(c) ==
    /\ Idle(c)
    /\ line' = line \cup {c}
    /\ before' = before \cup (line \X {c})
    /\ UNCHANGED lent

(* Nobody is before c. *)
LendAtOnce(c, x) ==
    /\ Idle(c) /\ line = {} /\ Unlent(x)
    /\ lent' = [lent EXCEPT ![c] = {x}]
    /\ UNCHANGED <<line, before>>

LendToFirst(c, x) ==
    /\ First(c) /\ Unlent(x)
    /\ lent' = [lent EXCEPT ![c] = {x}]
    /\ Leave(c)

GiveUp(c) ==
    /\ c \in line
    /\ Leave(c)
    /\ UNCHANGED lent

Return(c) ==
    /\ lent[c] # {}
    /\ lent' = [lent EXCEPT ![c] = {}]
    /\ UNCHANGED <<line, before>>

(* c returns its connection, which goes to d, the first in the line. *)
PassOn(c, d) ==
    /\ lent[c] # {} /\ First(d)
    /\ lent' = [lent EXCEPT ![c] = {}, ![d] = lent[c]]
    /\ Leave(d)

Next ==
    \/ \E c \in Clients : Ask(c) \/ GiveUp(c) \/ Return(c)
    \/ \E c, d \in Clients : PassOn(c, d)
    \/ \E c \in Clients, x \in Conns : LendAtOnce(c, x) \/ LendToFirst(c, x)

Spec == Init /\ [][Next]_vars
=============================================================================
