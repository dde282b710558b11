--------------------------- MODULE ConnectionPool ---------------------------
(***************************************************************************)
(* The connection pool that every request and every background task of an *)
(* API process shares: database.py's psycopg_pool.ConnectionPool, its      *)
(* client threads, its maintenance workers, and a database that goes down  *)
(* and comes back.                                                         *)
(*                                                                         *)
(* Clients are the threads that call pool.connection(): the event loop,    *)
(* whose handlers block in it one at a time, and the threadpool's threads, *)
(* which run execute_compliance() and close the connection themselves.     *)
(*                                                                         *)
(* A critical section under _lock is one step, and so is each of the steps *)
(* of a WaitingClient under its own condition. A member of Conns is one of *)
(* the places that _nconns counts: the attempt to connect, then the        *)
(* connection; the replacement of a connection takes over its place.       *)
(***************************************************************************)
EXTENDS Integers, Sequences, FiniteSets

CONSTANTS
    Clients,
    Checkers,           \* the clients that run execute_compliance()
    Conns,              \* bound: at least as many places as the pool may use
    MinSize, MaxSize,   \* the pool's limits
    Gone                \* a position in the queue whose client has given up

ASSUME SizeAssumption ==
    /\ MinSize \in Nat /\ MaxSize \in Nat \ {0} /\ MinSize <= MaxSize
    /\ IsFiniteSet(Conns) /\ Cardinality(Conns) >= MaxSize
ASSUME ClientAssumption == Checkers \subseteq Clients /\ Gone \notin Clients

VARIABLES
    up,         \* does the database accept connections?
    conn,       \* conn[x]: where the place x is, and what is in it
    nconns,     \* _nconns
    growing,    \* _growing
    deciding,   \* workers that have added a connection and may go on growing
    waiting,    \* _waiting, where adjacent positions given up count as one
    hand,       \* hand[c]: the connection given to c
    pc          \* pc[c]: what c is doing

vars == <<up, conn, nconns, growing, deciding, waiting, hand, pc>>

(* at: free, an AddConnection task, a new connection in a worker's hand,   *)
(* in _pool, or with a client. health: ok, broken without the client's     *)
(* knowing, or closed. grows: the task's flag; tried: has it failed before?*)
Place(at, health, grows, tried) ==
    [at |-> at, health |-> health, grows |-> grows, tried |-> tried]
Free         == Place("free", "closed", FALSE, FALSE)
Adding(grow) == Place("adding", "closed", grow, FALSE)

At(place) == {x \in Conns : conn[x].at = place}

TypeOK ==
    /\ up \in BOOLEAN
    /\ conn \in [Conns -> [at : {"free", "adding", "arriving", "idle", "out"},
                           health : {"ok", "stale", "closed"},
                           grows : BOOLEAN, tried : BOOLEAN]]
    /\ nconns \in 0..MaxSize
    /\ growing \in BOOLEAN
    /\ deciding \in 0..1
    /\ waiting \in Seq(Clients \cup {Gone})
    /\ hand \in [Clients -> SUBSET Conns]
    /\ pc \in [Clients -> {"out", "waiting", "expired", "using", "returning"}]

(* open(): _nconns = min_size, and as many AddConnection tasks. *)
Init ==
    /\ up = TRUE
    /\ \E first \in SUBSET Conns :
         /\ Cardinality(first) = MinSize
         /\ conn = [x \in Conns |-> IF x \in first THEN Adding(FALSE) ELSE Free]
    /\ nconns = MinSize
    /\ growing = FALSE
    /\ deciding = 0
    /\ waiting = <<>>
    /\ hand = [c \in Clients |-> {}]
    /\ pc = [c \in Clients |-> "out"]

-----------------------------------------------------------------------------
Goto(c, label) == pc' = [pc EXCEPT ![c] = label]

(* One more place, for an AddConnection task that may go on growing. *)
Grow(places) ==
    /\ nconns' = nconns + 1
    /\ conn' = [places EXCEPT ![CHOOSE x \in Conns : places[x].at = "free"] = Adding(TRUE)]

(* Mutant: every client that waits makes the pool grow. *)
MaybeGrowPool_Unlimited ==
    IF nconns >= MaxSize
    THEN UNCHANGED <<conn, nconns, growing>>
    ELSE Grow(conn) /\ growing' = TRUE

(* _maybe_grow_pool(): one task at a time. *)
MaybeGrowPool ==
    IF nconns >= MaxSize \/ growing
    THEN UNCHANGED <<conn, nconns, growing>>
    ELSE Grow(conn) /\ growing' = TRUE

(* getconn(): a ready connection, or a position in the queue. *)
GetConn(c) ==
    /\ pc[c] = "out"
    /\ \/ \E x \in At("idle") :
            /\ conn' = [conn EXCEPT ![x].at = "out"]
            /\ hand' = [hand EXCEPT ![c] = {x}]
            /\ Goto(c, "using")
            /\ UNCHANGED <<up, nconns, growing, deciding, waiting>>
       \/ /\ At("idle") = {}
          /\ waiting' = Append(waiting, c)
          /\ MaybeGrowPool
          /\ Goto(c, "waiting")
          /\ UNCHANGED <<up, deciding, hand>>

(* The position was set: wait() returns the connection. *)
Receive(c) ==
    /\ pc[c] = "waiting" /\ hand[c] # {}
    /\ Goto(c, "using")
    /\ UNCHANGED <<up, conn, nconns, growing, deciding, waiting, hand>>

(* The wait times out; c has yet to get the condition's lock back. *)
TimeOut(c) ==
    /\ pc[c] = "waiting" /\ hand[c] = {}
    /\ Goto(c, "expired")
    /\ UNCHANGED <<up, conn, nconns, growing, deciding, waiting, hand>>

Positions == DOMAIN waiting

(* c's position is given up, and merged with its neighbours given up. *)
Leave(c) ==
    \E i \in Positions :
        LET before == IF i > 1 /\ waiting[i - 1] = Gone THEN i - 2 ELSE i - 1
            after  == IF i < Len(waiting) /\ waiting[i + 1] = Gone THEN i + 2 ELSE i + 1
        IN  /\ waiting[i] = c
            /\ waiting' = SubSeq(waiting, 1, before) \o <<Gone>>
                             \o SubSeq(waiting, after, Len(waiting))

(* Mutant: the timeout wins over a connection set meanwhile. *)
WakeUp_Fails(c) ==
    /\ pc[c] = "expired"
    /\ IF hand[c] # {} THEN UNCHANGED waiting ELSE Leave(c)
    /\ hand' = [hand EXCEPT ![c] = {}]
    /\ Goto(c, "out")
    /\ UNCHANGED <<up, conn, nconns, growing, deciding>>

(* With the lock back: a connection that was set meanwhile is taken, and   *)
(* otherwise the position is given up and PoolTimeout raised.              *)
WakeUp(c) ==
    /\ pc[c] = "expired"
    /\ IF hand[c] # {}
       THEN Goto(c, "using") /\ UNCHANGED waiting
       ELSE Goto(c, "out") /\ Leave(c)
    /\ UNCHANGED <<up, conn, nconns, growing, deciding, hand>>

-----------------------------------------------------------------------------
(* Mutant: the queue is served from its other end. *)
FirstLive_Newest ==
    {i \in Positions : waiting[i] # Gone /\ \A j \in Positions : j > i => waiting[j] = Gone}

FirstLive ==
    {i \in Positions : waiting[i] # Gone /\ \A j \in 1..i - 1 : waiting[j] = Gone}

(* Mutant: the connection goes into the pool without a look at the queue. *)
AddToPool_Unseen(x, places, hands) ==
    /\ conn' = [places EXCEPT ![x].at = "idle"]
    /\ hand' = hands
    /\ UNCHANGED waiting

(* _add_to_pool(): to the first client that still waits, or into _pool. *)
AddToPool(x, places, hands) ==
    \/ \E i \in FirstLive :
         /\ hand' = [hands EXCEPT ![waiting[i]] = {x}]
         /\ waiting' = SubSeq(waiting, i + 1, Len(waiting))
         /\ conn' = [places EXCEPT ![x].at = "out"]
    \/ /\ FirstLive = {}
       /\ hand' = hands
       /\ waiting' = <<>>
       /\ conn' = [places EXCEPT ![x].at = "idle"]

(* The statements of the with block. On a broken connection the first one  *)
(* fails, and psycopg marks the connection closed; on a working one they   *)
(* succeed, or raise an error that has nothing to do with it, and          *)
(* execute_compliance(), if its CALL succeeds, ends with conn.close().     *)
Work(c) ==
    /\ pc[c] = "using"
    /\ \E x \in hand[c] :
         \/ /\ conn[x].health = "stale" \/ c \in Checkers
            /\ conn' = [conn EXCEPT ![x].health = "closed"]
         \/ /\ conn[x].health = "ok"
            /\ UNCHANGED conn
    /\ Goto(c, "returning")
    /\ UNCHANGED <<up, nconns, growing, deciding, waiting, hand>>

(* Mutant: a closed connection is not replaced. *)
PutConn_Dropped(c) ==
    /\ pc[c] = "returning"
    /\ \E x \in hand[c] :
         \/ /\ conn[x].health = "closed"
            /\ conn' = [conn EXCEPT ![x] = Free]
            /\ hand' = [hand EXCEPT ![c] = {}]
            /\ UNCHANGED waiting
         \/ /\ conn[x].health # "closed"
            /\ AddToPool(x, conn, [hand EXCEPT ![c] = {}])
    /\ Goto(c, "out")
    /\ UNCHANGED <<up, nconns, growing, deciding>>

(* Mutant: the state of a returned connection is not looked at. *)
PutConn_Unchecked(c) ==
    /\ pc[c] = "returning"
    /\ \E x \in hand[c] : AddToPool(x, conn, [hand EXCEPT ![c] = {}])
    /\ Goto(c, "out")
    /\ UNCHANGED <<up, nconns, growing, deciding>>

(* The with block has ended: putconn(). A closed connection, and one past  *)
(* its lifetime, is replaced by another in its place. One that broke after *)
(* the last statement on it goes back like any other.                      *)
PutConn(c) ==
    /\ pc[c] = "returning"
    /\ \E x \in hand[c] :
         \/ /\ conn' = [conn EXCEPT ![x] = Adding(FALSE)]
            /\ hand' = [hand EXCEPT ![c] = {}]
            /\ UNCHANGED waiting
         \/ /\ conn[x].health # "closed"
            /\ AddToPool(x, conn, [hand EXCEPT ![c] = {}])
    /\ Goto(c, "out")
    /\ UNCHANGED <<up, nconns, growing, deciding>>

-----------------------------------------------------------------------------
(* _connect() succeeds in a worker. *)
Connect(x) ==
    /\ up /\ conn[x].at = "adding"
    /\ conn' = [conn EXCEPT ![x] = Place("arriving", "ok", @.grows, @.tried)]
    /\ UNCHANGED <<up, nconns, growing, deciding, waiting, hand, pc>>

(* It fails, and is scheduled again. *)
ScheduleAgain(x) ==
    /\ ~up /\ conn[x].at = "adding"
    /\ conn' = [conn EXCEPT ![x].tried = TRUE]
    /\ UNCHANGED <<up, nconns, growing, deciding, waiting, hand, pc>>

(* Mutant: the flag stays when the growing task gives up. *)
GiveUpConnecting_KeepsFlag(x) ==
    /\ ~up /\ conn[x].at = "adding" /\ conn[x].tried
    /\ conn' = [conn EXCEPT ![x] = Free]
    /\ nconns' = nconns - 1
    /\ UNCHANGED <<up, growing, deciding, waiting, hand, pc>>

(* It has failed for longer than reconnect_timeout. *)
GiveUpConnecting(x) ==
    /\ ~up /\ conn[x].at = "adding" /\ conn[x].tried
    /\ conn' = [conn EXCEPT ![x] = Free]
    /\ nconns' = nconns - 1
    /\ growing' = (growing /\ ~conn[x].grows)
    /\ UNCHANGED <<up, deciding, waiting, hand, pc>>

(* The worker adds the connection. *)
Arrive(x) ==
    /\ conn[x].at = "arriving"
    /\ AddToPool(x, [conn EXCEPT ![x] = Place(@.at, @.health, FALSE, FALSE)], hand)
    /\ deciding' = deciding + (IF conn[x].grows THEN 1 ELSE 0)
    /\ UNCHANGED <<up, nconns, growing, pc>>

(* ... and, if it was growing the pool, looks whether to go on. *)
KeepGrowing ==
    /\ deciding > 0
    /\ deciding' = deciding - 1
    /\ IF nconns < MinSize \/ (nconns < MaxSize /\ waiting # <<>>)
       THEN Grow(conn) /\ UNCHANGED growing
       ELSE growing' = FALSE /\ UNCHANGED <<conn, nconns>>
    /\ UNCHANGED <<up, waiting, hand, pc>>

(* The periodic ShrinkPool drops an idle connection over min_size; whether *)
(* one was idle ever since the last time (_nconns_min) is left open.       *)
Shrink ==
    /\ nconns > MinSize
    /\ \E x \in At("idle") : conn' = [conn EXCEPT ![x] = Free]
    /\ nconns' = nconns - 1
    /\ UNCHANGED <<up, growing, deciding, waiting, hand, pc>>

(* The database goes down: every connection is broken, unknown to clients. *)
GoDown ==
    /\ up
    /\ up' = FALSE
    /\ conn' = [x \in Conns |-> IF conn[x].health = "ok"
                                THEN [conn[x] EXCEPT !.health = "stale"] ELSE conn[x]]
    /\ UNCHANGED <<nconns, growing, deciding, waiting, hand, pc>>

ComeUp ==
    /\ ~up
    /\ up' = TRUE
    /\ UNCHANGED <<conn, nconns, growing, deciding, waiting, hand, pc>>

-----------------------------------------------------------------------------
ClientStep(c) ==
    \/ Receive(c)
    \/ TimeOut(c)
    \/ WakeUp(c)
    \/ Work(c)
    \/ PutConn(c)

WorkerStep(x) ==
    \/ Connect(x)
    \/ ScheduleAgain(x)
    \/ GiveUpConnecting(x)
    \/ Arrive(x)

Next ==
    \/ \E c \in Clients : GetConn(c) \/ ClientStep(c)
    \/ \E x \in Conns : WorkerStep(x)
    \/ KeepGrowing
    \/ Shrink
    \/ GoDown
    \/ ComeUp

Spec == Init /\ [][Next]_vars

(* Threads are scheduled, waits end at their deadline, and the workers run *)
(* their tasks. Nothing is assumed of the requests or of the database.     *)
FairSpec ==
    /\ Spec
    /\ \A c \in Clients : WF_vars(ClientStep(c))
    /\ \A x \in Conns : WF_vars(WorkerStep(x))
    /\ WF_vars(KeepGrowing)

-----------------------------------------------------------------------------
(* "_nconns: currently in the pool, out, being prepared" (base.py): the    *)
(* count neither drifts from the connections there are, through timeouts,  *)
(* replacements and attempts given up, nor exceeds max_size.               *)
CountIsTrue ==
    /\ nconns = Cardinality(Conns \ At("free"))
    /\ nconns <= MaxSize

(* A connection that is out is in the hands of one client, which is using  *)
(* it or about to: none goes to two, and none to a client whose wait has   *)
(* already failed, where it would be lost.                                 *)
NoneLostNoneShared ==
    /\ \A x \in At("out") :
         \E c \in Clients :
            /\ hand[c] = {x}
            /\ \A d \in Clients \ {c} : x \notin hand[d]
    /\ \A c \in Clients :
         /\ hand[c] \subseteq At("out")
         /\ pc[c] = "out" => hand[c] = {}

(* No client waits while a connection lies idle: what getconn() and        *)
(* _add_to_pool() look at under the lock leaves no gap between them.       *)
NoIdleWhileWaiting == At("idle") # {} => \A i \in Positions : waiting[i] = Gone

(* A connection that is known to be closed is in nobody's hands but those  *)
(* of the client that found it so or closed it, and has yet to return it:  *)
(* the pool never lends it again, out of _pool or from hand to hand. So a  *)
(* broken connection fails one request at most.                            *)
FailsOnce ==
    \A x \in Conns : conn[x].health = "closed" =>
        \/ conn[x].at \in {"free", "adding"}
        \/ \E c \in Clients : pc[c] = "returning" /\ x \in hand[c]

(* "Allow only one task at time to grow the pool": the flag is set exactly *)
(* as long as one task may still grow the pool, so growing neither runs    *)
(* in parallel nor is given up for good.                                   *)
OneGrower ==
    Cardinality({x \in Conns : conn[x].grows}) + deciding = IF growing THEN 1 ELSE 0

(* The pool comes back: if the database is up for good and there are       *)
(* always clients again, some are served with working connections, even    *)
(* after every connection was lost and every attempt given up.             *)
Recovers ==
    (<>[]up /\ []<>(\E c \in Clients : pc[c] # "out"))
        => []<>(\E c \in Clients :
                  pc[c] = "using" /\ \E x \in hand[c] : conn[x].health = "ok")

(* The queue, its races and its replacements keep the pool's promise:      *)
(* connections are lent to one client at a time, first come first served.  *)
InLine == {c \in Clients : \E i \in Positions : waiting[i] = c}

Earlier ==
    {p \in Clients \X Clients :
        \E i, j \in Positions : i < j /\ waiting[i] = p[1] /\ waiting[j] = p[2]}

Promise == INSTANCE PoolPromise WITH line <- InLine, before <- Earlier, lent <- hand

KeepsPromise == Promise!Spec
=============================================================================
