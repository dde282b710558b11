------------------------------ MODULE Serving -------------------------------
(***************************************************************************)
(* One API process between its clients and its handlers: uvicorn's h11     *)
(* protocol with keep-alive and pipelining, the correlation middleware,    *)
(* Starlette's background tasks and uvicorn's graceful shutdown, with the  *)
(* handlers of routers/compliance.py (check), drivers.py and health.py.    *)
(*                                                                         *)
(* Each action of the event loop is one callback. The handlers never await *)
(* while they work, so each is one step; execute_compliance() runs in a    *)
(* worker thread, beside the loop. A request arrives as a whole, and       *)
(* answers are small: writing one does not wait for the client.            *)
(***************************************************************************)
EXTENDS Naturals, Sequences, FiniteSets

CONSTANTS
    Connections,    \* TCP connections that clients have opened
    Script,         \* Script[c]: the requests a client may send on c, in order
    Threads         \* worker threads (40 in anyio)

ASSUME ThreadsAssumption == Threads \in Nat \ {0}
ASSUME ScriptAssumption ==
    \A c \in Connections :
        /\ Len(Script[c]) \in Nat /\ DOMAIN Script[c] = 1..Len(Script[c])
        /\ \A i \in DOMAIN Script[c] : Script[c][i].kind \in {"check", "register", "health"}

(* <<c, i>> is the i-th request on c. *)
Requests == UNION {{<<c, i>> : i \in DOMAIN Script[c]} : c \in Connections}

RequestOf(r) == Script[r[1]][r[2]]

VARIABLES
    conn,       \* conn[c]: the protocol object of c
    phase,      \* phase[r]: how far the task of r is
    result,     \* result[r]: the status its handler gave, or the error it raised
    drivers,    \* committed rows of fms.drivers, as the registrations that stored them
    server,     \* the server's own state
    answers,    \* answers[c]: what was written to c
    executions, \* history: how often the check of r was executed
    outages,    \* history: registrations whose database connection broke
    faults      \* history: requests whose error closed their connection

vars == <<conn, phase, result, drivers, server, answers, executions, outages, faults>>

(* cycle: the request whose RequestResponseCycle is the current one, or 0; *)
(* complete, disconnected, keepAlive: its flags. left: the client is gone. *)
NewConnection ==
    [transport |-> "open", timer |-> FALSE, sent |-> 0, buffer |-> <<>>, cycle |-> 0,
     complete |-> FALSE, disconnected |-> FALSE, keepAlive |-> TRUE, left |-> FALSE]

(* The task of a request: its handler, its answer, its background task.    *)
InTask == {"created", "handled", "background", "thread", "returned", "broken"}

Init ==
    /\ conn = [c \in Connections |-> NewConnection]
    /\ phase = [r \in Requests |-> "none"]
    /\ result = [r \in Requests |-> 0]
    /\ drivers = {}
    /\ server = "running"
    /\ answers = [c \in Connections |-> <<>>]
    /\ executions = [r \in Requests |-> 0]
    /\ outages = {}
    /\ faults = {}

-----------------------------------------------------------------------------
Busy(k) == k.cycle # 0 /\ ~k.complete

Close(k) == [k EXCEPT !.transport = IF @ = "open" THEN "closing" ELSE @]

(* Mutant: the keep-alive timer of the request before is left running. *)
NextCycle_KeepsTimer(k) ==
    [k EXCEPT !.cycle = Head(k.buffer), !.buffer = Tail(k.buffer),
              !.complete = FALSE, !.disconnected = FALSE, !.keepAlive = TRUE]

NextCycle(k) ==
    [k EXCEPT !.cycle = Head(k.buffer), !.buffer = Tail(k.buffer), !.timer = FALSE,
              !.complete = FALSE, !.disconnected = FALSE, !.keepAlive = TRUE]

(* Mutant: events are not paused while a request is in progress. *)
HandleEvents_Unpaused(k) == IF k.buffer # <<>> THEN NextCycle(k) ELSE k

(* What is buffered becomes the next cycle; behind a request in progress   *)
(* it stays where it is (h11.PAUSED).                                      *)
HandleEvents(k) == IF ~Busy(k) /\ k.buffer # <<>> THEN NextCycle(k) ELSE k

(* c becomes k, and a new cycle gets its task, beside what else ph says. *)
Become(c, k, ph) ==
    /\ conn' = [conn EXCEPT ![c] = k]
    /\ phase' = IF k.cycle # conn[c].cycle THEN [ph EXCEPT ![<<c, k.cycle>>] = "created"] ELSE ph

(* data_received(): the client's next request comes in. *)
DataReceived(c) ==
    LET i == conn[c].sent + 1
    IN  /\ conn[c].transport = "open" /\ ~conn[c].left
        /\ i \in DOMAIN Script[c]
        /\ Become(c, HandleEvents([conn[c] EXCEPT !.sent = i, !.timer = FALSE,
                                                  !.buffer = Append(@, i)]), phase)
        /\ UNCHANGED <<result, drivers, server, answers, executions, outages, faults>>

(* The client closes its end, or its network breaks. *)
ClientLeaves(c) ==
    /\ conn[c].transport # "lost" /\ ~conn[c].left
    /\ conn' = [conn EXCEPT ![c].left = TRUE]
    /\ UNCHANGED <<phase, result, drivers, server, answers, executions, outages, faults>>

(* connection_lost() *)
ConnectionLost(c) ==
    /\ conn[c].transport = "closing" \/ (conn[c].transport = "open" /\ conn[c].left)
    /\ conn' = [conn EXCEPT ![c].transport = "lost", ![c].timer = FALSE,
                            ![c].disconnected = Busy(conn[c])]
    /\ UNCHANGED <<phase, result, drivers, server, answers, executions, outages, faults>>

(* timeout_keep_alive_handler() *)
KeepAliveTimeout(c) ==
    /\ conn[c].timer
    /\ conn' = [conn EXCEPT ![c] = [Close(conn[c]) EXCEPT !.timer = FALSE]]
    /\ UNCHANGED <<phase, result, drivers, server, answers, executions, outages, faults>>

-----------------------------------------------------------------------------
DriverOf(r) == RequestOf(r).driver

SameDriver(q, r) ==
    DriverOf(q).license = DriverOf(r).license \/ DriverOf(q).card = DriverOf(r).card

(* Mutant: the card number is not unique. *)
Clash_LicenseOnly(r) == \E q \in drivers : DriverOf(q).license = DriverOf(r).license

(* The unique constraints of fms.drivers refuse the row of r. *)
Clash(r) == \E q \in drivers : SameDriver(q, r)

(* A handler that reads its body learns first whether the client is gone. *)
Runs(r, kind) ==
    /\ phase[r] = "created"
    /\ RequestOf(r).kind = kind
    /\ kind # "health" => ~conn[r[1]].disconnected

(* Its answer is in the middleware's stream. *)
Handled(r, status) ==
    /\ phase' = [phase EXCEPT ![r] = "handled"]
    /\ result' = [result EXCEPT ![r] = status]
    /\ UNCHANGED <<conn, server, answers, executions, faults>>

ClientDisconnect(r) ==
    /\ phase[r] = "created"
    /\ RequestOf(r).kind # "health" /\ conn[r[1]].disconnected
    /\ phase' = [phase EXCEPT ![r] = "over"]
    /\ UNCHANGED <<conn, result, drivers, server, answers, executions, outages, faults>>

RunCheckEndpoint(r) ==
    /\ Runs(r, "check")
    /\ Handled(r, 202)
    /\ UNCHANGED <<drivers, outages>>

(* The INSERT and the commit succeed; or the unique constraints refuse the *)
(* row; or the connection breaks, before the commit or in it, when the row *)
(* may have been stored all the same. No error is handled.                 *)
CreateDriver(r) ==
    /\ Runs(r, "register")
    /\ \/ /\ ~Clash(r)
          /\ drivers' = drivers \cup {r}
          /\ Handled(r, 201)
          /\ UNCHANGED outages
       \/ /\ Clash(r)
          /\ Handled(r, 500)
          /\ UNCHANGED <<drivers, outages>>
       \/ /\ drivers' = drivers \/ (~Clash(r) /\ drivers' = drivers \cup {r})
          /\ Handled(r, 500)
          /\ outages' = outages \cup {r}

Health(r) ==
    /\ Runs(r, "health")
    /\ \E status \in {200, 503} : Handled(r, status)
    /\ UNCHANGED <<drivers, outages>>

Raised(r) == result[r] = 500

(* Mutant: the answer does not say "close" when the server stops. *)
OnResponseComplete_StaysOpen(k) ==
    LET done == [k EXCEPT !.complete = TRUE]
    IN  IF k.transport # "open"
        THEN Close(done)
        ELSE HandleEvents([done EXCEPT !.timer = TRUE])

(* on_response_complete(), of a cycle that was told to close or not. *)
OnResponseComplete(k) ==
    LET done == [k EXCEPT !.complete = TRUE]
    IN  IF ~k.keepAlive \/ k.transport # "open"
        THEN Close(done)
        ELSE HandleEvents([done EXCEPT !.timer = TRUE])

(* Mutant: the background task is cancelled with its client. *)
AfterAnswer_Cancelled(r) ==
    IF RequestOf(r).kind = "check" /\ ~conn[r[1]].disconnected THEN "background" ELSE "over"

AfterAnswer(r) == IF RequestOf(r).kind = "check" THEN "background" ELSE "over"

(* The middleware takes the answer from its stream and sends it, unless    *)
(* the client is known to be gone; what is written to a transport that     *)
(* closes is lost. An error that left the handler, answered with 500, goes *)
(* on to run_asgi(), which closes the connection: behind the next cycle.   *)
SendAnswer(r) ==
    LET c    == r[1]
        next == [phase EXCEPT ![r] = AfterAnswer(r)]
        k    == OnResponseComplete(conn[c])
    IN  /\ phase[r] = "handled"
        /\ IF conn[c].disconnected
           THEN /\ phase' = next
                /\ UNCHANGED <<conn, answers, faults>>
           ELSE /\ Become(c, IF Raised(r) THEN Close(k) ELSE k, next)
                /\ answers' = IF conn[c].transport = "open"
                              THEN [answers EXCEPT ![c] = Append(@, [of |-> r[2], status |-> result[r]])]
                              ELSE answers
                /\ faults' = IF Raised(r) THEN faults \cup {r} ELSE faults
        /\ UNCHANGED <<result, drivers, server, executions, outages>>

-----------------------------------------------------------------------------
(* run_in_threadpool(): waits for one of the limiter's tokens. A task may  *)
(* begin just before the end of its answer is written; here, just after.   *)
StartThread(r) ==
    /\ phase[r] = "background"
    /\ Cardinality({q \in Requests : phase[q] = "thread"}) < Threads
    /\ phase' = [phase EXCEPT ![r] = "thread"]
    /\ UNCHANGED <<conn, result, drivers, server, answers, executions, outages, faults>>

(* execute_compliance() returns, or raises what the pool or the procedure  *)
(* raised.                                                                 *)
ExecuteCompliance(r) ==
    /\ phase[r] = "thread"
    /\ executions' = [executions EXCEPT ![r] = @ + 1]
    /\ \E outcome \in {"returned", "broken"} : phase' = [phase EXCEPT ![r] = outcome]
    /\ UNCHANGED <<conn, result, drivers, server, answers, outages, faults>>

(* Mutant: a task that failed stays among the server's tasks. *)
EndTask_KeepsFailed(r) ==
    /\ phase[r] = "returned"
    /\ phase' = [phase EXCEPT ![r] = "over"]
    /\ UNCHANGED <<conn, result, drivers, server, answers, executions, outages, faults>>

(* The task is done. An error of the background task reaches run_asgi(),   *)
(* which closes the connection, whatever cycle it is in by now.            *)
EndTask(r) ==
    /\ phase[r] \in {"returned", "broken"}
    /\ phase' = [phase EXCEPT ![r] = "over"]
    /\ IF phase[r] = "broken"
       THEN /\ conn' = [conn EXCEPT ![r[1]] = Close(@)]
            /\ faults' = faults \cup {r}
       ELSE UNCHANGED <<conn, faults>>
    /\ UNCHANGED <<result, drivers, server, answers, executions, outages>>

-----------------------------------------------------------------------------
ShutDownConnection(k) ==
    IF Busy(k) THEN [k EXCEPT !.keepAlive = FALSE] ELSE Close(k)

(* A signal, seen at a tick of the main loop. *)
ShutDown ==
    /\ server = "running"
    /\ server' = "stopping"
    /\ conn' = [c \in Connections |-> ShutDownConnection(conn[c])]
    /\ UNCHANGED <<phase, result, drivers, answers, executions, outages, faults>>

(* _wait_tasks_to_complete(): no connections, then no tasks. *)
Exit ==
    /\ server = "stopping"
    /\ \A c \in Connections : conn[c].transport = "lost"
    /\ \A r \in Requests : phase[r] \notin InTask
    /\ server' = "exited"
    /\ UNCHANGED <<conn, phase, result, drivers, answers, executions, outages, faults>>

-----------------------------------------------------------------------------
(* What the process does by itself. *)
Task(r) ==
    \/ RunCheckEndpoint(r)
    \/ CreateDriver(r)
    \/ Health(r)
    \/ ClientDisconnect(r)
    \/ SendAnswer(r)
    \/ StartThread(r)
    \/ ExecuteCompliance(r)
    \/ EndTask(r)

Next ==
    \/ server # "exited" /\ \E r \in Requests : Task(r)
    \/ \E c \in Connections :
          \/ DataReceived(c)
          \/ ClientLeaves(c)
          \/ ConnectionLost(c)
          \/ KeepAliveTimeout(c)
    \/ ShutDown
    \/ Exit

Spec == Init /\ [][Next]_vars

(* The loop runs what is ready, worker threads end, the main loop ticks.   *)
FairSpec ==
    /\ Spec
    /\ \A r \in Requests : WF_vars(server # "exited" /\ Task(r))
    /\ \A c \in Connections : WF_vars(ConnectionLost(c))
    /\ WF_vars(Exit)

-----------------------------------------------------------------------------
TypeOK ==
    /\ \A c \in Connections :
         /\ conn[c].transport \in {"open", "closing", "lost"}
         /\ conn[c].cycle <= conn[c].sent /\ conn[c].sent <= Len(Script[c])
         /\ conn[c].cycle + Len(conn[c].buffer) = conn[c].sent
    /\ phase \in [Requests -> InTask \cup {"none", "over"}]
    /\ result \in [Requests -> {0, 200, 201, 202, 500, 503}]
    /\ server \in {"running", "stopping", "exited"}
    /\ outages \subseteq Requests /\ faults \subseteq Requests
    /\ Cardinality({r \in Requests : phase[r] = "thread"}) <= Threads

Answered(r) == \E j \in DOMAIN answers[r[1]] : answers[r[1]][j].of = r[2]

(* A connection carries the answers of its requests one by one in their    *)
(* order, however they were sent and whatever runs in the background.      *)
AnswersInOrder ==
    \A c \in Connections : \A j \in DOMAIN answers[c] :
        answers[c][j].of = j /\ answers[c][j].status = result[<<c, j>>]

(* "When starting to process a request, disable the keep-alive timeout":   *)
(* the timer of the answer before never closes a connection in use.        *)
TimerNeverInterrupts ==
    \A c \in Connections : conn[c].timer => ~Busy(conn[c])

(* A request that was begun is answered, unless its client has left or an  *)
(* error of an earlier request on the connection has closed it. A graceful *)
(* shutdown costs no answer.                                               *)
LostForCause ==
    \A r \in Requests :
        phase[r] \notin {"none", "created", "handled"} /\ ~Answered(r) =>
            conn[r[1]].left \/ \E i \in 1..(r[2] - 1) : <<r[1], i>> \in faults

(* A check that was accepted is executed, once: though the client leaves   *)
(* before it has its 202, and though the server is told to stop.           *)
AcceptedAreRun ==
    \A r \in Requests : result[r] = 202 =>
        /\ executions[r] <= 1
        /\ phase[r] = "over" \/ server = "exited" => executions[r] = 1

(* 201 means that the driver is stored; 500 that it is not, and that its   *)
(* license or its card was taken, possibly by the same registration whose  *)
(* answer was lost. Only a registration whose database connection broke is *)
(* told 500 without that, stored or not. Nothing is stored by a request    *)
(* that is told neither, and nobody's license or card twice.               *)
RegistrationTold ==
    \A r \in Requests : RequestOf(r).kind = "register" =>
        /\ result[r] = 201 => r \in drivers
        /\ result[r] = 500 /\ r \notin outages => r \notin drivers /\ Clash(r)
        /\ r \in drivers =>
              /\ result[r] \in {201, 500}
              /\ \A q \in drivers : SameDriver(q, r) => q = r

(* A connection that a stopping server still holds open has a request in   *)
(* hand, with its task at work, whose answer closes it: the exit waits for *)
(* no idle client and for nothing that is queued behind the request.       *)
ShutDownDrains ==
    server # "running" => \A c \in Connections :
        conn[c].transport = "open" =>
            /\ Busy(conn[c]) /\ ~conn[c].keepAlive
            /\ phase[<<c, conn[c].cycle>>] \in {"created", "handled"}

(* One connection's pipelined requests are served as if one by one: this   *)
(* module implements ServicePromise.                                       *)
Promise == INSTANCE ServicePromise
    WITH given <- result, told <- answers, registry <- drivers, ran <- executions

KeepsPromise == Promise!Spec

(* A graceful shutdown ends. *)
GracefulExit == server = "stopping" ~> server = "exited"
=============================================================================
