--------------------------- MODULE ServingProofs ----------------------------
(***************************************************************************)
(* Proofs about Serving, for any number of connections, requests and       *)
(* worker threads.                                                         *)
(***************************************************************************)
EXTENDS Serving, FiniteSetTheorems, TLAPS

Statuses == {0, 200, 201, 202, 500, 503}
Phases   == InTask \cup {"none", "over"}

Protocols ==
    [transport : {"open", "closing", "lost"}, timer : BOOLEAN, sent : Nat,
     buffer : Seq(Nat), cycle : Nat, complete : BOOLEAN, disconnected : BOOLEAN,
     keepAlive : BOOLEAN, left : BOOLEAN]

(* What holds of one protocol object by itself: behind the current request *)
(* the others wait in their order, the timer runs between requests only,   *)
(* and a cycle that is told of its client's leaving is in progress.        *)
Sound(k) ==
    /\ k \in Protocols
    /\ k.cycle + Len(k.buffer) = k.sent
    /\ \A j \in 1..Len(k.buffer) : k.buffer[j] = k.cycle + j
    /\ k.timer => ~Busy(k)
    /\ k.disconnected => Busy(k) /\ k.transport = "lost"

-----------------------------------------------------------------------------
(* Handling what is buffered begins at most one request, the next one.     *)
LEMMA HandleEventsSound ==
    ASSUME NEW k, Sound(k)
    PROVE  /\ Sound(HandleEvents(k))
           /\ HandleEvents(k).sent = k.sent
           /\ HandleEvents(k).left = k.left
           /\ HandleEvents(k).transport = k.transport
           /\ \/ HandleEvents(k) = k
              \/ /\ ~Busy(k) /\ Busy(HandleEvents(k))
                 /\ HandleEvents(k).cycle = k.cycle + 1
<1>1. CASE Busy(k) \/ k.buffer = <<>>
  BY <1>1 DEF HandleEvents
<1>2. CASE ~Busy(k) /\ k.buffer # <<>>
  <2> DEFINE h == NextCycle(k)
  <2>1. HandleEvents(k) = h
    BY <1>2 DEF HandleEvents
  <2>2. /\ Head(k.buffer) = k.cycle + 1
        /\ Tail(k.buffer) \in Seq(Nat)
        /\ Len(Tail(k.buffer)) = Len(k.buffer) - 1
        /\ \A j \in 1..Len(Tail(k.buffer)) : Tail(k.buffer)[j] = k.cycle + 1 + j
    BY <1>2, SMTT(30) DEF Sound, Protocols
  <2>3. /\ h.cycle = k.cycle + 1 /\ h.buffer = Tail(k.buffer) /\ h.sent = k.sent
        /\ h.left = k.left /\ h.transport = k.transport
        /\ h.timer = FALSE /\ h.complete = FALSE /\ h.disconnected = FALSE
    BY <2>2 DEF NextCycle, Sound, Protocols
  <2>3a. h \in Protocols
    <3>1. Head(k.buffer) \in Nat
      BY <2>2 DEF Sound, Protocols
    <3> QED BY <2>2, <3>1 DEF NextCycle, Sound, Protocols
  <2>4. Busy(h)
    BY <2>3, <2>3a DEF Busy, Sound, Protocols
  <2>5. Sound(h)
    BY <2>2, <2>3, <2>4, <2>3a DEF Sound, Protocols
  <2> QED BY <1>2, <2>1, <2>3, <2>4, <2>5
<1> QED BY <1>1, <1>2

(* Closing changes nothing but the transport.                              *)
LEMMA CloseSound ==
    ASSUME NEW k, Sound(k)
    PROVE  /\ Sound(Close(k))
           /\ Close(k).sent = k.sent /\ Close(k).left = k.left
           /\ Close(k).cycle = k.cycle /\ Close(k).complete = k.complete
           /\ Close(k).transport # "open"
           /\ Close(k).disconnected = k.disconnected
           /\ k.transport # "open" => Close(k).transport = k.transport
           /\ Busy(Close(k)) <=> Busy(k)
BY DEF Close, Sound, Protocols, Busy

(* An answer that ends leaves its cycle complete, or the next one begun.   *)
LEMMA OnResponseCompleteSound ==
    ASSUME NEW k, Sound(k), Busy(k), ~k.disconnected
    PROVE  LET n == OnResponseComplete(k)
           IN  /\ Sound(n) /\ n.sent = k.sent /\ n.left = k.left
               /\ k.transport # "open" => n.transport = k.transport
               /\ \/ n.cycle = k.cycle /\ ~Busy(n)
                  \/ n.cycle = k.cycle + 1 /\ Busy(n) /\ n.transport = "open"
<1> DEFINE done == [k EXCEPT !.complete = TRUE]
           n == OnResponseComplete(k)
<1>1. /\ Sound(done) /\ ~Busy(done) /\ done.cycle = k.cycle /\ done.sent = k.sent
      /\ done.left = k.left /\ done.transport = k.transport
  BY DEF Sound, Protocols, Busy
<1>2. CASE ~k.keepAlive \/ k.transport # "open"
  <2>1. n = Close(done)
    BY <1>2 DEF OnResponseComplete
  <2> HIDE DEF done, n
  <2>2. /\ Sound(n) /\ n.cycle = done.cycle /\ n.sent = done.sent /\ n.left = done.left
        /\ ~Busy(n)
        /\ k.transport # "open" => n.transport = k.transport
    BY <1>1, <2>1, CloseSound
  <2> QED BY <1>1, <2>2 DEF n
<1>3. CASE k.keepAlive /\ k.transport = "open"
  <2> DEFINE t == [done EXCEPT !.timer = TRUE]
  <2>1. n = HandleEvents(t)
    BY <1>3 DEF OnResponseComplete
  <2>2. /\ Sound(t) /\ ~Busy(t) /\ t.cycle = k.cycle /\ t.sent = k.sent
        /\ t.left = k.left /\ t.transport = "open"
    BY <1>3, <1>1 DEF Sound, Protocols, Busy
  <2> HIDE DEF t
  <2>3. QED BY <1>3, <2>1, <2>2, HandleEventsSound
<1> QED BY <1>2, <1>3 DEF Sound, Protocols

(* The same, of any step and any connection: its object stays sound, and   *)
(* its cycle either stays as it is, or ends, or gives way to the next one. *)
Began(k, n) == n.cycle = k.cycle + 1 /\ Busy(n) /\ k.transport = "open"

Kept(k, n) == n.cycle = k.cycle /\ (Busy(n) => Busy(k))

Moved(k, n) ==
    /\ Sound(n)
    /\ k.left => n.left
    /\ n.transport = "open" => k.transport = "open"
    /\ Kept(k, n) \/ Began(k, n)

TypeInv ==
    /\ conn \in [Connections -> Protocols]
    /\ \A c \in Connections : Sound(conn[c]) /\ conn[c].sent <= Len(Script[c])
    /\ phase \in [Requests -> Phases]
    /\ result \in [Requests -> Statuses]
    /\ answers \in [Connections -> Seq([of : Nat, status : Statuses])]
    /\ executions \in [Requests -> Nat]
    /\ server \in {"running", "stopping", "exited"}
    /\ outages \subseteq Requests /\ faults \subseteq Requests

(* A request is its connection and its place in the script.                *)
LEMMA RequestsAre ==
    /\ \A c \in Connections, i \in Nat : <<c, i>> \in Requests <=> i \in 1..Len(Script[c])
    /\ \A r \in Requests :
         /\ r[1] \in Connections /\ r[2] \in 1..Len(Script[r[1]]) /\ r[2] \in Nat
         /\ r = <<r[1], r[2]>>
BY ScriptAssumption DEF Requests

(* The next request comes in: it begins, or queues behind the current one. *)
LEMMA DataReceivedMoves ==
    ASSUME TypeInv, NEW c \in Connections, DataReceived(c)
    PROVE  /\ conn' = [conn EXCEPT ![c] = conn'[c]]
           /\ Moved(conn[c], conn'[c]) /\ conn'[c].sent <= Len(Script[c])
           /\ conn'[c].cycle = conn[c].cycle => (Busy(conn'[c]) <=> Busy(conn[c]))
           /\ conn'[c].cycle # conn[c].cycle => ~Busy(conn[c])
           /\ conn[c].transport = "open"
           /\ conn'[c].transport = conn[c].transport
           /\ phase' = IF conn'[c].cycle # conn[c].cycle
                       THEN [phase EXCEPT ![<<c, conn'[c].cycle>>] = "created"] ELSE phase
<1> DEFINE i == conn[c].sent + 1
           k == [conn[c] EXCEPT !.sent = i, !.timer = FALSE, !.buffer = Append(@, i)]
<1>1. /\ Sound(conn[c]) /\ conn[c].transport = "open" /\ i \in 1..Len(Script[c])
      /\ conn' = [conn EXCEPT ![c] = HandleEvents(k)]
      /\ phase' = IF HandleEvents(k).cycle # conn[c].cycle
                  THEN [phase EXCEPT ![<<c, HandleEvents(k).cycle>>] = "created"] ELSE phase
  BY ScriptAssumption DEF DataReceived, Become, TypeInv
<1>2. conn'[c] = HandleEvents(k)
  BY <1>1 DEF TypeInv
<1>3. /\ Append(conn[c].buffer, i) \in Seq(Nat)
      /\ Len(Append(conn[c].buffer, i)) = Len(conn[c].buffer) + 1
      /\ \A j \in 1..Len(conn[c].buffer) + 1 :
           Append(conn[c].buffer, i)[j] = conn[c].cycle + j
  BY <1>1 DEF Sound, Protocols
<1>4. /\ k.sent = i /\ k.cycle = conn[c].cycle
      /\ k.complete = conn[c].complete
      /\ k.buffer = Append(conn[c].buffer, i) /\ k.left = conn[c].left
      /\ k.transport = conn[c].transport /\ k.timer = FALSE
      /\ k.disconnected = conn[c].disconnected
  <2>1. conn[c] \in Protocols
    BY <1>1 DEF Sound
  <2> QED BY <2>1 DEF Protocols
<1>4a. k \in Protocols
  <2>1. conn[c] \in Protocols /\ i \in Nat
    BY <1>1 DEF Sound, Protocols
  <2> QED BY <2>1, <1>3 DEF Protocols
<1>5. Busy(k) <=> Busy(conn[c])
  BY <1>4 DEF Busy
<1> HIDE DEF k
<1>6. Sound(k)
  <2>1. /\ conn[c].cycle \in Nat /\ conn[c].sent \in Nat /\ Len(conn[c].buffer) \in Nat
        /\ conn[c].cycle + Len(conn[c].buffer) = conn[c].sent
        /\ conn[c].disconnected => Busy(conn[c]) /\ conn[c].transport = "lost"
    BY <1>1 DEF Sound, Protocols
  <2>2. k.cycle + Len(k.buffer) = k.sent
    <3>1. Len(k.buffer) = Len(conn[c].buffer) + 1
      BY <1>3, <1>4
    <3>2. k.sent = conn[c].sent + 1
      BY <1>4
    <3>3. k.cycle = conn[c].cycle
      BY <1>4
    <3>4. /\ conn[c].cycle \in Nat /\ conn[c].sent \in Nat /\ Len(conn[c].buffer) \in Nat
          /\ conn[c].cycle + Len(conn[c].buffer) = conn[c].sent
      BY <2>1
    <3> HIDE DEF i
    <3> DEFINE a == conn[c].cycle
               b == Len(conn[c].buffer)
               n == conn[c].sent
    <3>5. /\ a \in Nat /\ b \in Nat /\ n \in Nat /\ a + b = n
          /\ k.cycle = a /\ Len(k.buffer) = b + 1 /\ k.sent = n + 1
      BY <3>1, <3>2, <3>3, <3>4
    <3> HIDE DEF a, b, n
    <3>6. a + (b + 1) = n + 1
      BY <3>5
    <3> QED BY <3>5, <3>6
  <2>3. \A j \in 1..Len(k.buffer) : k.buffer[j] = k.cycle + j
    BY <1>3, <1>4
  <2> QED BY <1>4, <1>4a, <1>5, <2>1, <2>2, <2>3 DEF Sound
<1>7. HandleEvents(k) = k \/ (~Busy(k) /\ Busy(HandleEvents(k))
                               /\ HandleEvents(k).cycle = k.cycle + 1)
  BY <1>6, HandleEventsSound
<1>8. Sound(HandleEvents(k)) /\ HandleEvents(k).sent = k.sent
      /\ HandleEvents(k).left = k.left /\ HandleEvents(k).transport = k.transport
  BY <1>6, HandleEventsSound
<1>9. conn[c].cycle \in Nat
  BY <1>1 DEF Sound, Protocols
<1>10. Moved(conn[c], conn'[c])
  BY <1>1, <1>2, <1>4, <1>5, <1>7, <1>8, <1>9 DEF Moved, Kept, Began
<1>11. /\ conn'[c].cycle = conn[c].cycle => (Busy(conn'[c]) <=> Busy(conn[c]))
       /\ conn'[c].cycle # conn[c].cycle => ~Busy(conn[c])
  BY <1>2, <1>4, <1>5, <1>7, <1>9
<1>12. conn' = [conn EXCEPT ![c] = conn'[c]]
  BY <1>1, <1>2
<1>13. /\ conn'[c].sent <= Len(Script[c])
       /\ conn'[c].transport = conn[c].transport
  BY <1>1, <1>2, <1>4, <1>8
<1> QED
  BY <1>1, <1>2, <1>10, <1>11, <1>12, <1>13

(* A request whose handler has not yet been answered is the current one.   *)
Tracked ==
    \A r \in Requests :
        /\ phase[r] = "none" <=> r[2] > conn[r[1]].cycle
        /\ phase[r] \in {"created", "handled"} =>
             r[2] = conn[r[1]].cycle /\ Busy(conn[r[1]])

(* An answer ends its request and begins the next one, if one is buffered  *)
(* and the connection goes on.                                             *)
LEMMA SendAnswerMoves ==
    ASSUME TypeInv, Tracked, NEW r \in Requests, SendAnswer(r),
           ~conn[r[1]].disconnected
    PROVE  /\ r[1] \in Connections
           /\ conn' = [conn EXCEPT ![r[1]] = conn'[r[1]]]
           /\ Moved(conn[r[1]], conn'[r[1]]) /\ conn'[r[1]].sent = conn[r[1]].sent
           /\ conn'[r[1]].cycle = conn[r[1]].cycle => ~Busy(conn'[r[1]])
           /\ Busy(conn'[r[1]]) /\ conn'[r[1]].transport # "open" => r \in faults'
           /\ phase' = IF conn'[r[1]].cycle # conn[r[1]].cycle
                       THEN [phase EXCEPT ![r] = AfterAnswer(r),
                                          ![<<r[1], conn'[r[1]].cycle>>] = "created"]
                       ELSE [phase EXCEPT ![r] = AfterAnswer(r)]
           /\ faults' \in {faults, faults \cup {r}}
<1> DEFINE c == r[1]
           k == OnResponseComplete(conn[c])
           n == IF Raised(r) THEN Close(k) ELSE k
<1>1. /\ c \in Connections /\ conn' = [conn EXCEPT ![c] = n]
      /\ phase' = IF n.cycle # conn[c].cycle
                  THEN [phase EXCEPT ![r] = AfterAnswer(r), ![<<c, n.cycle>>] = "created"]
                  ELSE [phase EXCEPT ![r] = AfterAnswer(r)]
      /\ faults' = IF Raised(r) THEN faults \cup {r} ELSE faults
      /\ phase[r] = "handled"
  BY RequestsAre DEF SendAnswer, Become
<1>2. conn'[c] = n
  BY <1>1 DEF TypeInv
<1>3. /\ Sound(conn[c]) /\ Busy(conn[c]) /\ ~conn[c].disconnected
      /\ conn[c].cycle \in Nat
  BY <1>1 DEF TypeInv, Tracked, Sound, Protocols
<1>4. /\ Sound(k) /\ k.sent = conn[c].sent /\ k.left = conn[c].left
      /\ conn[c].transport # "open" => k.transport = conn[c].transport
      /\ \/ k.cycle = conn[c].cycle /\ ~Busy(k)
         \/ k.cycle = conn[c].cycle + 1 /\ Busy(k) /\ k.transport = "open"
  BY <1>3, OnResponseCompleteSound
<1> HIDE DEF k
<1>5. /\ Sound(n) /\ n.sent = k.sent /\ n.left = k.left /\ n.cycle = k.cycle
      /\ Busy(n) <=> Busy(k)
      /\ n.transport = "open" => k.transport = "open"
      /\ ~Raised(r) => n.transport = k.transport
  <2>1. CASE Raised(r)
    BY <2>1, <1>4, CloseSound
  <2>2. CASE ~Raised(r)
    BY <2>2, <1>4
  <2> QED BY <2>1, <2>2
<1> HIDE DEF n, c
<1>6. Moved(conn[c], n)
  BY <1>3, <1>4, <1>5 DEF Moved, Kept, Began
<1>7. n.cycle = conn[c].cycle => ~Busy(n)
  BY <1>3, <1>4, <1>5
<1>8. Busy(n) /\ n.transport # "open" => r \in faults'
  BY <1>1, <1>4, <1>5
<1>9. conn' = [conn EXCEPT ![c] = conn'[c]]
  BY <1>1, <1>2
<1>10. phase' = IF conn'[c].cycle # conn[c].cycle
                THEN [phase EXCEPT ![r] = AfterAnswer(r),
                                   ![<<c, conn'[c].cycle>>] = "created"]
                ELSE [phase EXCEPT ![r] = AfterAnswer(r)]
  BY <1>1, <1>2
<1>11. /\ Moved(conn[c], conn'[c]) /\ conn'[c].sent = conn[c].sent
       /\ conn'[c].cycle = conn[c].cycle => ~Busy(conn'[c])
       /\ Busy(conn'[c]) /\ conn'[c].transport # "open" => r \in faults'
  BY <1>2, <1>4, <1>5, <1>6, <1>7, <1>8
<1> QED BY <1>1, <1>9, <1>10, <1>11 DEF c

(* The steps that neither begin nor end a request on any connection.       *)
Settled ==
    /\ \A c \in Connections :
         /\ Moved(conn[c], conn'[c]) /\ conn'[c].sent = conn[c].sent
         /\ conn'[c].cycle = conn[c].cycle /\ (Busy(conn'[c]) <=> Busy(conn[c]))
    /\ conn' \in [Connections -> Protocols]
    /\ answers' = answers

SettlingStep ==
    \/ \E c \in Connections : ClientLeaves(c) \/ ConnectionLost(c) \/ KeepAliveTimeout(c)
    \/ \E r \in Requests : EndTask(r)
    \/ ShutDown

(* A connection that is left alone is a case of Moved.                     *)
LEMMA MovedRefl == ASSUME NEW k, Sound(k) PROVE Moved(k, k)
BY DEF Moved, Kept

(* Leaving, loss, timeout, the end of a task and a shutdown keep every     *)
(* object sound and every request as it is.                                *)
LEMMA Settling == TypeInv /\ SettlingStep => Settled
<1> SUFFICES ASSUME TypeInv, SettlingStep PROVE Settled
  OBVIOUS
<1>1. \A c \in Connections : Moved(conn[c], conn[c]) /\ Sound(conn[c])
  BY MovedRefl DEF TypeInv
<1>2. ASSUME NEW c \in Connections, ClientLeaves(c) PROVE Settled
  <2>1. /\ conn' = [conn EXCEPT ![c].left = TRUE] /\ answers' = answers
    BY <1>2 DEF ClientLeaves
  <2> DEFINE n == [conn[c] EXCEPT !.left = TRUE]
  <2>2. conn'[c] = n /\ \A d \in Connections \ {c} : conn'[d] = conn[d]
    BY <2>1 DEF TypeInv
  <2>3. Sound(n) /\ n.sent = conn[c].sent /\ n.cycle = conn[c].cycle
        /\ n.transport = conn[c].transport /\ n.left /\ (Busy(n) <=> Busy(conn[c]))
    BY <1>1 DEF Sound, Protocols, Busy
  <2> HIDE DEF n
  <2>4. Moved(conn[c], n)
    BY <2>3 DEF Moved, Kept
  <2>5. n \in Protocols
    BY <2>3 DEF Sound
  <2>6. conn' \in [Connections -> Protocols]
    BY <2>1, <2>2, <2>5 DEF TypeInv
  <2> QED BY <1>1, <2>1, <2>2, <2>3, <2>4, <2>6 DEF Settled
<1>3. ASSUME NEW c \in Connections, ConnectionLost(c) PROVE Settled
  <2> DEFINE n == [conn[c] EXCEPT !.transport = "lost", !.timer = FALSE,
                                  !.disconnected = Busy(conn[c])]
  <2>1. /\ conn' = [conn EXCEPT ![c] = n] /\ answers' = answers
    BY <1>3 DEF ConnectionLost, TypeInv
  <2>2. conn'[c] = n /\ \A d \in Connections \ {c} : conn'[d] = conn[d]
    BY <2>1 DEF TypeInv
  <2>0. Busy(conn[c]) \in BOOLEAN
    BY DEF Busy
  <2>3. Sound(n) /\ n.sent = conn[c].sent /\ n.cycle = conn[c].cycle
        /\ n.transport = "lost" /\ n.left = conn[c].left /\ (Busy(n) <=> Busy(conn[c]))
    BY <1>1, <2>0 DEF Sound, Protocols, Busy
  <2> HIDE DEF n
  <2>4. Moved(conn[c], n)
    BY <2>3 DEF Moved, Kept
  <2>5. n \in Protocols
    BY <2>3 DEF Sound
  <2>6. conn' \in [Connections -> Protocols]
    BY <2>1, <2>2, <2>5 DEF TypeInv
  <2> QED BY <1>1, <2>1, <2>2, <2>3, <2>4, <2>6 DEF Settled
<1>4. ASSUME NEW c \in Connections, KeepAliveTimeout(c) PROVE Settled
  <2> DEFINE m == Close(conn[c])
             n == [m EXCEPT !.timer = FALSE]
  <2>1. /\ conn' = [conn EXCEPT ![c] = n] /\ answers' = answers
    BY <1>4 DEF KeepAliveTimeout
  <2>2. conn'[c] = n /\ \A d \in Connections \ {c} : conn'[d] = conn[d]
    BY <2>1 DEF TypeInv
  <2>3. /\ Sound(m) /\ m.sent = conn[c].sent /\ m.cycle = conn[c].cycle
        /\ m.transport # "open" /\ m.left = conn[c].left /\ (Busy(m) <=> Busy(conn[c]))
    BY <1>1, CloseSound
  <2> HIDE DEF m
  <2>4. Sound(n) /\ n.sent = m.sent /\ n.cycle = m.cycle
        /\ n.transport = m.transport /\ n.left = m.left /\ (Busy(n) <=> Busy(m))
    BY <2>3 DEF Sound, Protocols, Busy
  <2> HIDE DEF n
  <2>5. Moved(conn[c], n)
    BY <2>3, <2>4 DEF Moved, Kept
  <2>6. n \in Protocols
    BY <2>4 DEF Sound
  <2>7. conn' \in [Connections -> Protocols]
    BY <2>1, <2>2, <2>6 DEF TypeInv
  <2> QED BY <1>1, <2>1, <2>2, <2>3, <2>4, <2>5, <2>7 DEF Settled
<1>5. ASSUME NEW r \in Requests, EndTask(r) PROVE Settled
  <2>1. CASE phase[r] = "broken"
    <3> DEFINE c == r[1]
               n == Close(conn[c])
    <3>1. c \in Connections /\ conn' = [conn EXCEPT ![c] = n] /\ answers' = answers
      BY <1>5, <2>1, RequestsAre DEF EndTask
    <3>2. conn'[c] = n /\ \A d \in Connections \ {c} : conn'[d] = conn[d]
      BY <3>1 DEF TypeInv
    <3>3. /\ Sound(n) /\ n.sent = conn[c].sent /\ n.cycle = conn[c].cycle
          /\ n.transport # "open" /\ n.left = conn[c].left /\ (Busy(n) <=> Busy(conn[c]))
      BY <1>1, <3>1, CloseSound
    <3> HIDE DEF n, c
    <3>4. Moved(conn[c], n)
      BY <3>3 DEF Moved, Kept
    <3>5. n \in Protocols
      BY <3>3 DEF Sound
    <3>6. conn' \in [Connections -> Protocols]
      BY <3>1, <3>2, <3>5 DEF TypeInv
    <3> QED BY <1>1, <3>1, <3>2, <3>3, <3>4, <3>6 DEF Settled
  <2>2. CASE phase[r] # "broken"
    <3>1. conn' = conn /\ answers' = answers
      BY <1>5, <2>2 DEF EndTask
    <3> QED BY <1>1, <3>1 DEF Settled, TypeInv
  <2> QED BY <2>1, <2>2
<1>6. CASE ShutDown
  <2>1. /\ conn' = [c \in Connections |-> ShutDownConnection(conn[c])] /\ answers' = answers
    BY <1>6 DEF ShutDown
  <2>2. ASSUME NEW c \in Connections
        PROVE  /\ Moved(conn[c], conn'[c]) /\ conn'[c].sent = conn[c].sent
               /\ conn'[c].cycle = conn[c].cycle /\ (Busy(conn'[c]) <=> Busy(conn[c]))
    <3>1. conn'[c] = ShutDownConnection(conn[c])
      BY <2>1
    <3>2. CASE Busy(conn[c])
      <4> DEFINE n == [conn[c] EXCEPT !.keepAlive = FALSE]
      <4>1. conn'[c] = n
        BY <3>1, <3>2 DEF ShutDownConnection
      <4>2. Sound(n) /\ n.sent = conn[c].sent /\ n.cycle = conn[c].cycle
            /\ n.transport = conn[c].transport /\ n.left = conn[c].left
            /\ (Busy(n) <=> Busy(conn[c]))
        BY <1>1 DEF Sound, Protocols, Busy
      <4> HIDE DEF n
      <4> QED BY <4>1, <4>2 DEF Moved, Kept
    <3>3. CASE ~Busy(conn[c])
      <4>1. conn'[c] = Close(conn[c])
        BY <3>1, <3>3 DEF ShutDownConnection
      <4> QED BY <1>1, <4>1, CloseSound DEF Moved, Kept
    <3> QED BY <3>2, <3>3
  <2>3. conn' \in [Connections -> Protocols]
    <3>1. \A c \in Connections : conn'[c] \in Protocols
      BY <2>2 DEF Moved, Sound
    <3>2. conn' = [c \in Connections |-> conn'[c]]
      BY <2>1
    <3> QED BY <3>1, <3>2
  <2> QED BY <2>1, <2>2, <2>3 DEF Settled
<1> QED BY <1>2, <1>3, <1>4, <1>5, <1>6 DEF SettlingStep

-----------------------------------------------------------------------------
(* The inductive invariant.                                                *)

(* A request in progress on an open connection waits for its handler or    *)
(* for its answer; on one that is no longer open, there is a cause.        *)
Cause(c, n) == conn[c].left \/ \E i \in 1..n - 1 : <<c, i>> \in faults

Working ==
    \A c \in Connections :
        Busy(conn[c]) =>
            IF conn[c].transport = "open"
            THEN phase[<<c, conn[c].cycle>>] \in {"created", "handled"}
            ELSE Cause(c, conn[c].cycle)

(* How many requests of c have been begun and ended. *)
Ended(k) == IF Busy(k) THEN k.cycle - 1 ELSE k.cycle

(* The answers of an open connection are those of what has ended.          *)
Told ==
    \A c \in Connections :
        /\ Len(answers[c]) <= Ended(conn[c])
        /\ conn[c].transport = "open" => Len(answers[c]) = Ended(conn[c])
        /\ \A j \in 1..Len(answers[c]) :
             answers[c][j].of = j /\ answers[c][j].status = result[<<c, j>>]

(* A request in progress, on any connection, is the first unanswered one.  *)
Serial ==
    \A c \in Connections : Busy(conn[c]) => Len(answers[c]) = conn[c].cycle - 1

(* No result before the handler, no execution before the thread, and one   *)
(* after it, of checks only.                                               *)
Accounted ==
    \A r \in Requests :
        /\ phase[r] \in {"none", "created"} => result[r] = 0
        /\ phase[r] \in {"handled", "background", "thread"} => result[r] # 0
        /\ phase[r] \in {"background", "thread"} => RequestOf(r).kind = "check"
        /\ RequestOf(r).kind = "check" => result[r] \in {0, 202}
        /\ phase[r] \in {"none", "created", "handled", "background", "thread"} =>
             executions[r] = 0
        /\ result[r] = 202 =>
             /\ RequestOf(r).kind = "check"
             /\ phase[r] \in {"returned", "broken", "over"} => executions[r] = 1

(* Nothing is left to do once the server has exited.                       *)
Quiet ==
    server = "exited" =>
        /\ \A c \in Connections : conn[c].transport # "open"
        /\ \A r \in Requests : phase[r] \notin InTask

Stored == \A r \in drivers : r \in Requests /\ RequestOf(r).kind = "register"

Threaded ==
    LET T == {r \in Requests : phase[r] = "thread"}
    IN  IsFiniteSet(T) /\ Cardinality(T) <= Threads

(* Once the server stops, an open connection has a request in hand that    *)
(* closes it.                                                              *)
Draining ==
    server # "running" => \A c \in Connections :
        conn[c].transport = "open" => Busy(conn[c]) /\ ~conn[c].keepAlive

IInv ==
    /\ TypeInv
    /\ Tracked
    /\ Working
    /\ Told
    /\ Serial
    /\ Draining
    /\ LostForCause
    /\ Accounted
    /\ Quiet
    /\ RegistrationTold /\ Stored
    /\ Threaded

-----------------------------------------------------------------------------
(* The steps of a task that leave every connection alone.                  *)
HandlingStep(r) == RunCheckEndpoint(r) \/ CreateDriver(r) \/ Health(r)

LoneStep(r) == ClientDisconnect(r) \/ StartThread(r) \/ ExecuteCompliance(r)

(* Every step is of one of these kinds.                                    *)
LEMMA Kinds ==
    ASSUME [Next]_vars
    PROVE  \/ \E c \in Connections : DataReceived(c)
           \/ SettlingStep
           \/ \E r \in Requests : SendAnswer(r)
           \/ \E r \in Requests : HandlingStep(r)
           \/ \E r \in Requests : LoneStep(r)
           \/ Exit
           \/ UNCHANGED vars
BY DEF Next, Task, SettlingStep, HandlingStep, LoneStep

(* The handler of r has given a status, which is 202 if r is a check. *)
Gives(r) ==
    \E s \in Statuses : /\ result' = [result EXCEPT ![r] = s]
                        /\ s # 0 /\ (s = 202 <=> RequestOf(r).kind = "check")

(* A handler changes the phase and the result of its own request only.     *)
LEMMA Handling ==
    ASSUME NEW r \in Requests, HandlingStep(r)
    PROVE  /\ phase[r] = "created" /\ phase' = [phase EXCEPT ![r] = "handled"]
           /\ Gives(r)
           /\ UNCHANGED <<conn, server, answers, executions, faults>>
           /\ outages' \in {outages, outages \cup {r}}
<1>1. ASSUME NEW s \in Statuses, Handled(r, s), s # 0, s = 202 <=> RequestOf(r).kind = "check"
      PROVE  Gives(r)
  BY <1>1 DEF Handled, Gives
<1>2. CASE RunCheckEndpoint(r)
  BY <1>1, <1>2 DEF RunCheckEndpoint, Handled, Runs, Statuses
<1>3. CASE CreateDriver(r)
  <2>1. phase[r] = "created" /\ outages' \in {outages, outages \cup {r}}
    BY <1>3 DEF CreateDriver, Runs
  <2>2. PICK s \in {201, 500} : Handled(r, s)
    BY <1>3 DEF CreateDriver
  <2>3. s \in Statuses /\ s \notin {0, 202} /\ RequestOf(r).kind # "check"
    BY <1>3 DEF Statuses, CreateDriver, Runs
  <2>4. Gives(r)
    BY <1>1, <2>2, <2>3
  <2> QED BY <2>1, <2>2, <2>4 DEF Handled
<1>4. CASE Health(r)
  <2>1. PICK s \in {200, 503} : Handled(r, s)
    BY <1>4 DEF Health
  <2>2. phase[r] = "created" /\ outages' = outages
    BY <1>4 DEF Health, Runs
  <2>3. s \in Statuses /\ s \notin {0, 202} /\ RequestOf(r).kind # "check"
    BY <1>4 DEF Statuses, Health, Runs
  <2>4. Gives(r)
    BY <1>1, <2>1, <2>3
  <2> QED BY <2>1, <2>2, <2>4 DEF Handled
<1> QED BY <1>2, <1>3, <1>4 DEF HandlingStep

(* What a step of a lone task does: give up, start its thread, or execute. *)
LEMMA Alone ==
    ASSUME NEW r \in Requests, LoneStep(r)
    PROVE  /\ UNCHANGED <<conn, result, drivers, server, answers, outages, faults>>
           /\ \/ /\ phase[r] = "created" /\ phase' = [phase EXCEPT ![r] = "over"]
                 /\ conn[r[1]].disconnected /\ executions' = executions
              \/ /\ phase[r] = "background" /\ phase' = [phase EXCEPT ![r] = "thread"]
                 /\ executions' = executions
              \/ /\ phase[r] = "thread"
                 /\ \E p \in {"returned", "broken"} : phase' = [phase EXCEPT ![r] = p]
                 /\ executions' = [executions EXCEPT ![r] = @ + 1]
BY DEF LoneStep, ClientDisconnect, StartThread, ExecuteCompliance

(* A settling step ends tasks at most, and forgets no fault.               *)
LEMMA SettlingPhases ==
    ASSUME TypeInv, SettlingStep
    PROVE  /\ UNCHANGED <<result, drivers, executions, outages>>
           /\ faults \subseteq faults' /\ faults' \subseteq Requests
           /\ server' \in {server, "stopping"} /\ (server = "exited" => server' = "exited")
           /\ phase' \in [Requests -> Phases]
           /\ \A r \in Requests :
                \/ phase'[r] = phase[r]
                \/ phase[r] \in {"returned", "broken"} /\ phase'[r] = "over"
<1>1. ASSUME NEW c \in Connections, ClientLeaves(c) \/ ConnectionLost(c) \/ KeepAliveTimeout(c)
      PROVE  UNCHANGED <<phase, result, drivers, server, executions, outages, faults>>
  BY <1>1 DEF ClientLeaves, ConnectionLost, KeepAliveTimeout
<1>2. ASSUME NEW r \in Requests, EndTask(r)
      PROVE  /\ UNCHANGED <<result, drivers, server, executions, outages>>
             /\ faults' \in {faults, faults \cup {r}}
             /\ phase[r] \in {"returned", "broken"} /\ phase' = [phase EXCEPT ![r] = "over"]
  BY <1>2 DEF EndTask
<1>3. ASSUME ShutDown
      PROVE  /\ UNCHANGED <<phase, result, drivers, executions, outages, faults>>
             /\ server = "running" /\ server' = "stopping"
  BY <1>3 DEF ShutDown
<1>4. phase \in [Requests -> Phases] /\ faults \subseteq Requests /\ "over" \in Phases
  BY DEF TypeInv, Phases
<1> QED BY <1>1, <1>2, <1>3, <1>4 DEF SettlingStep

(* What SendAnswer leaves alone, and what it writes.                       *)
LEMMA SendAnswerRest ==
    ASSUME TypeInv, NEW r \in Requests, SendAnswer(r)
    PROVE  /\ UNCHANGED <<result, drivers, server, executions, outages>>
           /\ phase[r] = "handled"
           /\ conn[r[1]].disconnected =>
                /\ UNCHANGED <<conn, answers, faults>>
                /\ phase' = [phase EXCEPT ![r] = AfterAnswer(r)]
           /\ ~conn[r[1]].disconnected =>
                /\ faults' \in {faults, faults \cup {r}}
                /\ answers' = IF conn[r[1]].transport = "open"
                              THEN [answers EXCEPT ![r[1]] =
                                      Append(@, [of |-> r[2], status |-> result[r]])]
                              ELSE answers
           /\ AfterAnswer(r) = IF RequestOf(r).kind = "check" THEN "background" ELSE "over"
BY DEF SendAnswer, AfterAnswer

(* Every step keeps the types and the soundness of every connection.       *)
LEMMA TypeKept == TypeInv /\ Tracked /\ [Next]_vars => TypeInv'
<1> SUFFICES ASSUME TypeInv, Tracked, [Next]_vars PROVE TypeInv'
  OBVIOUS
<1>1. ASSUME NEW c \in Connections, DataReceived(c) PROVE TypeInv'
  <2>1. /\ conn' = [conn EXCEPT ![c] = conn'[c]]
        /\ Sound(conn'[c]) /\ conn'[c].sent <= Len(Script[c])
        /\ phase' \in {phase, [phase EXCEPT ![<<c, conn'[c].cycle>>] = "created"]}
    BY <1>1, DataReceivedMoves DEF Moved
  <2>2. UNCHANGED <<result, drivers, server, answers, executions, outages, faults>>
    BY <1>1 DEF DataReceived
  <2>3. phase' \in [Requests -> Phases]
    BY <2>1 DEF TypeInv, Phases, InTask
  <2>4. conn'[c] \in Protocols
    BY <2>1 DEF Sound
  <2>5. conn' \in [Connections -> Protocols]
    BY <2>1, <2>4 DEF TypeInv
  <2>6. \A d \in Connections \ {c} : conn'[d] = conn[d]
    BY <2>1 DEF TypeInv
  <2>7. \A d \in Connections : Sound(conn'[d]) /\ conn'[d].sent <= Len(Script[d])
    BY <2>1, <2>6 DEF TypeInv
  <2> QED BY <2>2, <2>3, <2>5, <2>7 DEF TypeInv
<1>2. CASE SettlingStep
  <2>1. Settled
    BY <1>2, Settling
  <2>2. \A d \in Connections : Sound(conn'[d]) /\ conn'[d].sent <= Len(Script[d])
    BY <2>1 DEF Settled, Moved, TypeInv
  <2> QED BY <1>2, <2>1, <2>2, SettlingPhases DEF TypeInv, Settled
<1>3. ASSUME NEW r \in Requests, SendAnswer(r) PROVE TypeInv'
  <2>1. AfterAnswer(r) \in Phases /\ result[r] \in Statuses
    BY DEF AfterAnswer, Phases, InTask, TypeInv
  <2>2. CASE conn[r[1]].disconnected
    BY <1>3, <2>1, <2>2, SendAnswerRest DEF TypeInv
  <2>3. CASE ~conn[r[1]].disconnected
    <3> DEFINE c == r[1]
    <3>1. /\ c \in Connections /\ r[2] \in Nat
          /\ conn' = [conn EXCEPT ![c] = conn'[c]]
          /\ Sound(conn'[c]) /\ conn'[c].sent = conn[c].sent
          /\ phase' \in {[phase EXCEPT ![r] = AfterAnswer(r)],
                         [phase EXCEPT ![r] = AfterAnswer(r),
                                       ![<<r[1], conn'[r[1]].cycle>>] = "created"]}
      BY <1>3, <2>3, SendAnswerMoves, RequestsAre DEF Moved
    <3>2. phase' \in [Requests -> Phases]
      BY <2>1, <3>1 DEF TypeInv, Phases, InTask
    <3>3. conn'[c] \in Protocols
      BY <3>1 DEF Sound
    <3>4. conn' \in [Connections -> Protocols]
      BY <3>1, <3>3 DEF TypeInv
    <3>5. \A d \in Connections \ {c} : conn'[d] = conn[d]
      BY <3>1 DEF TypeInv
    <3>6. \A d \in Connections : Sound(conn'[d]) /\ conn'[d].sent <= Len(Script[d])
      BY <3>1, <3>5 DEF TypeInv
    <3>7. answers' \in [Connections -> Seq([of : Nat, status : Statuses])]
      <4> DEFINE R == [of : Nat, status : Statuses]
                 a == [of |-> r[2], status |-> result[r]]
      <4>1. a \in R
        BY <2>1, <3>1
      <4>2. answers \in [Connections -> Seq(R)]
        BY DEF TypeInv
      <4>3. answers' \in {answers, [answers EXCEPT ![c] = Append(@, a)]}
        BY <1>3, <2>3, SendAnswerRest
      <4> HIDE DEF R, a
      <4>4. Append(answers[c], a) \in Seq(R)
        BY <3>1, <4>1, <4>2
      <4>5. answers' \in [Connections -> Seq(R)]
        BY <3>1, <4>2, <4>3, <4>4
      <4> QED BY <4>5 DEF R
    <3> QED BY <1>3, <2>3, <3>2, <3>4, <3>6, <3>7, SendAnswerRest DEF TypeInv
  <2> QED BY <2>2, <2>3
<1>4. ASSUME NEW r \in Requests, HandlingStep(r) PROVE TypeInv'
  <2>1. "handled" \in Phases
    BY DEF Phases, InTask
  <2>2. Gives(r)
    BY <1>4, Handling
  <2>3. result' \in [Requests -> Statuses]
    BY <2>2 DEF TypeInv, Gives
  <2> QED BY <1>4, <2>1, <2>3, Handling DEF TypeInv
<1>5. ASSUME NEW r \in Requests, LoneStep(r) PROVE TypeInv'
  <2>1. {"over", "thread", "returned", "broken"} \subseteq Phases
    BY DEF Phases, InTask
  <2>2. executions[r] + 1 \in Nat
    BY DEF TypeInv
  <2>3. phase' \in [Requests -> Phases]
    <3>1. \E p \in Phases : phase' = [phase EXCEPT ![r] = p]
      BY <1>5, <2>1, Alone
    <3> QED BY <3>1 DEF TypeInv
  <2>4. executions' \in [Requests -> Nat]
    BY <1>5, <2>2, Alone DEF TypeInv
  <2>5. UNCHANGED <<conn, result, drivers, server, answers, outages, faults>>
    BY <1>5, Alone
  <2> QED BY <2>3, <2>4, <2>5 DEF TypeInv
<1>6. CASE Exit
  BY <1>6 DEF Exit, TypeInv
<1>7. CASE UNCHANGED vars
  BY <1>7 DEF vars, TypeInv
<1> QED BY <1>1, <1>2, <1>3, <1>4, <1>5, <1>6, <1>7, Kinds

(* Causes and answers are for good.                                        *)
LEMMA Lasting ==
    ASSUME TypeInv, Tracked, [Next]_vars
    PROVE  /\ \A c \in Connections, n \in Nat : Cause(c, n) => Cause(c, n)'
           /\ faults \subseteq faults'
<1>1. ASSUME NEW d \in Connections PROVE conn[d].left => conn'[d].left
  <2>1. ASSUME NEW c \in Connections, DataReceived(c) PROVE conn[d].left => conn'[d].left
    BY <2>1, DataReceivedMoves DEF Moved, TypeInv
  <2>2. CASE SettlingStep
    BY <2>2, Settling DEF Settled, Moved
  <2>3. ASSUME NEW r \in Requests, SendAnswer(r) PROVE conn[d].left => conn'[d].left
    <3>1. CASE conn[r[1]].disconnected
      BY <2>3, <3>1, SendAnswerRest
    <3>2. CASE ~conn[r[1]].disconnected
      BY <2>3, <3>2, SendAnswerMoves DEF Moved, TypeInv
    <3> QED BY <3>1, <3>2
  <2>4. ASSUME NEW r \in Requests, HandlingStep(r) \/ LoneStep(r) PROVE conn[d].left => conn'[d].left
    BY <2>4, Handling, Alone
  <2>5. CASE Exit \/ UNCHANGED vars
    BY <2>5 DEF Exit, vars
  <2> QED BY <2>1, <2>2, <2>3, <2>4, <2>5, Kinds
<1>2. faults \subseteq faults'
  <2>1. ASSUME NEW c \in Connections, DataReceived(c) PROVE faults' = faults
    BY <2>1 DEF DataReceived
  <2>2. ASSUME NEW r \in Requests, SendAnswer(r) PROVE faults \subseteq faults'
    BY <2>2, SendAnswerRest
  <2>3. ASSUME NEW r \in Requests, HandlingStep(r) \/ LoneStep(r) PROVE faults' = faults
    BY <2>3, Handling, Alone
  <2>4. CASE Exit \/ UNCHANGED vars
    BY <2>4 DEF Exit, vars
  <2> QED BY <2>1, <2>2, <2>3, <2>4, SettlingPhases, Kinds
<1> QED BY <1>1, <1>2 DEF Cause

(* Every step keeps track: a task not yet answered is that of its          *)
(* connection's current request.                                           *)
LEMMA TrackedKept == TypeInv /\ Tracked /\ [Next]_vars => Tracked'
<1> SUFFICES ASSUME TypeInv, Tracked, [Next]_vars, NEW q \in Requests
             PROVE  /\ phase'[q] = "none" <=> q[2] > conn'[q[1]].cycle
                    /\ phase'[q] \in {"created", "handled"} =>
                         q[2] = conn'[q[1]].cycle /\ Busy(conn'[q[1]])
  BY DEF Tracked
<1>0. /\ q[1] \in Connections /\ q[2] \in Nat /\ q = <<q[1], q[2]>>
      /\ \A c \in Connections : conn[c].cycle \in Nat
  BY RequestsAre DEF TypeInv, Protocols
<1>1. ASSUME NEW c \in Connections, DataReceived(c)
      PROVE  /\ phase'[q] = "none" <=> q[2] > conn'[q[1]].cycle
             /\ phase'[q] \in {"created", "handled"} =>
                  q[2] = conn'[q[1]].cycle /\ Busy(conn'[q[1]])
  <2>1. CASE conn'[c].cycle = conn[c].cycle
    <3>1. /\ \A d \in Connections \ {c} : conn'[d] = conn[d]
          /\ Busy(conn'[c]) <=> Busy(conn[c])
          /\ phase' = phase
      BY <1>1, <2>1, DataReceivedMoves DEF TypeInv
    <3> QED BY <1>0, <2>1, <3>1 DEF Tracked
  <2>2. CASE conn'[c].cycle # conn[c].cycle
    <3>1. /\ \A d \in Connections \ {c} : conn'[d] = conn[d]
          /\ conn'[c].cycle = conn[c].cycle + 1 /\ Busy(conn'[c]) /\ ~Busy(conn[c])
          /\ phase' = [phase EXCEPT ![<<c, conn'[c].cycle>>] = "created"]
      BY <1>1, <2>2, DataReceivedMoves DEF TypeInv, Moved, Kept, Began
    <3>2. CASE q = <<c, conn'[c].cycle>>
      BY <1>0, <3>1, <3>2 DEF TypeInv
    <3>3. CASE q # <<c, conn'[c].cycle>>
      <4>1. phase'[q] = phase[q] /\ (q[1] = c => q[2] # conn[c].cycle + 1)
        BY <1>0, <3>1, <3>3 DEF TypeInv
      <4> QED BY <1>0, <3>1, <4>1 DEF Tracked
    <3> QED BY <3>2, <3>3
  <2> QED BY <2>1, <2>2
<1>2. CASE SettlingStep
  <2>1. conn'[q[1]].cycle = conn[q[1]].cycle /\ (Busy(conn'[q[1]]) <=> Busy(conn[q[1]]))
    BY <1>0, <1>2, Settling DEF Settled
  <2> QED BY <1>0, <1>2, <2>1, SettlingPhases, SMTT(30) DEF Tracked
<1>3. ASSUME NEW r \in Requests, SendAnswer(r)
      PROVE  /\ phase'[q] = "none" <=> q[2] > conn'[q[1]].cycle
             /\ phase'[q] \in {"created", "handled"} =>
                  q[2] = conn'[q[1]].cycle /\ Busy(conn'[q[1]])
  <2>0. /\ r[1] \in Connections /\ r = <<r[1], r[2]>> /\ phase[r] = "handled"
        /\ r[2] = conn[r[1]].cycle /\ Busy(conn[r[1]])
        /\ AfterAnswer(r) \notin {"none", "created", "handled"}
    BY <1>3, RequestsAre, SendAnswerRest DEF Tracked
  <2>1. CASE conn[r[1]].disconnected
    <3>1. conn' = conn /\ phase' = [phase EXCEPT ![r] = AfterAnswer(r)]
      BY <1>3, <2>1, SendAnswerRest
    <3>2. CASE q = r
      <4>1. phase'[q] = AfterAnswer(r)
        BY <3>1, <3>2 DEF TypeInv
      <4>2. phase[q] # "none"
        BY <2>0, <3>2
      <4> QED BY <2>0, <3>1, <4>1, <4>2 DEF Tracked
    <3>3. CASE q # r
      <4>1. phase'[q] = phase[q]
        BY <3>1, <3>3 DEF TypeInv
      <4> QED BY <3>1, <4>1 DEF Tracked
    <3> QED BY <3>2, <3>3
  <2>2. CASE ~conn[r[1]].disconnected
    <3> DEFINE c == r[1]
    <3>1. /\ \A d \in Connections \ {c} : conn'[d] = conn[d]
          /\ phase' = IF conn'[c].cycle # conn[c].cycle
                      THEN [phase EXCEPT ![r] = AfterAnswer(r),
                                         ![<<c, conn'[c].cycle>>] = "created"]
                      ELSE [phase EXCEPT ![r] = AfterAnswer(r)]
          /\ \/ conn'[c].cycle = conn[c].cycle /\ ~Busy(conn'[c])
             \/ conn'[c].cycle = conn[c].cycle + 1 /\ Busy(conn'[c])
      BY <1>3, <2>2, SendAnswerMoves DEF TypeInv, Moved, Kept, Began
    <3>2. CASE q = r
      BY <1>0, <2>0, <3>1, <3>2 DEF TypeInv
    <3>3. CASE q # r /\ q[1] = c
      <4>1. phase[q] \notin {"created", "handled"}
        BY <1>0, <2>0, <3>3 DEF Tracked
      <4>2. CASE conn'[c].cycle = conn[c].cycle
        BY <1>0, <2>0, <3>1, <3>3, <4>1, <4>2 DEF Tracked, TypeInv
      <4>3. CASE conn'[c].cycle = conn[c].cycle + 1 /\ q[2] = conn'[c].cycle
        BY <1>0, <2>0, <3>1, <3>3, <4>3 DEF TypeInv
      <4>4. CASE conn'[c].cycle = conn[c].cycle + 1 /\ q[2] # conn'[c].cycle
        <5>1. phase'[q] = phase[q]
          BY <1>0, <2>0, <3>1, <3>3, <4>4 DEF TypeInv
        <5> QED BY <1>0, <2>0, <3>3, <4>1, <4>4, <5>1 DEF Tracked
      <4> QED BY <3>1, <4>2, <4>3, <4>4
    <3>4. CASE q[1] # c
      <4>1. phase'[q] = phase[q] /\ conn'[q[1]] = conn[q[1]]
        BY <1>0, <2>0, <3>1, <3>4 DEF TypeInv
      <4> QED BY <4>1 DEF Tracked
    <3> QED BY <3>2, <3>3, <3>4
  <2> QED BY <2>1, <2>2
<1>4. ASSUME NEW r \in Requests, HandlingStep(r)
      PROVE  /\ phase'[q] = "none" <=> q[2] > conn'[q[1]].cycle
             /\ phase'[q] \in {"created", "handled"} =>
                  q[2] = conn'[q[1]].cycle /\ Busy(conn'[q[1]])
  BY <1>4, Handling DEF Tracked, TypeInv
<1>5. ASSUME NEW r \in Requests, LoneStep(r)
      PROVE  /\ phase'[q] = "none" <=> q[2] > conn'[q[1]].cycle
             /\ phase'[q] \in {"created", "handled"} =>
                  q[2] = conn'[q[1]].cycle /\ Busy(conn'[q[1]])
  <2>1. conn' = conn /\ \/ phase'[q] = phase[q]
                        \/ /\ phase[q] \in {"created", "background", "thread"}
                           /\ phase'[q] \in {"over", "thread", "returned", "broken"}
    BY <1>5, Alone DEF TypeInv
  <2> QED BY <2>1 DEF Tracked
<1>6. CASE Exit \/ UNCHANGED vars
  BY <1>6 DEF Exit, vars, Tracked
<1> QED BY <1>1, <1>2, <1>3, <1>4, <1>5, <1>6, Kinds

-----------------------------------------------------------------------------
(* A connection that a request is in progress on leaves the open state for *)
(* a cause only: its client has left, or an earlier request's error.       *)
LEMMA ClosedForCause ==
    ASSUME TypeInv, Tracked, Working, SettlingStep, NEW c \in Connections,
           Busy(conn[c]), conn[c].transport = "open", conn'[c].transport # "open"
    PROVE  Cause(c, conn[c].cycle)'
<1>0. conn[c] \in Protocols /\ ~conn[c].timer
      /\ phase[<<c, conn[c].cycle>>] \in {"created", "handled"}
  BY DEF TypeInv, Sound, Working
<1>1. ASSUME NEW d \in Connections, ClientLeaves(d) PROVE FALSE
  BY <1>0, <1>1 DEF ClientLeaves, TypeInv, Protocols
<1>2. ASSUME NEW d \in Connections, ConnectionLost(d) PROVE Cause(c, conn[c].cycle)'
  <2>1. d = c /\ conn[c].left
    BY <1>2 DEF ConnectionLost, TypeInv
  <2>2. conn'[c].left
    BY <1>0, <1>2, <2>1 DEF ConnectionLost, TypeInv, Protocols
  <2> QED BY <2>2 DEF Cause
<1>3. ASSUME NEW d \in Connections, KeepAliveTimeout(d) PROVE FALSE
  BY <1>0, <1>3 DEF KeepAliveTimeout, TypeInv
<1>4. ASSUME NEW r \in Requests, EndTask(r) PROVE Cause(c, conn[c].cycle)'
  <2>1. r[1] = c /\ faults' = faults \cup {r} /\ phase[r] = "broken"
    BY <1>4 DEF EndTask, TypeInv
  <2>2. r = <<c, r[2]>> /\ r[2] \in Nat /\ r[2] >= 1
    BY <2>1, RequestsAre
  <2>3. r[2] # conn[c].cycle
    BY <1>0, <2>1, <2>2
  <2>4. r[2] <= conn[c].cycle
    BY <1>0, <2>1, <2>2 DEF Tracked, Protocols
  <2>5. r[2] \in 1..conn[c].cycle - 1
    BY <1>0, <2>2, <2>3, <2>4 DEF Protocols
  <2>6. conn'[c].cycle = conn[c].cycle
    BY Settling DEF Settled
  <2>7. <<c, r[2]>> \in faults'
    BY <2>1, <2>2
  <2> QED BY <2>5, <2>6, <2>7 DEF Cause
<1>5. CASE ShutDown
  <2>1. conn'[c] = [conn[c] EXCEPT !.keepAlive = FALSE]
    BY <1>5 DEF ShutDown, ShutDownConnection
  <2> QED BY <1>0, <2>1 DEF Protocols
<1> QED BY <1>1, <1>2, <1>3, <1>4, <1>5 DEF SettlingStep

(* Every step that leaves a request in progress leaves its task at work,   *)
(* or has a cause.                                                         *)
LEMMA WorkingKept == TypeInv /\ Tracked /\ Working /\ [Next]_vars => Working'
<1> DEFINE Works(d) == IF conn[d].transport = "open"
                       THEN phase[<<d, conn[d].cycle>>] \in {"created", "handled"}
                       ELSE Cause(d, conn[d].cycle)
<1> SUFFICES ASSUME TypeInv, Tracked, Working, [Next]_vars, NEW d \in Connections,
                    Busy(conn'[d])
             PROVE  Works(d)'
  BY DEF Working
<1>0. /\ Busy(conn[d]) => Works(d)
      /\ conn[d] \in Protocols /\ Sound(conn[d])
      /\ conn[d].cycle \in Nat
  BY DEF Working, TypeInv, Protocols
<1>a. Cause(d, conn[d].cycle) => Cause(d, conn[d].cycle)' \/ conn'[d].cycle # conn[d].cycle
  BY <1>0, Lasting DEF Cause
<1>b. ASSUME conn'[d].cycle = conn[d].cycle, Busy(conn[d]),
             conn'[d].transport = conn[d].transport,
             phase'[<<d, conn[d].cycle>>] = phase[<<d, conn[d].cycle>>]
                 \/ phase'[<<d, conn[d].cycle>>] \in {"created", "handled"}
      PROVE  Works(d)'
  BY <1>0, <1>a, <1>b
<1>c. Busy(conn[d]) => <<d, conn[d].cycle>> \in Requests
  <2>1. Busy(conn[d]) => conn[d].cycle \in 1..Len(Script[d])
    BY <1>0, ScriptAssumption DEF TypeInv, Sound, Protocols, Busy
  <2> QED BY <2>1, RequestsAre
<1>t. phase \in [Requests -> Phases] /\ conn \in [Connections -> Protocols]
  BY DEF TypeInv
<1> HIDE DEF Works
<1>1. ASSUME NEW c \in Connections, DataReceived(c) PROVE Works(d)'
  <2>1. \A e \in Connections \ {c} : conn'[e] = conn[e]
    BY <1>1, DataReceivedMoves DEF TypeInv
  <2>2. CASE d # c
    <3>1. conn'[d] = conn[d] /\ <<d, conn[d].cycle>> \in Requests
      BY <1>c, <2>1, <2>2
    <3>2. phase' \in {phase, [phase EXCEPT ![<<c, conn'[c].cycle>>] = "created"]}
      BY <1>1, DataReceivedMoves
    <3>3. phase'[<<d, conn[d].cycle>>] = phase[<<d, conn[d].cycle>>]
      BY <1>t, <2>2, <3>1, <3>2
    <3> QED BY <1>b, <3>1, <3>3
  <2>3. CASE d = c /\ conn'[c].cycle = conn[c].cycle
    <3>1. Busy(conn[c]) /\ conn'[c].transport = conn[c].transport /\ phase' = phase
      BY <1>1, <2>3, DataReceivedMoves
    <3> QED BY <1>b, <2>3, <3>1
  <2>4. CASE d = c /\ conn'[c].cycle # conn[c].cycle
    <3>1. /\ conn'[c].cycle = conn[c].cycle + 1 /\ Sound(conn'[c])
          /\ conn'[c].sent <= Len(Script[c]) /\ conn'[c].transport = "open"
          /\ phase' = [phase EXCEPT ![<<c, conn'[c].cycle>>] = "created"]
      BY <1>1, <2>4, DataReceivedMoves DEF Moved, Kept, Began
    <3>2. conn'[c].cycle \in 1..Len(Script[c])
      BY <1>0, <2>4, <3>1, ScriptAssumption DEF Sound, Protocols
    <3>3. <<c, conn'[c].cycle>> \in Requests
      BY <3>2, RequestsAre
    <3>4. phase'[<<c, conn'[c].cycle>>] = "created"
      BY <3>1, <3>3 DEF TypeInv
    <3> QED BY <2>4, <3>1, <3>4 DEF Works
  <2> QED BY <2>2, <2>3, <2>4
<1>2. CASE SettlingStep
  <2>1. /\ conn'[d].cycle = conn[d].cycle /\ Busy(conn[d])
        /\ conn'[d].transport = "open" => conn[d].transport = "open"
    BY <1>2, Settling DEF Settled, Moved
  <2>2. CASE conn'[d].transport = "open"
    <3>1. phase[<<d, conn[d].cycle>>] \in {"created", "handled"}
      BY <1>0, <2>1, <2>2 DEF Works
    <3>2. <<d, conn[d].cycle>> \in Requests
      BY <1>c, <2>1
    <3>3. phase'[<<d, conn[d].cycle>>] = phase[<<d, conn[d].cycle>>]
      BY <1>2, <3>1, <3>2, SettlingPhases
    <3> QED BY <2>1, <2>2, <3>1, <3>3 DEF Works
  <2>3. CASE conn'[d].transport # "open" /\ conn[d].transport = "open"
    BY <1>2, <2>1, <2>3, ClosedForCause DEF Works, Cause
  <2>4. CASE conn'[d].transport # "open" /\ conn[d].transport # "open"
    BY <1>0, <1>a, <2>1, <2>4 DEF Works, Cause
  <2> QED BY <2>2, <2>3, <2>4
<1>3. ASSUME NEW r \in Requests, SendAnswer(r) PROVE Works(d)'
  <2>0. /\ r[1] \in Connections /\ r = <<r[1], r[2]>> /\ phase[r] = "handled"
        /\ r[2] = conn[r[1]].cycle /\ r[2] \in Nat /\ r[2] >= 1
    <3>1. r[1] \in Connections /\ r[2] \in 1..Len(Script[r[1]]) /\ r = <<r[1], r[2]>>
      BY RequestsAre
    <3>2. phase[r] = "handled"
      BY <1>3, SendAnswerRest
    <3> QED BY <3>1, <3>2, ScriptAssumption DEF Tracked
  <2>1. CASE conn[r[1]].disconnected
    <3>1. conn' = conn /\ phase' = [phase EXCEPT ![r] = AfterAnswer(r)]
      BY <1>3, <2>1, SendAnswerRest
    <3>2. CASE d = r[1]
      <4>1. conn[d].transport = "lost"
        BY <1>0, <2>1, <3>2 DEF Sound
      <4> QED BY <1>0, <1>a, <3>1, <4>1 DEF Works, Cause
    <3>3. CASE d # r[1]
      <4>1. phase'[<<d, conn[d].cycle>>] = phase[<<d, conn[d].cycle>>]
        BY <2>0, <3>1, <3>3 DEF TypeInv
      <4> QED BY <1>b, <3>1, <4>1
    <3> QED BY <3>2, <3>3
  <2>2. CASE ~conn[r[1]].disconnected
    <3> DEFINE c == r[1]
    <3>1. /\ \A e \in Connections \ {c} : conn'[e] = conn[e]
          /\ phase' = IF conn'[c].cycle # conn[c].cycle
                      THEN [phase EXCEPT ![r] = AfterAnswer(r),
                                         ![<<c, conn'[c].cycle>>] = "created"]
                      ELSE [phase EXCEPT ![r] = AfterAnswer(r)]
          /\ conn'[c].sent = conn[c].sent /\ Sound(conn'[c])
          /\ \/ conn'[c].cycle = conn[c].cycle /\ ~Busy(conn'[c])
             \/ conn'[c].cycle = conn[c].cycle + 1 /\ Busy(conn'[c])
          /\ Busy(conn'[c]) /\ conn'[c].transport # "open" => r \in faults'
      BY <1>3, <2>2, SendAnswerMoves DEF TypeInv, Moved, Kept, Began
    <3>2. CASE d # c
      <4>1. conn'[d] = conn[d] /\ <<d, conn[d].cycle>> \in Requests
        BY <1>c, <3>1, <3>2
      <4>2. <<d, conn[d].cycle>> # r /\ <<d, conn[d].cycle>> # <<c, conn'[c].cycle>>
        BY <2>0, <3>2
      <4>3. phase'[<<d, conn[d].cycle>>] = phase[<<d, conn[d].cycle>>]
        BY <1>t, <3>1, <4>1, <4>2
      <4> QED BY <1>b, <4>1, <4>3
    <3>3. CASE d = c
      <4>1. conn'[c].cycle = conn[c].cycle + 1
        BY <3>1, <3>3
      <4>2. CASE conn'[c].transport = "open"
        <5>1. conn'[c].cycle \in 1..Len(Script[c])
          <6>1. conn[c].sent <= Len(Script[c]) /\ Len(Script[c]) \in Nat
            BY <2>0, ScriptAssumption DEF TypeInv
          <6>2. conn'[c].cycle \in Nat /\ conn'[c].sent \in Nat /\ conn'[c].cycle <= conn'[c].sent
            BY <3>1 DEF Sound, Protocols
          <6> QED BY <1>0, <3>1, <3>3, <4>1, <6>1, <6>2
        <5>2. <<c, conn'[c].cycle>> \in Requests
          BY <5>1, RequestsAre
        <5>3. phase'[<<c, conn'[c].cycle>>] = "created"
          BY <1>0, <3>1, <3>3, <4>1, <5>2 DEF TypeInv
        <5> QED BY <3>3, <4>2, <5>3 DEF Works
      <4>3. CASE conn'[c].transport # "open"
        <5>1. <<c, conn[c].cycle>> \in faults' /\ conn[c].cycle \in 1..conn'[c].cycle - 1
          BY <1>0, <2>0, <3>1, <3>3, <4>1, <4>3
        <5>2. Cause(d, conn[d].cycle)'
          BY <3>3, <5>1 DEF Cause
        <5> QED BY <3>3, <4>3, <5>2 DEF Works
      <4> QED BY <4>2, <4>3
    <3> QED BY <3>2, <3>3
  <2> QED BY <2>1, <2>2
<1>4. ASSUME NEW r \in Requests, HandlingStep(r) PROVE Works(d)'
  <2>1. /\ conn' = conn
        /\ phase' = [phase EXCEPT ![r] = "handled"]
    BY <1>4, Handling
  <2>2. phase'[<<d, conn[d].cycle>>] \in {phase[<<d, conn[d].cycle>>], "handled"}
    BY <1>c, <1>t, <2>1
  <2> QED BY <1>b, <2>1, <2>2
<1>5. ASSUME NEW r \in Requests, LoneStep(r) PROVE Works(d)'
  <2>1. conn' = conn
    BY <1>5, Alone
  <2>2. CASE phase'[<<d, conn[d].cycle>>] = phase[<<d, conn[d].cycle>>]
    BY <1>b, <2>1, <2>2
  <2>3. CASE phase'[<<d, conn[d].cycle>>] # phase[<<d, conn[d].cycle>>]
    <3>1. r = <<d, conn[d].cycle>>
      <4>1. \E p \in Phases : phase' = [phase EXCEPT ![r] = p]
        BY <1>5, Alone DEF Phases, InTask
      <4> QED BY <1>c, <1>t, <2>1, <2>3, <4>1
    <3>2. r[1] = d
      BY <3>1
    <3>3. conn[d].transport # "open"
      BY <1>0, <1>5, <2>1, <3>1, <3>2, Alone DEF Works, Sound
    <3> QED BY <1>0, <1>a, <2>1, <3>3 DEF Works, Cause
  <2> QED BY <2>2, <2>3
<1>6. CASE Exit \/ UNCHANGED vars
  BY <1>6, <1>b DEF Exit, vars
<1> QED BY <1>1, <1>2, <1>3, <1>4, <1>5, <1>6, Kinds

-----------------------------------------------------------------------------
(* Where a step can take the task of a request, and what it accounts for.  *)
TaskMoves(q) ==
    \/ /\ phase'[q] = phase[q] \/ (phase[q] = "none" /\ phase'[q] = "created")
       /\ executions'[q] = executions[q] /\ result'[q] = result[q]
    \/ /\ phase[q] = "created" /\ phase'[q] = "handled"
       /\ executions'[q] = executions[q]
       /\ result'[q] # 0 /\ (result'[q] = 202 <=> RequestOf(q).kind = "check")
    \/ /\ phase[q] = "created" /\ phase'[q] = "over" /\ conn[q[1]].disconnected
       /\ executions'[q] = executions[q] /\ result'[q] = result[q]
    \/ /\ phase[q] = "handled" /\ phase'[q] = AfterAnswer(q) /\ SendAnswer(q)
       /\ executions'[q] = executions[q] /\ result'[q] = result[q]
    \/ /\ phase[q] = "background" /\ phase'[q] = "thread"
       /\ executions'[q] = executions[q] /\ result'[q] = result[q]
    \/ /\ phase[q] = "thread" /\ phase'[q] \in {"returned", "broken"}
       /\ executions'[q] = executions[q] + 1 /\ result'[q] = result[q]
    \/ /\ phase[q] \in {"returned", "broken"} /\ phase'[q] = "over"
       /\ executions'[q] = executions[q] /\ result'[q] = result[q]

(* Every step takes every task along these edges.                          *)
LEMMA TasksMove ==
    ASSUME TypeInv, Tracked, [Next]_vars, NEW q \in Requests
    PROVE  TaskMoves(q)
<1>0. /\ q[1] \in Connections /\ q[2] \in Nat /\ q = <<q[1], q[2]>>
      /\ \A c \in Connections : conn[c].cycle \in Nat
      /\ phase \in [Requests -> Phases] /\ executions \in [Requests -> Nat]
      /\ result \in [Requests -> Statuses]
  BY RequestsAre DEF TypeInv, Protocols
<1>1. ASSUME NEW c \in Connections, DataReceived(c) PROVE TaskMoves(q)
  <2>1. result' = result /\ executions' = executions
    BY <1>1 DEF DataReceived
  <2>2. CASE phase'[q] = phase[q]
    BY <2>1, <2>2 DEF TaskMoves
  <2>3. CASE phase'[q] # phase[q]
    <3>1. /\ conn'[c].cycle # conn[c].cycle
          /\ phase' = [phase EXCEPT ![<<c, conn'[c].cycle>>] = "created"]
      BY <1>1, <2>3, DataReceivedMoves
    <3>2. conn'[c].cycle = conn[c].cycle + 1
      BY <1>1, <3>1, DataReceivedMoves DEF Moved, Kept, Began
    <3>3. q = <<c, conn'[c].cycle>> /\ phase'[q] = "created"
      BY <1>0, <2>3, <3>1
    <3>4. q[1] = c /\ q[2] = conn[c].cycle + 1
      BY <3>2, <3>3
    <3>5. phase[q] = "none"
      BY <1>0, <3>4 DEF Tracked
    <3> QED BY <2>1, <3>3, <3>5 DEF TaskMoves
  <2> QED BY <2>2, <2>3
<1>2. CASE SettlingStep
  BY <1>2, SettlingPhases DEF TaskMoves
<1>3. ASSUME NEW r \in Requests, SendAnswer(r) PROVE TaskMoves(q)
  <2>1. result' = result /\ executions' = executions /\ phase[r] = "handled"
    BY <1>3, SendAnswerRest
  <2>2. CASE conn[r[1]].disconnected
    <3>1. phase' = [phase EXCEPT ![r] = AfterAnswer(r)]
      BY <1>3, <2>2, SendAnswerRest
    <3>2. q = r \/ phase'[q] = phase[q]
      BY <1>0, <3>1
    <3>3. phase'[r] = AfterAnswer(r)
      BY <1>0, <3>1
    <3> QED BY <1>3, <2>1, <3>2, <3>3 DEF TaskMoves
  <2>3. CASE ~conn[r[1]].disconnected
    <3> DEFINE c == r[1]
    <3>1. /\ phase' = IF conn'[c].cycle # conn[c].cycle
                      THEN [phase EXCEPT ![r] = AfterAnswer(r),
                                         ![<<c, conn'[c].cycle>>] = "created"]
                      ELSE [phase EXCEPT ![r] = AfterAnswer(r)]
          /\ conn'[c].cycle = conn[c].cycle \/ conn'[c].cycle = conn[c].cycle + 1
          /\ c \in Connections
      BY <1>3, <2>3, SendAnswerMoves DEF Moved, Kept, Began
    <3>2. r[2] = conn[c].cycle /\ r[2] \in Nat
      BY <2>1, RequestsAre DEF Tracked
    <3>3. r # <<c, conn[c].cycle + 1>>
      BY <3>2
    <3>4. CASE q = r
      <4>1. phase'[q] = AfterAnswer(q)
        BY <1>0, <3>1, <3>3, <3>4
      <4> QED BY <1>3, <2>1, <3>4, <4>1 DEF TaskMoves
    <3>5. CASE q # r /\ phase'[q] # phase[q]
      <4>1. q = <<c, conn[c].cycle + 1>> /\ phase'[q] = "created"
        BY <1>0, <3>1, <3>5
      <4>2. q[1] = c /\ q[2] = conn[c].cycle + 1
        BY <4>1
      <4>3. phase[q] = "none"
        BY <1>0, <4>2 DEF Tracked
      <4> QED BY <2>1, <4>1, <4>3 DEF TaskMoves
    <3>6. CASE phase'[q] = phase[q]
      BY <2>1, <3>6 DEF TaskMoves
    <3> QED BY <3>4, <3>5, <3>6
  <2> QED BY <2>2, <2>3
<1>4. ASSUME NEW r \in Requests, HandlingStep(r) PROVE TaskMoves(q)
  <2>1. PICK s \in Statuses : /\ result' = [result EXCEPT ![r] = s]
                              /\ s # 0 /\ (s = 202 <=> RequestOf(r).kind = "check")
    <3>1. Gives(r)
      BY <1>4, Handling
    <3> QED BY <3>1 DEF Gives
  <2>2. /\ phase[r] = "created" /\ phase' = [phase EXCEPT ![r] = "handled"]
        /\ executions' = executions
    BY <1>4, Handling
  <2>3. CASE q = r
    BY <1>0, <2>1, <2>2, <2>3 DEF TaskMoves
  <2>4. CASE q # r
    BY <1>0, <2>1, <2>2, <2>4 DEF TaskMoves
  <2> QED BY <2>3, <2>4
<1>5. ASSUME NEW r \in Requests, LoneStep(r) PROVE TaskMoves(q)
  <2>1. result' = result
    BY <1>5, Alone
  <2>2. CASE q = r
    BY <1>0, <1>5, <2>1, <2>2, Alone DEF TaskMoves
  <2>3. CASE q # r
    BY <1>0, <1>5, <2>1, <2>3, Alone DEF TaskMoves
  <2> QED BY <2>2, <2>3
<1>6. CASE Exit \/ UNCHANGED vars
  BY <1>6 DEF Exit, vars, TaskMoves
<1> QED BY <1>1, <1>2, <1>3, <1>4, <1>5, <1>6, Kinds

(* Every step keeps the accounts: results come before executions,          *)
(* executions from threads only.                                           *)
LEMMA AccountedKept == TypeInv /\ Tracked /\ Accounted /\ [Next]_vars => Accounted'
<1> SUFFICES ASSUME TypeInv, Tracked, Accounted, [Next]_vars, NEW q \in Requests
             PROVE  /\ phase'[q] \in {"none", "created"} => result'[q] = 0
                    /\ phase'[q] \in {"handled", "background", "thread"} => result'[q] # 0
                    /\ phase'[q] \in {"background", "thread"} => RequestOf(q).kind = "check"
                    /\ RequestOf(q).kind = "check" => result'[q] \in {0, 202}
                    /\ phase'[q] \in {"none", "created", "handled", "background", "thread"} =>
                         executions'[q] = 0
                    /\ result'[q] = 202 =>
                         /\ RequestOf(q).kind = "check"
                         /\ phase'[q] \in {"returned", "broken", "over"} => executions'[q] = 1
  BY DEF Accounted
<1>1. TaskMoves(q)
  BY TasksMove
<1>2. executions[q] \in Nat
  BY DEF TypeInv
<1>3. AfterAnswer(q) = IF RequestOf(q).kind = "check" THEN "background" ELSE "over"
  BY DEF AfterAnswer
<1> QED BY <1>1, <1>2, <1>3 DEF TaskMoves, Accounted

(* Only the end of an answer ends a request, and answers it while the      *)
(* connection is open.                                                     *)
LEMMA ToldKept == TypeInv /\ Tracked /\ Told /\ [Next]_vars => Told'
<1> DEFINE R == [of : Nat, status : Statuses]
           ToldOf(d) ==
             /\ Len(answers[d]) <= Ended(conn[d])
             /\ conn[d].transport = "open" => Len(answers[d]) = Ended(conn[d])
             /\ \A j \in 1..Len(answers[d]) :
                  answers[d][j].of = j /\ answers[d][j].status = result[<<d, j>>]
<1> SUFFICES ASSUME TypeInv, Tracked, Told, [Next]_vars, NEW d \in Connections
             PROVE  ToldOf(d)'
  BY DEF Told
<1>0. /\ ToldOf(d)
      /\ conn[d] \in Protocols /\ conn[d].cycle \in Nat
      /\ answers[d] \in Seq(R)
  BY DEF Told, TypeInv, Protocols
<1> HIDE DEF R
<1>1. ASSUME Ended(conn'[d]) = Ended(conn[d]),
             conn'[d].transport = "open" => conn[d].transport = "open",
             answers' = answers,
             \A j \in 1..Len(answers[d]) : result'[<<d, j>>] = result[<<d, j>>]
      PROVE  ToldOf(d)'
  BY <1>0, <1>1
<1> HIDE DEF ToldOf
<1>2. ASSUME NEW c \in Connections, DataReceived(c) PROVE ToldOf(d)'
  <2>1. answers' = answers /\ result' = result
    BY <1>2 DEF DataReceived
  <2>2. CASE d = c
    <3>1. /\ conn'[c].transport = conn[c].transport
          /\ \/ conn'[c].cycle = conn[c].cycle /\ (Busy(conn'[c]) <=> Busy(conn[c]))
             \/ conn'[c].cycle = conn[c].cycle + 1 /\ Busy(conn'[c]) /\ ~Busy(conn[c])
      BY <1>2, DataReceivedMoves DEF Moved, Kept, Began
    <3>2. Ended(conn'[c]) = Ended(conn[c])
      BY <1>0, <2>2, <3>1 DEF Ended
    <3> QED BY <1>1, <2>1, <2>2, <3>1, <3>2
  <2>3. CASE d # c
    <3>1. conn'[d] = conn[d]
      BY <1>2, <2>3, DataReceivedMoves DEF TypeInv
    <3> QED BY <1>1, <2>1, <3>1
  <2> QED BY <2>2, <2>3
<1>3. CASE SettlingStep
  <2>1. /\ conn'[d].cycle = conn[d].cycle /\ (Busy(conn'[d]) <=> Busy(conn[d]))
        /\ conn'[d].transport = "open" => conn[d].transport = "open"
        /\ answers' = answers
    BY <1>3, Settling DEF Settled, Moved
  <2>2. Ended(conn'[d]) = Ended(conn[d])
    BY <2>1 DEF Ended
  <2>3. result' = result
    BY <1>3, SettlingPhases
  <2> QED BY <1>1, <2>1, <2>2, <2>3
<1>4. ASSUME NEW r \in Requests, SendAnswer(r) PROVE ToldOf(d)'
  <2>0. /\ r[1] \in Connections /\ r = <<r[1], r[2]>> /\ phase[r] = "handled" /\ r[2] \in Nat
        /\ result' = result
    BY <1>4, RequestsAre, SendAnswerRest
  <2>1. r[2] = conn[r[1]].cycle /\ Busy(conn[r[1]])
    BY <2>0 DEF Tracked
  <2>2. CASE conn[r[1]].disconnected
    <3>1. conn' = conn /\ answers' = answers
      BY <1>4, <2>2, SendAnswerRest
    <3> QED BY <1>1, <2>0, <3>1
  <2>3. CASE ~conn[r[1]].disconnected
    <3> DEFINE c == r[1]
               a == [of |-> r[2], status |-> result[r]]
    <3>1. /\ \A e \in Connections \ {c} : conn'[e] = conn[e]
          /\ conn'[c].transport = "open" => conn[c].transport = "open"
          /\ \/ conn'[c].cycle = conn[c].cycle /\ ~Busy(conn'[c])
             \/ conn'[c].cycle = conn[c].cycle + 1 /\ Busy(conn'[c])
      BY <1>4, <2>3, SendAnswerMoves DEF TypeInv, Moved, Kept, Began
    <3>2. answers' = IF conn[c].transport = "open"
                     THEN [answers EXCEPT ![c] = Append(@, a)] ELSE answers
      BY <1>4, <2>3, SendAnswerRest
    <3>3. answers \in [Connections -> Seq(R)]
      BY DEF TypeInv, R
    <3>4. CASE d # c
      <4>1. conn'[d] = conn[d] /\ answers'[d] = answers[d]
        BY <3>1, <3>2, <3>3, <3>4
      <4> QED BY <1>0, <2>0, <4>1 DEF ToldOf
    <3>5. CASE d = c
      <4>1. Ended(conn[c]) = conn[c].cycle - 1 /\ Ended(conn'[c]) = conn[c].cycle
        BY <1>0, <2>1, <3>1, <3>5 DEF Ended
      <4>2. CASE conn[c].transport = "open"
        <5>1. answers'[c] = Append(answers[c], a)
          BY <2>0, <3>2, <3>3, <4>2
        <5>2. Len(answers[c]) = conn[c].cycle - 1
          BY <1>0, <3>5, <4>1, <4>2 DEF ToldOf
        <5>3. a.of = conn[c].cycle /\ a.status = result[<<c, conn[c].cycle>>]
          BY <2>0, <2>1
        <5> HIDE DEF a
        <5>4. /\ Len(answers'[c]) = conn[c].cycle
              /\ \A j \in 1..Len(answers[c]) : answers'[c][j] = answers[c][j]
              /\ answers'[c][conn[c].cycle] = a
          BY <1>0, <3>5, <5>1, <5>2
        <5>5. ASSUME NEW j \in 1..Len(answers'[c])
              PROVE  answers'[c][j].of = j /\ answers'[c][j].status = result[<<c, j>>]
          <6>1. CASE j = conn[c].cycle
            BY <5>3, <5>4, <6>1
          <6>2. CASE j # conn[c].cycle
            <7>1. j \in 1..Len(answers[c])
              BY <1>0, <3>5, <5>2, <5>4, <6>2
            <7> QED BY <1>0, <3>5, <5>4, <7>1 DEF ToldOf
          <6> QED BY <6>1, <6>2
        <5> QED BY <1>0, <2>0, <3>5, <4>1, <5>4, <5>5 DEF ToldOf
      <4>3. CASE conn[c].transport # "open"
        <5>1. answers' = answers /\ Len(answers[c]) <= conn[c].cycle - 1
          BY <1>0, <3>2, <3>5, <4>1, <4>3 DEF ToldOf
        <5>2. Len(answers[c]) \in Nat
          BY <1>0, <3>5
        <5> QED BY <1>0, <2>0, <3>1, <3>5, <4>1, <4>3, <5>1, <5>2 DEF ToldOf
      <4> QED BY <4>2, <4>3
    <3> QED BY <3>4, <3>5
  <2> QED BY <2>2, <2>3
<1>5. ASSUME NEW r \in Requests, HandlingStep(r) PROVE ToldOf(d)'
  <2>1. conn' = conn /\ answers' = answers /\ phase[r] = "created"
    BY <1>5, Handling
  <2>2. r[2] = conn[r[1]].cycle /\ Busy(conn[r[1]]) /\ r[2] \in Nat
    BY <2>1, RequestsAre DEF Tracked
  <2>3. ASSUME NEW j \in 1..Len(answers[d]) PROVE result'[<<d, j>>] = result[<<d, j>>]
    <3>1. <<d, j>> # r
      <4>1. CASE r[1] # d
        BY <4>1
      <4>2. CASE r[1] = d
        <5>1. Len(answers[d]) <= conn[d].cycle - 1 /\ Len(answers[d]) \in Nat
          BY <1>0, <2>2, <4>2 DEF ToldOf, Ended
        <5>2. j # r[2]
          BY <1>0, <2>2, <4>2, <5>1
        <5> QED BY <5>2
      <4> QED BY <4>1, <4>2
    <3>2. Gives(r)
      BY <1>5, Handling
    <3> QED BY <3>1, <3>2 DEF Gives, TypeInv
  <2> QED BY <1>1, <2>1, <2>3
<1>6. ASSUME NEW r \in Requests, LoneStep(r) PROVE ToldOf(d)'
  BY <1>1, <1>6, Alone
<1>7. CASE Exit \/ UNCHANGED vars
  BY <1>1, <1>7 DEF Exit, vars
<1> QED BY <1>2, <1>3, <1>4, <1>5, <1>6, <1>7, Kinds

(* A cycle begins only when the answer to the one before was written.      *)
LEMMA SerialKept == TypeInv /\ Tracked /\ Told /\ Serial /\ [Next]_vars => Serial'
<1> SUFFICES ASSUME TypeInv, Tracked, Told, Serial, [Next]_vars,
                    NEW d \in Connections, Busy(conn'[d])
             PROVE  Len(answers'[d]) = conn'[d].cycle - 1
  BY DEF Serial
<1>0. /\ Busy(conn[d]) => Len(answers[d]) = conn[d].cycle - 1
      /\ conn[d].transport = "open" => Len(answers[d]) = Ended(conn[d])
      /\ conn[d] \in Protocols /\ conn[d].cycle \in Nat
      /\ answers \in [Connections -> Seq([of : Nat, status : Statuses])]
  BY DEF Serial, Told, TypeInv, Protocols
<1>1. CASE conn'[d].transport = "open"
  BY <1>1, ToldKept DEF Told, Ended
<1>2. ASSUME conn'[d].transport # "open", NEW c \in Connections, DataReceived(c)
      PROVE  Len(answers'[d]) = conn'[d].cycle - 1
  <2>1. conn'[d] = conn[d] /\ answers' = answers
    BY <1>2, DataReceivedMoves DEF TypeInv, DataReceived
  <2> QED BY <1>0, <2>1
<1>3. CASE SettlingStep
  BY <1>0, <1>3, Settling DEF Settled
<1>4. ASSUME NEW r \in Requests, SendAnswer(r)
      PROVE  Len(answers'[d]) = conn'[d].cycle - 1
  <2>1. CASE conn[r[1]].disconnected
    BY <1>0, <1>4, <2>1, SendAnswerRest
  <2>2. CASE ~conn[r[1]].disconnected
    <3> DEFINE c == r[1]
               a == [of |-> r[2], status |-> result[r]]
    <3>1. /\ conn' = [conn EXCEPT ![c] = conn'[c]] /\ Moved(conn[c], conn'[c])
          /\ conn'[c].cycle = conn[c].cycle => ~Busy(conn'[c])
          /\ answers' = IF conn[c].transport = "open"
                        THEN [answers EXCEPT ![c] = Append(@, a)] ELSE answers
      BY <1>4, <2>2, SendAnswerMoves, SendAnswerRest
    <3>2. CASE d # c
      <4>1. conn'[d] = conn[d] /\ answers'[d] = answers[d]
        BY <1>0, <3>1, <3>2 DEF TypeInv
      <4> QED BY <1>0, <4>1
    <3>3. CASE d = c
      <4>1. conn'[d].cycle = conn[d].cycle + 1 /\ conn[d].transport = "open"
        BY <3>1, <3>3 DEF Moved, Kept, Began
      <4>2. Busy(conn[d])
        BY <1>4, <3>3, SendAnswerRest DEF Tracked
      <4>3. answers'[d] = Append(answers[d], a)
        BY <1>0, <3>1, <3>3, <4>1
      <4>4. Len(answers'[d]) = Len(answers[d]) + 1
        BY <1>0, <4>3
      <4> QED BY <1>0, <4>1, <4>2, <4>4
    <3> QED BY <3>2, <3>3
  <2> QED BY <2>1, <2>2
<1>5. ASSUME NEW r \in Requests, HandlingStep(r) \/ LoneStep(r)
      PROVE  Len(answers'[d]) = conn'[d].cycle - 1
  BY <1>0, <1>5, Handling, Alone
<1>6. CASE Exit \/ UNCHANGED vars
  BY <1>0, <1>6 DEF Exit, vars
<1> QED BY <1>1, <1>2, <1>3, <1>4, <1>5, <1>6, Kinds

(* What was answered stays answered. *)
LEMMA AnsweredLasts ==
    ASSUME TypeInv, Tracked, Told, [Next]_vars, NEW q \in Requests, Answered(q)
    PROVE  Answered(q)'
<1>0. q[1] \in Connections /\ answers \in [Connections -> Seq([of : Nat, status : Statuses])]
  BY RequestsAre DEF TypeInv
<1>1. CASE answers' = answers
  BY <1>1 DEF Answered
<1>2. ASSUME NEW r \in Requests, SendAnswer(r) PROVE Answered(q)'
  <2> DEFINE a == [of |-> r[2], status |-> result[r]]
  <2>1. answers' = answers \/ answers' = [answers EXCEPT ![r[1]] = Append(@, a)]
    BY <1>2, SendAnswerRest
  <2>2. PICK j \in 1..Len(answers[q[1]]) : answers[q[1]][j].of = q[2]
    BY <1>0 DEF Answered
  <2>3. CASE answers' = [answers EXCEPT ![r[1]] = Append(@, a)] /\ q[1] = r[1]
    <3> HIDE DEF a
    <3>1. answers'[q[1]] = Append(answers[q[1]], a)
      BY <1>0, <2>3
    <3>2. answers'[q[1]][j] = answers[q[1]][j] /\ j \in DOMAIN answers'[q[1]]
      BY <1>0, <2>2, <3>1
    <3> QED BY <2>2, <3>2 DEF Answered
  <2>4. CASE answers'[q[1]] = answers[q[1]]
    BY <2>4 DEF Answered
  <2> QED BY <1>0, <2>1, <2>3, <2>4
<1>3. ASSUME NEW c \in Connections, DataReceived(c) PROVE answers' = answers
  BY <1>3 DEF DataReceived
<1>4. SettlingStep => answers' = answers
  BY Settling DEF Settled
<1>5. ASSUME NEW r \in Requests, HandlingStep(r) \/ LoneStep(r) PROVE answers' = answers
  BY <1>5, Handling, Alone
<1>6. Exit \/ UNCHANGED vars => answers' = answers
  BY DEF Exit, vars
<1> QED BY <1>1, <1>2, <1>3, <1>4, <1>5, <1>6, Kinds

(* A task that ends without an answer has a cause, and causes last.        *)
LEMMA CauseKept ==
    TypeInv /\ Tracked /\ Working /\ Told /\ LostForCause /\ [Next]_vars => LostForCause'
<1> SUFFICES ASSUME TypeInv, Tracked, Working, Told, LostForCause, [Next]_vars,
                    NEW q \in Requests,
                    phase'[q] \notin {"none", "created", "handled"}, ~Answered(q)'
             PROVE  Cause(q[1], q[2])'
  BY DEF LostForCause, Cause
<1>0. /\ q[1] \in Connections /\ q[2] \in Nat /\ q[2] \in 1..Len(Script[q[1]])
      /\ conn[q[1]] \in Protocols /\ Sound(conn[q[1]])
      /\ answers \in [Connections -> Seq([of : Nat, status : Statuses])]
  BY RequestsAre DEF TypeInv
<1>1. ~Answered(q)
  BY AnsweredLasts
<1>2. Cause(q[1], q[2]) => Cause(q[1], q[2])'
  BY <1>0, Lasting
<1>3. CASE phase[q] \notin {"none", "created", "handled"}
  BY <1>1, <1>2, <1>3 DEF LostForCause, Cause
<1>4. ASSUME phase[q] \in {"created", "handled"}, conn[q[1]].transport # "open"
      PROVE  Cause(q[1], q[2])'
  BY <1>0, <1>2, <1>4 DEF Tracked, Working
<1>5. CASE phase[q] = "created" /\ conn[q[1]].disconnected
  BY <1>0, <1>4, <1>5 DEF Sound
<1>6. CASE phase[q] = "handled" /\ SendAnswer(q)
  <2>1. CASE conn[q[1]].transport # "open"
    BY <1>4, <1>6, <2>1
  <2>2. CASE conn[q[1]].transport = "open"
    <3> DEFINE a == [of |-> q[2], status |-> result[q]]
               s == answers[q[1]]
    <3>1. ~conn[q[1]].disconnected
      BY <1>0, <2>2 DEF Sound
    <3>2. answers' = [answers EXCEPT ![q[1]] = Append(@, a)]
      BY <1>6, <2>2, <3>1, SendAnswerRest
    <3>3. answers'[q[1]] = Append(s, a) /\ a.of = q[2]
      BY <1>0, <3>2
    <3> HIDE DEF a
    <3>4. s \in Seq([of : Nat, status : Statuses])
      BY <1>0
    <3> HIDE DEF s
    <3>5. Len(s) + 1 \in DOMAIN Append(s, a) /\ Append(s, a)[Len(s) + 1] = a
      BY <3>4
    <3>6. Answered(q)'
      BY <3>3, <3>5 DEF Answered
    <3> QED BY <3>6
  <2> QED BY <2>1, <2>2
<1>7. TaskMoves(q)
  BY TasksMove
<1> QED BY <1>3, <1>5, <1>6, <1>7 DEF TaskMoves

(* Without its server no task goes on, and no connection opens again.      *)
LEMMA QuietKept == TypeInv /\ Tracked /\ Quiet /\ [Next]_vars => Quiet'
<1> SUFFICES ASSUME TypeInv, Tracked, Quiet, [Next]_vars, server' = "exited"
             PROVE  /\ \A c \in Connections : conn'[c].transport # "open"
                    /\ \A r \in Requests : phase'[r] \notin InTask
  BY DEF Quiet
<1>1. CASE Exit
  BY <1>1 DEF Exit
<1>2. CASE server = "exited"
  <2>0. /\ \A c \in Connections : conn[c].transport # "open"
        /\ \A r \in Requests : phase[r] \notin InTask
    BY <1>2 DEF Quiet
  <2>1. ASSUME NEW c \in Connections, DataReceived(c) PROVE FALSE
    BY <2>0, <2>1, DataReceivedMoves
  <2>2. ASSUME NEW r \in Requests, SendAnswer(r) \/ HandlingStep(r) \/ LoneStep(r) PROVE FALSE
    <3>1. phase[r] \in {"handled", "created", "background", "thread"}
      BY <2>2, SendAnswerRest, Handling, Alone
    <3> QED BY <2>0, <3>1 DEF InTask
  <2>3. CASE SettlingStep
    <3>1. \A c \in Connections : conn'[c].transport = "open" => conn[c].transport = "open"
      BY <2>3, Settling DEF Settled, Moved
    <3>2. \A r \in Requests : phase'[r] = phase[r] \/ phase[r] \in {"returned", "broken"}
      BY <2>3, SettlingPhases
    <3> QED BY <2>0, <3>1, <3>2 DEF InTask
  <2>4. CASE UNCHANGED vars
    BY <2>0, <2>4 DEF vars
  <2> QED BY <1>1, <2>1, <2>2, <2>3, <2>4, Kinds
<1>3. CASE server # "exited" /\ ~Exit
  <2>1. ASSUME NEW c \in Connections, DataReceived(c) PROVE server' = server
    BY <2>1 DEF DataReceived
  <2>2. ASSUME NEW r \in Requests, SendAnswer(r) \/ HandlingStep(r) \/ LoneStep(r)
        PROVE  server' = server
    BY <2>2, SendAnswerRest, Handling, Alone
  <2>3. SettlingStep => server' \in {server, "stopping"}
    BY SettlingPhases
  <2>4. UNCHANGED vars => server' = server
    BY DEF vars
  <2> QED BY <1>3, <2>1, <2>2, <2>3, <2>4, Kinds
<1> QED BY <1>1, <1>2, <1>3

(* A request that comes in while the server stops queues behind the one in *)
(* hand; its answer closes the connection; a shutdown closes what is idle. *)
LEMMA DrainingKept == TypeInv /\ Tracked /\ Draining /\ [Next]_vars => Draining'
<1> SUFFICES ASSUME TypeInv, Tracked, Draining, [Next]_vars, server' # "running",
                    NEW d \in Connections, conn'[d].transport = "open"
             PROVE  Busy(conn'[d]) /\ ~conn'[d].keepAlive
  BY DEF Draining
<1>0. /\ conn \in [Connections -> Protocols] /\ conn[d] \in Protocols
      /\ server # "running" /\ conn[d].transport = "open" =>
           Busy(conn[d]) /\ ~conn[d].keepAlive
  BY DEF TypeInv, Draining
<1>1. ASSUME NEW c \in Connections, DataReceived(c)
      PROVE  Busy(conn'[d]) /\ ~conn'[d].keepAlive
  <2>0. server # "running" /\ conn[c].transport = "open" /\ conn[c] \in Protocols
    BY <1>0, <1>1 DEF DataReceived
  <2>1. CASE d = c
    <3> DEFINE i == conn[c].sent + 1
               k == [conn[c] EXCEPT !.sent = i, !.timer = FALSE, !.buffer = Append(@, i)]
    <3>1. conn'[c] = HandleEvents(k)
      BY <1>0, <1>1 DEF DataReceived, Become
    <3>2. /\ k.cycle = conn[c].cycle /\ k.complete = conn[c].complete
          /\ k.keepAlive = conn[c].keepAlive
      BY <2>0 DEF Protocols
    <3> HIDE DEF k
    <3>3. Busy(k) /\ ~k.keepAlive
      BY <1>0, <2>0, <2>1, <3>2 DEF Busy
    <3> QED BY <2>1, <3>1, <3>3 DEF HandleEvents
  <2>2. CASE d # c
    <3>1. conn'[d] = conn[d]
      BY <1>0, <1>1, <2>2, DataReceivedMoves
    <3> QED BY <1>0, <2>0, <3>1
  <2> QED BY <2>1, <2>2
<1>2. CASE SettlingStep
  <2>0. (Busy(conn'[d]) <=> Busy(conn[d])) /\ conn[d].transport = "open"
    BY <1>2, Settling DEF Settled, Moved
  <2>1. ASSUME NEW c \in Connections, ClientLeaves(c)
        PROVE  server' = server /\ conn'[d].keepAlive = conn[d].keepAlive
    BY <1>0, <2>1 DEF ClientLeaves, Protocols
  <2>2. ASSUME NEW c \in Connections, ConnectionLost(c)
        PROVE  server' = server /\ conn'[d].keepAlive = conn[d].keepAlive
    BY <1>0, <2>2 DEF ConnectionLost, Protocols
  <2>3. ASSUME NEW c \in Connections, KeepAliveTimeout(c)
        PROVE  server' = server /\ conn'[d].keepAlive = conn[d].keepAlive
    BY <1>0, <2>3 DEF KeepAliveTimeout, Close, Protocols
  <2>4. ASSUME NEW r \in Requests, EndTask(r)
        PROVE  server' = server /\ conn'[d].keepAlive = conn[d].keepAlive
    <3>1. Close(conn[d]).keepAlive = conn[d].keepAlive
      BY <1>0 DEF Close, Protocols
    <3>2. conn' \in {conn, [conn EXCEPT ![r[1]] = Close(conn[r[1]])]} /\ server' = server
      BY <2>4 DEF EndTask
    <3> QED BY <1>0, <3>1, <3>2
  <2>5. CASE ShutDown
    <3>1. conn'[d] = ShutDownConnection(conn[d])
      BY <2>5 DEF ShutDown
    <3>2. CASE Busy(conn[d])
      BY <1>0, <2>0, <3>1, <3>2 DEF ShutDownConnection, Protocols
    <3>3. CASE ~Busy(conn[d])
      BY <1>0, <2>0, <3>1, <3>3 DEF ShutDownConnection, Close, Protocols
    <3> QED BY <3>2, <3>3
  <2> QED BY <1>0, <1>2, <2>0, <2>1, <2>2, <2>3, <2>4, <2>5 DEF SettlingStep
<1>3. ASSUME NEW r \in Requests, SendAnswer(r)
      PROVE  Busy(conn'[d]) /\ ~conn'[d].keepAlive
  <2>0. server # "running" /\ r[1] \in Connections
    BY <1>3, SendAnswerRest, RequestsAre
  <2>1. CASE conn[r[1]].disconnected
    BY <1>0, <1>3, <2>0, <2>1, SendAnswerRest
  <2>2. CASE ~conn[r[1]].disconnected /\ d # r[1]
    <3>1. conn'[d] = conn[d]
      BY <1>0, <1>3, <2>2, SendAnswerMoves
    <3> QED BY <1>0, <2>0, <3>1
  <2>3. CASE ~conn[r[1]].disconnected /\ d = r[1]
    <3> DEFINE done == [conn[d] EXCEPT !.complete = TRUE]
               k == OnResponseComplete(conn[d])
    <3>1. conn[d].transport = "open" /\ ~conn[d].keepAlive
      BY <1>0, <1>3, <2>0, <2>3, SendAnswerMoves DEF Moved
    <3>2. k = Close(done) /\ done \in Protocols
      BY <1>0, <3>1 DEF OnResponseComplete, Protocols
    <3>3. k.transport # "open" /\ k \in Protocols
      BY <3>2 DEF Close, Protocols
    <3>4. conn'[d] = IF Raised(r) THEN Close(k) ELSE k
      BY <1>0, <1>3, <2>3 DEF SendAnswer, Become
    <3> HIDE DEF k
    <3>5. conn'[d].transport # "open"
      BY <3>3, <3>4 DEF Close, Protocols
    <3> QED BY <3>5
  <2> QED BY <2>1, <2>2, <2>3
<1>4. ASSUME NEW r \in Requests, HandlingStep(r) \/ LoneStep(r)
      PROVE  Busy(conn'[d]) /\ ~conn'[d].keepAlive
  BY <1>0, <1>4, Handling, Alone
<1>5. CASE Exit \/ UNCHANGED vars
  BY <1>0, <1>5 DEF Exit, vars
<1> QED BY <1>1, <1>2, <1>3, <1>4, <1>5, Kinds

(* What is stored stays stored, and what is refused stays refused: a       *)
(* registration is decided once, and its row joins no row it clashes with. *)
LEMMA RegistrationKept ==
    TypeInv /\ Accounted /\ RegistrationTold /\ Stored /\ [Next]_vars
        => RegistrationTold' /\ Stored'
<1> SUFFICES ASSUME TypeInv, Accounted, RegistrationTold, Stored, [Next]_vars
             PROVE  RegistrationTold' /\ Stored'
  OBVIOUS
<1>0. result \in [Requests -> Statuses]
  BY DEF TypeInv
<1>1. ASSUME drivers' = drivers, outages' = outages,
             \A q \in Requests : RequestOf(q).kind = "register" => result'[q] = result[q]
      PROVE  RegistrationTold' /\ Stored'
  BY <1>1 DEF RegistrationTold, Stored, Clash
<1>2. ASSUME NEW r \in Requests, CreateDriver(r) PROVE RegistrationTold' /\ Stored'
  <2>1. /\ phase[r] = "created" /\ RequestOf(r).kind = "register"
        /\ \A q \in drivers : q \in Requests
    BY <1>2 DEF CreateDriver, Runs, Stored
  <2>2. result[r] = 0 /\ r \notin drivers
    BY <2>1 DEF Accounted, RegistrationTold
  <2>3. PICK s \in {201, 500} : result' = [result EXCEPT ![r] = s]
    BY <1>2 DEF CreateDriver, Handled
  <2>4. \/ ~Clash(r) /\ drivers' = drivers \cup {r} /\ s = 201 /\ outages' = outages
        \/ Clash(r) /\ drivers' = drivers /\ s = 500 /\ outages' = outages
        \/ drivers' = drivers /\ s = 500 /\ outages' = outages \cup {r}
        \/ ~Clash(r) /\ drivers' = drivers \cup {r} /\ s = 500 /\ outages' = outages \cup {r}
    BY <1>0, <1>2, <2>3 DEF CreateDriver, Handled
  <2>5. Stored'
    BY <2>1, <2>4 DEF Stored
  <2>6. ASSUME NEW q \in Requests, RequestOf(q).kind = "register"
        PROVE  /\ result'[q] = 201 => q \in drivers'
               /\ result'[q] = 500 /\ q \notin outages' => q \notin drivers' /\ Clash(q)'
               /\ q \in drivers' =>
                     /\ result'[q] \in {201, 500}
                     /\ \A p \in drivers' : SameDriver(p, q) => p = q
    <3>1. ASSUME q # r
          PROVE  /\ result'[q] = result[q] /\ (q \in outages' <=> q \in outages)
                 /\ q \in drivers' <=> q \in drivers
      BY <1>0, <2>3, <2>4, <3>1
    <3>2. result'[r] = s
      BY <1>0, <2>3
    <3>3. drivers \subseteq drivers'
      BY <2>4
    <3>4. CASE q = r
      BY <2>2, <2>4, <3>2, <3>4 DEF Clash
    <3>5. CASE q # r
      <4>1. /\ result[q] = 201 => q \in drivers
            /\ result[q] = 500 /\ q \notin outages => q \notin drivers /\ Clash(q)
            /\ q \in drivers =>
                  /\ result[q] \in {201, 500}
                  /\ \A p \in drivers : SameDriver(p, q) => p = q
        BY <2>6 DEF RegistrationTold
      <4>2. ASSUME q \in drivers, NEW p \in drivers', SameDriver(p, q)
            PROVE  p = q
        BY <2>4, <4>1, <4>2 DEF Clash, SameDriver
      <4> QED BY <3>1, <3>3, <3>5, <4>1, <4>2 DEF Clash
    <3> QED BY <3>4, <3>5
  <2> QED BY <2>5, <2>6 DEF RegistrationTold
<1>3. ASSUME NEW r \in Requests, RunCheckEndpoint(r) \/ Health(r)
      PROVE  RegistrationTold' /\ Stored'
  <2>1. /\ drivers' = drivers /\ outages' = outages
        /\ RequestOf(r).kind \in {"check", "health"}
    BY <1>3 DEF RunCheckEndpoint, Health, Runs
  <2>2. Gives(r)
    BY <1>3, Handling DEF HandlingStep
  <2>3. ASSUME NEW q \in Requests, RequestOf(q).kind = "register"
        PROVE  result'[q] = result[q]
    BY <1>0, <2>1, <2>2, <2>3 DEF Gives
  <2> QED BY <1>1, <2>1, <2>3
<1>4. ASSUME NEW c \in Connections, DataReceived(c)
      PROVE  UNCHANGED <<result, drivers, outages>>
  BY <1>4 DEF DataReceived
<1>5. SettlingStep => UNCHANGED <<result, drivers, outages>>
  BY SettlingPhases
<1>6. ASSUME NEW r \in Requests, SendAnswer(r) \/ LoneStep(r)
      PROVE  UNCHANGED <<result, drivers, outages>>
  BY <1>6, SendAnswerRest, Alone
<1>7. Exit \/ UNCHANGED vars => UNCHANGED <<result, drivers, outages>>
  BY DEF Exit, vars
<1> QED BY <1>1, <1>2, <1>3, <1>4, <1>5, <1>6, <1>7, Kinds DEF HandlingStep

(* A thread is started only when there is one to spare.                    *)
LEMMA ThreadedKept == TypeInv /\ Tracked /\ Threaded /\ [Next]_vars => Threaded'
<1> DEFINE T == {r \in Requests : phase[r] = "thread"}
<1> SUFFICES ASSUME TypeInv, Tracked, Threaded, [Next]_vars
             PROVE  IsFiniteSet(T') /\ Cardinality(T') <= Threads
  BY DEF Threaded
<1>0. IsFiniteSet(T) /\ Cardinality(T) <= Threads /\ Cardinality(T) \in Nat
  BY FS_CardinalityType DEF Threaded
<1>1. CASE T' \subseteq T
  <2>1. IsFiniteSet(T') /\ Cardinality(T') <= Cardinality(T) /\ Cardinality(T') \in Nat
    BY <1>0, <1>1, FS_Subset, FS_CardinalityType
  <2> HIDE DEF T
  <2> QED BY <1>0, <2>1, ThreadsAssumption
<1>2. ASSUME NEW r \in Requests, StartThread(r)
      PROVE  IsFiniteSet(T') /\ Cardinality(T') <= Threads
  <2>1. phase' = [phase EXCEPT ![r] = "thread"] /\ Cardinality(T) < Threads
    BY <1>2 DEF StartThread
  <2>2. T' = T \cup {r}
    BY <2>1 DEF TypeInv
  <2> HIDE DEF T
  <2>3. /\ IsFiniteSet(T \cup {r}) /\ Cardinality(T \cup {r}) \in Nat
        /\ Cardinality(T \cup {r}) <= Cardinality(T) + 1
    <3>1. /\ IsFiniteSet(T \cup {r})
          /\ Cardinality(T \cup {r}) = IF r \in T THEN Cardinality(T) ELSE Cardinality(T) + 1
      BY <1>0, FS_AddElement
    <3> QED BY <1>0, <3>1
  <2>4. Cardinality(T \cup {r}) <= Threads
    BY <1>0, <2>1, <2>3, ThreadsAssumption
  <2> QED BY <2>2, <2>3, <2>4
<1>3. ASSUME NEW q \in Requests, phase'[q] = "thread", phase[q] # "thread"
      PROVE  \E r \in Requests : StartThread(r)
  <2>1. phase[q] = "background"
    <3>1. AfterAnswer(q) # "thread"
      BY DEF AfterAnswer
    <3> QED BY <1>3, <3>1, TasksMove DEF TaskMoves
  <2>2. ASSUME NEW c \in Connections, DataReceived(c) PROVE FALSE
    <3>1. phase' \in {phase, [phase EXCEPT ![<<c, conn'[c].cycle>>] = "created"]}
      BY <2>2, DataReceivedMoves
    <3> QED BY <1>3, <3>1 DEF TypeInv
  <2>3. ~SettlingStep
    BY <1>3, SettlingPhases
  <2>4. ASSUME NEW r \in Requests, SendAnswer(r) PROVE FALSE
    <3>0. AfterAnswer(r) # "thread"
      BY DEF AfterAnswer
    <3>1. phase' \in {[phase EXCEPT ![r] = AfterAnswer(r)],
                      [phase EXCEPT ![r] = AfterAnswer(r),
                                    ![<<r[1], conn'[r[1]].cycle>>] = "created"]}
      BY <2>4, SendAnswerRest, SendAnswerMoves
    <3> QED BY <1>3, <3>0, <3>1 DEF TypeInv
  <2>5. ASSUME NEW r \in Requests, HandlingStep(r) PROVE FALSE
    BY <1>3, <2>5, Handling DEF TypeInv
  <2>6. ASSUME NEW r \in Requests, ClientDisconnect(r) \/ ExecuteCompliance(r) PROVE FALSE
    BY <1>3, <2>6 DEF ClientDisconnect, ExecuteCompliance, TypeInv
  <2>7. ~Exit /\ ~UNCHANGED vars
    BY <1>3 DEF Exit, vars
  <2> QED BY <2>2, <2>3, <2>4, <2>5, <2>6, <2>7, Kinds DEF LoneStep
<1> QED BY <1>1, <1>2, <1>3

-----------------------------------------------------------------------------
(* The theorems.                                                           *)
LEMMA InitIInv == Init => IInv
<1> SUFFICES ASSUME Init PROVE IInv
  OBVIOUS
<1>1. NewConnection \in Protocols /\ Sound(NewConnection) /\ ~Busy(NewConnection)
      /\ NewConnection.cycle = 0 /\ NewConnection.sent = 0
      /\ NewConnection.transport = "open"
  BY DEF NewConnection, Protocols, Sound, Busy
<1>2. TypeInv
  <2>1. \A c \in Connections : conn[c] = NewConnection
    BY DEF Init
  <2>2. \A c \in Connections : Sound(conn[c]) /\ conn[c].sent <= Len(Script[c])
    BY <1>1, <2>1, ScriptAssumption
  <2>3. conn \in [Connections -> Protocols]
    BY <1>1 DEF Init
  <2> QED BY <2>2, <2>3 DEF Init, TypeInv, Statuses, Phases
<1>3. /\ \A c \in Connections : conn[c] = NewConnection /\ answers[c] = <<>>
      /\ \A r \in Requests : phase[r] = "none" /\ result[r] = 0 /\ executions[r] = 0
      /\ server = "running" /\ drivers = {}
  BY DEF Init
<1>4. Tracked
  BY <1>1, <1>3, RequestsAre DEF Tracked
<1>5. Working /\ Told /\ Serial /\ Draining
  BY <1>1, <1>3 DEF Working, Told, Ended, Serial, Draining
<1>6. LostForCause /\ Accounted /\ Quiet /\ RegistrationTold /\ Stored
  BY <1>3 DEF LostForCause, Accounted, Quiet, RegistrationTold, Stored
<1>7. Threaded
  <2>1. {r \in Requests : phase[r] = "thread"} = {}
    BY <1>3
  <2> QED BY <2>1, FS_EmptySet, ThreadsAssumption DEF Threaded
<1> QED BY <1>2, <1>4, <1>5, <1>6, <1>7 DEF IInv

(* The conjunction is inductive.                                           *)
LEMMA Inductive == IInv /\ [Next]_vars => IInv'
<1> SUFFICES ASSUME IInv, [Next]_vars PROVE IInv'
  OBVIOUS
<1>1. TypeInv' /\ Tracked' /\ Working'
  BY TypeKept, TrackedKept, WorkingKept DEF IInv
<1>2. Told' /\ Serial' /\ LostForCause' /\ Accounted' /\ Draining'
  BY ToldKept, SerialKept, CauseKept, AccountedKept, DrainingKept DEF IInv
<1>3. Quiet' /\ Threaded'
  BY QuietKept, ThreadedKept DEF IInv
<1>4. RegistrationTold' /\ Stored'
  BY RegistrationKept DEF IInv
<1> QED BY <1>1, <1>2, <1>3, <1>4 DEF IInv

(* The inductive invariant holds in every reachable state.                 *)
THEOREM Invariance == Spec => []IInv
BY InitIInv, Inductive, PTL DEF Spec

(* Buffers and counters of a connection agree, and never more checks are   *)
(* executed at once than there are worker threads (run_in_threadpool()).   *)
THEOREM TypeCorrect == Spec => []TypeOK
<1>1. IInv => TypeOK
  BY DEF IInv, TypeInv, Threaded, TypeOK, Sound, Protocols, Phases, Statuses
<1> QED BY <1>1, Invariance, PTL

(* However requests are pipelined, abandoned, failed or cut off by a       *)
(* shutdown, a connection carries their answers in their order, each the   *)
(* one that its handler gave (RequestResponseCycle, on_response_complete). *)
THEOREM AnswersCorrect == Spec => []AnswersInOrder
<1>1. IInv => AnswersInOrder
  <2> SUFFICES ASSUME IInv, NEW c \in Connections, NEW j \in DOMAIN answers[c]
               PROVE  answers[c][j].of = j /\ answers[c][j].status = result[<<c, j>>]
    BY DEF AnswersInOrder
  <2>1. answers[c] \in Seq([of : Nat, status : Statuses])
    BY DEF IInv, TypeInv
  <2>2. j \in 1..Len(answers[c])
    BY <2>1
  <2> QED BY <2>2 DEF IInv, Told
<1> QED BY <1>1, Invariance, PTL

(* The keep-alive timer of one answer never closes the connection under    *)
(* the next request (_unset_keepalive_if_required).                        *)
THEOREM TimerCorrect == Spec => []TimerNeverInterrupts
<1>1. IInv => TimerNeverInterrupts
  BY DEF IInv, TypeInv, Sound, TimerNeverInterrupts
<1> QED BY <1>1, Invariance, PTL

(* A request that was begun loses its answer only to its own client, or to *)
(* the error of an earlier request on the connection (run_asgi()).         *)
THEOREM LossesCorrect == Spec => []LostForCause
<1>1. IInv => LostForCause
  BY DEF IInv
<1> QED BY <1>1, Invariance, PTL

(* An accepted check is executed once, whatever becomes of its client and  *)
(* of the server (BackgroundTasks, _wait_tasks_to_complete()).             *)
THEOREM AcceptedCorrect == Spec => []AcceptedAreRun
<1>1. IInv => AcceptedAreRun
  <2> SUFFICES ASSUME IInv, NEW r \in Requests, result[r] = 202
               PROVE  /\ executions[r] <= 1
                      /\ phase[r] = "over" \/ server = "exited" => executions[r] = 1
    BY DEF AcceptedAreRun
  <2>1. phase[r] \in Phases /\ phase[r] # "none"
    BY DEF IInv, TypeInv, Accounted
  <2>2. /\ phase[r] \in {"none", "created", "handled", "background", "thread"} => executions[r] = 0
        /\ phase[r] \in {"returned", "broken", "over"} => executions[r] = 1
    BY DEF IInv, Accounted
  <2>3. server = "exited" => phase[r] \notin InTask
    BY DEF IInv, Quiet
  <2> QED BY <2>1, <2>2, <2>3 DEF Phases, InTask
<1> QED BY <1>1, Invariance, PTL

(* What a client is told of its registration is true of fms.drivers, from  *)
(* then on: 201 of a row that is stored, 500 of one that clashed, unless   *)
(* its database connection broke (create_driver(), the constraints of V2). *)
THEOREM RegistrationCorrect == Spec => []RegistrationTold
<1>1. IInv => RegistrationTold
  BY DEF IInv
<1> QED BY <1>1, Invariance, PTL

(* A stopping server waits only for connections with a request in hand,    *)
(* whose answer closes them (H11Protocol.shutdown(), on_response_complete). *)
THEOREM ShutDownCorrect == Spec => []ShutDownDrains
<1>1. IInv => ShutDownDrains
  BY DEF IInv, Working, Draining, ShutDownDrains
<1> QED BY <1>1, Invariance, PTL

-----------------------------------------------------------------------------
(* Serving implements ServicePromise. A step that decides or tells is that *)
(* of a current request, which is the first unanswered one.                *)
LEMMA CurrentHasItsTurn ==
    ASSUME IInv, NEW r \in Requests, phase[r] \in {"created", "handled"}
    PROVE  Promise!Turn(r)
<1>1. r[1] \in Connections /\ r[2] = conn[r[1]].cycle /\ Busy(conn[r[1]])
  BY RequestsAre DEF IInv, Tracked
<1>2. Len(answers[r[1]]) = r[2] - 1
  BY <1>1 DEF IInv, Serial
<1> QED BY <1>2 DEF Promise!Turn

LEMMA PromisedRequests == Promise!Requests = Requests
BY DEF Promise!Requests, Requests

(* A handler decides and stores a driver in one step, whatever it decides. *)
LEMMA HandlingMaps ==
    ASSUME IInv, NEW r \in Requests, HandlingStep(r)
    PROVE  Promise!Next
<1>1. /\ phase[r] = "created" /\ result[r] = 0 /\ Promise!Turn(r)
      /\ UNCHANGED <<answers, executions>>
  BY Handling, CurrentHasItsTurn DEF IInv, Accounted
<1>2. ASSUME NEW s, Handled(r, s) PROVE Promise!Decide(r, s)
  BY <1>1, <1>2 DEF Handled, Promise!Decide
<1>3. CASE RunCheckEndpoint(r)
  <2>1. Promise!Accept(r)
    BY <1>2, <1>3 DEF RunCheckEndpoint, Runs, RequestOf, Promise!Accept
  <2> QED BY <2>1, PromisedRequests DEF Promise!Next
<1>4. CASE CreateDriver(r)
  <2>1. Promise!Enter(r) \/ Promise!Refuse(r)
    BY <1>2, <1>4 DEF CreateDriver, Runs, RequestOf, Clash, SameDriver, DriverOf,
                      Promise!Enter, Promise!Refuse, Promise!Taken, Promise!Wanted
  <2> QED BY <2>1, PromisedRequests DEF Promise!Next
<1>5. CASE Health(r)
  <2>1. Promise!Report(r)
    BY <1>2, <1>5 DEF Health, Runs, RequestOf, Promise!Report
  <2> QED BY <2>1, PromisedRequests DEF Promise!Next
<1> QED BY <1>3, <1>4, <1>5 DEF HandlingStep

(* An answer that is written tells; one that is lost is a stutter.         *)
LEMMA SendAnswerMaps ==
    ASSUME IInv, NEW r \in Requests, SendAnswer(r)
    PROVE  Promise!Next \/ UNCHANGED <<result, answers, drivers, executions>>
<1>0. TypeInv
  BY DEF IInv
<1>1. /\ UNCHANGED <<result, drivers, executions>>
      /\ phase[r] = "handled"
      /\ \/ answers' = answers
         \/ answers' = [answers EXCEPT ![r[1]] =
                          Append(@, [of |-> r[2], status |-> result[r]])]
  BY <1>0, SendAnswerRest
<1>2. result[r] # 0 /\ Promise!Turn(r)
  BY <1>1, CurrentHasItsTurn DEF IInv, Accounted
<1>3. answers' = answers \/ Promise!Tell(r)
  BY <1>1, <1>2 DEF Promise!Tell
<1> QED BY <1>1, <1>3, PromisedRequests DEF Promise!Next

(* The execution of an accepted check runs it; the rest is a stutter.      *)
LEMMA LoneMaps ==
    ASSUME IInv, NEW r \in Requests, LoneStep(r)
    PROVE  Promise!Next \/ UNCHANGED <<result, answers, drivers, executions>>
<1>1. UNCHANGED <<result, answers, drivers>>
  BY Alone
<1>2. CASE executions' = executions
  BY <1>1, <1>2
<1>3. CASE executions' # executions
  <2>1. phase[r] = "thread" /\ executions' = [executions EXCEPT ![r] = @ + 1]
    BY <1>3, Alone
  <2>2. executions[r] = 0 /\ result[r] = 202
    BY <2>1 DEF IInv, Accounted
  <2>3. Promise!Run(r)
    BY <1>1, <2>1, <2>2 DEF Promise!Run
  <2> QED BY <2>3, PromisedRequests DEF Promise!Next
<1> QED BY <1>2, <1>3

(* Every step of Serving is a step of the promise, or a stutter.           *)
LEMMA StepsMap == IInv /\ [Next]_vars => [Promise!Next]_(Promise!vars)
<1> SUFFICES ASSUME IInv, [Next]_vars
             PROVE  Promise!Next \/ UNCHANGED <<result, answers, drivers, executions>>
  BY DEF Promise!vars
<1>1. ASSUME NEW c \in Connections, DataReceived(c)
      PROVE  UNCHANGED <<result, answers, drivers, executions>>
  BY <1>1 DEF DataReceived
<1>2. CASE SettlingStep
  BY <1>2, SettlingPhases, Settling DEF Settled, IInv
<1>3. CASE Exit \/ UNCHANGED vars
  BY <1>3 DEF Exit, vars
<1> QED BY <1>1, <1>2, <1>3, HandlingMaps, SendAnswerMaps, LoneMaps, Kinds

(* However requests are pipelined, abandoned or cut off, the API serves    *)
(* every connection as if one request came in at a time: it stores a       *)
(* driver, if at all, with the step that decides on the answer, 201 or a   *)
(* 500 that hides it, and runs what it accepted at most once               *)
(* (H11Protocol, RequestResponseCycle, create_driver(), BackgroundTasks).  *)
THEOREM PromiseKept == Spec => KeepsPromise
<1>1. Init => Promise!Init
  BY PromisedRequests DEF Init, Promise!Init
<1>2. IInv /\ [Next]_vars => [Promise!Next]_(Promise!vars)
  BY StepsMap
<1> QED BY <1>1, <1>2, Invariance, PTL DEF Spec, KeepsPromise, Promise!Spec
=============================================================================
