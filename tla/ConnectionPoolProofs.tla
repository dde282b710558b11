------------------------ MODULE ConnectionPoolProofs ------------------------
(***************************************************************************)
(* Proofs about ConnectionPool, for any number of clients and any sizes of *)
(* the pool.                                                               *)
(*                                                                         *)
(* A connection is handed to whoever is first in the queue: that it is     *)
(* neither lost nor shared depends on who is in the queue (Queue). That    *)
(* one task grows the pool depends on which places may have the flag       *)
(* (Growing). From both follows that the pool keeps the promise of         *)
(* PoolPromise: the queue is the line, less the positions given up.        *)
(***************************************************************************)
EXTENDS ConnectionPool, FiniteSetTheorems, SequenceTheorems, WellFoundedInduction, TLAPS

(* Who has a position waits, has nothing yet, and has one position only. *)
Queue ==
    /\ \A i \in Positions : waiting[i] # Gone =>
         pc[waiting[i]] \in {"waiting", "expired"} /\ hand[waiting[i]] = {}
    /\ \A i, j \in Positions : waiting[i] # Gone /\ waiting[i] = waiting[j] => i = j

(* Only an attempt to connect, or its result, may grow the pool. *)
Growing == \A x \in Conns : conn[x].grows => conn[x].at \in {"adding", "arriving"}

(* What is made or idle is not known to be closed ...                      *)
Open == \A x \in Conns : conn[x].at \in {"arriving", "idle"} => conn[x].health # "closed"

(* ... nor is what a client has, until it has worked with it.              *)
Handed ==
    \A c \in Clients : \A x \in hand[c] : conn[x].health = "closed" => pc[c] = "returning"

Spot == [at : {"free", "adding", "arriving", "idle", "out"},
         health : {"ok", "stale", "closed"}, grows : BOOLEAN, tried : BOOLEAN]

PlacesSound ==
    /\ conn \in [Conns -> Spot]
    /\ nconns \in 0..MaxSize
    /\ growing \in BOOLEAN
    /\ deciding \in 0..1
    /\ CountIsTrue
    /\ Open
    /\ OneGrower
    /\ Growing

LendingSound ==
    /\ waiting \in Seq(Clients \cup {Gone})
    /\ hand \in [Clients -> SUBSET Conns]
    /\ pc \in [Clients -> {"out", "waiting", "expired", "using", "returning"}]
    /\ NoneLostNoneShared
    /\ NoIdleWhileWaiting
    /\ Queue

PInv == up \in BOOLEAN /\ PlacesSound /\ LendingSound

-----------------------------------------------------------------------------
(* Places.                                                                 *)

(* Only the place x changes, and becomes p. *)
Becomes(x, p) == conn' = [conn EXCEPT ![x] = p] /\ p \in Spot

(* A place is what its fields say. *)
LEMMA SpotIs ==
    ASSUME NEW p \in Spot
    PROVE  /\ p = Place(p.at, p.health, p.grows, p.tried)
           /\ p.at \in {"free", "adding", "arriving", "idle", "out"}
           /\ p.health \in {"ok", "stale", "closed"}
           /\ p.grows \in BOOLEAN /\ p.tried \in BOOLEAN
BY DEF Spot, Place

LEMMA PlaceIs ==
    ASSUME NEW a, NEW h, NEW g, NEW r
    PROVE  /\ Place(a, h, g, r).at = a /\ Place(a, h, g, r).health = h
           /\ Place(a, h, g, r).grows = g /\ Place(a, h, g, r).tried = r
           /\ a \in {"free", "adding", "arriving", "idle", "out"} /\ h \in {"ok", "stale", "closed"}
              /\ g \in BOOLEAN /\ r \in BOOLEAN => Place(a, h, g, r) \in Spot
BY DEF Spot, Place

LEMMA FreeIs == Free \in Spot /\ Free.at = "free" /\ Free.grows = FALSE
BY DEF Free, Place, Spot

LEMMA AddingIs ==
    ASSUME NEW g \in BOOLEAN
    PROVE  Adding(g) \in Spot /\ Adding(g).at = "adding" /\ Adding(g).grows = g
BY DEF Adding, Place, Spot

(* ... and its fields change one by one. *)
LEMMA SetAt ==
    ASSUME NEW p \in Spot, NEW a
    PROVE  [p EXCEPT !.at = a] = Place(a, p.health, p.grows, p.tried)
<1>1. p = Place(p.at, p.health, p.grows, p.tried)
  BY SpotIs
<1> QED BY <1>1 DEF Place

(* What becomes of the others, and of x. *)
LEMMA BecomesIs ==
    ASSUME conn \in [Conns -> Spot], NEW x \in Conns, NEW p, Becomes(x, p)
    PROVE  /\ conn' \in [Conns -> Spot] /\ conn'[x] = p
           /\ \A y \in Conns \ {x} : conn'[y] = conn[y]
BY DEF Becomes

(* One member more or less. *)
LEMMA AddedRemoved ==
    ASSUME NEW S, IsFiniteSet(S), NEW x
    PROVE  /\ Cardinality(S \ {x}) = Cardinality(S) - (IF x \in S THEN 1 ELSE 0)
           /\ Cardinality(S \cup {x}) = Cardinality(S) + (IF x \in S THEN 0 ELSE 1)
<1>1. Cardinality(S) \in Nat
  BY FS_CardinalityType
<1>2. Cardinality(S \ {x}) = IF x \in S THEN Cardinality(S) - 1 ELSE Cardinality(S)
  BY FS_RemoveElement
<1>3. Cardinality(S \cup {x}) = IF x \in S THEN Cardinality(S) ELSE Cardinality(S) + 1
  BY FS_AddElement
<1> QED BY <1>1, <1>2, <1>3

(* The count and the flags, when x changes. *)
LEMMA Counts ==
    ASSUME conn \in [Conns -> Spot], NEW x \in Conns, NEW p, Becomes(x, p)
    PROVE  /\ Cardinality(Conns \ At("free"))' =
                 Cardinality(Conns \ At("free"))
                   + (IF p.at = "free" THEN 0 ELSE 1) - (IF conn[x].at = "free" THEN 0 ELSE 1)
           /\ Cardinality({y \in Conns : conn[y].grows})' =
                 Cardinality({y \in Conns : conn[y].grows})
                   + (IF p.grows THEN 1 ELSE 0) - (IF conn[x].grows THEN 1 ELSE 0)
<1>0. /\ conn'[x] = p /\ \A y \in Conns \ {x} : conn'[y] = conn[y]
      /\ conn[x].grows \in BOOLEAN /\ p.grows \in BOOLEAN
  BY BecomesIs DEF Becomes, Spot
<1> DEFINE U == Conns \ At("free")
           G == {y \in Conns : conn[y].grows}
<1>1. /\ IsFiniteSet(U) /\ IsFiniteSet(G) /\ Cardinality(U) \in Nat /\ Cardinality(G) \in Nat
  BY SizeAssumption, FS_Subset, FS_CardinalityType
<1>2. U' = (IF p.at = "free" THEN U \ {x} ELSE U \cup {x})
  BY <1>0 DEF At
<1>3. x \in U <=> conn[x].at # "free"
  BY DEF At
<1>4. G' = (IF p.grows THEN G \cup {x} ELSE G \ {x})
  BY <1>0
<1>5. x \in G <=> conn[x].grows
  OBVIOUS
<1> HIDE DEF U, G
<1>6. /\ Cardinality(U \ {x}) = Cardinality(U) - (IF x \in U THEN 1 ELSE 0)
      /\ Cardinality(U \cup {x}) = Cardinality(U) + (IF x \in U THEN 0 ELSE 1)
  BY <1>1, AddedRemoved
<1>7. /\ Cardinality(G \ {x}) = Cardinality(G) - (IF x \in G THEN 1 ELSE 0)
      /\ Cardinality(G \cup {x}) = Cardinality(G) + (IF x \in G THEN 0 ELSE 1)
  BY <1>1, AddedRemoved
<1>8. Cardinality(U)' = Cardinality(U) + (IF p.at = "free" THEN 0 ELSE 1)
                          - (IF conn[x].at = "free" THEN 0 ELSE 1)
  BY <1>1, <1>2, <1>3, <1>6
<1>9. Cardinality(G)' = Cardinality(G) + (IF p.grows THEN 1 ELSE 0)
                          - (IF conn[x].grows THEN 1 ELSE 0)
  BY <1>1, <1>4, <1>5, <1>7
<1> QED BY <1>8, <1>9 DEF U, G

-----------------------------------------------------------------------------
(* The queue. Held(s): who has a position in s has one only.               *)

Held(s) == \A i, j \in DOMAIN s : s[i] # Gone /\ s[i] = s[j] => i = j

Among(r, s) == \A i \in DOMAIN r : r[i] # Gone => \E j \in DOMAIN s : r[i] = s[j]

(* Whoever is behind i stays. *)
LEMMA Behind ==
    ASSUME NEW T, NEW s \in Seq(T), NEW i \in DOMAIN s, Held(s)
    PROVE  LET r == SubSeq(s, i + 1, Len(s))
           IN  /\ r \in Seq(T) /\ Held(r) /\ Among(r, s)
               /\ \A k \in DOMAIN r : r[k] # Gone => r[k] # s[i]
<1> DEFINE r == SubSeq(s, i + 1, Len(s))
<1>1. /\ r \in Seq(T) /\ Len(r) = Len(s) - i /\ \A k \in 1..Len(r) : r[k] = s[i + k]
      /\ DOMAIN r = 1..Len(r) /\ Len(s) \in Nat /\ i \in 1..Len(s) /\ DOMAIN s = 1..Len(s)
  OBVIOUS
<1> HIDE DEF r
<1>2. \A k \in 1..Len(r) : i + k \in 1..Len(s)
  BY <1>1
<1>3. Held(r)
  BY <1>1, <1>2 DEF Held
<1>4. Among(r, s)
  BY <1>1, <1>2 DEF Among
<1>5. \A k \in DOMAIN r : r[k] # Gone => r[k] # s[i]
  BY <1>1, <1>2 DEF Held
<1> QED BY <1>1, <1>3, <1>4, <1>5 DEF r

(* A client that is nowhere in the queue goes to its end. *)
LEMMA AtTheEnd ==
    ASSUME NEW T, NEW s \in Seq(T), NEW c \in T, Held(s), \A i \in DOMAIN s : s[i] # c
    PROVE  LET r == Append(s, c)
           IN  /\ r \in Seq(T) /\ Held(r)
               /\ \A i \in DOMAIN r : r[i] = c \/ \E j \in DOMAIN s : r[i] = s[j]
<1> DEFINE r == Append(s, c)
<1>1. /\ r \in Seq(T) /\ Len(r) = Len(s) + 1 /\ \A k \in 1..Len(s) : r[k] = s[k]
      /\ r[Len(s) + 1] = c
      /\ DOMAIN r = 1..Len(r) /\ Len(s) \in Nat /\ DOMAIN s = 1..Len(s)
  OBVIOUS
<1> HIDE DEF r
<1>2. Held(r)
  BY <1>1 DEF Held
<1>3. \A i \in DOMAIN r : r[i] = c \/ \E j \in DOMAIN s : r[i] = s[j]
  BY <1>1
<1> QED BY <1>1, <1>2, <1>3 DEF r

(* The positions up to a, one given up, and those from b on.               *)
LEMMA Cut ==
    ASSUME NEW T, Gone \in T, NEW s \in Seq(T),
           NEW a \in 0..Len(s), NEW b \in (a + 1)..(Len(s) + 2)
    PROVE  LET r == SubSeq(s, 1, a) \o <<Gone>> \o SubSeq(s, b, Len(s))
               m == IF b <= Len(s) THEN Len(s) - b + 1 ELSE 0
           IN  /\ r \in Seq(T) /\ m \in Nat /\ Len(r) = a + 1 + m
               /\ \A k \in 1..a : r[k] = s[k]
               /\ r[a + 1] = Gone
               /\ \A k \in 1..m : b + k - 1 \in 1..Len(s) /\ r[a + 1 + k] = s[b + k - 1]
<1> DEFINE p == SubSeq(s, 1, a)
           q == SubSeq(s, b, Len(s))
           m == IF b <= Len(s) THEN Len(s) - b + 1 ELSE 0
           u == p \o <<Gone>>
           r == u \o q
<1>1. Len(s) \in Nat /\ DOMAIN s = 1..Len(s) /\ a \in Nat /\ b \in Nat
  OBVIOUS
<1>2. /\ p \in Seq(T) /\ Len(p) = a /\ \A k \in 1..a : p[k] = s[k]
  BY <1>1
<1>3. /\ q \in Seq(T) /\ Len(q) = m /\ \A k \in 1..m : q[k] = s[b + k - 1]
  BY <1>1
<1>4. m \in Nat /\ \A k \in 1..m : b + k - 1 \in 1..Len(s)
  BY <1>1
<1> HIDE DEF p, q, m
<1>5. /\ u \in Seq(T) /\ Len(u) = a + 1 /\ \A k \in 1..a : u[k] = p[k]
      /\ u[a + 1] = Gone
  BY <1>1, <1>2
<1> HIDE DEF u
<1>6. /\ r \in Seq(T) /\ Len(r) = Len(u) + Len(q)
      /\ \A k \in 1..Len(u) + Len(q) : r[k] = IF k <= Len(u) THEN u[k] ELSE q[k - Len(u)]
  <2>1. u \in Seq(T) /\ q \in Seq(T)
    BY <1>3, <1>5
  <2> QED BY <2>1, ConcatProperties, Zenon
<1> HIDE DEF r
<1>7. /\ r \in Seq(T) /\ Len(r) = a + 1 + m
      /\ \A k \in 1..a : r[k] = p[k]
      /\ r[a + 1] = Gone
      /\ \A k \in 1..m : r[a + 1 + k] = q[k]
  <2>1. r \in Seq(T) /\ Len(r) = a + 1 + m
    BY <1>3, <1>5, <1>6
  <2>2. \A k \in 1..(a + 1) : r[k] = u[k]
    BY <1>1, <1>3, <1>4, <1>5, <1>6
  <2>3. \A k \in 1..m : r[a + 1 + k] = q[k]
    BY <1>1, <1>3, <1>4, <1>5, <1>6
  <2> QED BY <1>1, <1>5, <2>1, <2>2, <2>3
<1>8. /\ r \in Seq(T) /\ m \in Nat /\ Len(r) = a + 1 + m
      /\ \A k \in 1..a : r[k] = s[k]
      /\ r[a + 1] = Gone
      /\ \A k \in 1..m : b + k - 1 \in 1..Len(s) /\ r[a + 1 + k] = s[b + k - 1]
  BY <1>2, <1>3, <1>4, <1>7
<1> QED BY <1>8 DEF r, u, p, q, m

(* A position is given up. *)
LEMMA GivenUp ==
    ASSUME NEW T, Gone \in T, NEW s \in Seq(T), NEW i \in DOMAIN s, s[i] # Gone, Held(s),
           NEW a, NEW b, a \in 0..(i - 1), b \in (i + 1)..(Len(s) + 2)
    PROVE  LET r == SubSeq(s, 1, a) \o <<Gone>> \o SubSeq(s, b, Len(s))
           IN  /\ r \in Seq(T) /\ Held(r) /\ Among(r, s)
               /\ \A k \in DOMAIN r : r[k] # s[i]
<1> DEFINE r == SubSeq(s, 1, a) \o <<Gone>> \o SubSeq(s, b, Len(s))
           m == IF b <= Len(s) THEN Len(s) - b + 1 ELSE 0
<1>1. /\ Len(s) \in Nat /\ i \in 1..Len(s) /\ DOMAIN s = 1..Len(s)
      /\ a \in Nat /\ b \in Nat /\ a < i /\ i < b
      /\ a \in 0..Len(s) /\ b \in (a + 1)..(Len(s) + 2)
  OBVIOUS
<1>2. /\ r \in Seq(T) /\ m \in Nat /\ Len(r) = a + 1 + m
      /\ \A k \in 1..a : r[k] = s[k]
      /\ r[a + 1] = Gone
      /\ \A k \in 1..m : b + k - 1 \in 1..Len(s) /\ r[a + 1 + k] = s[b + k - 1]
  BY <1>1, Cut
<1> HIDE DEF r, m
<1>5. r \in Seq(T) /\ DOMAIN r = 1..(a + 1 + m) /\ r[a + 1] = Gone
  BY <1>1, <1>2
<1> DEFINE f(k) == IF k <= a THEN k ELSE b + (k - a - 1) - 1
<1>6. \A k \in DOMAIN r : k # a + 1 =>
          f(k) \in 1..Len(s) /\ f(k) # i /\ r[k] = s[f(k)]
  <2> SUFFICES ASSUME NEW k \in 1..(a + 1 + m), k # a + 1
               PROVE  f(k) \in 1..Len(s) /\ f(k) # i /\ r[k] = s[f(k)]
    BY <1>5
  <2>1. CASE k <= a
    BY <1>1, <1>2, <2>1
  <2>2. CASE k > a
    <3> DEFINE l == k - a - 1
    <3>1. l \in 1..m /\ a + 1 + l = k /\ f(k) = b + l - 1
      BY <1>1, <1>2, <2>2
    <3> HIDE DEF f, l
    <3>2. f(k) \in 1..Len(s) /\ r[k] = s[f(k)]
      BY <1>2, <3>1
    <3>3. f(k) # i
      BY <1>1, <1>2, <3>1
    <3> QED BY <3>2, <3>3
  <2> QED BY <1>1, <1>2, <2>1, <2>2
<1>7. \A k, l \in DOMAIN r : k # a + 1 /\ l # a + 1 /\ f(k) = f(l) => k = l
  <2> SUFFICES ASSUME NEW k \in 1..(a + 1 + m), NEW l \in 1..(a + 1 + m),
                      k # a + 1, l # a + 1, f(k) = f(l)
               PROVE  k = l
    BY <1>5
  <2>1. k \in Nat /\ l \in Nat
    BY <1>1, <1>2
  <2>2. CASE k <= a /\ l <= a
    BY <2>2
  <2>3. CASE k > a /\ l > a
    BY <1>1, <2>1, <2>3
  <2>4. CASE k <= a /\ l > a
    BY <1>1, <2>1, <2>4
  <2>5. CASE k > a /\ l <= a
    BY <1>1, <2>1, <2>5
  <2> QED BY <1>1, <2>1, <2>2, <2>3, <2>4, <2>5
<1> HIDE DEF f
<1>8. Held(r)
  <2> SUFFICES ASSUME NEW k \in DOMAIN r, NEW l \in DOMAIN r, r[k] # Gone, r[k] = r[l]
               PROVE  k = l
    BY DEF Held
  <2>1. k # a + 1 /\ l # a + 1
    BY <1>5
  <2>2. f(k) \in DOMAIN s /\ f(l) \in DOMAIN s /\ s[f(k)] = s[f(l)] /\ s[f(k)] # Gone
    BY <1>1, <1>6, <2>1
  <2>3. f(k) = f(l)
    BY <2>2 DEF Held
  <2> QED BY <1>7, <2>1, <2>3
<1>9. Among(r, s)
  BY <1>1, <1>5, <1>6 DEF Among
<1>10. \A k \in DOMAIN r : r[k] # s[i]
  BY <1>1, <1>5, <1>6 DEF Held
<1> QED BY <1>5, <1>8, <1>9, <1>10 DEF r

-----------------------------------------------------------------------------
(* What a change of one place keeps.                                       *)

Accounted(x, p) ==
    /\ Becomes(x, p)
    /\ p.grows => p.at \in {"adding", "arriving"}
    /\ p.at \in {"arriving", "idle"} => p.health # "closed"
    /\ nconns' = nconns + (IF p.at = "free" THEN 0 ELSE 1)
                     - (IF conn[x].at = "free" THEN 0 ELSE 1)
    /\ nconns' <= MaxSize
    /\ growing' \in BOOLEAN /\ deciding' \in Nat
    /\ deciding' + (IF p.grows THEN 1 ELSE 0) - (IF growing' THEN 1 ELSE 0)
          = deciding + (IF conn[x].grows THEN 1 ELSE 0) - (IF growing THEN 1 ELSE 0)

LEMMA PlacesKept ==
    ASSUME PlacesSound, NEW x \in Conns, NEW p, Accounted(x, p)
    PROVE  PlacesSound'
<1>1. /\ conn' \in [Conns -> Spot] /\ conn'[x] = p
      /\ \A y \in Conns \ {x} : conn'[y] = conn[y]
  BY BecomesIs DEF PlacesSound, Accounted
<1>2. Open' /\ Growing'
  BY <1>1 DEF PlacesSound, Open, Growing, Accounted
<1> DEFINE U == Cardinality(Conns \ At("free"))
           G == Cardinality({y \in Conns : conn[y].grows})
<1>3. /\ U' = U + (IF p.at = "free" THEN 0 ELSE 1) - (IF conn[x].at = "free" THEN 0 ELSE 1)
      /\ G' = G + (IF p.grows THEN 1 ELSE 0) - (IF conn[x].grows THEN 1 ELSE 0)
  BY Counts DEF PlacesSound, Accounted
<1>4. U' \in Nat /\ G' \in Nat /\ U \in Nat /\ G \in Nat
  BY SizeAssumption, FS_Subset, FS_CardinalityType
<1>5. nconns = U /\ G + deciding = IF growing THEN 1 ELSE 0
  BY DEF PlacesSound, CountIsTrue, OneGrower
<1> HIDE DEF U, G
<1>6. nconns' = U'
  BY <1>3, <1>5 DEF Accounted
<1>7. G' + deciding' = IF growing' THEN 1 ELSE 0
  <2> DEFINE new  == IF p.grows THEN 1 ELSE 0
             old  == IF conn[x].grows THEN 1 ELSE 0
             now  == IF growing' THEN 1 ELSE 0
             was  == IF growing THEN 1 ELSE 0
             next == G'
             todo == deciding'
  <2>1. /\ new \in Int /\ old \in Int /\ now \in Int /\ was \in Int
        /\ next \in Nat /\ G \in Nat /\ todo \in Nat /\ deciding \in Nat
    BY <1>4 DEF PlacesSound, Accounted
  <2>2. next = G + new - old /\ G + deciding = was /\ todo + new - now = deciding + old - was
    BY <1>3, <1>5 DEF Accounted
  <2> HIDE DEF new, old, now, was, next, todo
  <2>3. next + todo = now
    BY <2>1, <2>2
  <2> QED BY <2>3 DEF now, next, todo
<1>8. nconns' \in 0..MaxSize
  BY <1>4, <1>6, SizeAssumption DEF Accounted
<1>9. deciding' \in 0..1
  <2> DEFINE next == G'
             todo == deciding'
  <2>1. next \in Nat /\ todo \in Nat /\ next + todo <= 1
    <3>1. todo \in Nat
      BY DEF Accounted
    <3>2. next \in Nat
      BY <1>4
    <3>3. next + todo <= 1
      BY <1>7
    <3> QED BY <3>1, <3>2, <3>3
  <2> HIDE DEF next, todo
  <2>2. todo \in 0..1
    BY <2>1
  <2> QED BY <2>2 DEF todo
<1>10. CountIsTrue'
  BY <1>6 DEF CountIsTrue, Accounted, U
<1>11. OneGrower'
  BY <1>7 DEF OneGrower, G
<1> QED BY <1>1, <1>2, <1>8, <1>9, <1>10, <1>11 DEF PlacesSound, Accounted

(* The pool grows into a place that is free. *)
LEMMA Grows ==
    ASSUME PlacesSound, nconns < MaxSize, Grow(conn)
    PROVE  \E x \in Conns : /\ conn[x].at = "free" /\ ~conn[x].grows
                           /\ Becomes(x, Adding(TRUE))
                           /\ nconns' = nconns + 1
<1>1. \E x \in Conns : conn[x].at = "free"
  <2> SUFFICES ASSUME \A x \in Conns : conn[x].at # "free"
               PROVE  FALSE
    OBVIOUS
  <2>1. Conns \ At("free") = Conns
    BY DEF At
  <2>2. nconns = Cardinality(Conns) /\ nconns < MaxSize
    BY <2>1 DEF PlacesSound, CountIsTrue
  <2>3. Cardinality(Conns) \in Nat
    BY SizeAssumption, FS_CardinalityType
  <2> QED BY <2>2, <2>3, SizeAssumption
<1>2. PICK x \in Conns : /\ conn[x].at = "free"
                         /\ conn' = [conn EXCEPT ![x] = Adding(TRUE)] /\ nconns' = nconns + 1
  BY <1>1 DEF Grow
<1>3. Adding(TRUE) \in Spot
  BY PlaceIs DEF Adding
<1>4. ~conn[x].grows
  BY <1>2 DEF PlacesSound, Growing
<1> QED BY <1>2, <1>3, <1>4 DEF Becomes

-----------------------------------------------------------------------------
(* Who holds x holds nothing else, and nobody else holds x.                *)
LEMMA Holds ==
    ASSUME LendingSound, NEW c \in Clients, NEW x \in hand[c]
    PROVE  /\ x \in Conns /\ conn[x].at = "out" /\ hand[c] = {x}
           /\ \A d \in Clients \ {c} : x \notin hand[d]
BY DEF LendingSound, NoneLostNoneShared, At

(* Where nothing is lent or returned, it is enough that nobody's position  *)
(* is disturbed and that no connection becomes idle.                       *)
LEMMA LendingUntouched ==
    ASSUME LendingSound, UNCHANGED <<waiting, hand>>,
           At("out")' = At("out"), At("idle")' \subseteq At("idle"),
           pc' \in [Clients -> {"out", "waiting", "expired", "using", "returning"}],
           \A c \in Clients : pc'[c] = "out" => hand[c] = {},
           \A i \in Positions : waiting[i] # Gone => pc'[waiting[i]] \in {"waiting", "expired"}
    PROVE  LendingSound'
<1>1. NoneLostNoneShared'
  <2>1. \A c \in Clients : pc'[c] = "out" => hand[c] = {}
    OBVIOUS
  <2>2. hand' = hand
    OBVIOUS
  <2>3. /\ \A x \in At("out") :
             \E c \in Clients : hand[c] = {x} /\ \A d \in Clients \ {c} : x \notin hand[d]
        /\ \A c \in Clients : hand[c] \subseteq At("out")
    BY DEF LendingSound, NoneLostNoneShared
  <2>4. /\ \A x \in At("out")' :
             \E c \in Clients : hand'[c] = {x} /\ \A d \in Clients \ {c} : x \notin hand'[d]
        /\ \A c \in Clients : hand'[c] \subseteq At("out")'
    BY <2>2, <2>3
  <2>5. \A c \in Clients : pc'[c] = "out" => hand'[c] = {}
    BY <2>1, <2>2
  <2> QED BY <2>4, <2>5 DEF NoneLostNoneShared
<1>2. NoIdleWhileWaiting'
  BY DEF LendingSound, NoIdleWhileWaiting, Positions
<1>3. Queue'
  BY DEF LendingSound, Queue, Positions
<1> QED BY <1>1, <1>2, <1>3 DEF LendingSound

(* Everything but x is where it belongs, and x is in nobody's hands.       *)
Loose(x, H) ==
    /\ H \in [Clients -> SUBSET Conns]
    /\ \A y \in At("out") \ {x} :
         \E c \in Clients : H[c] = {y} /\ \A d \in Clients \ {c} : y \notin H[d]
    /\ \A c \in Clients : H[c] \subseteq At("out") \ {x} /\ (pc'[c] = "out" => H[c] = {})
    /\ \A i \in Positions : waiting[i] # Gone =>
         pc'[waiting[i]] \in {"waiting", "expired"} /\ H[waiting[i]] = {}
    /\ pc' \in [Clients -> {"out", "waiting", "expired", "using", "returning"}]

(* x goes to the first who waits or into the pool, and nothing is lost.    *)
LEMMA Added ==
    ASSUME LendingSound, NEW x \in Conns, NEW H, Loose(x, H),
           NEW places \in [Conns -> Spot], \A y \in Conns \ {x} : places[y] = conn[y],
           AddToPool(x, places, H)
    PROVE  /\ LendingSound'
           /\ \E a \in {"idle", "out"} :
                conn' = [places EXCEPT ![x] =
                           Place(a, places[x].health, places[x].grows, places[x].tried)]
<1>0. /\ waiting \in Seq(Clients \cup {Gone}) /\ Held(waiting)
      /\ Positions = DOMAIN waiting
  BY DEF LendingSound, Queue, Held, Positions
<1>1. ASSUME NEW i \in FirstLive,
             hand' = [H EXCEPT ![waiting[i]] = {x}],
             waiting' = SubSeq(waiting, i + 1, Len(waiting)),
             conn' = [places EXCEPT ![x].at = "out"]
      PROVE  LendingSound'
  <2> DEFINE c == waiting[i]
  <2>1. i \in Positions /\ c # Gone /\ c \in Clients
    BY <1>0 DEF FirstLive
  <2>2. /\ waiting' \in Seq(Clients \cup {Gone}) /\ Held(waiting)' /\ Among(waiting', waiting)
        /\ \A k \in DOMAIN waiting' : waiting'[k] # Gone => waiting'[k] # c
    <3> DEFINE r == SubSeq(waiting, i + 1, Len(waiting))
    <3>1. /\ r \in Seq(Clients \cup {Gone}) /\ Held(r) /\ Among(r, waiting)
          /\ \A k \in DOMAIN r : r[k] # Gone => r[k] # waiting[i]
      BY <1>0, <2>1, Behind
    <3>2. waiting' = r
      BY <1>1
    <3> HIDE DEF r
    <3> QED BY <3>1, <3>2 DEF Held
  <2>3. /\ At("out")' = (At("out") \ {x}) \cup {x} /\ At("idle")' \subseteq At("idle")
    BY <1>1 DEF At
  <2>4. At("idle") = {}
    BY <2>1 DEF LendingSound, NoIdleWhileWaiting
  <2>5. /\ hand' \in [Clients -> SUBSET Conns] /\ hand'[c] = {x}
        /\ \A d \in Clients \ {c} : hand'[d] = H[d]
    BY <1>1, <2>1 DEF Loose
  <2>6. H[c] = {} /\ pc'[c] \in {"waiting", "expired"}
    BY <2>1 DEF Loose
  <2> HIDE DEF c
  <2>7. NoneLostNoneShared'
    <3>1. ASSUME NEW y \in At("out")'
          PROVE  \E d \in Clients : hand'[d] = {y} /\ \A e \in Clients \ {d} : y \notin hand'[e]
      <4>1. CASE y = x
        BY <2>1, <2>5, <4>1 DEF Loose
      <4>2. CASE y # x
        <5>1. PICK d \in Clients : H[d] = {y} /\ \A e \in Clients \ {d} : y \notin H[e]
          BY <2>3, <3>1, <4>2 DEF Loose
        <5>2. d # c
          BY <2>6, <5>1
        <5> QED BY <2>1, <2>5, <4>2, <5>1, <5>2
      <4> QED BY <4>1, <4>2
    <3>2. ASSUME NEW d \in Clients
          PROVE  hand'[d] \subseteq At("out")' /\ (pc'[d] = "out" => hand'[d] = {})
      <4>1. CASE d = c
        BY <2>3, <2>5, <2>6, <4>1
      <4>2. CASE d # c
        BY <2>3, <2>5, <4>2 DEF Loose
      <4> QED BY <4>1, <4>2
    <3> QED BY <3>1, <3>2 DEF NoneLostNoneShared
  <2>8. NoIdleWhileWaiting'
    BY <2>3, <2>4 DEF NoIdleWhileWaiting
  <2>9. Queue'
    <3>1. ASSUME NEW k \in DOMAIN waiting', waiting'[k] # Gone
          PROVE  pc'[waiting'[k]] \in {"waiting", "expired"} /\ hand'[waiting'[k]] = {}
      <4>1. PICK j \in Positions : waiting'[k] = waiting[j]
        BY <1>0, <2>2, <3>1 DEF Among
      <4>2. waiting'[k] # c /\ waiting'[k] \in Clients
        BY <1>0, <2>2, <3>1, <4>1
      <4> QED BY <2>5, <3>1, <4>1, <4>2 DEF Loose
    <3> QED BY <2>2, <3>1 DEF Queue, Held, Positions
  <2> QED BY <2>2, <2>5, <2>7, <2>8, <2>9 DEF LendingSound, Loose
<1>2. ASSUME FirstLive = {}, hand' = H, waiting' = <<>>,
             conn' = [places EXCEPT ![x].at = "idle"]
      PROVE  LendingSound'
  <2>1. At("out")' = At("out") \ {x}
    BY <1>2 DEF At
  <2>2. NoneLostNoneShared'
    BY <1>2, <2>1 DEF NoneLostNoneShared, Loose
  <2>3. waiting' \in Seq(Clients \cup {Gone}) /\ DOMAIN waiting' = {}
    BY <1>2
  <2>4. NoIdleWhileWaiting' /\ Queue'
    BY <2>3 DEF NoIdleWhileWaiting, Queue, Positions
  <2> QED BY <1>2, <2>2, <2>3, <2>4 DEF LendingSound, Loose
<1>3. ASSUME NEW a \in {"idle", "out"}, conn' = [places EXCEPT ![x].at = a]
      PROVE  conn' = [places EXCEPT ![x] =
                        Place(a, places[x].health, places[x].grows, places[x].tried)]
  <2>1. [places[x] EXCEPT !.at = a] =
            Place(a, places[x].health, places[x].grows, places[x].tried)
    BY SetAt
  <2> QED BY <1>3, <2>1
<1> QED BY <1>1, <1>2, <1>3 DEF AddToPool

-----------------------------------------------------------------------------
(* Every action keeps the invariant.                                       *)

(* A place in use changes, and its flag does not.                          *)
LEMMA PlacesMoved ==
    ASSUME PlacesSound, NEW x \in Conns, NEW p, Becomes(x, p),
           conn[x].at # "free", p.at # "free", p.grows = conn[x].grows,
           p.grows => p.at \in {"adding", "arriving"},
           p.at \in {"arriving", "idle"} => p.health # "closed",
           UNCHANGED <<nconns, growing, deciding>>
    PROVE  PlacesSound'
<1>1. nconns \in 0..MaxSize /\ growing \in BOOLEAN /\ deciding \in 0..1
  BY DEF PlacesSound
<1>2. nconns' = nconns + (IF p.at = "free" THEN 0 ELSE 1) - (IF conn[x].at = "free" THEN 0 ELSE 1)
  BY <1>1
<1>3. nconns' <= MaxSize /\ growing' \in BOOLEAN /\ deciding' \in Nat
  BY <1>1, SizeAssumption
<1>4. deciding' + (IF p.grows THEN 1 ELSE 0) - (IF growing' THEN 1 ELSE 0)
         = deciding + (IF conn[x].grows THEN 1 ELSE 0) - (IF growing THEN 1 ELSE 0)
  OBVIOUS
<1> QED BY <1>2, <1>3, <1>4, PlacesKept DEF Accounted

LEMMA ConnectKeeps == ASSUME PInv, NEW x \in Conns, Connect(x) PROVE PInv'
<1> DEFINE p == Place("arriving", "ok", conn[x].grows, conn[x].tried)
<1>0. conn \in [Conns -> Spot] /\ conn[x] \in Spot
  BY DEF PInv, PlacesSound
<1>1. conn[x].grows \in BOOLEAN /\ conn[x].tried \in BOOLEAN
  BY <1>0, SpotIs
<1>2. conn' = [conn EXCEPT ![x] = p]
  BY DEF Connect
<1>3. /\ p \in Spot /\ p.at = "arriving" /\ p.health = "ok" /\ p.grows = conn[x].grows
  BY <1>1, PlaceIs
<1> HIDE DEF p
<1>4. conn[x].at = "adding" /\ UNCHANGED <<up, nconns, growing, deciding, waiting, hand, pc>>
  BY DEF Connect
<1>5. PlacesSound'
  BY <1>2, <1>3, <1>4, PlacesMoved DEF PInv, Becomes
<1>6. At("out")' = At("out") /\ At("idle")' = At("idle")
  BY <1>0, <1>2, <1>3, <1>4 DEF At
<1>7. LendingSound'
  BY <1>4, <1>6, LendingUntouched DEF PInv, LendingSound, NoneLostNoneShared, Queue
<1> QED BY <1>4, <1>5, <1>7 DEF PInv

(* ... or nothing changes in the places at all. *)
LEMMA PlacesSame ==
    ASSUME PlacesSound, UNCHANGED <<conn, nconns, growing, deciding>>
    PROVE  PlacesSound' /\ At("out")' = At("out") /\ At("idle")' = At("idle")
BY DEF PlacesSound, CountIsTrue, Open, OneGrower, Growing, At

LEMMA SetTried ==
    ASSUME NEW p \in Spot, NEW a
    PROVE  [p EXCEPT !.tried = a] = Place(p.at, p.health, p.grows, a)
<1>1. p = Place(p.at, p.health, p.grows, p.tried)
  BY SpotIs
<1> QED BY <1>1 DEF Place

LEMMA ScheduleAgainKeeps == ASSUME PInv, NEW x \in Conns, ScheduleAgain(x) PROVE PInv'
<1> DEFINE p == Place(conn[x].at, conn[x].health, conn[x].grows, TRUE)
<1>0. conn \in [Conns -> Spot] /\ conn[x] \in Spot
  BY DEF PInv, PlacesSound
<1>1. /\ conn[x].grows \in BOOLEAN /\ conn[x].health \in {"ok", "stale", "closed"}
      /\ conn[x].at = "adding"
  BY <1>0, SpotIs DEF ScheduleAgain
<1>2. [conn[x] EXCEPT !.tried = TRUE] = p
  BY <1>0, SetTried
<1>3. conn' = [conn EXCEPT ![x] = p]
  BY <1>2 DEF ScheduleAgain
<1>4. /\ p \in Spot /\ p.at = conn[x].at /\ p.health = conn[x].health /\ p.grows = conn[x].grows
  BY <1>1 DEF Place, Spot
<1> HIDE DEF p
<1>5. UNCHANGED <<up, nconns, growing, deciding, waiting, hand, pc>>
  BY DEF ScheduleAgain
<1>6. PlacesSound'
  BY <1>1, <1>3, <1>4, <1>5, PlacesMoved DEF PInv, Becomes
<1>7. At("out")' = At("out") /\ At("idle")' = At("idle")
  BY <1>0, <1>3, <1>4, <1>5 DEF At
<1>8. LendingSound'
  BY <1>5, <1>7, LendingUntouched DEF PInv, LendingSound, NoneLostNoneShared, Queue
<1> QED BY <1>5, <1>6, <1>8 DEF PInv

(* A task that may go on growing is the one that grows. *)
LEMMA Grower ==
    ASSUME PlacesSound
    PROVE  /\ \A x \in Conns : conn[x].grows => growing /\ deciding = 0
           /\ deciding > 0 => growing /\ deciding = 1
<1> DEFINE G == {x \in Conns : conn[x].grows}
<1>1. /\ IsFiniteSet(G) /\ Cardinality(G) \in Nat /\ (Cardinality(G) = 0 <=> G = {})
  BY SizeAssumption, FS_Subset, FS_CardinalityType, FS_EmptySet
<1>2. /\ Cardinality(G) + deciding = IF growing THEN 1 ELSE 0
      /\ growing \in BOOLEAN /\ deciding \in 0..1
  BY DEF PlacesSound, OneGrower
<1>3. ASSUME NEW x \in Conns, conn[x].grows PROVE G # {}
  BY <1>3
<1> HIDE DEF G
<1> QED BY <1>1, <1>2, <1>3

LEMMA GiveUpConnectingKeeps == ASSUME PInv, NEW x \in Conns, GiveUpConnecting(x) PROVE PInv'
<1>0. conn \in [Conns -> Spot] /\ conn[x] \in Spot /\ nconns \in 0..MaxSize
      /\ growing \in BOOLEAN /\ deciding \in 0..1
  BY DEF PInv, PlacesSound
<1>1. conn[x].grows \in BOOLEAN
  BY <1>0, SpotIs
<1>2. /\ conn[x].at = "adding" /\ conn' = [conn EXCEPT ![x] = Free] /\ nconns' = nconns - 1
      /\ growing' = (growing /\ ~conn[x].grows)
      /\ UNCHANGED <<up, deciding, waiting, hand, pc>>
  BY DEF GiveUpConnecting
<1>3. /\ Free \in Spot /\ Free.at = "free" /\ Free.grows = FALSE
  BY FreeIs
<1>4. conn[x].grows => growing /\ deciding = 0
  BY Grower DEF PInv
<1>5. Accounted(x, Free)
  <2>1. Becomes(x, Free)
    BY <1>2, <1>3 DEF Becomes
  <2>2. nconns' = nconns + (IF Free.at = "free" THEN 0 ELSE 1) - (IF conn[x].at = "free" THEN 0 ELSE 1)
    BY <1>0, <1>2, <1>3
  <2>3. nconns' <= MaxSize
    BY <1>0, <1>2, SizeAssumption
  <2>4. growing' \in BOOLEAN /\ deciding' \in Nat
    BY <1>0, <1>2
  <2>5. deciding' + (IF Free.grows THEN 1 ELSE 0) - (IF growing' THEN 1 ELSE 0)
           = deciding + (IF conn[x].grows THEN 1 ELSE 0) - (IF growing THEN 1 ELSE 0)
    <3>1. CASE conn[x].grows
      <4>1. growing = TRUE /\ growing' = FALSE /\ deciding = 0 /\ deciding' = 0
        BY <1>0, <1>2, <1>4, <3>1
      <4>2. /\ (IF Free.grows THEN 1 ELSE 0) = 0 /\ (IF growing' THEN 1 ELSE 0) = 0
            /\ (IF conn[x].grows THEN 1 ELSE 0) = 1 /\ (IF growing THEN 1 ELSE 0) = 1
        BY <1>3, <3>1, <4>1
      <4> QED BY <4>1, <4>2
    <3>2. CASE ~conn[x].grows
      BY <1>0, <1>2, <1>3, <3>2
    <3> QED BY <3>1, <3>2
  <2> QED BY <1>3, <2>1, <2>2, <2>3, <2>4, <2>5 DEF Accounted
<1>6. PlacesSound'
  BY <1>5, PlacesKept DEF PInv
<1>7. At("out")' = At("out") /\ At("idle")' = At("idle")
  BY <1>0, <1>2, <1>3 DEF At
<1>8. LendingSound'
  BY <1>2, <1>7, LendingUntouched DEF PInv, LendingSound, NoneLostNoneShared, Queue
<1> QED BY <1>2, <1>6, <1>8 DEF PInv

LEMMA ShrinkKeeps == ASSUME PInv, Shrink PROVE PInv'
<1>1. PICK x \in At("idle") : conn' = [conn EXCEPT ![x] = Free]
  BY DEF Shrink
<1>0. /\ conn \in [Conns -> Spot] /\ nconns \in 0..MaxSize
      /\ growing \in BOOLEAN /\ deciding \in 0..1
  BY DEF PInv, PlacesSound
<1>2. /\ x \in Conns /\ conn[x].at = "idle" /\ nconns' = nconns - 1
      /\ UNCHANGED <<up, growing, deciding, waiting, hand, pc>>
  BY <1>1 DEF Shrink, At
<1>3. /\ Free \in Spot /\ Free.at = "free" /\ Free.grows = FALSE
  BY FreeIs
<1>4. ~conn[x].grows
  BY <1>2 DEF PInv, PlacesSound, Growing
<1>5. Accounted(x, Free)
  <2>1. Becomes(x, Free)
    BY <1>1, <1>3 DEF Becomes
  <2>2. nconns' = nconns + (IF Free.at = "free" THEN 0 ELSE 1) - (IF conn[x].at = "free" THEN 0 ELSE 1)
    BY <1>0, <1>2, <1>3
  <2>3. nconns' <= MaxSize
    BY <1>0, <1>2, SizeAssumption
  <2>4. deciding' + (IF Free.grows THEN 1 ELSE 0) - (IF growing' THEN 1 ELSE 0)
           = deciding + (IF conn[x].grows THEN 1 ELSE 0) - (IF growing THEN 1 ELSE 0)
    BY <1>2, <1>3, <1>4
  <2> QED BY <1>0, <1>2, <1>3, <2>1, <2>2, <2>3, <2>4 DEF Accounted
<1>6. PlacesSound'
  BY <1>2, <1>5, PlacesKept DEF PInv
<1>7. At("out")' = At("out") /\ At("idle")' \subseteq At("idle")
  BY <1>0, <1>1, <1>2, <1>3 DEF At
<1>8. LendingSound'
  BY <1>2, <1>7, LendingUntouched DEF PInv, LendingSound, NoneLostNoneShared, Queue
<1> QED BY <1>2, <1>6, <1>8 DEF PInv

(* A new place is counted, and one task grows the pool: the flag was down  *)
(* before, or its last bearer decides to go on.                            *)
LEMMA GrowKeeps ==
    ASSUME PlacesSound, nconns < MaxSize, Grow(conn),
           growing' = TRUE, deciding' = 0, ~growing \/ deciding > 0
    PROVE  /\ PlacesSound'
           /\ At("out")' = At("out") /\ At("idle")' = At("idle")
<1>0. /\ conn \in [Conns -> Spot] /\ nconns \in 0..MaxSize
      /\ growing \in BOOLEAN /\ deciding \in 0..1
  BY DEF PlacesSound
<1>1. PICK x \in Conns : /\ conn[x].at = "free" /\ ~conn[x].grows
                         /\ Becomes(x, Adding(TRUE)) /\ nconns' = nconns + 1
  BY Grows
<1> DEFINE p == Adding(TRUE)
<1>2. /\ p \in Spot /\ p.at = "adding" /\ p.grows = TRUE
  BY AddingIs
<1>2a. Becomes(x, p) /\ nconns' = nconns + 1
  BY <1>1
<1> HIDE DEF p
<1>3. deciding = IF growing THEN 1 ELSE 0
  <2>1. CASE deciding > 0
    BY <1>0, <2>1, Grower
  <2>2. CASE ~(deciding > 0)
    BY <1>0, <2>2
  <2> QED BY <2>1, <2>2
<1>4. Accounted(x, p)
  <2>1. nconns' = nconns + (IF p.at = "free" THEN 0 ELSE 1)
                     - (IF conn[x].at = "free" THEN 0 ELSE 1)
    BY <1>0, <1>1, <1>2
  <2>2. nconns' <= MaxSize
    BY <1>0, <1>1, SizeAssumption
  <2>3. deciding' + (IF p.grows THEN 1 ELSE 0) - (IF growing' THEN 1 ELSE 0)
           = deciding + (IF conn[x].grows THEN 1 ELSE 0) - (IF growing THEN 1 ELSE 0)
    <3>1. /\ (IF p.grows THEN 1 ELSE 0) = 1 /\ (IF growing' THEN 1 ELSE 0) = 1
          /\ (IF conn[x].grows THEN 1 ELSE 0) = 0
      BY <1>1, <1>2
    <3>2. deciding - (IF growing THEN 1 ELSE 0) = 0
      BY <1>0, <1>3
    <3>3. deciding' + 1 - 1 = deciding + 0 - (IF growing THEN 1 ELSE 0)
      BY <1>0, <1>3, <3>2
    <3> QED BY <3>1, <3>3
  <2>4. deciding' \in Nat /\ growing' \in BOOLEAN
    OBVIOUS
  <2> QED BY <1>2, <1>2a, <2>1, <2>2, <2>3, <2>4 DEF Accounted
<1>5. PlacesSound'
  BY <1>4, PlacesKept
<1>6. At("out")' = At("out") /\ At("idle")' = At("idle")
  BY <1>0, <1>1, <1>2, <1>2a DEF At, Becomes
<1> QED BY <1>5, <1>6

LEMMA KeepGrowingKeeps == ASSUME PInv, KeepGrowing PROVE PInv'
<1>0. /\ deciding > 0 /\ deciding' = deciding - 1 /\ UNCHANGED <<up, waiting, hand, pc>>
      /\ conn \in [Conns -> Spot]
      /\ nconns \in 0..MaxSize /\ growing \in BOOLEAN /\ deciding \in 0..1
  BY DEF KeepGrowing, PInv, PlacesSound
<1>1. growing = TRUE /\ deciding = 1 /\ deciding' = 0
  BY <1>0, Grower DEF PInv
<1>2. PlacesSound' /\ At("out")' = At("out") /\ At("idle")' = At("idle")
  <2>1. CASE nconns < MinSize \/ (nconns < MaxSize /\ waiting # <<>>)
    <3>1. nconns < MaxSize
      BY <1>0, <2>1, SizeAssumption
    <3>2. Grow(conn) /\ growing' = TRUE
      BY <1>1, <2>1 DEF KeepGrowing
    <3> QED BY <1>0, <1>1, <3>1, <3>2, GrowKeeps DEF PInv
  <2>2. CASE ~(nconns < MinSize \/ (nconns < MaxSize /\ waiting # <<>>))
    <3>1. growing' = FALSE /\ UNCHANGED <<conn, nconns>>
      BY <2>2 DEF KeepGrowing
    <3> DEFINE G == Cardinality({x \in Conns : conn[x].grows})
    <3>2. G \in Nat /\ G + deciding = IF growing THEN 1 ELSE 0
      BY SizeAssumption, FS_Subset, FS_CardinalityType DEF PInv, PlacesSound, OneGrower
    <3>3. G' = G
      BY <3>1
    <3> HIDE DEF G
    <3>4. G = 0
      BY <1>1, <3>2
    <3>5. G' + deciding' = IF growing' THEN 1 ELSE 0
      BY <1>1, <3>1, <3>3, <3>4
    <3>6. OneGrower'
      BY <3>5 DEF OneGrower, G
    <3>7. CountIsTrue' /\ Open' /\ Growing'
      BY <3>1 DEF PInv, PlacesSound, CountIsTrue, Open, Growing, At
    <3>8. At("out")' = At("out") /\ At("idle")' = At("idle")
      BY <3>1 DEF At
    <3>9. conn' \in [Conns -> Spot] /\ nconns' \in 0..MaxSize /\ growing' \in BOOLEAN
          /\ deciding' \in 0..1
      <4>1. conn' = conn /\ nconns' = nconns
        BY <3>1
      <4>2. growing' \in BOOLEAN
        BY <3>1
      <4>3. deciding' \in 0..1
        BY <1>1
      <4> QED BY <1>0, <4>1, <4>2, <4>3
    <3> QED BY <3>6, <3>7, <3>8, <3>9 DEF PlacesSound
  <2> QED BY <2>1, <2>2
<1>3. LendingSound'
  BY <1>0, <1>2, LendingUntouched DEF PInv, LendingSound, NoneLostNoneShared, Queue
<1> QED BY <1>0, <1>2, <1>3 DEF PInv

LEMMA GoDownKeeps == ASSUME PInv, GoDown PROVE PInv'
<1>0. conn \in [Conns -> Spot] /\ UNCHANGED <<nconns, growing, deciding, waiting, hand, pc>>
  BY DEF GoDown, PInv, PlacesSound
<1>1. ASSUME NEW x \in Conns
      PROVE  /\ conn'[x] \in Spot /\ conn'[x].at = conn[x].at /\ conn'[x].grows = conn[x].grows
             /\ conn'[x].health = "closed" => conn[x].health = "closed"
  <2>1. conn[x] \in Spot
    BY <1>0
  <2>2. CASE conn[x].health = "ok"
    <3>1. conn'[x] = [conn[x] EXCEPT !.health = "stale"]
      BY <2>2 DEF GoDown
    <3> QED BY <2>1, <3>1 DEF Spot
  <2>3. CASE conn[x].health # "ok"
    <3>1. conn'[x] = conn[x]
      BY <2>3 DEF GoDown
    <3> QED BY <2>1, <3>1
  <2> QED BY <2>2, <2>3
<1>2. conn' \in [Conns -> Spot]
  <2>1. conn' = [x \in Conns |-> conn'[x]]
    BY DEF GoDown
  <2> QED BY <1>1, <2>1
<1>3. \A place : At(place)' = At(place)
  BY <1>1 DEF At
<1>4. {x \in Conns : conn[x].grows}' = {x \in Conns : conn[x].grows}
  BY <1>1
<1>5. CountIsTrue' /\ OneGrower'
  BY <1>0, <1>3, <1>4 DEF PInv, PlacesSound, CountIsTrue, OneGrower
<1>6. Open' /\ Growing'
  BY <1>1 DEF PInv, PlacesSound, Open, Growing
<1>7. PlacesSound'
  BY <1>0, <1>2, <1>5, <1>6 DEF PInv, PlacesSound
<1>8. LendingSound'
  BY <1>0, <1>3, LendingUntouched DEF PInv, LendingSound, NoneLostNoneShared, Queue
<1> QED BY <1>7, <1>8 DEF PInv, GoDown

LEMMA ComeUpKeeps == ASSUME PInv, ComeUp PROVE PInv'
<1>1. UNCHANGED <<conn, nconns, growing, deciding, waiting, hand, pc>> /\ up' = TRUE
  BY DEF ComeUp
<1>2. LendingSound'
  BY <1>1, PlacesSame, LendingUntouched DEF PInv, LendingSound, NoneLostNoneShared, Queue
<1> QED BY <1>1, <1>2, PlacesSame DEF PInv

(* c goes on with what it was given, or its deadline passes.               *)
LEMMA ReceiveKeeps == ASSUME PInv, NEW c \in Clients, Receive(c) PROVE PInv'
<1>1. /\ hand[c] # {} /\ pc' = [pc EXCEPT ![c] = "using"]
      /\ UNCHANGED <<up, conn, nconns, growing, deciding, waiting, hand>>
  BY DEF Receive, Goto
<1>2. /\ pc' \in [Clients -> {"out", "waiting", "expired", "using", "returning"}]
      /\ \A d \in Clients : pc'[d] = "out" => hand[d] = {}
  BY <1>1 DEF PInv, LendingSound, NoneLostNoneShared
<1>3. \A i \in Positions : waiting[i] # Gone => pc'[waiting[i]] \in {"waiting", "expired"}
  BY <1>1 DEF PInv, LendingSound, Queue, Positions
<1>4. LendingSound'
  BY <1>1, <1>2, <1>3, PlacesSame, LendingUntouched DEF PInv
<1> QED BY <1>1, <1>4, PlacesSame DEF PInv

LEMMA TimeOutKeeps == ASSUME PInv, NEW c \in Clients, TimeOut(c) PROVE PInv'
<1>1. /\ pc' = [pc EXCEPT ![c] = "expired"]
      /\ UNCHANGED <<up, conn, nconns, growing, deciding, waiting, hand>>
  BY DEF TimeOut, Goto
<1>2. /\ pc' \in [Clients -> {"out", "waiting", "expired", "using", "returning"}]
      /\ \A d \in Clients : pc'[d] = "out" => hand[d] = {}
  BY <1>1 DEF PInv, LendingSound, NoneLostNoneShared
<1>3. \A i \in Positions : waiting[i] # Gone => pc'[waiting[i]] \in {"waiting", "expired"}
  BY <1>1 DEF PInv, LendingSound, Queue, Positions
<1>4. LendingSound'
  BY <1>1, <1>2, <1>3, PlacesSame, LendingUntouched DEF PInv
<1> QED BY <1>1, <1>4, PlacesSame DEF PInv

(* c takes what was set meanwhile, or leaves the queue empty-handed.       *)
LEMMA WakeUpKeeps == ASSUME PInv, NEW c \in Clients, WakeUp(c) PROVE PInv'
<1>0. UNCHANGED <<up, conn, nconns, growing, deciding, hand>>
  BY DEF WakeUp
<1>1. CASE hand[c] # {}
  <2>1. pc' = [pc EXCEPT ![c] = "using"] /\ UNCHANGED waiting
    BY <1>1 DEF WakeUp, Goto
  <2>2. /\ pc' \in [Clients -> {"out", "waiting", "expired", "using", "returning"}]
        /\ \A d \in Clients : pc'[d] = "out" => hand[d] = {}
    BY <2>1 DEF PInv, LendingSound, NoneLostNoneShared
  <2>3. \A i \in Positions : waiting[i] # Gone => pc'[waiting[i]] \in {"waiting", "expired"}
    BY <1>1, <2>1 DEF PInv, LendingSound, Queue, Positions
  <2>4. LendingSound'
    BY <1>0, <2>1, <2>2, <2>3, PlacesSame, LendingUntouched DEF PInv
  <2> QED BY <1>0, <2>4, PlacesSame DEF PInv
<1>2. CASE hand[c] = {}
  <2>1. pc' = [pc EXCEPT ![c] = "out"] /\ Leave(c)
    BY <1>2 DEF WakeUp, Goto
  <2> DEFINE T == Clients \cup {Gone}
  <2>2. waiting \in Seq(T) /\ Held(waiting) /\ Positions = DOMAIN waiting
    BY DEF PInv, LendingSound, Queue, Held, Positions
  <2>3. PICK i \in Positions, a \in Nat, b \in Nat :
          /\ a \in 0..(i - 1) /\ b \in (i + 1)..(Len(waiting) + 2)
          /\ waiting[i] = c
          /\ waiting' = SubSeq(waiting, 1, a) \o <<Gone>> \o SubSeq(waiting, b, Len(waiting))
    <3>1. PICK i \in Positions :
            LET before == IF i > 1 /\ waiting[i - 1] = Gone THEN i - 2 ELSE i - 1
                after  == IF i < Len(waiting) /\ waiting[i + 1] = Gone THEN i + 2 ELSE i + 1
            IN  /\ waiting[i] = c
                /\ waiting' = SubSeq(waiting, 1, before) \o <<Gone>>
                                 \o SubSeq(waiting, after, Len(waiting))
      BY <2>1 DEF Leave
    <3> DEFINE a == IF i > 1 /\ waiting[i - 1] = Gone THEN i - 2 ELSE i - 1
               b == IF i < Len(waiting) /\ waiting[i + 1] = Gone THEN i + 2 ELSE i + 1
    <3>2. i \in 1..Len(waiting) /\ Len(waiting) \in Nat
      BY <2>2
    <3>3. a \in Nat /\ b \in Nat /\ a \in 0..(i - 1) /\ b \in (i + 1)..(Len(waiting) + 2)
      BY <3>2
    <3>4. /\ waiting[i] = c
          /\ waiting' = SubSeq(waiting, 1, a) \o <<Gone>> \o SubSeq(waiting, b, Len(waiting))
      BY <3>1
    <3> HIDE DEF a, b
    <3> QED BY <3>3, <3>4
  <2>4. waiting[i] # Gone
    BY <2>3, ClientAssumption
  <2>5. /\ waiting' \in Seq(T) /\ Held(waiting)' /\ Among(waiting', waiting)
        /\ \A k \in DOMAIN waiting' : waiting'[k] # c
    <3> DEFINE r == SubSeq(waiting, 1, a) \o <<Gone>> \o SubSeq(waiting, b, Len(waiting))
    <3>1. /\ r \in Seq(T) /\ Held(r) /\ Among(r, waiting)
          /\ \A k \in DOMAIN r : r[k] # waiting[i]
      BY <2>2, <2>3, <2>4, GivenUp
    <3>2. waiting' = r /\ waiting[i] = c
      BY <2>3
    <3> HIDE DEF r
    <3> QED BY <3>1, <3>2 DEF Held
  <2>6. At("idle") = {}
    BY <2>3, <2>4 DEF PInv, LendingSound, NoIdleWhileWaiting
  <2>7. PlacesSound' /\ At("out")' = At("out") /\ At("idle")' = At("idle")
    BY <1>0, PlacesSame DEF PInv
  <2>8. NoneLostNoneShared'
    <3>1. \A d \in Clients : pc'[d] = "out" => hand'[d] = {}
      BY <1>0, <1>2, <2>1 DEF PInv, LendingSound, NoneLostNoneShared
    <3>2. /\ \A x \in At("out")' :
               \E d \in Clients : hand'[d] = {x} /\ \A e \in Clients \ {d} : x \notin hand'[e]
          /\ \A d \in Clients : hand'[d] \subseteq At("out")'
      <4>1. /\ \A x \in At("out") :
                  \E d \in Clients : hand[d] = {x} /\ \A e \in Clients \ {d} : x \notin hand[e]
            /\ \A d \in Clients : hand[d] \subseteq At("out")
        BY DEF PInv, LendingSound, NoneLostNoneShared
      <4>2. hand' = hand /\ At("out")' = At("out")
        BY <1>0, <2>7
      <4> QED BY <4>1, <4>2
    <3> QED BY <3>1, <3>2 DEF NoneLostNoneShared
  <2>9. NoIdleWhileWaiting'
    BY <2>6, <2>7 DEF NoIdleWhileWaiting
  <2>10. Queue'
    <3>1. ASSUME NEW k \in DOMAIN waiting', waiting'[k] # Gone
          PROVE  pc'[waiting'[k]] \in {"waiting", "expired"} /\ hand'[waiting'[k]] = {}
      <4>1. PICK j \in Positions : waiting'[k] = waiting[j]
        BY <2>2, <2>5, <3>1 DEF Among
      <4>2. pc[waiting[j]] \in {"waiting", "expired"} /\ hand[waiting[j]] = {}
        BY <3>1, <4>1 DEF PInv, LendingSound, Queue
      <4>3. waiting[j] \in Clients /\ waiting[j] # c
        BY <2>2, <2>5, <3>1, <4>1
      <4> QED BY <1>0, <2>1, <4>1, <4>2, <4>3 DEF PInv, LendingSound
    <3> QED BY <2>5, <3>1 DEF Queue, Held, Positions
  <2>11. pc' \in [Clients -> {"out", "waiting", "expired", "using", "returning"}]
         /\ hand' \in [Clients -> SUBSET Conns]
    BY <1>0, <2>1 DEF PInv, LendingSound
  <2> QED BY <1>0, <2>5, <2>7, <2>8, <2>9, <2>10, <2>11 DEF PInv, LendingSound
<1> QED BY <1>1, <1>2

(* c takes an idle connection, or a place at the end of the queue.         *)
LEMMA GetConnKeeps == ASSUME PInv, NEW c \in Clients, GetConn(c) PROVE PInv'
<1>0. /\ pc[c] = "out" /\ hand[c] = {} /\ up' = up /\ deciding' = deciding
      /\ conn \in [Conns -> Spot] /\ hand \in [Clients -> SUBSET Conns]
      /\ pc \in [Clients -> {"out", "waiting", "expired", "using", "returning"}]
  BY DEF GetConn, PInv, PlacesSound, LendingSound, NoneLostNoneShared
<1>1. \A i \in Positions : waiting[i] # c
  BY <1>0, ClientAssumption DEF PInv, LendingSound, Queue
<1>2. ASSUME NEW x \in At("idle"),
             conn' = [conn EXCEPT ![x].at = "out"], hand' = [hand EXCEPT ![c] = {x}],
             Goto(c, "using"), UNCHANGED <<nconns, growing, waiting>>
      PROVE  PInv'
  <2> DEFINE p == Place("out", conn[x].health, conn[x].grows, conn[x].tried)
  <2>1. /\ x \in Conns /\ conn[x].at = "idle" /\ conn[x] \in Spot
    BY <1>0 DEF At
  <2>2. ~conn[x].grows
    BY <2>1 DEF PInv, PlacesSound, Growing
  <2>3. [conn[x] EXCEPT !.at = "out"] = p
    BY <2>1, SetAt
  <2>4. conn' = [conn EXCEPT ![x] = p]
    BY <1>2, <2>3
  <2>5. p \in Spot /\ p.at = "out" /\ p.grows = conn[x].grows /\ p.health = conn[x].health
    BY <2>1, SpotIs, PlaceIs
  <2> HIDE DEF p
  <2>6. PlacesSound'
    BY <1>0, <1>2, <2>1, <2>2, <2>4, <2>5, PlacesMoved DEF PInv, Becomes
  <2>7. At("out")' = At("out") \cup {x} /\ At("idle")' \subseteq At("idle") /\ x \notin At("out")
    BY <1>0, <2>1, <2>4, <2>5 DEF At
  <2>8. hand'[c] = {x} /\ \A d \in Clients \ {c} : hand'[d] = hand[d]
    BY <1>0, <1>2
  <2>9. pc'[c] = "using" /\ \A d \in Clients \ {c} : pc'[d] = pc[d]
    BY <1>0, <1>2 DEF Goto
  <2>10. NoneLostNoneShared'
    <3>1. ASSUME NEW y \in At("out")'
          PROVE  \E d \in Clients : hand'[d] = {y} /\ \A e \in Clients \ {d} : y \notin hand'[e]
      <4>1. CASE y = x
        <5>1. \A e \in Clients \ {c} : x \notin hand'[e]
          BY <2>7, <2>8 DEF PInv, LendingSound, NoneLostNoneShared
        <5> QED BY <2>8, <4>1, <5>1
      <4>2. CASE y # x
        <5>1. PICK d \in Clients : hand[d] = {y} /\ \A e \in Clients \ {d} : y \notin hand[e]
          BY <2>7, <3>1, <4>2 DEF PInv, LendingSound, NoneLostNoneShared
        <5>2. d # c
          BY <1>0, <5>1
        <5> QED BY <2>8, <4>2, <5>1, <5>2
      <4> QED BY <4>1, <4>2
    <3>2. ASSUME NEW d \in Clients
          PROVE  hand'[d] \subseteq At("out")' /\ (pc'[d] = "out" => hand'[d] = {})
      <4>1. CASE d = c
        BY <2>7, <2>8, <2>9, <4>1
      <4>2. CASE d # c
        BY <2>7, <2>8, <2>9, <4>2 DEF PInv, LendingSound, NoneLostNoneShared
      <4> QED BY <4>1, <4>2
    <3> QED BY <3>1, <3>2 DEF NoneLostNoneShared
  <2>11. NoIdleWhileWaiting'
    BY <1>2, <2>7 DEF PInv, LendingSound, NoIdleWhileWaiting, Positions
  <2>12. Queue'
    <3>1. ASSUME NEW i \in Positions, waiting[i] # Gone
          PROVE  pc'[waiting[i]] \in {"waiting", "expired"} /\ hand'[waiting[i]] = {}
      <4>1. /\ pc[waiting[i]] \in {"waiting", "expired"} /\ hand[waiting[i]] = {}
            /\ waiting[i] \in Clients \ {c}
        BY <1>1, <3>1 DEF PInv, LendingSound, Queue, Positions
      <4> QED BY <2>8, <2>9, <4>1
    <3>2. waiting' = waiting
      BY <1>2
    <3> QED BY <3>1, <3>2 DEF PInv, LendingSound, Queue, Positions
  <2>13. hand' \in [Clients -> SUBSET Conns]
         /\ pc' \in [Clients -> {"out", "waiting", "expired", "using", "returning"}]
    BY <1>0, <1>2, <2>1 DEF Goto
  <2> QED BY <1>0, <1>2, <2>6, <2>10, <2>11, <2>12, <2>13 DEF PInv, LendingSound
<1>3. ASSUME At("idle") = {}, waiting' = Append(waiting, c), MaybeGrowPool,
             Goto(c, "waiting"), hand' = hand
      PROVE  PInv'
  <2>1. PlacesSound' /\ At("out")' = At("out") /\ At("idle")' = At("idle")
    <3>0. nconns \in 0..MaxSize /\ growing \in BOOLEAN /\ deciding \in 0..1
      BY DEF PInv, PlacesSound
    <3>1. CASE nconns >= MaxSize \/ growing
      <4>1. UNCHANGED <<conn, nconns, growing, deciding>>
        BY <1>0, <1>3, <3>1 DEF MaybeGrowPool
      <4> QED BY <4>1, PlacesSame DEF PInv
    <3>2. CASE ~(nconns >= MaxSize \/ growing)
      <4>1. Grow(conn) /\ growing' = TRUE
        BY <1>3, <3>2 DEF MaybeGrowPool
      <4>2. nconns < MaxSize /\ ~growing
        BY <3>0, <3>2, SizeAssumption
      <4>3. deciding' = 0
        BY <1>0, <3>0, <4>2, Grower DEF PInv
      <4> QED BY <4>1, <4>2, <4>3, GrowKeeps DEF PInv
    <3> QED BY <3>1, <3>2
  <2> DEFINE T == Clients \cup {Gone}
  <2>2. waiting \in Seq(T) /\ Held(waiting) /\ Positions = DOMAIN waiting
    BY DEF PInv, LendingSound, Queue, Held, Positions
  <2>3. /\ waiting' \in Seq(T) /\ Held(waiting)'
        /\ \A i \in DOMAIN waiting' : waiting'[i] = c \/ \E j \in DOMAIN waiting : waiting'[i] = waiting[j]
    <3> DEFINE r == Append(waiting, c)
    <3>1. /\ r \in Seq(T) /\ Held(r)
          /\ \A i \in DOMAIN r : r[i] = c \/ \E j \in DOMAIN waiting : r[i] = waiting[j]
      BY <1>1, <2>2, AtTheEnd
    <3>2. waiting' = r
      BY <1>3
    <3> HIDE DEF r
    <3> QED BY <3>1, <3>2 DEF Held
  <2>4. pc'[c] = "waiting" /\ \A d \in Clients \ {c} : pc'[d] = pc[d]
    BY <1>0, <1>3 DEF Goto
  <2>5. NoneLostNoneShared'
    <3>1. /\ \A x \in At("out") :
                \E d \in Clients : hand[d] = {x} /\ \A e \in Clients \ {d} : x \notin hand[e]
          /\ \A d \in Clients : hand[d] \subseteq At("out")
      BY DEF PInv, LendingSound, NoneLostNoneShared
    <3>2. hand' = hand /\ At("out")' = At("out")
      BY <1>3, <2>1
    <3>3. \A d \in Clients : pc'[d] = "out" => hand'[d] = {}
      BY <1>3, <2>4 DEF PInv, LendingSound, NoneLostNoneShared
    <3>4. /\ \A x \in At("out")' :
                \E d \in Clients : hand'[d] = {x} /\ \A e \in Clients \ {d} : x \notin hand'[e]
          /\ \A d \in Clients : hand'[d] \subseteq At("out")'
      BY <3>1, <3>2
    <3> QED BY <3>3, <3>4 DEF NoneLostNoneShared
  <2>6. NoIdleWhileWaiting'
    BY <1>3, <2>1 DEF NoIdleWhileWaiting
  <2>7. Queue'
    <3>1. ASSUME NEW k \in DOMAIN waiting', waiting'[k] # Gone
          PROVE  pc'[waiting'[k]] \in {"waiting", "expired"} /\ hand'[waiting'[k]] = {}
      <4>1. CASE waiting'[k] = c
        BY <1>0, <1>3, <2>4, <4>1
      <4>2. CASE waiting'[k] # c
        <5>1. PICK j \in Positions : waiting'[k] = waiting[j]
          BY <2>2, <2>3, <3>1, <4>2
        <5>2. pc[waiting[j]] \in {"waiting", "expired"} /\ hand[waiting[j]] = {}
          BY <3>1, <5>1 DEF PInv, LendingSound, Queue
        <5>3. waiting[j] \in Clients \ {c}
          BY <2>2, <3>1, <4>2, <5>1
        <5> QED BY <1>3, <2>4, <5>1, <5>2, <5>3
      <4> QED BY <4>1, <4>2
    <3> QED BY <2>3, <3>1 DEF Queue, Held, Positions
  <2>8. hand' \in [Clients -> SUBSET Conns]
        /\ pc' \in [Clients -> {"out", "waiting", "expired", "using", "returning"}]
    BY <1>0, <1>3 DEF Goto
  <2> QED BY <1>0, <2>1, <2>3, <2>5, <2>6, <2>7, <2>8 DEF PInv, LendingSound
<1> QED BY <1>2, <1>3 DEF GetConn

(* c works with x, which is out before and after, closed perhaps.          *)
LEMMA WorkKeeps == ASSUME PInv, NEW c \in Clients, Work(c) PROVE PInv'
<1>0. /\ pc[c] = "using" /\ pc' = [pc EXCEPT ![c] = "returning"]
      /\ UNCHANGED <<up, nconns, growing, deciding, waiting, hand>>
  BY DEF Work, Goto
<1>1. /\ pc' \in [Clients -> {"out", "waiting", "expired", "using", "returning"}]
      /\ \A d \in Clients : pc'[d] = "out" => hand[d] = {}
  BY <1>0 DEF PInv, LendingSound, NoneLostNoneShared
<1>2. \A i \in Positions : waiting[i] # Gone => pc'[waiting[i]] \in {"waiting", "expired"}
  BY <1>0 DEF PInv, LendingSound, Queue, Positions
<1>3. PlacesSound' /\ At("out")' = At("out") /\ At("idle")' = At("idle")
  <2>1. PICK x \in hand[c] :
           conn' = conn \/ conn' = [conn EXCEPT ![x].health = "closed"]
    BY DEF Work
  <2>2. CASE conn' = conn
    BY <1>0, <2>2, PlacesSame DEF PInv
  <2>3. CASE conn' = [conn EXCEPT ![x].health = "closed"]
    <3> DEFINE p == [conn[x] EXCEPT !.health = "closed"]
    <3>1. /\ x \in Conns /\ conn[x].at = "out" /\ conn \in [Conns -> Spot] /\ conn[x] \in Spot
      BY Holds DEF PInv, PlacesSound
    <3>2. ~conn[x].grows
      BY <3>1 DEF PInv, PlacesSound, Growing
    <3>3. p \in Spot /\ p.at = "out" /\ p.grows = conn[x].grows
      BY <3>1 DEF Spot
    <3>4. conn' = [conn EXCEPT ![x] = p]
      BY <2>3
    <3> HIDE DEF p
    <3>5. PlacesSound'
      BY <1>0, <3>1, <3>2, <3>3, <3>4, PlacesMoved DEF PInv, Becomes
    <3>6. At("out")' = At("out") /\ At("idle")' = At("idle")
      BY <3>1, <3>3, <3>4 DEF At
    <3> QED BY <3>5, <3>6
  <2> QED BY <2>1, <2>2, <2>3
<1>4. LendingSound'
  BY <1>0, <1>1, <1>2, <1>3, LendingUntouched DEF PInv
<1> QED BY <1>0, <1>3, <1>4 DEF PInv

(* c gives x back: x is in nobody's hands then.                            *)
LEMMA Returning ==
    ASSUME LendingSound, NEW c \in Clients, NEW x \in hand[c],
           pc' = [pc EXCEPT ![c] = "out"]
    PROVE  Loose(x, [hand EXCEPT ![c] = {}])
<1> DEFINE H == [hand EXCEPT ![c] = {}]
<1>1. /\ x \in Conns /\ conn[x].at = "out" /\ hand[c] = {x}
      /\ \A d \in Clients \ {c} : x \notin hand[d]
  BY Holds
<1>2. /\ H \in [Clients -> SUBSET Conns] /\ H[c] = {}
      /\ \A d \in Clients \ {c} : H[d] = hand[d]
  BY DEF LendingSound
<1>3. /\ pc' \in [Clients -> {"out", "waiting", "expired", "using", "returning"}]
      /\ \A d \in Clients \ {c} : pc'[d] = pc[d]
  BY DEF LendingSound
<1> HIDE DEF H
<1>4. ASSUME NEW y \in At("out") \ {x}
      PROVE  \E d \in Clients : H[d] = {y} /\ \A e \in Clients \ {d} : y \notin H[e]
  <2>1. PICK d \in Clients : hand[d] = {y} /\ \A e \in Clients \ {d} : y \notin hand[e]
    BY DEF LendingSound, NoneLostNoneShared
  <2>2. d # c
    BY <1>1, <2>1
  <2> QED BY <1>2, <2>1, <2>2
<1>5. ASSUME NEW d \in Clients
      PROVE  H[d] \subseteq At("out") \ {x} /\ (pc'[d] = "out" => H[d] = {})
  <2>1. CASE d = c
    BY <1>2, <2>1
  <2>2. CASE d # c
    BY <1>1, <1>2, <1>3, <2>2 DEF LendingSound, NoneLostNoneShared
  <2> QED BY <2>1, <2>2
<1>6. ASSUME NEW i \in Positions, waiting[i] # Gone
      PROVE  pc'[waiting[i]] \in {"waiting", "expired"} /\ H[waiting[i]] = {}
  <2>1. waiting[i] \in Clients /\ hand[waiting[i]] = {} /\ pc[waiting[i]] \in {"waiting", "expired"}
    BY <1>6 DEF LendingSound, Queue, Positions
  <2> QED BY <1>1, <1>2, <1>3, <2>1
<1> QED BY <1>2, <1>3, <1>4, <1>5, <1>6 DEF Loose, H

LEMMA PutConnKeeps == ASSUME PInv, NEW c \in Clients, PutConn(c) PROVE PInv'
<1> DEFINE H == [hand EXCEPT ![c] = {}]
<1>1. PICK x \in hand[c] :
         \/ /\ conn' = [conn EXCEPT ![x] = Adding(FALSE)]
            /\ hand' = H
            /\ UNCHANGED waiting
         \/ conn[x].health # "closed" /\ AddToPool(x, conn, H)
  BY DEF PutConn
<1>2. pc' = [pc EXCEPT ![c] = "out"] /\ UNCHANGED <<up, nconns, growing, deciding>>
  BY DEF PutConn, Goto
<1>3. /\ x \in Conns /\ conn[x].at = "out" /\ conn \in [Conns -> Spot] /\ conn[x] \in Spot
  BY Holds DEF PInv, PlacesSound
<1>4. ~conn[x].grows
  BY <1>3 DEF PInv, PlacesSound, Growing
<1>5. Loose(x, H)
  BY <1>2, Returning DEF PInv
<1> HIDE DEF H
<1>6. ASSUME conn' = [conn EXCEPT ![x] = Adding(FALSE)], hand' = H, UNCHANGED waiting
      PROVE  PInv'
  <2> DEFINE p == Adding(FALSE)
  <2>1. p \in Spot /\ p.at = "adding" /\ p.grows = FALSE
    BY AddingIs
  <2>2. conn' = [conn EXCEPT ![x] = p]
    BY <1>6
  <2> HIDE DEF p
  <2>3. p.grows = conn[x].grows
    BY <1>3, <1>4, <2>1, SpotIs
  <2>4. PlacesSound'
    BY <1>2, <1>3, <2>1, <2>2, <2>3, PlacesMoved DEF PInv, Becomes
  <2>5. At("out")' = At("out") \ {x} /\ At("idle")' \subseteq At("idle")
    BY <1>3, <2>1, <2>2 DEF At
  <2>6. NoneLostNoneShared'
    BY <1>5, <1>6, <2>5 DEF NoneLostNoneShared, Loose
  <2>7. NoIdleWhileWaiting'
    BY <1>6, <2>5 DEF PInv, LendingSound, NoIdleWhileWaiting, Positions
  <2>8. Queue'
    BY <1>5, <1>6 DEF PInv, LendingSound, Queue, Positions, Loose
  <2> QED BY <1>2, <1>5, <1>6, <2>4, <2>6, <2>7, <2>8 DEF PInv, LendingSound, Loose
<1>7. ASSUME conn[x].health # "closed", AddToPool(x, conn, H)
      PROVE  PInv'
  <2>1. LendingSound' /\ \E a \in {"idle", "out"} :
           conn' = [conn EXCEPT ![x] = Place(a, conn[x].health, conn[x].grows, conn[x].tried)]
    BY <1>3, <1>5, <1>7, Added DEF PInv
  <2>2. PICK a \in {"idle", "out"} :
           conn' = [conn EXCEPT ![x] = Place(a, conn[x].health, conn[x].grows, conn[x].tried)]
    BY <2>1
  <2> DEFINE p == Place(a, conn[x].health, conn[x].grows, conn[x].tried)
  <2>3. p \in Spot /\ p.at = a /\ p.grows = conn[x].grows /\ p.health = conn[x].health
    BY <1>3, SpotIs, PlaceIs
  <2>4. conn' = [conn EXCEPT ![x] = p]
    BY <2>2
  <2> HIDE DEF p
  <2>5. PlacesSound'
    BY <1>2, <1>3, <1>4, <1>7, <2>3, <2>4, PlacesMoved DEF PInv, Becomes
  <2> QED BY <1>2, <2>1, <2>5 DEF PInv
<1> QED BY <1>1, <1>6, <1>7

(* A new connection goes to the first who waits, or into the pool.         *)
LEMMA ArriveKeeps == ASSUME PInv, NEW x \in Conns, Arrive(x) PROVE PInv'
<1> DEFINE q == Place(conn[x].at, conn[x].health, FALSE, FALSE)
           places == [conn EXCEPT ![x] = q]
<1>1. /\ conn[x].at = "arriving" /\ AddToPool(x, places, hand)
      /\ deciding' = deciding + (IF conn[x].grows THEN 1 ELSE 0)
      /\ UNCHANGED <<up, nconns, growing, pc>>
  BY DEF Arrive
<1>2. /\ conn \in [Conns -> Spot] /\ conn[x] \in Spot
      /\ nconns \in 0..MaxSize /\ growing \in BOOLEAN /\ deciding \in 0..1
  BY DEF PInv, PlacesSound
<1>3. q \in Spot /\ q.health = conn[x].health /\ q.grows = FALSE /\ q.tried = FALSE
  BY <1>1, <1>2 DEF Place, Spot
<1> HIDE DEF q
<1>4. /\ places \in [Conns -> Spot] /\ places[x] = q
      /\ \A y \in Conns \ {x} : places[y] = conn[y]
      /\ \A p : [places EXCEPT ![x] = p] = [conn EXCEPT ![x] = p]
  BY <1>2, <1>3
<1> HIDE DEF places
<1>5. Loose(x, hand)
  <2>1. x \notin At("out")
    BY <1>1 DEF At
  <2> QED BY <1>1, <2>1 DEF Loose, PInv, LendingSound, NoneLostNoneShared, Queue
<1>6. LendingSound' /\ \E a \in {"idle", "out"} :
         conn' = [places EXCEPT ![x] =
                    Place(a, places[x].health, places[x].grows, places[x].tried)]
  BY <1>1, <1>4, <1>5, Added DEF PInv
<1>7. PICK a \in {"idle", "out"} : conn' = [conn EXCEPT ![x] = Place(a, q.health, q.grows, q.tried)]
  BY <1>4, <1>6
<1> DEFINE p == Place(a, q.health, q.grows, q.tried)
<1>8. p \in Spot /\ p.at = a /\ p.grows = FALSE /\ p.health = conn[x].health
  BY <1>2, <1>3, SpotIs, PlaceIs
<1>9. conn' = [conn EXCEPT ![x] = p]
  BY <1>7
<1> HIDE DEF p
<1>10. conn[x].health # "closed"
  BY <1>1 DEF PInv, PlacesSound, Open
<1>11. Accounted(x, p)
  <2>1. Becomes(x, p) /\ ~p.grows
    BY <1>8, <1>9 DEF Becomes
  <2>2. p.at \in {"arriving", "idle"} => p.health # "closed"
    BY <1>8, <1>10
  <2>3. nconns' = nconns + (IF p.at = "free" THEN 0 ELSE 1) - (IF conn[x].at = "free" THEN 0 ELSE 1)
    BY <1>1, <1>2, <1>8
  <2>4. nconns' <= MaxSize /\ growing' \in BOOLEAN
    BY <1>1, <1>2, SizeAssumption
  <2>5. /\ deciding' \in Nat
        /\ deciding' + (IF p.grows THEN 1 ELSE 0) - (IF growing' THEN 1 ELSE 0)
             = deciding + (IF conn[x].grows THEN 1 ELSE 0) - (IF growing THEN 1 ELSE 0)
    <3> DEFINE old == IF conn[x].grows THEN 1 ELSE 0
               was == IF growing THEN 1 ELSE 0
    <3>1. /\ old \in 0..1 /\ was \in 0..1 /\ deciding' = deciding + old
          /\ (IF growing' THEN 1 ELSE 0) = was /\ (IF p.grows THEN 1 ELSE 0) = 0
      BY <1>1, <1>8
    <3> HIDE DEF old, was
    <3>2. deciding' \in Nat /\ deciding' + 0 - was = deciding + old - was
      BY <1>2, <3>1
    <3> QED BY <3>1, <3>2 DEF old, was
  <2> QED BY <2>1, <2>2, <2>3, <2>4, <2>5 DEF Accounted
<1>12. PlacesSound'
  BY <1>11, PlacesKept DEF PInv
<1> QED BY <1>1, <1>6, <1>12 DEF PInv

-----------------------------------------------------------------------------
(* The pool is sound when it opens. *)
LEMMA InitSound == Init => PInv
<1> SUFFICES ASSUME Init PROVE PInv
  OBVIOUS
<1>1. PICK first \in SUBSET Conns :
         /\ Cardinality(first) = MinSize
         /\ conn = [x \in Conns |-> IF x \in first THEN Adding(FALSE) ELSE Free]
  BY DEF Init
<1>2. /\ up = TRUE /\ nconns = MinSize /\ growing = FALSE /\ deciding = 0 /\ waiting = <<>>
      /\ hand = [c \in Clients |-> {}] /\ pc = [c \in Clients |-> "out"]
  BY DEF Init
<1>3. ASSUME NEW x \in Conns
      PROVE  /\ conn[x] \in Spot /\ conn[x].grows = FALSE
             /\ conn[x].at = IF x \in first THEN "adding" ELSE "free"
  BY <1>1 DEF Adding, Free, Place, Spot
<1>4. conn \in [Conns -> Spot]
  BY <1>1, <1>3
<1>5. Conns \ At("free") = first /\ At("out") = {} /\ At("idle") = {} /\ At("arriving") = {}
  BY <1>3 DEF At
<1>6. CountIsTrue
  BY <1>1, <1>2, <1>5, SizeAssumption DEF CountIsTrue
<1>7. {x \in Conns : conn[x].grows} = {}
  BY <1>3
<1>8. OneGrower
  <2>1. Cardinality({x \in Conns : conn[x].grows}) = 0
    BY <1>7, FS_EmptySet
  <2>2. deciding = 0 /\ growing = FALSE
    BY <1>2
  <2> QED BY <2>1, <2>2 DEF OneGrower
<1>9. Open /\ Growing
  BY <1>3 DEF Open, Growing
<1>10. PlacesSound
  <2>1. nconns \in 0..MaxSize
    BY <1>2, SizeAssumption
  <2>2. growing \in BOOLEAN /\ deciding \in 0..1
    <3>1. growing = FALSE
      BY <1>2, Zenon
    <3>2. deciding = 0
      BY <1>2, Zenon
    <3>3. growing \in BOOLEAN
      BY <3>1
    <3>4. deciding \in 0..1
      BY <3>2
    <3> QED BY <3>3, <3>4
  <2> QED BY <1>4, <1>6, <1>8, <1>9, <2>1, <2>2 DEF PlacesSound
<1>11. /\ waiting \in Seq(Clients \cup {Gone}) /\ Positions = {}
       /\ hand \in [Clients -> SUBSET Conns]
       /\ pc \in [Clients -> {"out", "waiting", "expired", "using", "returning"}]
  BY <1>2 DEF Positions
<1>12. NoneLostNoneShared /\ NoIdleWhileWaiting /\ Queue
  BY <1>2, <1>5, <1>11 DEF NoneLostNoneShared, NoIdleWhileWaiting, Queue
<1> QED BY <1>2, <1>10, <1>11, <1>12 DEF PInv, LendingSound

LEMMA StepSound == PInv /\ [Next]_vars => PInv'
<1> SUFFICES ASSUME PInv, [Next]_vars PROVE PInv'
  OBVIOUS
<1>1. ASSUME NEW c \in Clients, GetConn(c) \/ ClientStep(c) PROVE PInv'
  BY <1>1, GetConnKeeps, ReceiveKeeps, TimeOutKeeps, WakeUpKeeps,
         WorkKeeps, PutConnKeeps DEF ClientStep
<1>2. ASSUME NEW x \in Conns, WorkerStep(x) PROVE PInv'
  BY <1>2, ConnectKeeps, ScheduleAgainKeeps, GiveUpConnectingKeeps, ArriveKeeps DEF WorkerStep
<1>3. CASE UNCHANGED vars
  <2>1. UNCHANGED <<up, conn, nconns, growing, deciding, waiting, hand, pc>>
    BY <1>3 DEF vars
  <2>2. LendingSound'
    BY <2>1, PlacesSame, LendingUntouched DEF PInv, LendingSound, NoneLostNoneShared, Queue
  <2> QED BY <2>1, <2>2, PlacesSame DEF PInv
<1> QED BY <1>1, <1>2, <1>3, KeepGrowingKeeps, ShrinkKeeps, GoDownKeeps, ComeUpKeeps DEF Next

(* The invariant holds throughout. *)
THEOREM Soundness == Spec => []PInv
<1>1. Init => PInv
  BY InitSound
<1>2. PInv /\ [Next]_vars => PInv'
  BY StepSound
<1> QED BY <1>1, <1>2, PTL DEF Spec

-----------------------------------------------------------------------------
(* Every variable keeps to its type: the counts and the queue included.    *)
THEOREM TypeCorrect == Spec => []TypeOK
<1>1. PInv => TypeOK
  BY DEF PInv, PlacesSound, LendingSound, TypeOK, Spot
<1> QED BY <1>1, Soundness, PTL

(* _nconns is the number of the places in use, and within max_size.        *)
THEOREM CountStaysTrue == Spec => []CountIsTrue
<1>1. PInv => CountIsTrue
  BY DEF PInv, PlacesSound
<1> QED BY <1>1, Soundness, PTL

(* Every connection that is out is with one client, who knows of it: the   *)
(* race of a timeout with _add_to_pool() neither loses nor doubles one.    *)
THEOREM LentToOne == Spec => []NoneLostNoneShared
<1>1. PInv => NoneLostNoneShared
  BY DEF PInv, LendingSound
<1> QED BY <1>1, Soundness, PTL

(* No connection lies idle in _pool while a client waits in _waiting.      *)
THEOREM NothingIdle == Spec => []NoIdleWhileWaiting
<1>1. PInv => NoIdleWhileWaiting
  BY DEF PInv, LendingSound
<1> QED BY <1>1, Soundness, PTL

(* Where x goes to somebody, x is not known to be closed.                  *)
LEMMA HandedOn ==
    ASSUME PInv, Handed, NEW x \in Conns, NEW H \in [Clients -> SUBSET Conns],
           NEW places, places[x].health # "closed",
           \A d \in Clients : H[d] \subseteq hand[d] \ {x} /\ (H[d] # {} => pc'[d] = pc[d]),
           \A y \in Conns \ {x} : places[y] = conn[y], places \in [Conns -> Spot],
           AddToPool(x, places, H)
    PROVE  Handed'
<1>1. \A y \in Conns : conn'[y].health = places[y].health
  BY DEF AddToPool, Spot
<1>2. \A d \in Clients : \A y \in hand'[d] : y \in Conns /\ (y = x \/ y \in H[d])
  BY DEF AddToPool
<1>3. ASSUME NEW d \in Clients, NEW y \in hand'[d], conn'[y].health = "closed"
      PROVE  pc'[d] = "returning"
  <2>1. y \in Conns /\ y # x /\ y \in H[d]
    BY <1>1, <1>2, <1>3
  <2>2. y \in hand[d] /\ pc'[d] = pc[d] /\ conn[y].health = "closed"
    BY <1>1, <1>3, <2>1
  <2> QED BY <2>2 DEF Handed
<1> QED BY <1>3 DEF Handed

(* Where hands do not change, it is enough that nothing in them is closed, *)
LEMMA HandedSame ==
    ASSUME Handed, hand' = hand,
           \A d \in Clients : pc[d] = "returning" => pc'[d] = "returning",
           \A d \in Clients : \A y \in hand[d] :
              conn'[y].health = "closed" => conn[y].health = "closed"
    PROVE  Handed'
BY DEF Handed

(* ... as when the place that changes is not, or no longer, out.           *)
LEMMA HandedAside ==
    ASSUME Handed, PInv, PInv', hand' = hand,
           \A d \in Clients : pc[d] = "returning" => pc'[d] = "returning",
           NEW x, NEW p, p.at # "out", conn' = [conn EXCEPT ![x] = p]
    PROVE  Handed'
<1>1. conn \in [Conns -> Spot]
  BY DEF PInv, PlacesSound
<1>2. ASSUME NEW d \in Clients, NEW y \in hand[d] PROVE conn'[y] = conn[y]
  <2>1. y \in Conns /\ conn'[y].at = "out"
    BY DEF PInv, LendingSound, NoneLostNoneShared, At
  <2> QED BY <1>1, <2>1
<1> QED BY <1>2, HandedSame

LEMMA HandedGrow ==
    ASSUME Handed, PInv, PInv', hand' = hand, Grow(conn),
           \A d \in Clients : pc[d] = "returning" => pc'[d] = "returning"
    PROVE  Handed'
<1> DEFINE x == CHOOSE y \in Conns : conn[y].at = "free"
           p == Adding(TRUE)
<1>1. conn' = [conn EXCEPT ![x] = p]
  BY DEF Grow
<1>2. p.at # "out"
  BY AddingIs
<1> HIDE DEF x, p
<1> QED BY <1>1, <1>2, HandedAside

(* A client is given what is not known to be closed.                       *)
LEMMA GetConnHands ==
    ASSUME PInv, Handed, PInv', NEW c \in Clients, GetConn(c) PROVE Handed'
<1>1. /\ pc[c] = "out" /\ conn \in [Conns -> Spot] /\ hand \in [Clients -> SUBSET Conns]
      /\ pc \in [Clients -> {"out", "waiting", "expired", "using", "returning"}]
  BY DEF GetConn, PInv, PlacesSound, LendingSound
<1>2. \A d \in Clients : pc[d] = "returning" => pc'[d] = "returning"
  BY <1>1 DEF GetConn, Goto
<1>3. ASSUME NEW x \in At("idle"), conn' = [conn EXCEPT ![x].at = "out"],
             hand' = [hand EXCEPT ![c] = {x}]
      PROVE  Handed'
  <2>1. x \in Conns /\ conn[x].health # "closed"
    BY DEF PInv, PlacesSound, Open, At
  <2>2. \A y \in Conns : conn'[y].health = conn[y].health
    BY <1>1, <1>3, <2>1 DEF Spot
  <2>3. ASSUME NEW d \in Clients, NEW y \in hand'[d], conn'[y].health = "closed"
        PROVE  pc'[d] = "returning"
    <3>1. y \in Conns /\ (d = c => y = x) /\ (d # c => y \in hand[d])
      BY <1>1, <1>3, <2>1
    <3>2. conn[y].health = "closed" /\ d # c
      BY <2>1, <2>2, <2>3, <3>1
    <3> QED BY <1>2, <3>1, <3>2 DEF Handed
  <2> QED BY <2>3 DEF Handed
<1>4. CASE hand' = hand /\ MaybeGrowPool
  <2>1. CASE Grow(conn)
    BY <1>2, <1>4, <2>1, HandedGrow
  <2>2. CASE conn' = conn
    BY <1>2, <1>4, <2>2, HandedSame
  <2> QED BY <1>4, <2>1, <2>2 DEF MaybeGrowPool
<1> QED BY <1>3, <1>4 DEF GetConn

(* A client that closes its connection is about to return it.              *)
LEMMA WorkHands ==
    ASSUME PInv, Handed, NEW c \in Clients, Work(c) PROVE Handed'
<1>1. /\ conn \in [Conns -> Spot] /\ hand' = hand /\ pc' = [pc EXCEPT ![c] = "returning"]
      /\ pc \in [Clients -> {"out", "waiting", "expired", "using", "returning"}]
  BY DEF Work, Goto, PInv, PlacesSound, LendingSound
<1>2. PICK x \in hand[c] : conn' = conn \/ conn' = [conn EXCEPT ![x].health = "closed"]
  BY DEF Work
<1>3. x \in Conns /\ \A d \in Clients \ {c} : x \notin hand[d]
  BY Holds DEF PInv
<1>4. ASSUME NEW d \in Clients, NEW y \in hand'[d], conn'[y].health = "closed"
      PROVE  pc'[d] = "returning"
  <2>1. CASE d = c
    BY <1>1, <2>1
  <2>2. CASE d # c
    <3>1. y # x /\ y \in hand[d] /\ y \in Conns
      BY <1>1, <1>3, <2>2 DEF PInv, LendingSound
    <3>2. conn'[y] = conn[y]
      BY <1>1, <1>2, <1>3, <3>1
    <3> QED BY <1>1, <1>4, <2>2, <3>1, <3>2 DEF Handed
  <2> QED BY <2>1, <2>2
<1> QED BY <1>4 DEF Handed

(* putconn() hands on what is not closed.                                  *)
LEMMA PutConnHands ==
    ASSUME PInv, Handed, NEW c \in Clients, PutConn(c) PROVE Handed'
<1> DEFINE H == [hand EXCEPT ![c] = {}]
<1>1. PICK x \in hand[c] :
         \/ conn' = [conn EXCEPT ![x] = Adding(FALSE)] /\ hand' = H
         \/ conn[x].health # "closed" /\ AddToPool(x, conn, H)
  BY DEF PutConn
<1>2. /\ conn \in [Conns -> Spot] /\ hand \in [Clients -> SUBSET Conns]
      /\ pc \in [Clients -> {"out", "waiting", "expired", "using", "returning"}]
      /\ pc' = [pc EXCEPT ![c] = "out"]
  BY DEF PutConn, Goto, PInv, PlacesSound, LendingSound
<1>3. x \in Conns /\ hand[c] = {x} /\ \A d \in Clients \ {c} : x \notin hand[d]
  BY Holds DEF PInv
<1>4. /\ H \in [Clients -> SUBSET Conns]
      /\ \A d \in Clients : H[d] \subseteq hand[d] \ {x} /\ (H[d] # {} => pc'[d] = pc[d])
  BY <1>2, <1>3
<1> HIDE DEF H
<1>5. CASE conn' = [conn EXCEPT ![x] = Adding(FALSE)] /\ hand' = H
  <2>1. ASSUME NEW d \in Clients, NEW y \in hand'[d], conn'[y].health = "closed"
        PROVE  pc'[d] = "returning"
    <3>1. y \in hand[d] \ {x} /\ H[d] # {} /\ y \in Conns
      BY <1>4, <1>5, <2>1
    <3>2. conn'[y] = conn[y] /\ pc'[d] = pc[d]
      BY <1>2, <1>4, <1>5, <3>1
    <3> QED BY <2>1, <3>1, <3>2 DEF Handed
  <2> QED BY <2>1 DEF Handed
<1>6. CASE conn[x].health # "closed" /\ AddToPool(x, conn, H)
  BY <1>2, <1>3, <1>4, <1>6, HandedOn
<1> QED BY <1>1, <1>5, <1>6

LEMMA ArriveHands ==
    ASSUME PInv, Handed, NEW x \in Conns, Arrive(x) PROVE Handed'
<1> DEFINE q == Place(conn[x].at, conn[x].health, FALSE, FALSE)
           places == [conn EXCEPT ![x] = q]
<1>1. conn[x].at = "arriving" /\ AddToPool(x, places, hand) /\ pc' = pc
  BY DEF Arrive
<1>2. /\ conn \in [Conns -> Spot] /\ conn[x] \in Spot /\ hand \in [Clients -> SUBSET Conns]
  BY DEF PInv, PlacesSound, LendingSound
<1>3. q \in Spot /\ q.health # "closed"
  BY <1>1, <1>2 DEF Place, Spot, PInv, PlacesSound, Open
<1> HIDE DEF q
<1>4. /\ places \in [Conns -> Spot] /\ places[x].health # "closed"
      /\ \A y \in Conns \ {x} : places[y] = conn[y]
  BY <1>2, <1>3
<1> HIDE DEF places
<1>5. \A d \in Clients : hand[d] \subseteq hand[d] \ {x}
  BY <1>1 DEF PInv, LendingSound, NoneLostNoneShared, At
<1> QED BY <1>1, <1>2, <1>4, <1>5, HandedOn

(* Nobody is given a closed connection, whatever the step.                 *)
LEMMA HandedKept == PInv /\ Handed /\ [Next]_vars => Handed'
<1> SUFFICES ASSUME PInv, Handed, [Next]_vars PROVE Handed'
  OBVIOUS
<1>0. PInv'
  BY StepSound
<1>1. ASSUME NEW c \in Clients, Receive(c) \/ TimeOut(c) \/ WakeUp(c) PROVE Handed'
  <2>1. pc \in [Clients -> {"out", "waiting", "expired", "using", "returning"}]
    BY DEF PInv, LendingSound
  <2>2. conn' = conn /\ hand' = hand /\ \A d \in Clients : pc[d] = "returning" => pc'[d] = "returning"
    BY <1>1, <2>1 DEF Receive, TimeOut, WakeUp, Goto
  <2> QED BY <2>2, HandedSame
<1>2. ASSUME NEW x \in Conns, Connect(x) \/ ScheduleAgain(x) \/ GiveUpConnecting(x)
      PROVE  Handed'
  <2>1. conn[x] \in Spot /\ hand' = hand /\ pc' = pc
    BY <1>2 DEF Connect, ScheduleAgain, GiveUpConnecting, PInv, PlacesSound
  <2>2. \E p : p.at # "out" /\ conn' = [conn EXCEPT ![x] = p]
    <3>1. CASE Connect(x)
      <4> DEFINE p == Place("arriving", "ok", conn[x].grows, conn[x].tried)
      <4>1. p.at # "out" /\ conn' = [conn EXCEPT ![x] = p]
        BY <3>1 DEF Connect, Place
      <4> QED BY <4>1
    <3>2. CASE ScheduleAgain(x)
      <4> DEFINE p == [conn[x] EXCEPT !.tried = TRUE]
      <4>1. p.at # "out" /\ conn' = [conn EXCEPT ![x] = p]
        BY <2>1, <3>2 DEF ScheduleAgain, Spot
      <4> QED BY <4>1
    <3>3. CASE GiveUpConnecting(x)
      BY <3>3, FreeIs DEF GiveUpConnecting
    <3> QED BY <1>2, <3>1, <3>2, <3>3
  <2> QED BY <1>0, <2>1, <2>2, HandedAside
<1>3. CASE KeepGrowing
  <2>1. hand' = hand /\ pc' = pc
    BY <1>3 DEF KeepGrowing
  <2>2. CASE Grow(conn)
    BY <1>0, <2>1, <2>2, HandedGrow
  <2>3. CASE conn' = conn
    BY <2>1, <2>3, HandedSame
  <2> QED BY <1>3, <2>2, <2>3 DEF KeepGrowing
<1>4. CASE Shrink
  <2>1. PICK x \in Conns : conn' = [conn EXCEPT ![x] = Free]
    BY <1>4 DEF Shrink, At
  <2>2. hand' = hand /\ pc' = pc
    BY <1>4 DEF Shrink
  <2> QED BY <1>0, <2>1, <2>2, FreeIs, HandedAside
<1>5. CASE GoDown
  <2>1. hand' = hand /\ pc' = pc /\ conn \in [Conns -> Spot]
    BY <1>5 DEF GoDown, PInv, PlacesSound
  <2>2. ASSUME NEW d \in Clients, NEW y \in hand[d], conn'[y].health = "closed"
        PROVE  conn[y].health = "closed"
    <3>1. y \in Conns /\ conn[y] \in Spot
      BY <2>1 DEF PInv, LendingSound
    <3>2. conn'[y] = IF conn[y].health = "ok" THEN [conn[y] EXCEPT !.health = "stale"] ELSE conn[y]
      BY <1>5, <3>1 DEF GoDown
    <3> QED BY <2>2, <3>1, <3>2 DEF Spot
  <2> QED BY <2>1, <2>2, HandedSame
<1>6. CASE ComeUp \/ UNCHANGED vars
  <2>1. hand' = hand /\ pc' = pc /\ conn' = conn
    BY <1>6 DEF ComeUp, vars
  <2> QED BY <2>1, HandedSame
<1>7. ASSUME NEW c \in Clients, GetConn(c) \/ ClientStep(c) PROVE Handed'
  BY <1>0, <1>1, <1>7, GetConnHands, WorkHands, PutConnHands DEF ClientStep
<1>8. ASSUME NEW x \in Conns, WorkerStep(x) PROVE Handed'
  BY <1>2, <1>8, ArriveHands DEF WorkerStep
<1> QED BY <1>3, <1>4, <1>5, <1>6, <1>7, <1>8 DEF Next

(* A connection known to be closed is with the client that found it so or  *)
(* closed it, until that client returns it: neither getconn() nor          *)
(* _add_to_pool() gives it to another.                                     *)
THEOREM NoneKnownClosed == Spec => []FailsOnce
<1>1. Init => Handed
  BY DEF Init, Handed
<1>2. PInv /\ Handed /\ [Next]_vars => Handed'
  BY HandedKept
<1>3. PInv /\ Handed => FailsOnce
  <2> SUFFICES ASSUME PInv, Handed, NEW x \in Conns, conn[x].health = "closed"
               PROVE  \/ conn[x].at \in {"free", "adding"}
                      \/ \E c \in Clients : pc[c] = "returning" /\ x \in hand[c]
    BY DEF FailsOnce
  <2>1. conn[x].at \in {"free", "adding", "out"}
    BY DEF PInv, PlacesSound, Open, Spot
  <2>2. CASE conn[x].at = "out"
    <3>1. PICK c \in Clients : x \in hand[c]
      BY <2>2 DEF PInv, LendingSound, NoneLostNoneShared, At
    <3> QED BY <3>1 DEF Handed
  <2> QED BY <2>1, <2>2
<1> QED BY <1>1, <1>2, <1>3, Soundness, PTL DEF Spec

(* _growing is set exactly while one task may still grow the pool.         *)
THEOREM GrowsOneByOne == Spec => []OneGrower
<1>1. PInv => OneGrower
  BY DEF PInv, PlacesSound
<1> QED BY <1>1, Soundness, PTL

-----------------------------------------------------------------------------
(* The pool keeps its promise: ConnectionPool implements PoolPromise, for  *)
(* any number of clients and any sizes of the pool.                        *)
(*                                                                         *)
(* The queue with its positions given up is the line with the order of     *)
(* arrival (Members and Order). Cutting the queue behind the first who     *)
(* waits, and giving up a position together with its neighbours, both take *)
(* one client out of the line and leave the order of the others (Without). *)

Members(s) == {c \in Clients : \E i \in DOMAIN s : s[i] = c}

Order(s) ==
    {p \in Clients \X Clients :
        \E i, j \in DOMAIN s : i < j /\ s[i] = p[1] /\ s[j] = p[2]}

(* r is the line s without c. *)
Without(r, s, c) ==
    /\ Members(r) = Members(s) \ {c}
    /\ Order(r) = {p \in Order(s) : c \notin {p[1], p[2]}}

LEMMA LineIs ==
    InLine = Members(waiting) /\ Earlier = Order(waiting)
BY DEF InLine, Earlier, Members, Order, Positions

LEMMA NextLineIs ==
    InLine' = Members(waiting') /\ Earlier' = Order(waiting')
BY DEF InLine, Earlier, Members, Order, Positions

-----------------------------------------------------------------------------
(* Every set of positions has a first one. *)
LEMMA FirstOf ==
    ASSUME NEW n \in Nat, NEW S \in SUBSET (1..n), S # {}
    PROVE  \E v \in S : \A w \in S : v <= w
<1> DEFINE Ends(X) == \E v \in X : \A w \in X : v <= w
           Bad == {X \in SUBSET S : X # {} /\ ~Ends(X)}
           R == StrictSubsetOrdering(S)
<1>1. SUFFICES ASSUME Bad # {} PROVE FALSE
  <2>1. Ends(S) \/ S \in Bad
    <3> HIDE DEF Ends
    <3> QED OBVIOUS
  <2> QED BY <2>1
<1>2. IsWellFoundedOn(R, SUBSET S)
  <2>0. IsFiniteSet(1..n)  BY FS_Interval
  <2>1. IsFiniteSet(S)  BY <2>0, FS_Subset
  <2> QED BY <2>1, FS_StrictSubsetOrderingWellFounded, FS_FiniteSubsetsOfFinite
<1>3. Bad \subseteq SUBSET S  OBVIOUS
<1>4. PICK X \in Bad : \A Y \in Bad : ~(<<Y, X>> \in R)
  <2> HIDE DEF Bad, R
  <2> QED BY <1>1, <1>2, <1>3, WFMin
<1>5. X \subseteq S /\ X # {} /\ ~Ends(X)  OBVIOUS
<1>6. PICK x \in X : TRUE  BY <1>5
<1>7. \A v \in X : v \in Nat  BY <1>5
<1>8. X \ {x} # {}
  <2>1. SUFFICES ASSUME X = {x} PROVE Ends(X)  BY <1>5, <1>6
  <2> QED BY <2>1, <1>6, <1>7
<1>9. Ends(X \ {x})
  <2>1. <<X \ {x}, X>> \in R  BY <1>5, <1>6 DEF StrictSubsetOrdering
  <2>2. X \ {x} \notin Bad  BY <2>1, <1>4
  <2> QED BY <2>2, <1>5, <1>8
<1>10. PICK v \in X \ {x} : \A w \in X \ {x} : v <= w
  BY <1>9
<1>11. Ends(X)
  <2>1. CASE v <= x  BY <2>1, <1>7, <1>10
  <2>2. CASE ~(v <= x)  BY <2>2, <1>6, <1>7, <1>10
  <2> QED BY <2>1, <2>2
<1> QED BY <1>5, <1>11

(* If nobody is the first who waits, nobody waits. *)
LEMMA NobodyFirst ==
    ASSUME waiting \in Seq(Clients \cup {Gone}), FirstLive = {}
    PROVE  Members(waiting) = {} /\ Order(waiting) = {}
<1> DEFINE Live == {i \in Positions : waiting[i] # Gone}
<1>1. Len(waiting) \in Nat /\ Positions = 1..Len(waiting)
  BY DEF Positions
<1>2. Live = {}
  <2> SUFFICES ASSUME Live # {} PROVE FALSE
    OBVIOUS
  <2>1. PICK v \in Live : \A w \in Live : v <= w
    BY <1>1, FirstOf
  <2>2. \A j \in 1..(v - 1) : waiting[j] = Gone
    BY <1>1, <2>1
  <2>3. v \in FirstLive
    BY <2>1, <2>2 DEF FirstLive
  <2> QED BY <2>3
<1>3. \A i \in DOMAIN waiting : waiting[i] \notin Clients
  BY <1>2, ClientAssumption DEF Positions
<1> QED BY <1>3 DEF Members, Order

(* f takes the positions of r but those given up to those of s but c's, in *)
(* the same order.                                                         *)
Taken(r, s, c, f, m, n) ==
    /\ \A k \in 1..m : r[k] # Gone => f[k] \in 1..n /\ r[k] = s[f[k]] /\ r[k] # c
    /\ \A k, l \in 1..m : r[k] # Gone /\ r[l] # Gone => (k < l <=> f[k] < f[l])
    /\ \A i \in 1..n : s[i] \notin {Gone, c} => \E k \in 1..m : r[k] # Gone /\ f[k] = i

LEMMA Kept ==
    ASSUME NEW s, NEW r, NEW m \in Nat, NEW n \in Nat, DOMAIN s = 1..n, DOMAIN r = 1..m,
           NEW c \in Clients, NEW f, Taken(r, s, c, f, m, n)
    PROVE  Without(r, s, c)
<1>1. Gone \notin Clients
  BY ClientAssumption
<1>2. \A d \in Members(r) : d \in Members(s) /\ d # c
  BY <1>1 DEF Members, Taken
<1>3. \A d \in Members(s) : d # c => d \in Members(r)
  BY <1>1 DEF Members, Taken
<1>4. ASSUME NEW p \in Order(r)
      PROVE  p \in Order(s) /\ c \notin {p[1], p[2]}
  <2>1. PICK k \in 1..m, l \in 1..m : k < l /\ r[k] = p[1] /\ r[l] = p[2]
    BY <1>4 DEF Order
  <2>2. p[1] \in Clients /\ p[2] \in Clients /\ p \in Clients \X Clients
    BY <1>4 DEF Order
  <2>3. /\ f[k] \in 1..n /\ f[l] \in 1..n /\ s[f[k]] = p[1] /\ s[f[l]] = p[2]
        /\ p[1] # c /\ p[2] # c /\ f[k] < f[l]
    BY <1>1, <2>1, <2>2 DEF Taken
  <2> QED BY <2>2, <2>3 DEF Order
<1>5. ASSUME NEW p \in Order(s), c \notin {p[1], p[2]}
      PROVE  p \in Order(r)
  <2>1. PICK i \in 1..n, j \in 1..n : i < j /\ s[i] = p[1] /\ s[j] = p[2]
    BY <1>5 DEF Order
  <2>2. p[1] \in Clients /\ p[2] \in Clients /\ p \in Clients \X Clients
    BY <1>5 DEF Order
  <2>3. PICK k \in 1..m : r[k] # Gone /\ f[k] = i
    BY <1>1, <1>5, <2>1, <2>2 DEF Taken
  <2>4. PICK l \in 1..m : r[l] # Gone /\ f[l] = j
    BY <1>1, <1>5, <2>1, <2>2 DEF Taken
  <2>5. k < l /\ r[k] = p[1] /\ r[l] = p[2]
    BY <2>1, <2>3, <2>4 DEF Taken
  <2> QED BY <2>2, <2>5 DEF Order
<1> QED BY <1>2, <1>3, <1>4, <1>5 DEF Without, Members, Order

(* Everyone up to the first who waits goes: of those, only he was waiting. *)
LEMMA CutBehind ==
    ASSUME waiting \in Seq(Clients \cup {Gone}), Held(waiting), NEW i \in FirstLive
    PROVE  Without(SubSeq(waiting, i + 1, Len(waiting)), waiting, waiting[i])
<1> DEFINE r == SubSeq(waiting, i + 1, Len(waiting))
           n == Len(waiting)
           f == [k \in 1..(n - i) |-> i + k]
<1>1. /\ n \in Nat /\ DOMAIN waiting = 1..n /\ i \in 1..n
      /\ waiting[i] # Gone /\ waiting[i] \in Clients
      /\ \A j \in 1..(i - 1) : waiting[j] = Gone
  BY DEF FirstLive, Positions
<1>2. /\ DOMAIN r = 1..(n - i) /\ n - i \in Nat
      /\ \A k \in 1..(n - i) : r[k] = waiting[i + k]
  BY <1>1
<1>3. \A k \in 1..(n - i) : f[k] = i + k
  OBVIOUS
<1> HIDE DEF r, f, n
<1>4. \A k \in 1..(n - i) : r[k] # Gone => f[k] \in 1..n /\ r[k] = waiting[f[k]] /\ r[k] # waiting[i]
  BY <1>1, <1>2, <1>3 DEF Held
<1>5. \A k, l \in 1..(n - i) : k < l <=> f[k] < f[l]
  BY <1>1, <1>2, <1>3
<1>6. ASSUME NEW j \in 1..n, waiting[j] \notin {Gone, waiting[i]}
      PROVE  \E k \in 1..(n - i) : r[k] # Gone /\ f[k] = j
  <2>1. j > i
    BY <1>1, <1>6
  <2>2. j - i \in 1..(n - i) /\ i + (j - i) = j
    BY <1>1, <2>1
  <2>3. f[j - i] = j /\ r[j - i] = waiting[j]
    BY <1>2, <1>3, <2>2
  <2> QED BY <1>6, <2>2, <2>3
<1>7. Taken(r, waiting, waiting[i], f, n - i, n)
  BY <1>4, <1>5, <1>6 DEF Taken
<1>8. Without(r, waiting, waiting[i])
  BY <1>1, <1>2, <1>7, Kept
<1> QED BY <1>8 DEF r, n

(* c's position is given up, together with neighbours that were before.    *)
LEMMA Left ==
    ASSUME waiting \in Seq(Clients \cup {Gone}), Held(waiting), NEW c \in Clients, Leave(c)
    PROVE  c \in Members(waiting) /\ Without(waiting', waiting, c)
<1> DEFINE n == Len(waiting)
<1>1. PICK i \in Positions :
        LET before == IF i > 1 /\ waiting[i - 1] = Gone THEN i - 2 ELSE i - 1
            after  == IF i < Len(waiting) /\ waiting[i + 1] = Gone THEN i + 2 ELSE i + 1
        IN  /\ waiting[i] = c
            /\ waiting' = SubSeq(waiting, 1, before) \o <<Gone>>
                             \o SubSeq(waiting, after, Len(waiting))
  BY DEF Leave
<1> DEFINE a == IF i > 1 /\ waiting[i - 1] = Gone THEN i - 2 ELSE i - 1
           b == IF i < Len(waiting) /\ waiting[i + 1] = Gone THEN i + 2 ELSE i + 1
           r == SubSeq(waiting, 1, a) \o <<Gone>> \o SubSeq(waiting, b, Len(waiting))
           m == IF b <= Len(waiting) THEN Len(waiting) - b + 1 ELSE 0
<1>2. /\ n \in Nat /\ DOMAIN waiting = 1..n /\ i \in 1..n /\ waiting[i] = c /\ c # Gone
      /\ waiting' = r
  BY <1>1, ClientAssumption DEF Positions
<1>3. /\ a \in 0..(i - 1) /\ b \in (i + 1)..(n + 2) /\ a \in 0..n /\ b \in (a + 1)..(n + 2)
      /\ \A j \in (a + 1)..(i - 1) : waiting[j] = Gone
      /\ \A j \in (i + 1)..(b - 1) : j \in 1..n => waiting[j] = Gone
  BY <1>2
<1> HIDE DEF a, b
<1>4. /\ r \in Seq(Clients \cup {Gone}) /\ m \in Nat /\ Len(r) = a + 1 + m
      /\ \A k \in 1..a : r[k] = waiting[k]
      /\ r[a + 1] = Gone
      /\ \A k \in 1..m : b + k - 1 \in 1..n /\ r[a + 1 + k] = waiting[b + k - 1]
  BY <1>3, Cut
<1>5. m = IF b <= n THEN n - b + 1 ELSE 0
  OBVIOUS
<1> HIDE DEF r, m, n
<1> DEFINE l == a + 1 + m
           f == [k \in 1..l |-> IF k <= a THEN k ELSE b + k - a - 2]
<1>6. /\ l \in Nat /\ DOMAIN r = 1..l
      /\ \A k \in 1..l : f[k] = IF k <= a THEN k ELSE b + k - a - 2
  BY <1>2, <1>3, <1>4
<1> HIDE DEF f
<1>7. ASSUME NEW k \in 1..l, r[k] # Gone
      PROVE  f[k] \in 1..n /\ r[k] = waiting[f[k]] /\ f[k] # i
  <2>1. CASE k <= a
    BY <1>2, <1>3, <1>4, <1>6, <2>1
  <2>2. CASE k > a
    <3>1. k # a + 1
      BY <1>4, <1>7
    <3> DEFINE j == k - a - 1
    <3>2. j \in 1..m /\ a + 1 + j = k /\ f[k] = b + j - 1
      BY <1>2, <1>3, <1>4, <1>6, <2>2, <3>1
    <3> HIDE DEF j
    <3>3. f[k] \in 1..n /\ r[k] = waiting[f[k]]
      BY <1>4, <3>2
    <3>4. f[k] # i
      BY <1>2, <1>3, <1>4, <3>2
    <3> QED BY <3>3, <3>4
  <2> QED BY <1>2, <1>3, <1>4, <2>1, <2>2
<1>8. ASSUME NEW k \in 1..l, NEW j \in 1..l, r[k] # Gone, r[j] # Gone
      PROVE  k < j <=> f[k] < f[j]
  <2>1. k \in Int /\ j \in Int /\ a \in Int /\ b \in Int /\ b > a + 1
        /\ k # a + 1 /\ j # a + 1
    BY <1>2, <1>3, <1>4, <1>6, <1>8
  <2>2. f[k] = (IF k <= a THEN k ELSE b + k - a - 2) /\ f[j] = (IF j <= a THEN j ELSE b + j - a - 2)
    BY <1>6
  <2> QED BY <2>1, <2>2
<1>9. ASSUME NEW j \in 1..n, waiting[j] \notin {Gone, c}
      PROVE  \E k \in 1..l : r[k] # Gone /\ f[k] = j
  <2>1. j # i /\ (j <= a \/ j >= b)
    BY <1>2, <1>3, <1>9
  <2>2. CASE j <= a
    <3>1. j \in 1..a /\ j \in 1..l
      BY <1>2, <1>3, <1>4, <2>2
    <3>2. r[j] = waiting[j] /\ f[j] = j
      BY <1>4, <1>6, <3>1, <2>2
    <3> QED BY <1>9, <3>1, <3>2
  <2>3. CASE j >= b
    <3> DEFINE k == j - b + 1
    <3>0. b \in Int /\ j \in Int /\ n \in Int /\ b <= j /\ j <= n
      BY <1>2, <1>3, <2>3
    <3>a. m = n - b + 1
      BY <1>5, <3>0
    <3>b. j - b + 1 \in 1..(n - b + 1) /\ b + (j - b + 1) - 1 = j
      BY <3>0
    <3>1. k \in 1..m /\ b + k - 1 = j
      BY <3>a, <3>b
    <3> HIDE DEF k
    <3>2. r[a + 1 + k] = waiting[j]
      BY <1>4, <3>1
    <3>3. a + 1 + k \in 1..l /\ ~(a + 1 + k <= a) /\ b + (a + 1 + k) - a - 2 = j
      BY <1>2, <1>3, <1>4, <3>1
    <3>4. f[a + 1 + k] = j
      BY <1>6, <3>3
    <3> QED BY <1>9, <3>2, <3>3, <3>4
  <2> QED BY <2>1, <2>2, <2>3
<1>10. \A k \in 1..l : r[k] # Gone => r[k] # c
  BY <1>2, <1>7 DEF Held
<1>11. Taken(r, waiting, c, f, l, n)
  BY <1>7, <1>8, <1>9, <1>10 DEF Taken
<1> HIDE DEF l
<1>12. Without(r, waiting, c)
  BY <1>2, <1>6, <1>11, Kept
<1> QED BY <1>2, <1>12 DEF Members

(* A client that comes stands behind everyone who waits. *)
LEMMA Joined ==
    ASSUME waiting \in Seq(Clients \cup {Gone}), NEW c \in Clients, waiting' = Append(waiting, c),
           c \notin Members(waiting)
    PROVE  /\ Members(waiting') = Members(waiting) \cup {c}
           /\ Order(waiting') = Order(waiting) \cup (Members(waiting) \X {c})
<1> DEFINE n == Len(waiting)
           r == Append(waiting, c)
<1>1. /\ n \in Nat /\ DOMAIN waiting = 1..n /\ DOMAIN r = 1..(n + 1)
      /\ \A k \in 1..n : r[k] = waiting[k]
      /\ r[n + 1] = c
  OBVIOUS
<1> HIDE DEF n, r
<1>2. Members(r) = Members(waiting) \cup {c}
  BY <1>1 DEF Members
<1>3. ASSUME NEW p \in Order(r)
      PROVE  p \in Order(waiting) \cup (Members(waiting) \X {c})
  <2>1. PICK i \in 1..(n + 1), j \in 1..(n + 1) : i < j /\ r[i] = p[1] /\ r[j] = p[2]
    BY <1>1, <1>3 DEF Order
  <2>2. p \in Clients \X Clients /\ p = <<p[1], p[2]>> /\ p[1] \in Clients /\ p[2] \in Clients
    BY <1>3 DEF Order
  <2>3. i \in 1..n /\ waiting[i] = p[1] /\ p[1] \in Members(waiting)
    BY <1>1, <2>1, <2>2 DEF Members
  <2>4. CASE j = n + 1
    BY <1>1, <2>1, <2>2, <2>3, <2>4
  <2>5. CASE j \in 1..n
    BY <1>1, <2>1, <2>2, <2>3, <2>5 DEF Order
  <2> QED BY <1>1, <2>4, <2>5
<1>4. ASSUME NEW p \in Order(waiting) \cup (Members(waiting) \X {c})
      PROVE  p \in Order(r)
  <2>1. CASE p \in Order(waiting)
    <3>1. PICK i \in 1..n, j \in 1..n : i < j /\ waiting[i] = p[1] /\ waiting[j] = p[2]
      BY <1>1, <2>1 DEF Order
    <3>2. i \in 1..(n + 1) /\ j \in 1..(n + 1) /\ r[i] = p[1] /\ r[j] = p[2]
      BY <1>1, <3>1
    <3> QED BY <1>1, <2>1, <3>1, <3>2 DEF Order
  <2>2. CASE p \in Members(waiting) \X {c}
    <3>1. p[1] \in Members(waiting) /\ p[2] = c /\ p \in Clients \X Clients
      BY <2>2 DEF Members
    <3>2. PICK i \in 1..n : waiting[i] = p[1]
      BY <1>1, <3>1 DEF Members
    <3>3. i < n + 1 /\ i \in 1..(n + 1) /\ n + 1 \in 1..(n + 1) /\ r[i] = p[1] /\ r[n + 1] = p[2]
      BY <1>1, <3>1, <3>2
    <3> QED BY <1>1, <3>1, <3>3 DEF Order
  <2> QED BY <2>1, <2>2
<1>5. waiting' = r
  BY DEF r
<1> QED BY <1>2, <1>3, <1>4, <1>5

-----------------------------------------------------------------------------
(* Every step of the pool is a step of the promise, or none.               *)

(* What the queue says of a client that is out, or in it. *)
LEMMA OutOfLine ==
    ASSUME PInv, NEW c \in Clients, pc[c] \in {"out", "using"}
    PROVE  c \notin Members(waiting)
<1> SUFFICES ASSUME NEW i \in DOMAIN waiting, waiting[i] = c PROVE FALSE
  BY DEF Members
<1> QED BY ClientAssumption DEF PInv, LendingSound, Queue, Positions

(* What nobody uses is lent to nobody. *)
LEMMA NotLent ==
    ASSUME PInv, NEW x \in Conns, conn[x].at # "out"
    PROVE  Promise!Unlent(x)
BY DEF PInv, LendingSound, NoneLostNoneShared, At, Promise!Unlent

(* The first who waits is the first in the line, and leaves it. *)
LEMMA FirstInLine ==
    ASSUME PInv, NEW i \in FirstLive
    PROVE  waiting[i] \in Clients /\ Promise!First(waiting[i])
<1>1. /\ waiting \in Seq(Clients \cup {Gone}) /\ Held(waiting)
      /\ DOMAIN waiting = 1..Len(waiting) /\ Len(waiting) \in Nat /\ i \in DOMAIN waiting
      /\ waiting[i] \in Clients
      /\ \A j \in 1..(i - 1) : waiting[j] = Gone
  BY DEF PInv, LendingSound, Queue, Held, FirstLive, Positions
<1>2. waiting[i] \in Members(waiting)
  BY <1>1 DEF Members
<1>3. ASSUME NEW d \in Clients, <<d, waiting[i]>> \in Order(waiting)
      PROVE  FALSE
  <2>1. PICK j \in DOMAIN waiting, k \in DOMAIN waiting :
           j < k /\ waiting[j] = d /\ waiting[k] = waiting[i]
    BY <1>3 DEF Order
  <2>2. k = i
    BY <1>1, <2>1, ClientAssumption DEF Held
  <2>3. j \in 1..(i - 1)
    BY <1>1, <2>1, <2>2
  <2> QED BY <1>1, <2>1, <2>3, ClientAssumption
<1> QED BY <1>1, <1>2, <1>3, LineIs DEF Promise!First, Members

LEMMA FirstLeaves ==
    ASSUME PInv, NEW i \in FirstLive, waiting' = SubSeq(waiting, i + 1, Len(waiting))
    PROVE  Promise!Leave(waiting[i])
<1>1. waiting \in Seq(Clients \cup {Gone}) /\ Held(waiting)
  BY DEF PInv, LendingSound, Queue, Held, Positions
<1>2. Without(waiting', waiting, waiting[i])
  BY <1>1, CutBehind
<1> QED BY <1>2, LineIs, NextLineIs DEF Promise!Leave, Without

-----------------------------------------------------------------------------
LEMMA GetConnMaps == ASSUME PInv, NEW c \in Clients, GetConn(c) PROVE Promise!Next
<1>1. /\ pc[c] = "out" /\ hand[c] = {} /\ c \notin InLine
  BY OutOfLine, LineIs DEF GetConn, PInv, LendingSound, NoneLostNoneShared
<1>2. Promise!Idle(c)
  BY <1>1 DEF Promise!Idle
<1>3. ASSUME NEW x \in At("idle"), hand' = [hand EXCEPT ![c] = {x}], UNCHANGED waiting
      PROVE  Promise!LendAtOnce(c, x)
  <2>1. x \in Conns /\ conn[x].at = "idle" /\ Promise!Unlent(x)
    BY NotLent DEF At
  <2>2. InLine = {}
    BY ClientAssumption DEF PInv, LendingSound, NoIdleWhileWaiting, InLine
  <2>3. InLine' = InLine /\ Earlier' = Earlier
    BY <1>3, LineIs, NextLineIs
  <2> QED BY <1>2, <1>3, <2>1, <2>2, <2>3 DEF Promise!LendAtOnce
<1>4. ASSUME waiting' = Append(waiting, c), UNCHANGED hand
      PROVE  Promise!Ask(c)
  <2>1. waiting \in Seq(Clients \cup {Gone})
    BY DEF PInv, LendingSound
  <2>2. /\ InLine' = InLine \cup {c}
        /\ Earlier' = Earlier \cup (InLine \X {c})
    BY <1>1, <1>4, <2>1, Joined, LineIs, NextLineIs
  <2> QED BY <1>2, <1>4, <2>2 DEF Promise!Ask
<1>5. CASE \E x \in At("idle") :
              hand' = [hand EXCEPT ![c] = {x}] /\ UNCHANGED waiting
  BY <1>3, <1>5 DEF Promise!Next, At
<1>6. CASE waiting' = Append(waiting, c) /\ UNCHANGED hand
  BY <1>4, <1>6 DEF Promise!Next
<1> QED BY <1>5, <1>6 DEF GetConn

LEMMA WakeUpMaps ==
    ASSUME PInv, NEW c \in Clients, WakeUp(c)
    PROVE  Promise!Next \/ UNCHANGED <<waiting, hand>>
<1>1. CASE hand[c] # {}
  BY <1>1 DEF WakeUp
<1>2. CASE hand[c] = {}
  <2>1. Leave(c) /\ hand' = hand
    BY <1>2 DEF WakeUp
  <2>2. waiting \in Seq(Clients \cup {Gone}) /\ Held(waiting)
    BY DEF PInv, LendingSound, Queue, Held, Positions
  <2>3. c \in Members(waiting) /\ Without(waiting', waiting, c)
    BY <2>1, <2>2, Left
  <2>4. Promise!GiveUp(c)
    BY <2>1, <2>3, LineIs, NextLineIs DEF Promise!GiveUp, Promise!Leave, Without
  <2> QED BY <2>4 DEF Promise!Next
<1> QED BY <1>1, <1>2

(* _add_to_pool() with a connection that nobody holds any more.            *)
LEMMA PutConnMaps == ASSUME PInv, NEW c \in Clients, PutConn(c) PROVE Promise!Next
<1> DEFINE H == [hand EXCEPT ![c] = {}]
<1>1. PICK x \in hand[c] :
         \/ hand' = H /\ UNCHANGED waiting
         \/ AddToPool(x, conn, H)
  BY DEF PutConn
<1>2. /\ hand[c] = {x} /\ hand \in [Clients -> SUBSET Conns]
  BY Holds DEF PInv, LendingSound
<1>3. CASE hand' = H /\ UNCHANGED waiting
  <2>1. InLine' = InLine /\ Earlier' = Earlier
    BY <1>3, LineIs, NextLineIs
  <2>2. Promise!Return(c)
    BY <1>2, <1>3, <2>1 DEF Promise!Return
  <2> QED BY <2>2 DEF Promise!Next
<1>4. ASSUME NEW i \in FirstLive, hand' = [H EXCEPT ![waiting[i]] = {x}],
             waiting' = SubSeq(waiting, i + 1, Len(waiting))
      PROVE  Promise!Next
  <2> DEFINE d == waiting[i]
  <2>1. d \in Clients /\ Promise!First(d) /\ Promise!Leave(d)
    BY <1>4, FirstInLine, FirstLeaves
  <2> HIDE DEF d
  <2>2. hand' = [hand EXCEPT ![c] = {}, ![d] = hand[c]]
    BY <1>2, <1>4 DEF d
  <2>3. Promise!PassOn(c, d)
    BY <1>2, <2>1, <2>2 DEF Promise!PassOn
  <2> QED BY <2>1, <2>3 DEF Promise!Next
<1>5. CASE FirstLive = {} /\ hand' = H /\ waiting' = <<>>
  <2>1. Members(waiting) = {} /\ Order(waiting) = {}
    BY <1>5, NobodyFirst DEF PInv, LendingSound
  <2>2. Members(waiting') = {} /\ Order(waiting') = {}
    BY <1>5 DEF Members, Order
  <2>3. InLine' = InLine /\ Earlier' = Earlier
    BY <2>1, <2>2, LineIs, NextLineIs
  <2>4. Promise!Return(c)
    BY <1>2, <1>5, <2>3 DEF Promise!Return
  <2> QED BY <2>4 DEF Promise!Next
<1> QED BY <1>1, <1>3, <1>4, <1>5 DEF AddToPool

LEMMA ArriveMaps ==
    ASSUME PInv, NEW x \in Conns, Arrive(x)
    PROVE  [Promise!Next]_(Promise!vars)
<1>1. conn[x].at = "arriving"
      /\ \E places : AddToPool(x, places, hand)
  BY DEF Arrive
<1>2. ASSUME NEW i \in FirstLive, hand' = [hand EXCEPT ![waiting[i]] = {x}],
             waiting' = SubSeq(waiting, i + 1, Len(waiting))
      PROVE  Promise!Next
  <2>1. waiting[i] \in Clients /\ Promise!First(waiting[i]) /\ Promise!Leave(waiting[i])
    BY <1>2, FirstInLine, FirstLeaves
  <2>2. Promise!LendToFirst(waiting[i], x)
    BY <1>1, <1>2, <2>1, NotLent DEF Promise!LendToFirst
  <2> QED BY <2>1, <2>2 DEF Promise!Next
<1>3. CASE FirstLive = {} /\ hand' = hand /\ waiting' = <<>>
  <2>1. Members(waiting) = {} /\ Order(waiting) = {}
    BY <1>3, NobodyFirst DEF PInv, LendingSound
  <2>2. Members(waiting') = {} /\ Order(waiting') = {}
    BY <1>3 DEF Members, Order
  <2>3. InLine' = InLine /\ Earlier' = Earlier
    BY <2>1, <2>2, LineIs, NextLineIs
  <2> QED BY <1>3, <2>3 DEF Promise!vars
<1> QED BY <1>1, <1>2, <1>3 DEF AddToPool

(* Where neither the queue nor a hand changes, the promise does not.       *)
LEMMA Stutters ==
    ASSUME UNCHANGED <<waiting, hand>>
    PROVE  UNCHANGED Promise!vars
<1>1. InLine' = InLine /\ Earlier' = Earlier
  BY LineIs, NextLineIs
<1> QED BY <1>1 DEF Promise!vars

LEMMA StepMaps == PInv /\ [Next]_vars => [Promise!Next]_(Promise!vars)
<1> SUFFICES ASSUME PInv, [Next]_vars PROVE [Promise!Next]_(Promise!vars)
  OBVIOUS
<1>1. ASSUME NEW c \in Clients, GetConn(c) \/ ClientStep(c)
      PROVE  [Promise!Next]_(Promise!vars)
  <2>1. CASE GetConn(c) \/ PutConn(c)
    BY <2>1, GetConnMaps, PutConnMaps
  <2>2. CASE WakeUp(c)
    BY <2>2, WakeUpMaps, Stutters
  <2>3. CASE Receive(c) \/ TimeOut(c) \/ Work(c)
    BY <2>3, Stutters DEF Receive, TimeOut, Work
  <2> QED BY <1>1, <2>1, <2>2, <2>3 DEF ClientStep
<1>2. ASSUME NEW x \in Conns, WorkerStep(x)
      PROVE  [Promise!Next]_(Promise!vars)
  <2>1. CASE Arrive(x)
    BY <2>1, ArriveMaps
  <2>2. CASE Connect(x) \/ ScheduleAgain(x) \/ GiveUpConnecting(x)
    BY <2>2, Stutters DEF Connect, ScheduleAgain, GiveUpConnecting
  <2> QED BY <1>2, <2>1, <2>2 DEF WorkerStep
<1>3. CASE KeepGrowing \/ Shrink \/ GoDown \/ ComeUp
  BY <1>3, Stutters DEF KeepGrowing, Shrink, GoDown, ComeUp
<1>4. CASE UNCHANGED vars
  BY <1>4, Stutters DEF vars
<1> QED BY <1>1, <1>2, <1>3, <1>4 DEF Next

LEMMA InitMaps == Init => Promise!Init
<1> SUFFICES ASSUME Init PROVE Promise!Init
  OBVIOUS
<1>1. waiting = <<>> /\ hand = [c \in Clients |-> {}]
  BY DEF Init
<1>2. InLine = {} /\ Earlier = {}
  BY <1>1, LineIs DEF Members, Order
<1> QED BY <1>1, <1>2 DEF Promise!Init

(* getconn(), its queue and timeouts, putconn() and the workers lend each  *)
(* connection to one client at a time, in the order in which they came.    *)
THEOREM Refinement == Spec => KeepsPromise
<1>1. Init => Promise!Init
  BY InitMaps
<1>2. PInv /\ [Next]_vars => [Promise!Next]_(Promise!vars)
  BY StepMaps
<1> QED BY <1>1, <1>2, Soundness, PTL DEF Spec, KeepsPromise, Promise!Spec
=============================================================================
