------------------------- MODULE DrivingRulesProofs -------------------------
(***************************************************************************)
(* What the rules of DrivingRules report, for every set of activities.     *)
(*                                                                         *)
(* SUM is a fold over a set in the order of CHOOSE. That it is a sum at    *)
(* all, of any member and the others (SumMember), and grows with the set   *)
(* (SecondsGrow), is shown by looking at a smallest subset for which it    *)
(* would not hold (Smallest). The lemmas about sums know nothing of        *)
(* driving; the summaries of ComplianceReadsProofs use them too            *)
(* (SumOfCounts, for GROUP BY with COUNT). That the rules grow with the    *)
(* set of activities (RulesGrow) follows for the rules that group by the   *)
(* calendar; for continuous driving it takes that a new activity in a gap  *)
(* can only join spans (SpansGrow).                                        *)
(***************************************************************************)
EXTENDS DrivingRules, FiniteSetTheorems, WellFoundedInduction, TLAPS

(* Of the subsets of a finite set, some have a smallest one. *)
LEMMA Smallest ==
    ASSUME NEW S, IsFiniteSet(S), NEW Bad, Bad \subseteq SUBSET S, Bad # {}
    PROVE  \E X \in Bad : \A Y \in Bad : Y \subseteq X => Y = X
<1> DEFINE R == StrictSubsetOrdering(S)
<1>1. IsWellFoundedOn(R, SUBSET S)
  BY FS_StrictSubsetOrderingWellFounded, FS_FiniteSubsetsOfFinite
<1>2. PICK X \in Bad : \A Y \in Bad : ~(<<Y, X>> \in R)
  <2> HIDE DEF R
  <2> QED BY <1>1, WFMin
<1>3. ASSUME NEW Y \in Bad, Y \subseteq X, Y # X PROVE FALSE
  BY <1>2, <1>3 DEF StrictSubsetOrdering
<1> QED BY <1>3

-----------------------------------------------------------------------------
(* Sums: w gives each member its weight.                                   *)

Pick(T) == CHOOSE x \in T : TRUE

(* f is the sum for S and all its subsets. *)
SumOf(w, f, S) ==
    f = [T \in SUBSET S |-> IF T = {} THEN 0 ELSE w[Pick(T)] + f[T \ {Pick(T)}]]

(* The fold begins with a member. *)
LEMMA PickIs == ASSUME NEW T, T # {} PROVE Pick(T) \in T
BY DEF Pick

(* What f is at each subset. *)
LEMMA SumIs ==
    ASSUME NEW w, NEW S, NEW f, SumOf(w, f, S), NEW T \in SUBSET S
    PROVE  f[T] = IF T = {} THEN 0 ELSE w[Pick(T)] + f[T \ {Pick(T)}]
BY DEF SumOf

(* A finite set has one sum at most. *)
LEMMA SumUnique ==
    ASSUME NEW w, NEW S, IsFiniteSet(S), NEW f, NEW g, SumOf(w, f, S), SumOf(w, g, S)
    PROVE  f = g
<1> DEFINE Bad == {T \in SUBSET S : f[T] # g[T]}
<1>1. Bad = {}
  <2> SUFFICES ASSUME Bad # {} PROVE FALSE
    OBVIOUS
  <2>1. PICK X \in Bad : \A Y \in Bad : Y \subseteq X => Y = X
    <3> HIDE DEF Bad
    <3>1. Bad \subseteq SUBSET S  BY DEF Bad
    <3> QED BY <3>1, Smallest
  <2>2. X # {}
    <3>1. f[{}] = 0 /\ g[{}] = 0  BY SumIs
    <3> QED BY <3>1
  <2>3. Pick(X) \in X  BY <2>2, PickIs
  <2>4. f[X \ {Pick(X)}] = g[X \ {Pick(X)}]  BY <2>1, <2>3
  <2> QED BY <2>2, <2>4, SumIs
<1>2. /\ f = [T \in SUBSET S |-> f[T]] /\ g = [T \in SUBSET S |-> g[T]]
  BY DEF SumOf
<1> QED BY <1>1, <1>2

(* A sum for a set is one for each of its subsets. *)
LEMMA SumOfPart ==
    ASSUME NEW w, NEW S, NEW f, SumOf(w, f, S), NEW R \in SUBSET S
    PROVE  SumOf(w, [T \in SUBSET R |-> f[T]], R)
<1> DEFINE g == [T \in SUBSET R |-> f[T]]
<1>1. ASSUME NEW T \in SUBSET R
      PROVE  f[T] = IF T = {} THEN 0 ELSE w[Pick(T)] + g[T \ {Pick(T)}]
  <2>1. T \in SUBSET S /\ T \ {Pick(T)} \in SUBSET R  OBVIOUS
  <2>2. g[T \ {Pick(T)}] = f[T \ {Pick(T)}]  BY <2>1
  <2> QED BY <2>1, <2>2, SumIs
<1> QED BY <1>1 DEF SumOf

(* ... and it has one: that of all but the first member, and the first. *)
LEMMA SumExists ==
    ASSUME NEW w, NEW S, IsFiniteSet(S)
    PROVE  \E f : SumOf(w, f, S)
<1> DEFINE Bad == {T \in SUBSET S : ~\E f : SumOf(w, f, T)}
<1> SUFFICES ASSUME Bad # {} PROVE FALSE
  <2>1. S \in Bad \/ \E f : SumOf(w, f, S)  OBVIOUS
  <2> QED BY <2>1
<1>1. PICK X \in Bad : \A Y \in Bad : Y \subseteq X => Y = X
  <2> HIDE DEF Bad
  <2>1. Bad \subseteq SUBSET S  BY DEF Bad
  <2> QED BY <2>1, Smallest
<1>2. X \subseteq S /\ ~\E f : SumOf(w, f, X)  OBVIOUS
<1>3. ASSUME NEW Y \in SUBSET X, Y # X PROVE \E f : SumOf(w, f, Y)
  BY <1>1, <1>2, <1>3
<1> HIDE DEF Bad
<1> DEFINE of(Y) == CHOOSE f : SumOf(w, f, Y)
           val(Y) == of(Y)[Y]
           h == [T \in SUBSET X |-> IF T = {} THEN 0 ELSE w[Pick(T)] + val(T \ {Pick(T)})]
<1>4. ASSUME NEW Y \in SUBSET X, Y # X PROVE SumOf(w, of(Y), Y)
  BY <1>3, <1>4
<1>5. ASSUME NEW Y \in SUBSET X, Y # X PROVE val(Y) = h[Y]
  <2>1. SumOf(w, of(Y), Y)  BY <1>4, <1>5
  <2>2. CASE Y = {}
    <3>1. val(Y) = 0  BY <2>1, <2>2, SumIs
    <3> QED BY <2>2, <3>1
  <2>3. CASE Y # {}
    <3> DEFINE Z == Y \ {Pick(Y)}
               g == [T \in SUBSET Z |-> of(Y)[T]]
    <3>1. Pick(Y) \in Y /\ Z \subseteq Y /\ Z \in SUBSET X /\ Z # X  BY <1>5, <2>3, PickIs
    <3>2. IsFiniteSet(Z)  BY <1>2, <3>1, FS_Subset
    <3>3. SumOf(w, of(Z), Z)  BY <1>4, <3>1
    <3>4. SumOf(w, g, Z)  BY <2>1, <3>1, SumOfPart
    <3>5. g = of(Z)
      <4> HIDE DEF g, Z, of
      <4> QED BY <3>2, <3>3, <3>4, SumUnique
    <3>6. of(Y)[Z] = val(Z)
      <4>1. g[Z] = of(Y)[Z]  OBVIOUS
      <4> HIDE DEF g, Z, of
      <4> QED BY <3>5, <4>1
    <3>7. of(Y)[Y] = w[Pick(Y)] + of(Y)[Z]
      <4> HIDE DEF of
      <4> QED BY <2>1, <2>3, SumIs
    <3> HIDE DEF of
    <3> QED BY <2>3, <3>6, <3>7
  <2> QED BY <2>2, <2>3
<1>6. SumOf(w, h, X)
  <2>1. ASSUME NEW T \in SUBSET X, T # {} PROVE val(T \ {Pick(T)}) = h[T \ {Pick(T)}]
    <3>1. T \ {Pick(T)} # X /\ T \ {Pick(T)} \in SUBSET X  BY <2>1, PickIs
    <3> HIDE DEF h, val
    <3> QED BY <1>5, <3>1
  <2> HIDE DEF val
  <2>2. h = [T \in SUBSET X |-> IF T = {} THEN 0 ELSE w[Pick(T)] + h[T \ {Pick(T)}]]
    BY <2>1
  <2> HIDE DEF h
  <2> QED BY <2>2 DEF SumOf
<1> QED BY <1>2, <1>6

Sum(w, S) == (CHOOSE f : SumOf(w, f, S))[S]

(* A sum, one member at a time. *)
LEMMA SumStep ==
    ASSUME NEW w, NEW S, IsFiniteSet(S)
    PROVE  Sum(w, S) = IF S = {} THEN 0 ELSE w[Pick(S)] + Sum(w, S \ {Pick(S)})
<1> DEFINE f == CHOOSE g : SumOf(w, g, S)
<1>1. SumOf(w, f, S)  BY SumExists
<1>2. Sum(w, S) = f[S]  BY DEF Sum
<1>3. CASE S = {}
  <2> HIDE DEF f
  <2> QED BY <1>1, <1>2, <1>3, SumIs
<1>4. CASE S # {}
  <2> DEFINE R == S \ {Pick(S)}
             g == [T \in SUBSET R |-> f[T]]
  <2>1. R \in SUBSET S /\ IsFiniteSet(R)  BY FS_Subset
  <2>2. SumOf(w, g, R) /\ g[R] = f[R]
    <3> HIDE DEF f
    <3>1. SumOf(w, g, R)  BY <1>1, <2>1, SumOfPart
    <3> QED BY <3>1
  <2>3. Sum(w, R) = g[R]
    <3> DEFINE h == CHOOSE k : SumOf(w, k, R)
    <3>1. SumOf(w, h, R)  BY <2>1, SumExists
    <3>2. Sum(w, R) = h[R]  BY DEF Sum
    <3> HIDE DEF g, h, R
    <3>3. g = h  BY <2>1, <2>2, <3>1, SumUnique
    <3> QED BY <3>2, <3>3
  <2>4. f[S] = w[Pick(S)] + f[R]
    <3> HIDE DEF f
    <3> QED BY <1>1, <1>4, SumIs
  <2> HIDE DEF f, g, R
  <2>5. Sum(w, S) = w[Pick(S)] + Sum(w, R)  BY <1>2, <2>2, <2>3, <2>4
  <2> QED BY <1>4, <2>5 DEF R
<1> QED BY <1>3, <1>4

(* What the sum is, whichever member is taken first. *)
LEMMA SumMember ==
    ASSUME NEW S, IsFiniteSet(S), NEW w, \A x \in S : w[x] \in Int
    PROVE  /\ Sum(w, S) \in Int
           /\ \A x \in S : Sum(w, S) = w[x] + Sum(w, S \ {x})
<1> DEFINE Good(T) == /\ Sum(w, T) \in Int
                      /\ \A x \in T : Sum(w, T) = w[x] + Sum(w, T \ {x})
           Bad == {T \in SUBSET S : ~Good(T)}
<1> SUFFICES ASSUME Bad # {} PROVE FALSE
  <2>1. S \in Bad \/ Good(S)
    <3> HIDE DEF Good
    <3> QED OBVIOUS
  <2> QED BY <2>1
<1>1. PICK X \in Bad : \A Y \in Bad : Y \subseteq X => Y = X
  <2> HIDE DEF Bad
  <2>1. Bad \subseteq SUBSET S /\ IsFiniteSet(S)  BY DEF Bad
  <2> QED BY <2>1, Smallest
<1>2. X \subseteq S /\ ~Good(X) /\ IsFiniteSet(X)  BY FS_Subset
<1>3. ASSUME NEW x \in X PROVE Good(X \ {x})
  <2> HIDE DEF Good
  <2> QED BY <1>1, <1>2, <1>3
<1>4. \A x \in X : w[x] \in Int  BY <1>2
<1>5. X # {}
  <2>1. CASE X = {}
    <3>1. Sum(w, X) = 0  BY <1>2, <2>1, SumStep
    <3> QED BY <1>2, <2>1, <3>1
  <2> QED BY <2>1
<1> DEFINE p == Pick(X)
<1>6. p \in X /\ Sum(w, X) = w[p] + Sum(w, X \ {p})
  BY <1>2, <1>5, PickIs, SumStep
<1> HIDE DEF p
<1>7. Sum(w, X) \in Int  BY <1>3, <1>4, <1>6
<1>8. ASSUME NEW x \in X PROVE Sum(w, X) = w[x] + Sum(w, X \ {x})
  <2>1. CASE x = p  BY <1>6, <2>1
  <2>2. CASE x # p
    <3> DEFINE b == Sum(w, (X \ {p}) \ {x})
    <3>1. /\ Sum(w, X \ {p}) = w[x] + Sum(w, (X \ {p}) \ {x})
          /\ Sum(w, X \ {p}) \in Int
      BY <1>3, <1>6, <2>2
    <3>2. /\ Sum(w, X \ {x}) = w[p] + Sum(w, (X \ {x}) \ {p})
          /\ Sum(w, X \ {x}) \in Int
      BY <1>3, <1>6, <2>2
    <3>3. (X \ {x}) \ {p} = (X \ {p}) \ {x}  OBVIOUS
    <3>4. Sum(w, (X \ {p}) \ {x}) \in Int
      <4>1. Good((X \ {p}) \ {x})
        <5>1. (X \ {p}) \ {x} \subseteq X /\ (X \ {p}) \ {x} # X  BY <1>6
        <5> HIDE DEF Good
        <5> QED BY <1>1, <1>2, <5>1
      <4> QED BY <4>1
    <3>5. Sum(w, X \ {p}) = w[x] + b /\ Sum(w, X \ {x}) = w[p] + b
      BY <3>1, <3>2, <3>3
    <3>6. b \in Int  BY <3>4
    <3> HIDE DEF b
    <3> QED BY <1>4, <1>6, <3>5, <3>6
  <2> QED BY <2>1, <2>2
<1> QED BY <1>2, <1>7, <1>8

(* Whatever function sums w over S has its sum. *)
LEMMA SumGiven ==
    ASSUME NEW w, NEW S, IsFiniteSet(S), NEW g, SumOf(w, g, S)
    PROVE  g[S] = Sum(w, S)
<1>1. SumOf(w, CHOOSE f : SumOf(w, f, S), S)  OBVIOUS
<1>2. g = CHOOSE f : SumOf(w, f, S)  BY <1>1, SumUnique
<1> QED BY <1>2 DEF Sum

(* How many members of V have the key d. *)
CountOf(V, k, d) == Cardinality({v \in V : k[v] = d})

(* The members of V, counted by their keys. *)
LEMMA SumOfCounts ==
    ASSUME NEW V, IsFiniteSet(V), NEW D, IsFiniteSet(D), NEW k, NEW w,
           \A v \in V : k[v] \in D,
           \A d \in D : w[d] = CountOf(V, k, d)
    PROVE  Sum(w, D) = Cardinality(V)
<1> DEFINE of(X) == {v \in V : k[v] \in X}
           Bad == {X \in SUBSET D : Sum(w, X) # Cardinality(of(X))}
<1>1. of(D) = V  OBVIOUS
<1> SUFFICES ASSUME Bad # {} PROVE FALSE
  <2> HIDE DEF of
  <2> QED BY <1>1
<1>2. PICK X \in Bad : \A Y \in Bad : Y \subseteq X => Y = X
  <2>1. Bad \subseteq SUBSET D  OBVIOUS
  <2> HIDE DEF Bad
  <2> QED BY <2>1, Smallest
<1>3. X \in SUBSET D /\ IsFiniteSet(X) /\ Sum(w, X) # Cardinality(of(X))
  BY FS_Subset
<1>4. CASE X = {}
  <2>1. of(X) = {}  BY <1>4
  <2> HIDE DEF of
  <2> QED BY <1>3, <1>4, <2>1, SumStep, FS_EmptySet
<1>5. CASE X # {}
  <2> DEFINE p == Pick(X)
             these == {v \in V : k[v] = p}
  <2>1. p \in X /\ Sum(w, X) = w[p] + Sum(w, X \ {p})
    BY <1>3, <1>5, PickIs, SumStep
  <2> HIDE DEF p
  <2>2. Sum(w, X \ {p}) = Cardinality(of(X \ {p}))
    <3>1. X \ {p} \in SUBSET D /\ X \ {p} # X /\ X \ {p} \subseteq X  BY <1>3, <2>1
    <3> HIDE DEF of
    <3> QED BY <1>2, <3>1
  <2>3. of(X) = these \cup of(X \ {p}) /\ these \cap of(X \ {p}) = {}
    BY <2>1
  <2>4. IsFiniteSet(these) /\ IsFiniteSet(of(X \ {p}))  BY FS_Subset
  <2>5. w[p] = Cardinality(these)  BY <1>3, <2>1 DEF CountOf
  <2> HIDE DEF of, these
  <2> DEFINE rest == of(X \ {p})
  <2> HIDE DEF rest
  <2>6. Cardinality(these \cup rest) = Cardinality(these) + Cardinality(rest) - Cardinality({})
    BY <2>3, <2>4, FS_Union DEF rest
  <2>7. Cardinality(these) \in Nat /\ Cardinality(rest) \in Nat
    BY <2>4, FS_CardinalityType DEF rest
  <2>8. Cardinality(these \cup rest) = Cardinality(these) + Cardinality(rest)
    BY <2>6, <2>7, FS_EmptySet
  <2> QED BY <1>3, <2>1, <2>2, <2>3, <2>5, <2>8 DEF rest
<1> QED BY <1>4, <1>5

-----------------------------------------------------------------------------
(* The sum of durations.                                                   *)

Duration(x) == x.ended - x.started

Durations(S) == [x \in S |-> Duration(x)]

(* Activities as fms.activity_records has them (chk_time_order). *)
Logged(S) ==
    /\ IsFiniteSet(S)
    /\ \A x \in S : x.started \in Int /\ x.ended \in Int /\ x.started < x.ended

(* Part of what is logged is logged. *)
LEMMA LoggedPart ==
    ASSUME NEW S, Logged(S), NEW T \in SUBSET S
    PROVE  Logged(T)
BY FS_Subset DEF Logged

(* Seconds is the sum of the durations. *)
LEMMA SecondsAre ==
    ASSUME NEW S, IsFiniteSet(S), NEW T \in SUBSET S
    PROVE  Seconds(T) = Sum(Durations(S), T)
<1> DEFINE w == Durations(S)
           Is(f) == f = [X \in SUBSET T |->
                           IF X = {} THEN 0 ELSE Duration(Pick(X)) + f[X \ {Pick(X)}]]
<1>1. \A X \in SUBSET T : X # {} => w[Pick(X)] = Duration(Pick(X))
  BY PickIs DEF Durations
<1>2. ASSUME NEW f PROVE SumOf(w, f, T) <=> Is(f)
  <2> HIDE DEF w
  <2>1. [X \in SUBSET T |-> IF X = {} THEN 0 ELSE w[Pick(X)] + f[X \ {Pick(X)}]]
        = [X \in SUBSET T |-> IF X = {} THEN 0 ELSE Duration(Pick(X)) + f[X \ {Pick(X)}]]
    BY <1>1
  <2> QED BY <2>1 DEF SumOf
<1>3. Seconds(T) = (CHOOSE f : Is(f))[T]
  BY DEF Seconds, MapThenSumSet, MapThenFoldSet, Duration, Pick
<1> HIDE DEF w, Is
<1>4. IsFiniteSet(T)  BY FS_Subset
<1>5. PICK f : SumOf(w, f, T)  BY <1>4, SumExists
<1>6. Is(CHOOSE g : Is(g))  BY <1>2, <1>5
<1>7. SumOf(w, CHOOSE g : Is(g), T)  BY <1>2, <1>6
<1>8. (CHOOSE g : Is(g))[T] = Sum(w, T)  BY <1>4, <1>7, SumGiven
<1> QED BY <1>3, <1>8 DEF w

(* What it is, whichever activity is taken first. *)
LEMMA SecondsOf ==
    ASSUME NEW S, Logged(S)
    PROVE  /\ Seconds(S) \in Int
           /\ \A x \in S : Seconds(S) = Duration(x) + Seconds(S \ {x})
<1>1. IsFiniteSet(S) /\ \A x \in S : Durations(S)[x] \in Int /\ Durations(S)[x] = Duration(x)
  BY DEF Logged, Durations, Duration
<1>2. /\ Seconds(S) = Sum(Durations(S), S)
      /\ \A x \in S : Seconds(S \ {x}) = Sum(Durations(S), S \ {x})
  BY <1>1, SecondsAre
<1> QED BY <1>1, <1>2, SumMember

(* Of nothing it is 0. *)
LEMMA NoSeconds == Seconds({}) = 0
<1>1. Seconds({}) = Sum(Durations({}), {})  BY SecondsAre, FS_EmptySet
<1> QED BY <1>1, SumStep, FS_EmptySet

(* More activities take no less time. *)
LEMMA SecondsGrow ==
    ASSUME NEW T, Logged(T), NEW S \in SUBSET T
    PROVE  Seconds(S) \in Nat /\ Seconds(T) \in Nat /\ Seconds(S) <= Seconds(T)
<1> DEFINE Good(X) == \A Y \in SUBSET X : 0 <= Seconds(Y) /\ Seconds(Y) <= Seconds(X)
           Bad == {X \in SUBSET T : ~Good(X)}
<1>1. Bad = {}
  <2> SUFFICES ASSUME Bad # {} PROVE FALSE
    OBVIOUS
  <2>1. PICK X \in Bad : \A Y \in Bad : Y \subseteq X => Y = X
    <3> HIDE DEF Bad
    <3>1. Bad \subseteq SUBSET T /\ IsFiniteSet(T)  BY DEF Bad, Logged
    <3> QED BY <3>1, Smallest
  <2>2. X \subseteq T /\ ~Good(X) /\ Logged(X)  BY LoggedPart
  <2>3. ASSUME NEW x \in X PROVE Good(X \ {x})
    <3> HIDE DEF Good
    <3> QED BY <2>1, <2>2, <2>3
  <2>4. ASSUME NEW x \in X
        PROVE  /\ Seconds(X \ {x}) \in Int /\ 0 <= Seconds(X \ {x})
               /\ Seconds(X) \in Int /\ Seconds(X \ {x}) <= Seconds(X)
    <3>1. Seconds(X) = Duration(x) + Seconds(X \ {x})  BY <2>2, SecondsOf
    <3>2. Seconds(X \ {x}) \in Int
      <4>1. Logged(X \ {x})  BY <2>2, LoggedPart
      <4> QED BY <4>1, SecondsOf
    <3>3. Duration(x) \in Int /\ Duration(x) > 0  BY <2>2 DEF Duration, Logged
    <3>4. 0 <= Seconds(X \ {x})  BY <2>3
    <3> QED BY <3>1, <3>2, <3>3, <3>4
  <2>5. ASSUME NEW Y \in SUBSET X PROVE 0 <= Seconds(Y) /\ Seconds(Y) <= Seconds(X)
    <3>1. CASE Y # X
      <4>1. PICK x \in X : Y \subseteq X \ {x}  BY <3>1
      <4>2. 0 <= Seconds(Y) /\ Seconds(Y) <= Seconds(X \ {x})  BY <2>3, <4>1
      <4>3. Seconds(Y) \in Int
        <5>1. Logged(Y)  BY <2>2, LoggedPart
        <5> QED BY <5>1, SecondsOf
      <4> QED BY <2>4, <4>2, <4>3
    <3>2. CASE Y = X /\ X # {}
      <4>1. PICK x \in X : TRUE  BY <3>2
      <4>2. Seconds(X \ {x}) \in Int /\ 0 <= Seconds(X \ {x})  BY <2>4
      <4>3. Seconds(X) \in Int /\ Seconds(X \ {x}) <= Seconds(X)  BY <2>4
      <4>4. 0 <= Seconds(X) /\ Seconds(X) <= Seconds(X)  BY <4>2, <4>3
      <4> QED BY <3>2, <4>4
    <3>3. CASE Y = X /\ X = {}
      <4>1. Seconds(X) = 0  BY <3>3, NoSeconds
      <4> QED BY <3>3, <4>1
    <3> QED BY <3>1, <3>2, <3>3
  <2> QED BY <2>2, <2>5
<1>2. Good(T)  BY <1>1
<1>3. Seconds(S) \in Int /\ Seconds(T) \in Int  BY LoggedPart, SecondsOf
<1>4. 0 <= Seconds(S) /\ Seconds(S) <= Seconds(T)  BY <1>2
<1> QED BY <1>3, <1>4

-----------------------------------------------------------------------------
(* First and last.                                                         *)

(* A number for each member of a finite set: one is least. *)
LEMMA LeastExists ==
    ASSUME NEW S, IsFiniteSet(S), S # {}, NEW f \in [S -> Int]
    PROVE  \E m \in S : \A x \in S : f[m] <= f[x]
<1> DEFINE Least(X) == \E m \in X : \A x \in X : f[m] <= f[x]
           Bad == {X \in SUBSET S : X # {} /\ ~Least(X)}
<1> SUFFICES ASSUME Bad # {} PROVE FALSE
  <2>1. S \in Bad \/ Least(S)
    <3> HIDE DEF Least
    <3> QED OBVIOUS
  <2> QED BY <2>1
<1>1. PICK X \in Bad : \A Y \in Bad : Y \subseteq X => Y = X
  <2>1. Bad \subseteq SUBSET S  OBVIOUS
  <2> HIDE DEF Bad
  <2> QED BY <2>1, Smallest
<1>2. X \subseteq S /\ X # {} /\ ~Least(X)  OBVIOUS
<1>3. PICK p \in X : TRUE  BY <1>2
<1>4. CASE X = {p}
  <2>1. f[p] <= f[p]  BY <1>2, <1>3
  <2> QED BY <1>2, <1>4, <2>1
<1>5. CASE X # {p}
  <2>1. Least(X \ {p})
    <3>1. X \ {p} \subseteq X /\ X \ {p} # X /\ X \ {p} # {}  BY <1>3, <1>5
    <3> HIDE DEF Least
    <3> QED BY <1>1, <1>2, <3>1
  <2>2. PICK q \in X \ {p} : \A x \in X \ {p} : f[q] <= f[x]  BY <2>1
  <2>3. f[p] \in Int /\ f[q] \in Int  BY <1>2, <1>3
  <2>4. CASE f[q] <= f[p]  BY <1>2, <2>2, <2>4
  <2>5. CASE ~(f[q] <= f[p])
    <3>1. \A x \in X : f[x] \in Int /\ f[p] <= f[x]  BY <1>2, <2>2, <2>3, <2>5
    <3> QED BY <1>2, <1>3, <3>1
  <2> QED BY <2>4, <2>5
<1> QED BY <1>4, <1>5

(* One activity is the first to start. *)
LEMMA FirstExists ==
    ASSUME NEW S, Logged(S), S # {}
    PROVE  \E x \in S : \A y \in S : x.started <= y.started
<1> DEFINE f == [x \in S |-> x.started]
<1>1. f \in [S -> Int] /\ IsFiniteSet(S)  BY DEF Logged
<1>2. PICK x \in S : \A y \in S : f[x] <= f[y]
  <2> HIDE DEF f
  <2> QED BY <1>1, LeastExists
<1> QED BY <1>2

(* ... one the last, *)
LEMMA LastExists ==
    ASSUME NEW S, Logged(S), S # {}
    PROVE  \E x \in S : \A y \in S : y.started <= x.started
<1> DEFINE f == [x \in S |-> 0 - x.started]
<1>1. f \in [S -> Int] /\ IsFiniteSet(S)  BY DEF Logged
<1>2. PICK x \in S : \A y \in S : f[x] <= f[y]
  <2> HIDE DEF f
  <2> QED BY <1>1, LeastExists
<1> QED BY <1>2 DEF Logged

(* ... and one the last to end. *)
LEMMA LatestEndExists ==
    ASSUME NEW S, Logged(S), S # {}
    PROVE  \E x \in S : \A y \in S : y.ended <= x.ended
<1> DEFINE f == [x \in S |-> 0 - x.ended]
<1>1. f \in [S -> Int] /\ IsFiniteSet(S)  BY DEF Logged
<1>2. PICK x \in S : \A y \in S : f[x] <= f[y]
  <2> HIDE DEF f
  <2> QED BY <1>1, LeastExists
<1> QED BY <1>2 DEF Logged

(* MIN(started_at) and MAX(ended_at) of a group. *)
LEMMA MinIs ==
    ASSUME NEW S, Logged(S), S # {}
    PROVE  LET m == Min({x.started : x \in S})
           IN  m \in Int /\ (\E x \in S : m = x.started) /\ \A x \in S : m <= x.started
<1>1. PICK m \in {x.started : x \in S} : \A a \in {x.started : x \in S} : m <= a
  BY FirstExists
<1>2. /\ Min({x.started : x \in S}) \in {x.started : x \in S}
      /\ \A a \in {x.started : x \in S} : Min({x.started : x \in S}) <= a
  BY <1>1 DEF Min
<1> QED BY <1>2 DEF Logged

LEMMA MaxIs ==
    ASSUME NEW S, Logged(S), S # {}
    PROVE  LET m == Max({x.ended : x \in S})
           IN  m \in Int /\ (\E x \in S : m = x.ended) /\ \A x \in S : x.ended <= m
<1>1. PICK m \in {x.ended : x \in S} : \A a \in {x.ended : x \in S} : a <= m
  BY LatestEndExists
<1>2. /\ Max({x.ended : x \in S}) \in {x.ended : x \in S}
      /\ \A a \in {x.ended : x \in S} : a <= Max({x.ended : x \in S})
  BY <1>1 DEF Max
<1> QED BY <1>2 DEF Logged

-----------------------------------------------------------------------------
(* Groups of continuous driving.                                           *)

(* The activities of one driver (ex_activity_no_overlap). *)
Log(S) ==
    /\ Logged(S)
    /\ \A x, y \in S : x # y => x.ended <= y.started \/ y.ended <= x.started

(* A part of a log is a log. *)
LEMMA LogPart ==
    ASSUME NEW S, Log(S), NEW T \in SUBSET S
    PROVE  Log(T)
BY LoggedPart DEF Log

(* Whatever is driven before x, there is a last before x. *)
LEMMA LagExists ==
    ASSUME NEW S, Logged(S), NEW x \in S, NEW y \in S, y.started < x.started
    PROVE  \E l \in Lag(S, x) : y.started <= l.started
<1> DEFINE B == {z \in S : z.started < x.started}
<1>1. Logged(B) /\ B # {}  BY LoggedPart
<1>2. PICK l \in B : \A z \in B : z.started <= l.started
  <2> HIDE DEF B
  <2> QED BY <1>1, LastExists
<1>3. l \in Lag(S, x)
  <2>1. \A z \in S : z.started \in Int /\ x.started \in Int  BY DEF Logged
  <2>2. \A z \in S : z \in B \/ x.started <= z.started  BY <2>1
  <2> QED BY <1>2, <2>2 DEF Lag
<1> QED BY <1>2, <1>3

(* Two activities are in one group if no group begins between them. *)
LEMMA SameGroup ==
    ASSUME NEW S, Logged(S), NEW x \in S, NEW y \in S, x.started <= y.started
    PROVE  GroupId(S, x) = GroupId(S, y) <=>
               \A z \in S : x.started < z.started /\ z.started <= y.started => ~IsNewGroup(S, z)
<1> DEFINE upto(w) == {z \in S : z.started <= w.started /\ IsNewGroup(S, z)}
<1>1. IsFiniteSet(upto(y)) /\ upto(x) \subseteq upto(y)
  <2>1. upto(y) \subseteq S  OBVIOUS
  <2>2. upto(x) \subseteq upto(y)  BY DEF Logged
  <2> HIDE DEF upto
  <2> QED BY <2>1, <2>2, FS_Subset DEF Logged
<1>2. Cardinality(upto(x)) = Cardinality(upto(y)) <=> upto(x) = upto(y)
  <2> HIDE DEF upto
  <2> QED BY <1>1, FS_Subset
<1>3. upto(x) = upto(y) <=>
        \A z \in S : x.started < z.started /\ z.started <= y.started => ~IsNewGroup(S, z)
  <2>1. \A z \in S : z.started \in Int /\ x.started \in Int /\ y.started \in Int
    BY DEF Logged
  <2> QED BY <2>1
<1> QED BY <1>2, <1>3 DEF GroupId

(* What is one group stays one group: driving in a gap shortens the gap. *)
LEMMA GroupsGrow ==
    ASSUME NEW T, Log(T), NEW S \in SUBSET T, NEW x \in S, NEW y \in S,
           GroupId(S, x) = GroupId(S, y), x.started <= y.started
    PROVE  GroupId(T, x) = GroupId(T, y)
<1>1. Logged(T) /\ Logged(S) /\ x \in T /\ y \in T  BY LoggedPart DEF Log
<1>2. ASSUME NEW z \in T, x.started < z.started, z.started <= y.started, IsNewGroup(T, z)
      PROVE  FALSE
  <2> DEFINE from == {v \in S : z.started <= v.started}
  <2>1. PICK w \in from : \A v \in from : w.started <= v.started
    <3>1. Logged(from) /\ from # {}  BY <1>1, <1>2, LoggedPart
    <3> HIDE DEF from
    <3> QED BY <3>1, FirstExists
  <2>2. w \in S /\ x.started < w.started /\ w.started <= y.started
    BY <1>1, <1>2, <2>1 DEF Logged
  <2>3. ~IsNewGroup(S, w)  BY <1>1, <2>2, SameGroup
  <2>4. PICK l \in Lag(S, w) : ~(w.started - l.ended > LongestGap)
    BY <2>3 DEF IsNewGroup
  <2>5. l \in T /\ l \in S /\ l.started < w.started  BY <2>4 DEF Lag
  <2>6. l.started < z.started  BY <1>1, <2>1, <2>5 DEF Logged
  <2>7. PICK m \in Lag(T, z) : l.started <= m.started
    BY <1>1, <2>5, <2>6, LagExists
  <2>8. m \in T /\ z.started - m.ended > LongestGap  BY <1>2, <2>7 DEF Lag, IsNewGroup
  <2>9. l.ended <= m.ended  BY <2>5, <2>7, <2>8 DEF Log, Logged
  <2>10. z.started <= w.started  BY <2>1
  <2>11. w \in T  BY <2>2
  <2> QED BY <1>1, <2>4, <2>5, <2>8, <2>9, <2>10, <2>11 DEF Logged, LongestGap
<1> QED BY <1>1, <1>2, SameGroup

(* Each span is part of a span of the longer log. *)
LEMMA SpansGrow ==
    ASSUME NEW T, Log(T), NEW S \in SUBSET T, NEW span \in Spans(S)
    PROVE  \E wide \in Spans(T) : span \subseteq wide
<1>1. PICK x \in S : span = {y \in S : GroupId(S, y) = GroupId(S, x)}  BY DEF Spans
<1>2. ASSUME NEW y \in span PROVE GroupId(T, y) = GroupId(T, x)
  <2>1. y \in S /\ GroupId(S, y) = GroupId(S, x)  BY <1>1, <1>2
  <2>2. x.started \in Int /\ y.started \in Int  BY <2>1 DEF Log, Logged
  <2>3. CASE x.started <= y.started  BY <2>1, <2>3, GroupsGrow
  <2>4. CASE y.started <= x.started  BY <2>1, <2>4, GroupsGrow
  <2> QED BY <2>2, <2>3, <2>4
<1>3. span \subseteq {y \in T : GroupId(T, y) = GroupId(T, x)}  BY <1>1, <1>2
<1> QED BY <1>3 DEF Spans

(* A span is some of the activities, never none. *)
LEMMA SpansAre ==
    ASSUME NEW S, NEW span \in Spans(S)
    PROVE  span \in SUBSET S /\ span # {}
BY DEF Spans

-----------------------------------------------------------------------------
(* The reports of the rules.                                               *)

Figures(v) == v.from \in Int /\ v.to \in Int /\ v.measured \in Nat

(* What covers what covers an excess covers it. *)
LEMMA CoversIs ==
    ASSUME NEW u, NEW v, NEW w, Figures(u), Figures(v), Figures(w),
           Covers(u, v), Covers(v, w)
    PROVE  Covers(u, w)
BY DEF Covers, Figures

(* Days and weeks begin at whole seconds. *)
LEMMA StartOfIs ==
    ASSUME NEW S, Logged(S), NEW x \in S
    PROVE  StartOf(x, Day) \in Int /\ StartOf(x, Week) \in Int
BY DEF StartOf, Day, Week, Logged

(* More activities are no less driving in any period. *)
LEMMA DrivenGrows ==
    ASSUME NEW T, Logged(T), NEW S \in SUBSET T, NEW t, NEW length
    PROVE  /\ DrivenFrom(S, t, length) \in Nat /\ DrivenFrom(T, t, length) \in Nat
           /\ DrivenFrom(S, t, length) <= DrivenFrom(T, t, length)
<1> DEFINE in(X) == {x \in X : t <= x.started /\ x.started < t + length}
<1>1. Logged(in(T)) /\ in(S) \in SUBSET in(T)  BY LoggedPart
<1> HIDE DEF in
<1>2. Seconds(in(S)) \in Nat /\ Seconds(in(T)) \in Nat /\ Seconds(in(S)) <= Seconds(in(T))
  BY <1>1, SecondsGrow
<1> QED BY <1>2 DEF DrivenFrom, in

(* Rule 1 grows with the log. *)
LEMMA DailyGrows ==
    ASSUME NEW T, Logged(T), NEW S \in SUBSET T, NEW v \in Daily(S)
    PROVE  Figures(v) /\ \E u \in Daily(T) : Covers(u, v)
<1>1. PICK y \in S : LET d == StartOf(y, Day) IN
        /\ DrivenFrom(S, d, Day) > DailyLimit
        /\ v = Excess("DAILY_DRIVING_LIMIT",
                 IF DrivenFrom(S, d, Day) > CriticalDaily THEN "CRITICAL" ELSE "HIGH",
                 d, d + Day, DrivenFrom(S, d, Day), DailyLimit)
  BY DEF Daily
<1> DEFINE d == StartOf(y, Day)
           u == Excess("DAILY_DRIVING_LIMIT",
                  IF DrivenFrom(T, d, Day) > CriticalDaily THEN "CRITICAL" ELSE "HIGH",
                  d, d + Day, DrivenFrom(T, d, Day), DailyLimit)
<1>2. d \in Int  BY StartOfIs
<1>3. /\ DrivenFrom(S, d, Day) \in Nat /\ DrivenFrom(T, d, Day) \in Nat
      /\ DrivenFrom(S, d, Day) <= DrivenFrom(T, d, Day)
  BY DrivenGrows
<1>4. u \in Daily(T)
  <2>1. DrivenFrom(T, d, Day) > DailyLimit  BY <1>1, <1>3 DEF DailyLimit
  <2> QED BY <2>1 DEF Daily
<1> HIDE DEF d
<1>5. Covers(u, v) /\ Figures(v)
  BY <1>1, <1>2, <1>3 DEF Covers, Figures, Excess, d, Day
<1> QED BY <1>4, <1>5

(* Rule 2 does. *)
LEMMA WeeklyGrows ==
    ASSUME NEW T, Logged(T), NEW S \in SUBSET T, NEW v \in Weekly(S)
    PROVE  Figures(v) /\ \E u \in Weekly(T) : Covers(u, v)
<1>1. PICK y \in S : LET w == StartOf(y, Week) IN
        /\ DrivenFrom(S, w, Week) > WeeklyLimit
        /\ v = Excess("WEEKLY_DRIVING_LIMIT", "CRITICAL",
                 w, w + Week, DrivenFrom(S, w, Week), WeeklyLimit)
  BY DEF Weekly
<1> DEFINE w == StartOf(y, Week)
           u == Excess("WEEKLY_DRIVING_LIMIT", "CRITICAL",
                  w, w + Week, DrivenFrom(T, w, Week), WeeklyLimit)
<1>2. w \in Int  BY StartOfIs
<1>3. /\ DrivenFrom(S, w, Week) \in Nat /\ DrivenFrom(T, w, Week) \in Nat
      /\ DrivenFrom(S, w, Week) <= DrivenFrom(T, w, Week)
  BY DrivenGrows
<1>4. u \in Weekly(T)
  <2>1. DrivenFrom(T, w, Week) > WeeklyLimit  BY <1>1, <1>3 DEF WeeklyLimit
  <2> QED BY <2>1 DEF Weekly
<1> HIDE DEF w
<1>5. Covers(u, v) /\ Figures(v)
  BY <1>1, <1>2, <1>3 DEF Covers, Figures, Excess, w, Week, Day
<1> QED BY <1>4, <1>5

(* Rule 3 does. *)
LEMMA BiweeklyGrows ==
    ASSUME NEW T, Logged(T), NEW S \in SUBSET T, NEW v \in Biweekly(S)
    PROVE  Figures(v) /\ \E u \in Biweekly(T) : Covers(u, v)
<1>1. PICK y \in S : LET w == StartOf(y, Week) IN
        /\ DrivenFrom(S, w, 2 * Week) > BiweeklyLimit
        /\ v = Excess("WEEKLY_DRIVING_LIMIT", "CRITICAL",
                 w, w + 2 * Week, DrivenFrom(S, w, 2 * Week), BiweeklyLimit)
  BY DEF Biweekly
<1> DEFINE w == StartOf(y, Week)
           u == Excess("WEEKLY_DRIVING_LIMIT", "CRITICAL",
                  w, w + 2 * Week, DrivenFrom(T, w, 2 * Week), BiweeklyLimit)
<1>2. w \in Int  BY StartOfIs
<1>3. /\ DrivenFrom(S, w, 2 * Week) \in Nat /\ DrivenFrom(T, w, 2 * Week) \in Nat
      /\ DrivenFrom(S, w, 2 * Week) <= DrivenFrom(T, w, 2 * Week)
  BY DrivenGrows
<1>4. u \in Biweekly(T)
  <2>1. DrivenFrom(T, w, 2 * Week) > BiweeklyLimit  BY <1>1, <1>3 DEF BiweeklyLimit
  <2> QED BY <2>1 DEF Biweekly
<1> HIDE DEF w
<1>5. Covers(u, v) /\ Figures(v)
  BY <1>1, <1>2, <1>3 DEF Covers, Figures, Excess, w, Week, Day
<1> QED BY <1>4, <1>5

(* Rule 4 does: the span that a span is now part of is as long. *)
LEMMA ContinuousGrows ==
    ASSUME NEW T, Log(T), NEW S \in SUBSET T, NEW v \in Continuous(S)
    PROVE  Figures(v) /\ \E u \in Continuous(T) : Covers(u, v)
<1> DEFINE report(X) == Excess("EXCESS_CONTINUOUS_DRIVING", "HIGH",
                          Min({x.started : x \in X}), Max({x.ended : x \in X}),
                          Seconds(X), ContinuousLimit)
<1>1. PICK span \in Spans(S) : Seconds(span) > ContinuousLimit /\ v = report(span)
  BY DEF Continuous
<1>2. PICK wide \in Spans(T) : span \subseteq wide  BY SpansGrow
<1>3. /\ span # {} /\ wide # {} /\ Logged(span) /\ Logged(wide)
  BY <1>2, SpansAre, LoggedPart DEF Log
<1>4. Seconds(span) \in Nat /\ Seconds(wide) \in Nat /\ Seconds(span) <= Seconds(wide)
  BY <1>2, <1>3, SecondsGrow
<1>5. report(wide) \in Continuous(T)
  <2>1. Seconds(wide) > ContinuousLimit  BY <1>1, <1>4 DEF ContinuousLimit
  <2> QED BY <2>1 DEF Continuous
<1>6. /\ Min({x.started : x \in span}) \in Int /\ Min({x.started : x \in wide}) \in Int
      /\ Min({x.started : x \in wide}) <= Min({x.started : x \in span})
  BY <1>2, <1>3, MinIs
<1>7. /\ Max({x.ended : x \in span}) \in Int /\ Max({x.ended : x \in wide}) \in Int
      /\ Max({x.ended : x \in span}) <= Max({x.ended : x \in wide})
  BY <1>2, <1>3, MaxIs
<1>8. Covers(report(wide), v) /\ Figures(v)
  BY <1>1, <1>4, <1>6, <1>7 DEF Covers, Figures, Excess
<1> QED BY <1>5, <1>8

(* What the rules find in some of a driver's activities they find, or      *)
(* more, in all of them.                                                   *)
LEMMA RulesGrow ==
    ASSUME NEW T, Log(T), NEW S \in SUBSET T, NEW v \in AllRules(S)
    PROVE  Figures(v) /\ \E u \in AllRules(T) : Covers(u, v)
<1> USE DEF AllRules
<1>1. Logged(T)  BY DEF Log
<1>2. CASE v \in Daily(S)  BY <1>1, <1>2, DailyGrows
<1>3. CASE v \in Weekly(S)  BY <1>1, <1>3, WeeklyGrows
<1>4. CASE v \in Biweekly(S)  BY <1>1, <1>4, BiweeklyGrows
<1>5. CASE v \in Continuous(S)  BY <1>5, ContinuousGrows
<1> QED BY <1>2, <1>3, <1>4, <1>5
=============================================================================
