-------------------------- MODULE DrivingLogProofs --------------------------
(***************************************************************************)
(* Proofs about DrivingLog, for every set of periods and windows and logs  *)
(* of every length: from what DrivingRulesProofs shows of the rules, and   *)
(* from the constraints of fms.activity_records as the invariant (Sound).  *)
(***************************************************************************)
EXTENDS DrivingLog, DrivingRulesProofs

(* What the table holds is a log: chk_time_order, ex_activity_no_overlap. *)
Sound == Log(log)

(* An empty log is one. *)
LEMMA Initially == Init => Sound
BY FS_EmptySet DEF Init, Sound, Log, Logged

(* An activity that overlaps none joins it. *)
LEMMA DriveKeeps ==
    ASSUME Sound, NEW p \in Periods, Drive(p)
    PROVE  Sound' /\ log \subseteq log'
<1> DEFINE x == [driver |-> "d", type |-> "DRIVING", started |-> p[1], ended |-> p[2]]
<1>1. log' = log \cup {x} /\ \A y \in log : Apart(y, p)  BY DEF Drive
<1>2. x.started \in Int /\ x.ended \in Int /\ x.started < x.ended
  BY PeriodsAssumption
<1>3. IsFiniteSet(log')  BY <1>1, FS_AddElement DEF Sound, Log, Logged
<1>4. \A y \in log : y.ended <= x.started \/ x.ended <= y.started  BY <1>1 DEF Apart
<1> HIDE DEF x
<1> QED BY <1>1, <1>2, <1>3, <1>4 DEF Sound, Log, Logged

(* A step adds to the log or leaves it. *)
LEMMA StepKeeps == Sound /\ [Next]_log => Sound' /\ log \subseteq log'
<1> SUFFICES ASSUME Sound, [Next]_log PROVE Sound' /\ log \subseteq log'
  OBVIOUS
<1>1. CASE UNCHANGED log  BY <1>1 DEF Sound
<1>2. CASE Next  BY <1>2, DriveKeeps DEF Next
<1> QED BY <1>1, <1>2

(* The invariant. *)
LEMMA AlwaysSound == Spec => []Sound
BY Initially, StepKeeps, PTL DEF Spec

-----------------------------------------------------------------------------
(* The rules never take a report back: an activity that arrives late adds  *)
(* to the log, and the rules grow with it.                                 *)
THEOREM Lasting == Spec => ExcessStays
<1>1. Sound /\ [Next]_log =>
        [\A v \in AllRules(log) : \E u \in AllRules(log') : Covers(u, v)]_log
  <2> SUFFICES ASSUME Sound, [Next]_log, NEW v \in AllRules(log)
               PROVE  \E u \in AllRules(log') : Covers(u, v)
    OBVIOUS
  <2>1. Log(log') /\ log \in SUBSET log'  BY StepKeeps DEF Sound
  <2> QED BY <2>1, RulesGrow
<1> QED BY <1>1, AlwaysSound, PTL DEF Spec, ExcessStays

(* A check of a period reports nothing that the whole log does not bear    *)
(* out: what lies within the period is a part of the log.                  *)
THEOREM NothingInvented == Spec => []WindowNeverInvents
<1>1. Sound => WindowNeverInvents
  <2> SUFFICES ASSUME Sound, NEW p \in Windows,
                      NEW v \in AllRules(Within(log, p[1], p[2]))
               PROVE  \E u \in AllRules(log) : Covers(u, v)
    BY DEF WindowNeverInvents
  <2>1. Within(log, p[1], p[2]) \in SUBSET log  BY DEF Within
  <2> QED BY <2>1, RulesGrow DEF Sound
<1> QED BY <1>1, AlwaysSound, PTL

-----------------------------------------------------------------------------
(* Which week an activity begins in. *)
LEMMA WeekOf ==
    ASSUME NEW w \in Int, w % Week = 0, NEW x \in log, Sound,
           w <= x.started, x.started < w + Week
    PROVE  StartOf(x, Week) = w
<1>1. x.started \in Int  BY DEF Sound, Log, Logged
<1>2. x.started - (x.started % Week) = w  BY <1>1 DEF Week, Day
<1> QED BY <1>2 DEF StartOf

(* The two weeks are reported by the first if that has any driving, and    *)
(* else by the second, with which begin two weeks that have it all.        *)
LEMMA FortnightFound ==
    ASSUME Sound, NEW w \in Int, w % Week = 0,
           DrivenFrom(log, w, 2 * Week) > BiweeklyLimit
    PROVE  \E v \in Biweekly(log) :
             v.from \in {w, w + Week} /\ v.measured >= DrivenFrom(log, w, 2 * Week)
<1> DEFINE in(t) == {y \in log : t <= y.started /\ y.started < t + 2 * Week}
           report(t) == Excess("WEEKLY_DRIVING_LIMIT", "CRITICAL", t, t + 2 * Week,
                          DrivenFrom(log, t, 2 * Week), BiweeklyLimit)
<1>1. Logged(log) /\ \A y \in log : y.started \in Int
  BY DEF Sound, Log, Logged
<1>2. DrivenFrom(log, w, 2 * Week) \in Nat /\ DrivenFrom(log, w + Week, 2 * Week) \in Nat
  BY <1>1, DrivenGrows
<1>3. ASSUME NEW y \in log, NEW t \in {w, w + Week}, StartOf(y, Week) = t,
             DrivenFrom(log, w, 2 * Week) <= DrivenFrom(log, t, 2 * Week)
      PROVE  \E v \in Biweekly(log) :
               v.from \in {w, w + Week} /\ v.measured >= DrivenFrom(log, w, 2 * Week)
  <2>1. DrivenFrom(log, t, 2 * Week) > BiweeklyLimit  BY <1>2, <1>3 DEF BiweeklyLimit
  <2>2. report(t) \in Biweekly(log)  BY <1>3, <2>1 DEF Biweekly
  <2>3. report(t).from = t /\ report(t).measured = DrivenFrom(log, t, 2 * Week)
    BY DEF Excess
  <2>4. report(t).measured >= DrivenFrom(log, w, 2 * Week)  BY <1>2, <1>3, <2>3
  <2> HIDE DEF report
  <2> QED BY <1>3, <2>2, <2>3, <2>4
<1>4. CASE \E y \in log : w <= y.started /\ y.started < w + Week
  <2>1. PICK y \in log : w <= y.started /\ y.started < w + Week  BY <1>4
  <2>2. StartOf(y, Week) = w  BY <2>1, WeekOf
  <2> QED BY <1>2, <1>3, <2>2
<1>5. CASE ~\E y \in log : w <= y.started /\ y.started < w + Week
  <2>1. in(w) # {}
    <3> SUFFICES ASSUME in(w) = {} PROVE FALSE
      OBVIOUS
    <3>1. Seconds({}) = 0  BY NoSeconds
    <3>2. DrivenFrom(log, w, 2 * Week) = 0  BY <3>1 DEF DrivenFrom
    <3> QED BY <3>2 DEF BiweeklyLimit
  <2>2. PICK y \in in(w) : TRUE  BY <2>1
  <2>3. w + Week <= y.started /\ y.started < (w + Week) + Week
    BY <1>1, <1>5, <2>2 DEF Week, Day
  <2>4. w + Week \in Int /\ (w + Week) % Week = 0  BY DEF Week, Day
  <2>5. StartOf(y, Week) = w + Week  BY <2>2, <2>3, <2>4, WeekOf
  <2>6. in(w) \in SUBSET in(w + Week)  BY <1>1, <1>5 DEF Week, Day
  <2>7. Logged(in(w + Week))  BY <1>1, LoggedPart
  <2>8. Seconds(in(w)) <= Seconds(in(w + Week))
    <3> HIDE DEF in
    <3> QED BY <2>6, <2>7, SecondsGrow
  <2>9. DrivenFrom(log, w, 2 * Week) <= DrivenFrom(log, w + Week, 2 * Week)
    BY <2>8 DEF DrivenFrom
  <2> QED BY <1>3, <2>2, <2>5, <2>9
<1> QED BY <1>4, <1>5

(* The join of rule 3 loses no two weeks above the limit, whichever of     *)
(* them has driving at all.                                                *)
THEOREM Fortnights == Spec => []NoFortnightMissed
<1>1. Sound => NoFortnightMissed
  <2> SUFFICES ASSUME Sound, NEW x \in log, NEW k \in {0, 1}
               PROVE  LET w == StartOf(x, Week) - k * Week
                      IN  DrivenFrom(log, w, 2 * Week) > BiweeklyLimit =>
                            \E v \in Biweekly(log) :
                              /\ v.from \in {w, w + Week}
                              /\ v.measured >= DrivenFrom(log, w, 2 * Week)
    BY DEF NoFortnightMissed
  <2>1. x.started \in Int  BY DEF Sound, Log, Logged
  <2>2. /\ StartOf(x, Week) - k * Week \in Int
        /\ (StartOf(x, Week) - k * Week) % Week = 0
    BY <2>1 DEF StartOf, Week, Day
  <2> QED BY <2>2, FortnightFound
<1> QED BY <1>1, AlwaysSound, PTL

-----------------------------------------------------------------------------
(* Where no group begins between x and y, driving goes on: the activity    *)
(* after any end in between follows it within the gap.                     *)
LEMMA UnbrokenFollows ==
    ASSUME Sound, NEW x \in log, NEW y \in log, x.started < y.started,
           GroupId(log, x) = GroupId(log, y)
    PROVE  Follows(x, y)
<1>1. Logged(log) /\ x.started <= y.started  BY DEF Sound, Log, Logged
<1> SUFFICES ASSUME NEW e \in log, x.ended <= e.ended, e.ended < y.started
             PROVE  \E z \in log : e.ended < z.ended /\ z.started <= e.ended + LongestGap
  BY DEF Follows
<1> DEFINE from == {v \in log : e.ended <= v.started}
<1>2. PICK w \in from : \A v \in from : w.started <= v.started
  <2>1. Logged(from) /\ from # {}  BY <1>1, LoggedPart DEF Logged
  <2> HIDE DEF from
  <2> QED BY <2>1, FirstExists
<1>3. w \in log /\ x.started < w.started /\ w.started <= y.started /\ e.ended <= w.started
  BY <1>1, <1>2 DEF Logged
<1>4. ~IsNewGroup(log, w)  BY <1>1, <1>3, SameGroup
<1>5. PICK l \in Lag(log, w) : ~(w.started - l.ended > LongestGap)
  BY <1>4 DEF IsNewGroup
<1>6. l \in log /\ l.started < w.started  BY <1>5 DEF Lag
<1>7. l.started < e.ended  BY <1>1, <1>2, <1>3, <1>6 DEF Logged
<1>8. l.ended <= e.ended  BY <1>6, <1>7 DEF Sound, Log, Logged
<1>9. e.ended < w.ended /\ w.started <= e.ended + LongestGap
  BY <1>1, <1>3, <1>5, <1>6, <1>8 DEF Logged, LongestGap
<1> QED BY <1>3, <1>9

(* Where driving goes on from x to y, no group begins in between: whatever *)
(* goes on after the end of the activity before it comes between the two.  *)
LEMMA FollowsUnbroken ==
    ASSUME Sound, NEW x \in log, NEW y \in log, Follows(x, y)
    PROVE  GroupId(log, x) = GroupId(log, y)
<1>1. Logged(log) /\ x.started < y.started /\ x.started <= y.started
  BY DEF Sound, Log, Logged, Follows
<1>2. ASSUME NEW z \in log, x.started < z.started, z.started <= y.started, IsNewGroup(log, z)
      PROVE  FALSE
  <2>1. PICK m \in Lag(log, z) : x.started <= m.started  BY <1>1, <1>2, LagExists
  <2>2. m \in log /\ z.started - m.ended > LongestGap  BY <1>2, <2>1 DEF Lag, IsNewGroup
  <2>3. x.ended <= m.ended  BY <2>1, <2>2 DEF Sound, Log, Logged
  <2>4. m.ended < y.started  BY <1>1, <1>2, <2>2 DEF Logged, LongestGap
  <2>5. PICK u \in log : m.ended < u.ended /\ u.started <= m.ended + LongestGap
    BY <2>2, <2>3, <2>4 DEF Follows
  <2>6. u.started < z.started  BY <1>1, <1>2, <2>2, <2>5 DEF Logged, LongestGap
  <2>7. u.started <= m.started  BY <1>1, <1>2, <2>1, <2>5, <2>6 DEF Lag, Logged
  <2> QED BY <2>2, <2>5, <2>7 DEF Sound, Log, Logged
<1> QED BY <1>1, <1>2, SameGroup

(* The groups of rule 4 are the spans of continuous driving, by their      *)
(* meaning: together is what no break of more than 15 minutes parts.       *)
THEOREM Unbroken == Spec => []SpansAreUnbroken
<1>1. Sound => SpansAreUnbroken
  <2> SUFFICES ASSUME Sound PROVE SpansAreUnbroken
    OBVIOUS
  <2>1. ASSUME NEW x \in log, NEW y \in log
        PROVE  GroupId(log, y) = GroupId(log, x) <=> Together(x, y)
    <3>1. x.started \in Int /\ y.started \in Int  BY DEF Sound, Log, Logged
    <3>2. CASE x.started < y.started
      <4>1. x # y /\ ~Follows(y, x)  BY <3>1, <3>2 DEF Follows
      <4> QED BY <3>2, <4>1, UnbrokenFollows, FollowsUnbroken DEF Together
    <3>3. CASE y.started < x.started
      <4>1. x # y /\ ~Follows(x, y)  BY <3>1, <3>3 DEF Follows
      <4> QED BY <3>3, <4>1, UnbrokenFollows, FollowsUnbroken DEF Together
    <3>4. CASE x.started = y.started
      <4>1. x = y  BY <3>4 DEF Sound, Log, Logged
      <4> QED BY <4>1 DEF Together
    <3> QED BY <3>1, <3>2, <3>3, <3>4
  <2>2. \A x \in log :
          {y \in log : GroupId(log, y) = GroupId(log, x)} = {y \in log : Together(x, y)}
    BY <2>1
  <2> QED BY <2>2 DEF SpansAreUnbroken, Spans
<1> QED BY <1>1, AlwaysSound, PTL
=============================================================================
