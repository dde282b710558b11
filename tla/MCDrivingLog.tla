---------------------------- MODULE MCDrivingLog ----------------------------
(***************************************************************************)
(* Instances of DrivingLog.                                                *)
(***************************************************************************)
EXTENDS DrivingLog

Hour   == 3600
Minute == 60

(* Around the break rule: pieces of up to five hours with gaps of 14, 15   *)
(* and 16 minutes and of none, on both sides of a midnight.                *)
ShortPeriods ==
    LET cut == {Day - 5 * Hour, Day - 15 * Minute, Day, Day + 14 * Minute,
                Day + 15 * Minute, Day + 16 * Minute, Day + 5 * Hour,
                Day + 5 * Hour + 15 * Minute, Day + 10 * Hour}
    IN {<<a, b>> \in cut \X cut : a < b}

(* Around the week: long drives in three weeks, some across their borders. *)
LongPeriods ==
    {<<a, a + h * Hour>> :
        a \in {k * Week + o * Hour : k \in 0..2, o \in {0, 140}}, h \in {46, 91}}

MCPeriods == ShortPeriods \cup LongPeriods

MCWindows ==
    {<<Day, 2 * Day>>, <<0, Day + 5 * Hour>>, <<Day - 5 * Hour, Day + 10 * Hour>>,
     <<Week, 3 * Week>>}
=============================================================================
