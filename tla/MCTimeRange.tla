---------------------------- MODULE MCTimeRange ----------------------------
(***************************************************************************)
(* Instances of TimeRange for TLC.                                         *)
(***************************************************************************)
EXTENDS TimeRange

Hours(startDays, endDays) ==
  [startTime : 0..(SecondsPerDay - 1), endTime : 0..(SecondsPerDay - 1),
   startDay : startDays, endDay : endDays, nonStop : {FALSE}]

\* Every daily range, every weekly one, and one that never closes.
AllHours ==
  Hours({NoDay}, {NoDay}) \cup Hours(1..7, 1..7)
    \cup {[startTime |-> 1, endTime |-> 2, startDay |-> NoDay, endDay |-> NoDay,
           nonStop |-> TRUE]}

=============================================================================
