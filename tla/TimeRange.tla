----------------------------- MODULE TimeRange -----------------------------
(***************************************************************************)
(* A session's hours (src/C++/TimeRange.cpp), and what Session does with   *)
(* them: whenever it looks, it compares now with the time its store was    *)
(* created, and starts the numbers over when the two are not in the same   *)
(* occurrence of its hours (Session::checkSessionTime).                    *)
(*                                                                         *)
(* The comparison is arithmetic on two moments.  The specification beside  *)
(* it is a clock that strikes: at a start the hours open, after an end     *)
(* they close, and `started' remembers the last start.                     *)
(*                                                                         *)
(* Moments are whole seconds, numbered from the first second of a Sunday;  *)
(* a day has SecondsPerDay of them.                                        *)
(***************************************************************************)
EXTENDS Integers

CONSTANTS
  SecondsPerDay, \* seconds of a day
  Ranges,        \* the hours, as configured
  Horizon        \* bound: the last moment

NoDay == -1

\* StartTime, EndTime, StartDay, EndDay (1..7, or NoDay: daily) and NonStopSession.
Range ==
  [startTime : 0..(SecondsPerDay - 1), endTime : 0..(SecondsPerDay - 1),
   startDay : {NoDay} \cup 1..7, endDay : {NoDay} \cup 1..7, nonStop : BOOLEAN]

ASSUME RangesAssumption ==
  /\ SecondsPerDay \in Nat \ {0} /\ Horizon \in Nat
  /\ Ranges \subseteq {r \in Range : r.startDay = NoDay <=> r.endDay = NoDay}

\* DateTime: the date, the weekday (1 is Sunday), the time of day, and the seconds
\* from one moment to another.
Date(t) == t \div SecondsPerDay
WeekDay(t) == (Date(t) % 7) + 1
TimeOnly(t) == t % SecondsPerDay
Seconds(t, u) == t - u

Abs(n) == IF n < 0 THEN -n ELSE n

-----------------------------------------------------------------------------
(* TimeRange *)

\* The constructor: hours that start and end on the same day of the week, the end
\* after the start, last the whole week.
NewTimeRange(r) ==
  IF r.startDay > 0 /\ r.endDay > 0 /\ r.startDay = r.endDay /\ r.endTime > r.startTime
  THEN [r EXCEPT !.endTime = r.startTime] ELSE r

Daily(r) == r.startDay < 0 /\ r.endDay < 0

IsInDailyRange(r, t) ==
  IF r.startTime < r.endTime
  THEN TimeOnly(t) >= r.startTime /\ TimeOnly(t) <= r.endTime
  ELSE TimeOnly(t) >= r.startTime \/ TimeOnly(t) <= r.endTime

\* Mutant: the days between are in the range whichever way round the days are.
IsInWeeklyRangeForwards(r, t) ==
  LET day == WeekDay(t)
  IN /\ day >= r.startDay /\ day <= r.endDay
     /\ ~(day = r.startDay /\ TimeOnly(t) < r.startTime)
     /\ ~(day = r.endDay /\ TimeOnly(t) > r.endTime)
IsInWeeklyRange(r, t) ==
  LET day == WeekDay(t)
  IN IF r.startDay = r.endDay
     THEN day # r.startDay \/ IsInDailyRange(r, t)
     ELSE /\ IF r.startDay < r.endDay
             THEN day >= r.startDay /\ day <= r.endDay
             ELSE day >= r.startDay \/ day <= r.endDay
          /\ ~(day = r.startDay /\ TimeOnly(t) < r.startTime)
          /\ ~(day = r.endDay /\ TimeOnly(t) > r.endTime)

IsInRange(r, t) == IF Daily(r) THEN IsInDailyRange(r, t) ELSE IsInWeeklyRange(r, t)

\* The date on which the weekly range that holds t started.
GetRangeStartDate(r, t) ==
  Date(t) - WeekDay(t) + r.startDay
    - IF \/ WeekDay(t) < r.startDay
         \/ WeekDay(t) = r.startDay /\ TimeOnly(t) < r.startTime
      THEN 7 ELSE 0

\* Of hours past midnight, what is left at the earlier moment; the other order of
\* the moments is not told from the length of the hours.
SessionLength(r) == SecondsPerDay - (r.startTime - r.endTime)
\* Mutant: what is left of the hours is their whole length, either way round.
InSameNightWhole(r, t1, t2) == Abs(Seconds(t1, t2)) < SessionLength(r)
InSameNight(r, t1, t2) ==
  IF t1 > t2
  THEN LET d == TimeOnly(t2) - r.startTime
           delta == IF d < 0 THEN SecondsPerDay - Abs(d) ELSE d
       IN Seconds(t1, t2) < SessionLength(r) - delta
  ELSE Seconds(t2, t1) < SessionLength(r)

\* Mutant: moments of one night fall on the same date.
IsInSameDailyRangeByDate(r, t1, t2) ==
  IsInDailyRange(r, t1) /\ IsInDailyRange(r, t2) /\ Date(t1) = Date(t2)
IsInSameDailyRange(r, t1, t2) ==
  /\ IsInDailyRange(r, t1) /\ IsInDailyRange(r, t2)
  /\ \/ t1 = t2
     \/ IF r.startTime <= r.endTime THEN Date(t1) = Date(t2) ELSE InSameNight(r, t1, t2)

\* Hours from one day of the week to the same day a week later.
InSameWeek(r, t1, t2) ==
  LET apart == Abs(Date(t1) - Date(t2))
      earlier == IF t1 < t2 THEN t1 ELSE t2
      later == IF t1 < t2 THEN t2 ELSE t1
  IN CASE apart = 0 /\ WeekDay(t1) = r.startDay ->
            \/ TimeOnly(t1) <= r.endTime /\ TimeOnly(t2) <= r.endTime
            \/ TimeOnly(t1) >= r.startTime /\ TimeOnly(t2) >= r.startTime
       [] apart = 0 /\ WeekDay(t1) # r.startDay -> TRUE
       [] apart > 7 -> FALSE
       [] apart = 7 ->
            /\ WeekDay(t1) = r.startDay
            /\ TimeOnly(earlier) >= r.startTime /\ TimeOnly(later) <= r.endTime
       [] OTHER -> GetRangeStartDate(r, t1) = GetRangeStartDate(r, t2)

IsInSameWeeklyRange(r, t1, t2) ==
  /\ IsInWeeklyRange(r, t1) /\ IsInWeeklyRange(r, t2)
  /\ IF r.startDay # r.endDay
     THEN GetRangeStartDate(r, t1) = GetRangeStartDate(r, t2)
     ELSE InSameWeek(r, t1, t2)

IsInSameRange(r, t1, t2) ==
  IF Daily(r) THEN IsInSameDailyRange(r, t1, t2) ELSE IsInSameWeeklyRange(r, t1, t2)

-----------------------------------------------------------------------------
(* The clock and the session *)

VARIABLES
  range,    \* m_sessionTime
  now,
  open,     \* the hours have struck open
  started,  \* the last time they did
  creation  \* when the store was created, and the numbers started over

vars == <<range, now, open, started, creation>>

\* When the hours open, and the last moment they are open.  Hours that end at the
\* time they start are open all day, and start over at midnight, not at StartTime.
Strikes(r, time, day, t) == TimeOnly(t) = time /\ (Daily(r) \/ WeekDay(t) = day)
Opens(r, t) ==
  IF Daily(r) /\ r.startTime = r.endTime THEN TimeOnly(t) = 0
  ELSE Strikes(r, r.startTime, r.startDay, t)
Closes(r, t) ==
  IF Daily(r) /\ r.startTime = r.endTime THEN FALSE
  ELSE Strikes(r, r.endTime, r.endDay, t)

CheckSessionTime == range.nonStop \/ IsInSameRange(range, now, creation)

\* The store is created at a start of the hours, in the second week.
Init ==
  /\ \E r \in Ranges : range = NewTimeRange(r)
  /\ now \in (7 * SecondsPerDay)..(14 * SecondsPerDay - 1) /\ Opens(range, now)
  /\ ~ \E t \in (7 * SecondsPerDay)..(now - 1) : Opens(range, t)
  /\ open = TRUE /\ started = now /\ creation = now

\* A second passes, whether or not the process runs.
Tick ==
  /\ now < Horizon /\ now' = now + 1
  /\ open' = (Opens(range, now') \/ (open /\ (Closes(range, now) => started = now)))
  /\ started' = IF Opens(range, now') THEN now' ELSE started
  /\ UNCHANGED <<range, creation>>

\* The session looks at its hours: when it is created, when a connection is bound
\* to it, on its timer and on every message (the four callers of checkSessionTime).
Look ==
  /\ creation' = IF CheckSessionTime THEN creation ELSE now
  /\ UNCHANGED <<range, now, open, started>>

Next == Tick \/ Look

Spec == Init /\ [][Next]_vars

-----------------------------------------------------------------------------
(* Properties *)

\* The hours are open when the clock says so, on every day of the week and across
\* midnight and the end of the week (TimeRange::isInRange decides whether an
\* initiator connects and whether a Logon is accepted).
OpenOnTime == IsInRange(range, now) <=> open

PastMidnight(r) == Daily(r) /\ r.startTime > r.endTime

\* Within one occurrence of the hours the numbers are never started over, however
\* long ago the store was created: a session that keeps looking loses no message it
\* could be asked to send again.  (isInSameRange counts the last second of hours past
\* midnight as over, isInRange as open.)
KeptWithin ==
  [][(Look /\ open /\ creation >= started /\ ~(PastMidnight(range) /\ Closes(range, now)))
       => creation' = creation]_vars

\* The numbers of one occurrence are never carried over into another: a look
\* starts them over, even after the process was down for a week or more.
\* (Where a week ends in the second in which the next one starts, that second
\* belongs to both.)
StartedOver ==
  (/\ ~range.nonStop
   /\ open => creation < started
   /\ ~(~Daily(range) /\ Opens(range, now) /\ Closes(range, now))) => ~CheckSessionTime

=============================================================================
