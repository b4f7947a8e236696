-------------------------- MODULE TimeRangeProofs --------------------------
(***************************************************************************)
(* Proofs about TimeRange, for every length of the day, every set of       *)
(* configured hours and every horizon.                                     *)
(*                                                                         *)
(* The code computes dates, weekdays and seconds; the specification is a   *)
(* clock that strikes.  What relates the two is the date and time of the   *)
(* last strike as a formula of the present moment (StartDate, StartTime):  *)
(* that `started' is this moment is kept by every second that passes       *)
(* (StartMoves), and then isInSameRange is right exactly when the moments  *)
(* it is given have the same last strike (SameDaily, SameWeekly).          *)
(*                                                                         *)
(* Seconds are counted as SecondsPerDay * date + time, a product of two    *)
(* unknowns.  The lemmas of the first part say all that is needed of it,   *)
(* and the others compare dates and times only.                            *)
(***************************************************************************)
EXTENDS TimeRange, TLAPS

-----------------------------------------------------------------------------
(* The invariant *)

\* What the constructor of TimeRange makes of the settings.
Configured ==
  {r \in Range : /\ r.startDay = NoDay <=> r.endDay = NoDay
                 /\ r.startDay > 0 /\ r.startDay = r.endDay => r.endTime <= r.startTime}

\* Hours that are open all day.
AllDay(r) == Daily(r) /\ r.startTime = r.endTime
\* The time at which the hours open, and the date on which they last did before t or at
\* t, by arithmetic.
StartTime(r) == IF AllDay(r) THEN 0 ELSE r.startTime
StartDate(r, t) ==
  IF Daily(r)
  THEN IF TimeOnly(t) >= StartTime(r) THEN Date(t) ELSE Date(t) - 1
  ELSE GetRangeStartDate(r, t)

\* Types, and a store that was not created in the future.
TypeOK ==
  /\ range \in Configured
  /\ now \in Nat /\ open \in BOOLEAN /\ started \in Nat /\ creation \in Nat
  /\ creation <= now

\* The clock last struck when the arithmetic says so.
Struck == Date(started) = StartDate(range, now) /\ TimeOnly(started) = StartTime(range)

\* The inductive invariant.
IInv == TypeOK /\ Struck /\ OpenOnTime

-----------------------------------------------------------------------------
(* Dates and times *)

\* A day has seconds.
LEMMA DayIsPositive == SecondsPerDay \in Nat /\ SecondsPerDay > 0
BY RangesAssumption

\* A moment is a date and a time of that day.
LEMMA Clock ==
  ASSUME NEW t \in Nat
  PROVE  /\ Date(t) \in Nat /\ TimeOnly(t) \in 0..(SecondsPerDay - 1)
         /\ t = SecondsPerDay * Date(t) + TimeOnly(t)
         /\ WeekDay(t) \in 1..7
<1>1. Date(t) \in Nat /\ TimeOnly(t) \in 0..(SecondsPerDay - 1)
  BY DayIsPositive, Z3T(30) DEF Date, TimeOnly
<1>2. t = SecondsPerDay * Date(t) + TimeOnly(t)
  BY DayIsPositive, Z3T(30) DEF Date, TimeOnly
<1>3. WeekDay(t) \in 1..7
  BY <1>1 DEF WeekDay
<1> QED
  BY <1>1, <1>2, <1>3

\* Moments are ordered by date and then by time.
LEMMA Order ==
  ASSUME NEW t \in Nat, NEW u \in Nat
  PROVE  t <= u <=> \/ Date(t) < Date(u)
                    \/ Date(t) = Date(u) /\ TimeOnly(t) <= TimeOnly(u)
<1> DEFINE S == SecondsPerDay
<1>1. /\ t = S * Date(t) + TimeOnly(t) /\ u = S * Date(u) + TimeOnly(u)
      /\ Date(t) \in Nat /\ Date(u) \in Nat
      /\ TimeOnly(t) \in 0..(S - 1) /\ TimeOnly(u) \in 0..(S - 1)
  BY Clock
<1>2. ASSUME NEW d \in Nat, NEW e \in Nat, d < e
      PROVE  S * d + S <= S * e
  <2>1. d + 1 <= e
    BY <1>2
  <2>2. S * (d + 1) <= S * e
    BY <2>1, <1>2, DayIsPositive
  <2> QED
    BY <2>2, <1>2, DayIsPositive
<1>3. ASSUME Date(t) < Date(u)
      PROVE  t <= u
  BY <1>1, <1>2, <1>3, DayIsPositive
<1>4. ASSUME Date(u) < Date(t)
      PROVE  ~(t <= u)
  BY <1>1, <1>2, <1>4, DayIsPositive
<1>5. ASSUME Date(t) = Date(u)
      PROVE  t <= u <=> TimeOnly(t) <= TimeOnly(u)
  BY <1>1, <1>5, DayIsPositive
<1> QED
  BY <1>1, <1>3, <1>4, <1>5

\* How far apart two moments are, from their dates and times.
LEMMA Apart ==
  ASSUME NEW t \in Nat, NEW u \in Nat
  PROVE  /\ Date(t) = Date(u) => t - u = TimeOnly(t) - TimeOnly(u)
         /\ Date(t) = Date(u) + 1 => t - u = SecondsPerDay + TimeOnly(t) - TimeOnly(u)
         /\ Date(t) >= Date(u) + 2 => t - u >= 2 * SecondsPerDay + TimeOnly(t) - TimeOnly(u)
<1> DEFINE S == SecondsPerDay
<1>1. /\ t = S * Date(t) + TimeOnly(t) /\ u = S * Date(u) + TimeOnly(u)
      /\ Date(t) \in Nat /\ Date(u) \in Nat
      /\ TimeOnly(t) \in 0..(S - 1) /\ TimeOnly(u) \in 0..(S - 1)
  BY Clock
<1>2. Date(t) = Date(u) + 1 => S * Date(t) = S * Date(u) + S
  BY <1>1, DayIsPositive
<1>3. ASSUME Date(t) >= Date(u) + 2
      PROVE  S * Date(t) >= S * Date(u) + 2 * S
  <2>1. S * Date(t) >= S * (Date(u) + 2)
    BY <1>1, <1>3, DayIsPositive
  <2> QED
    BY <2>1, <1>1, DayIsPositive
<1>4. Date(t) = Date(u) => t - u = TimeOnly(t) - TimeOnly(u)
  BY <1>1, DayIsPositive
<1>5. Date(t) = Date(u) + 1 => t - u = S + TimeOnly(t) - TimeOnly(u)
  <2>1. PICK a \in Int, b \in Int : a = S * Date(t) /\ b = S * Date(u)
    BY <1>1, DayIsPositive
  <2>2. Date(t) = Date(u) + 1 => a = b + S
    BY <1>2, <2>1
  <2>3. t = a + TimeOnly(t) /\ u = b + TimeOnly(u)
    BY <1>1, <2>1
  <2>4. TimeOnly(t) \in Int /\ TimeOnly(u) \in Int /\ S \in Int
    BY <1>1, DayIsPositive
  <2> QED
    BY <2>1, <2>2, <2>3, <2>4
<1>6. Date(t) >= Date(u) + 2 => t - u >= 2 * S + TimeOnly(t) - TimeOnly(u)
  BY <1>1, <1>3, DayIsPositive
<1> QED
  BY <1>4, <1>5, <1>6

\* Moments are the same when their dates and times are.
LEMMA Same ==
  ASSUME NEW t \in Nat, NEW u \in Nat
  PROVE  t = u <=> Date(t) = Date(u) /\ TimeOnly(t) = TimeOnly(u)
BY Clock

\* A second later it is the same day, or midnight.
LEMMA NextSecond ==
  ASSUME NEW t \in Nat
  PROVE  \/ /\ TimeOnly(t) < SecondsPerDay - 1
            /\ Date(t + 1) = Date(t) /\ TimeOnly(t + 1) = TimeOnly(t) + 1
         \/ /\ TimeOnly(t) = SecondsPerDay - 1
            /\ Date(t + 1) = Date(t) + 1 /\ TimeOnly(t + 1) = 0
<1>1. t + 1 \in Nat /\ t + 1 - t = 1
  OBVIOUS
<1>2. /\ Date(t) \in Nat /\ TimeOnly(t) \in 0..(SecondsPerDay - 1)
      /\ Date(t + 1) \in Nat /\ TimeOnly(t + 1) \in 0..(SecondsPerDay - 1)
  BY <1>1, Clock
<1>3. /\ Date(t) < Date(t + 1) \/ Date(t) = Date(t + 1)
  BY <1>1, <1>2, Order
<1>4. Date(t + 1) < Date(t) + 2
  BY <1>1, <1>2, Apart, DayIsPositive
<1>5. CASE Date(t + 1) = Date(t)
  BY <1>1, <1>2, <1>5, Apart, DayIsPositive
<1>6. CASE Date(t + 1) = Date(t) + 1
  BY <1>1, <1>2, <1>6, Apart, DayIsPositive
<1> QED
  BY <1>2, <1>3, <1>4, <1>5, <1>6

\* A date is a week and a day of the week.
LEMMA Weeks ==
  ASSUME NEW t \in Nat
  PROVE  \E q \in Nat : Date(t) = 7 * q + WeekDay(t) - 1
<1>1. Date(t) \in Nat
  BY Clock
<1>2. Date(t) = 7 * (Date(t) \div 7) + WeekDay(t) - 1 /\ Date(t) \div 7 \in Nat
  BY <1>1 DEF WeekDay
<1> QED
  BY <1>2

\* The weekday of a date and of the one after it.
LEMMA NextDay ==
  ASSUME NEW t \in Nat, NEW u \in Nat
  PROVE  /\ Date(u) = Date(t) => WeekDay(u) = WeekDay(t)
         /\ Date(u) = Date(t) + 1 =>
              WeekDay(u) = IF WeekDay(t) = 7 THEN 1 ELSE WeekDay(t) + 1
<1>1. Date(t) \in Nat /\ Date(u) \in Nat
  BY Clock
<1> QED
  BY <1>1 DEF WeekDay

-----------------------------------------------------------------------------
(* The strikes of the clock *)

\* The constructor makes configured hours: weekly hours from a day to the same day end
\* no later than they start.
LEMMA Constructed ==
  ASSUME NEW r \in Ranges
  PROVE  NewTimeRange(r) \in Configured
<1>1. r \in Range /\ (r.startDay = NoDay <=> r.endDay = NoDay)
  BY RangesAssumption
<1> QED
  BY <1>1, DayIsPositive DEF NewTimeRange, Configured, Range, NoDay

\* What configured hours consist of.
LEMMA Fields ==
  ASSUME NEW r \in Configured
  PROVE  /\ r.startTime \in 0..(SecondsPerDay - 1) /\ r.endTime \in 0..(SecondsPerDay - 1)
         /\ \/ Daily(r) /\ r.startDay = NoDay /\ r.endDay = NoDay
            \/ /\ ~Daily(r) /\ r.startDay \in 1..7 /\ r.endDay \in 1..7
               /\ r.startDay = r.endDay => r.endTime <= r.startTime
         /\ r.nonStop \in BOOLEAN
BY DEF Configured, Range, Daily, NoDay

\* The hours open at t exactly if t is the last moment at which they did.
LEMMA OpensAtStart ==
  ASSUME NEW r \in Configured, NEW t \in Nat
  PROVE  Opens(r, t) <=> Date(t) = StartDate(r, t) /\ TimeOnly(t) = StartTime(r)
<1>1. /\ Date(t) \in Nat /\ TimeOnly(t) \in 0..(SecondsPerDay - 1) /\ WeekDay(t) \in 1..7
  BY Clock
<1> QED
  BY <1>1, Fields, DayIsPositive
     DEF Opens, Strikes, StartDate, StartTime, AllDay, GetRangeStartDate

\* The last start is the same a second later, unless that second is a start.
LEMMA StartMoves ==
  ASSUME NEW r \in Configured, NEW t \in Nat
  PROVE  StartDate(r, t + 1) = IF Opens(r, t + 1) THEN Date(t + 1) ELSE StartDate(r, t)
<1>1. t + 1 \in Nat
  OBVIOUS
<1>2. /\ Date(t) \in Nat /\ TimeOnly(t) \in 0..(SecondsPerDay - 1) /\ WeekDay(t) \in 1..7
      /\ Date(t + 1) \in Nat /\ TimeOnly(t + 1) \in 0..(SecondsPerDay - 1)
      /\ WeekDay(t + 1) \in 1..7
  BY <1>1, Clock
<1>3. /\ Date(t + 1) = Date(t) => WeekDay(t + 1) = WeekDay(t)
      /\ Date(t + 1) = Date(t) + 1 =>
           WeekDay(t + 1) = IF WeekDay(t) = 7 THEN 1 ELSE WeekDay(t) + 1
  BY <1>1, NextDay
<1>4. CASE Daily(r)
  BY <1>1, <1>2, <1>4, NextSecond, Fields, DayIsPositive
     DEF Opens, Strikes, StartDate, StartTime, AllDay
<1>5. CASE ~Daily(r)
  BY <1>1, <1>2, <1>3, <1>5, NextSecond, Fields, DayIsPositive
     DEF Opens, Strikes, StartDate, GetRangeStartDate
<1> QED
  BY <1>4, <1>5

\* isInRange follows the clock: it becomes true at a start, and false in the second
\* after an end, unless the hours started at that end.
LEMMA RangeMoves ==
  ASSUME NEW r \in Configured, NEW t \in Nat
  PROVE  IsInRange(r, t + 1) <=>
           \/ Opens(r, t + 1)
           \/ IsInRange(r, t) /\ (Closes(r, t) => Opens(r, t))
<1>1. t + 1 \in Nat
  OBVIOUS
<1>2. /\ Date(t) \in Nat /\ TimeOnly(t) \in 0..(SecondsPerDay - 1) /\ WeekDay(t) \in 1..7
      /\ Date(t + 1) \in Nat /\ TimeOnly(t + 1) \in 0..(SecondsPerDay - 1)
      /\ WeekDay(t + 1) \in 1..7
  BY <1>1, Clock
<1>3. /\ Date(t + 1) = Date(t) => WeekDay(t + 1) = WeekDay(t)
      /\ Date(t + 1) = Date(t) + 1 =>
           WeekDay(t + 1) = IF WeekDay(t) = 7 THEN 1 ELSE WeekDay(t) + 1
  BY <1>1, NextDay
<1>4. CASE Daily(r)
  BY <1>1, <1>2, <1>4, NextSecond, Fields, DayIsPositive
     DEF Opens, Closes, Strikes, IsInRange, IsInDailyRange
<1>5. CASE ~Daily(r)
  BY <1>1, <1>2, <1>3, <1>5, NextSecond, Fields, DayIsPositive
     DEF Opens, Closes, Strikes, IsInRange, IsInWeeklyRange, IsInDailyRange
<1> QED
  BY <1>4, <1>5

\* Every behaviour of the clock and the session keeps the invariant: isInRange follows
\* the strikes, and the last strike is where the arithmetic puts it.
THEOREM Inductive == Spec => []IInv
<1>1. Init => IInv
  <2> SUFFICES ASSUME Init PROVE IInv
    OBVIOUS
  <2>1. range \in Configured
    BY Constructed DEF Init
  <2>2. now \in Nat /\ Opens(range, now) /\ open = TRUE /\ started = now /\ creation = now
    BY DayIsPositive DEF Init
  <2>3. Struck
    BY <2>1, <2>2, OpensAtStart DEF Struck
  <2>4. TimeOnly(now) \in 0..(SecondsPerDay - 1) /\ WeekDay(now) \in 1..7
    BY <2>2, Clock
  <2>5. IsInRange(range, now)
    BY <2>1, <2>2, <2>4, Fields
       DEF Opens, Strikes, IsInRange, IsInDailyRange, IsInWeeklyRange
  <2> QED
    BY <2>1, <2>2, <2>3, <2>5 DEF IInv, TypeOK, OpenOnTime
<1>2. IInv /\ [Next]_vars => IInv'
  <2> SUFFICES ASSUME IInv, [Next]_vars PROVE IInv'
    OBVIOUS
  <2>1. CASE Tick
    <3>1. now' = now + 1 /\ now + 1 \in Nat /\ range' = range /\ creation' = creation
      BY <2>1 DEF Tick, IInv, TypeOK
    <3>2. started' = IF Opens(range, now + 1) THEN now + 1 ELSE started
      BY <2>1, <3>1 DEF Tick
    <3>3. Struck'
      BY <3>1, <3>2, StartMoves, OpensAtStart DEF IInv, TypeOK, Struck
    <3>4. started = now <=> Opens(range, now)
      BY OpensAtStart, Same DEF IInv, TypeOK, Struck
    <3>5. OpenOnTime'
      BY <2>1, <3>1, <3>4, RangeMoves DEF Tick, IInv, TypeOK, OpenOnTime
    <3>6. TypeOK'
      <4>1. open' \in BOOLEAN
        BY <2>1, <3>1 DEF Tick
      <4>2. started' \in Nat /\ creation' <= now'
        BY <3>1, <3>2 DEF IInv, TypeOK
      <4> QED
        BY <3>1, <4>1, <4>2 DEF IInv, TypeOK
    <3> QED
      BY <3>3, <3>5, <3>6 DEF IInv
  <2>2. CASE Look
    <3>1. creation' \in Nat /\ creation' <= now
      BY <2>2 DEF Look, IInv, TypeOK
    <3> QED
      BY <2>2, <3>1 DEF Look, IInv, TypeOK, Struck, OpenOnTime
  <2>3. CASE UNCHANGED vars
    BY <2>3 DEF vars, IInv, TypeOK, Struck, OpenOnTime
  <2> QED
    BY <2>1, <2>2, <2>3 DEF Next
<1> QED
  BY <1>1, <1>2, PTL DEF Spec

\* TimeRange::isInRange is true exactly while the clock has struck the hours open.
THEOREM OpensOnTime == Spec => []OpenOnTime
BY Inductive, PTL DEF IInv

-----------------------------------------------------------------------------
(* Two moments *)

\* c is not before the start of the hours that t is in.
Since(r, t, c) ==
  \/ StartDate(r, t) < Date(c)
  \/ StartDate(r, t) = Date(c) /\ StartTime(r) <= TimeOnly(c)

\* Dates and times of two moments, c no later than t.
Moments(t, c) ==
  /\ Date(t) \in Nat /\ TimeOnly(t) \in 0..(SecondsPerDay - 1) /\ WeekDay(t) \in 1..7
  /\ Date(c) \in Nat /\ TimeOnly(c) \in 0..(SecondsPerDay - 1) /\ WeekDay(c) \in 1..7
  /\ Date(c) < Date(t) \/ (Date(c) = Date(t) /\ TimeOnly(c) <= TimeOnly(t))

\* The facts about two moments that the comparisons below use.
LEMMA TwoMoments ==
  ASSUME NEW t \in Nat, NEW c \in Nat, c <= t
  PROVE  Moments(t, c)
<1>1. Date(c) < Date(t) \/ (Date(c) = Date(t) /\ TimeOnly(c) <= TimeOnly(t))
  BY Order
<1> QED
  BY <1>1, Clock DEF Moments

\* For two moments in hours past midnight isInSameRange, which subtracts seconds, tells
\* whether they are of the same night, except that the last second is of none.
LEMMA SameNight ==
  ASSUME NEW r \in Configured, Daily(r), r.startTime > r.endTime,
         NEW t \in Nat, NEW c \in Nat, c < t,
         IsInDailyRange(r, t), IsInDailyRange(r, c)
  PROVE  InSameNight(r, t, c) <=> Since(r, t, c) /\ TimeOnly(t) # r.endTime
<1>1. Moments(t, c)
  BY TwoMoments
<1>2. InSameNight(r, t, c) <=>
        t - c < SecondsPerDay - (r.startTime - r.endTime)
                  - IF TimeOnly(c) < r.startTime
                    THEN SecondsPerDay - (r.startTime - TimeOnly(c))
                    ELSE TimeOnly(c) - r.startTime
  BY <1>1, Fields, DayIsPositive DEF Moments, InSameNight, SessionLength, Seconds, Abs
<1>3. t - c \in Nat
  OBVIOUS
<1>4. CASE Date(t) = Date(c)
  <2>1. t - c = TimeOnly(t) - TimeOnly(c)
    BY <1>4, Apart
  <2> QED
    BY <1>1, <1>2, <1>4, <2>1, Fields, DayIsPositive
       DEF Moments, Since, StartDate, StartTime, AllDay, IsInDailyRange
<1>5. CASE Date(t) = Date(c) + 1
  <2>1. t - c = SecondsPerDay + TimeOnly(t) - TimeOnly(c)
    BY <1>5, Apart
  <2> QED
    BY <1>1, <1>2, <1>5, <2>1, Fields, DayIsPositive
       DEF Moments, Since, StartDate, StartTime, AllDay, IsInDailyRange
<1>6. CASE Date(t) >= Date(c) + 2
  <2>1. t - c >= 2 * SecondsPerDay + TimeOnly(t) - TimeOnly(c)
    BY <1>6, Apart
  <2> QED
    BY <1>1, <1>2, <1>3, <1>6, <2>1, Fields, DayIsPositive
       DEF Moments, Since, StartDate, StartTime, AllDay, IsInDailyRange
<1> QED
  BY <1>1, <1>4, <1>5, <1>6 DEF Moments

\* From the start of daily hours to a moment in them, all are in them.
LEMMA NightHolds ==
  ASSUME NEW r \in Configured, Daily(r), NEW t \in Nat, NEW c \in Nat, c <= t,
         IsInDailyRange(r, t), Since(r, t, c)
  PROVE  IsInDailyRange(r, c)
<1>1. Moments(t, c)
  BY TwoMoments
<1> QED
  BY <1>1, Fields, DayIsPositive
     DEF Moments, Since, StartDate, StartTime, AllDay, IsInDailyRange

\* isInSameRange of daily hours: true only for moments with the same start, and for
\* all of those except the last second of hours past midnight.
LEMMA SameDaily ==
  ASSUME NEW r \in Configured, Daily(r), NEW t \in Nat, NEW c \in Nat, c <= t
  PROVE  /\ IsInSameRange(r, t, c) => IsInRange(r, t) /\ Since(r, t, c)
         /\ IsInRange(r, t) /\ Since(r, t, c)
              /\ ~(PastMidnight(r) /\ Closes(r, t)) => IsInSameRange(r, t, c)
<1>1. Moments(t, c)
  BY TwoMoments
<1>2. IsInRange(r, t) <=> IsInDailyRange(r, t)
  BY DEF IsInRange
<1>3. IsInSameRange(r, t, c) <=> IsInSameDailyRange(r, t, c)
  BY DEF IsInSameRange
<1>4. CASE r.startTime <= r.endTime
  <2>1. IsInSameDailyRange(r, t, c) <=>
          IsInDailyRange(r, t) /\ IsInDailyRange(r, c) /\ Date(t) = Date(c)
    BY <1>4, Same DEF IsInSameDailyRange
  <2> QED
    BY <1>1, <1>2, <1>3, <1>4, <2>1, Fields, DayIsPositive
       DEF Moments, Since, StartDate, StartTime, AllDay, IsInDailyRange
<1>5. CASE r.startTime > r.endTime
  <2>1. IsInSameDailyRange(r, t, c) <=>
          IsInDailyRange(r, t) /\ IsInDailyRange(r, c) /\ (t = c \/ InSameNight(r, t, c))
    BY <1>5, Fields DEF IsInSameDailyRange
  <2>2. Closes(r, t) <=> TimeOnly(t) = r.endTime
    BY <1>5, Fields DEF Closes, Strikes
  <2>3. CASE t = c
    <3>1. IsInDailyRange(r, t) => Since(r, t, c)
      BY <1>1, <1>5, <2>3, Fields, DayIsPositive
         DEF Moments, Since, StartDate, StartTime, AllDay, IsInDailyRange
    <3> QED
      BY <1>2, <1>3, <2>1, <2>3, <3>1
  <2>4. CASE c < t
    BY <1>2, <1>3, <1>5, <2>1, <2>2, <2>4, SameNight, NightHolds DEF PastMidnight
  <2> QED
    BY <2>3, <2>4
<1> QED
  BY <1>4, <1>5, Fields

\* isInSameRange of weekly hours: true for moments with the same start, and for no other,
\* except in the second that ends one week and starts the next.
LEMMA SameWeekly ==
  ASSUME NEW r \in Configured, ~Daily(r), NEW t \in Nat, NEW c \in Nat, c <= t
  PROVE  /\ IsInSameRange(r, t, c) /\ ~(Opens(r, t) /\ Closes(r, t)) =>
              IsInRange(r, t) /\ Since(r, t, c)
         /\ IsInRange(r, t) /\ Since(r, t, c) => IsInSameRange(r, t, c)
<1>1. Moments(t, c)
  BY TwoMoments
<1>2. IsInRange(r, t) <=> IsInWeeklyRange(r, t)
  BY DEF IsInRange
<1>3. IsInSameRange(r, t, c) <=> IsInSameWeeklyRange(r, t, c)
  BY DEF IsInSameRange
<1>4. PICK p \in Nat : Date(t) = 7 * p + WeekDay(t) - 1
  BY Weeks
<1>5. PICK q \in Nat : Date(c) = 7 * q + WeekDay(c) - 1
  BY Weeks
<1>6. CASE r.startDay # r.endDay
  <2>1. IsInSameWeeklyRange(r, t, c) <=>
          /\ IsInWeeklyRange(r, t) /\ IsInWeeklyRange(r, c)
          /\ GetRangeStartDate(r, t) = GetRangeStartDate(r, c)
    BY <1>6 DEF IsInSameWeeklyRange
  <2>2. Since(r, t, c) <=> GetRangeStartDate(r, t) = GetRangeStartDate(r, c)
    BY SMTT(60), <1>1, <1>4, <1>5, Fields, DayIsPositive
       DEF Moments, Since, StartDate, StartTime, AllDay, GetRangeStartDate
  <2>3. IsInWeeklyRange(r, t) /\ GetRangeStartDate(r, t) = GetRangeStartDate(r, c) =>
          IsInWeeklyRange(r, c)
    BY <1>1, <1>4, <1>5, <1>6, Fields, DayIsPositive
       DEF Moments, GetRangeStartDate, IsInWeeklyRange
  <2> QED
    BY <1>2, <1>3, <2>1, <2>2, <2>3
<1>7. CASE r.startDay = r.endDay
  <2>1. IsInSameWeeklyRange(r, t, c) <=>
          /\ IsInWeeklyRange(r, t) /\ IsInWeeklyRange(r, c) /\ InSameWeek(r, t, c)
    BY <1>7 DEF IsInSameWeeklyRange
  <2>2. Opens(r, t) <=> WeekDay(t) = r.startDay /\ TimeOnly(t) = r.startTime
    BY DEF Opens, Strikes
  <2>3. Closes(r, t) <=> WeekDay(t) = r.startDay /\ TimeOnly(t) = r.endTime
    BY <1>7 DEF Closes, Strikes
  <2>4. Since(r, t, c) <=> GetRangeStartDate(r, t) = GetRangeStartDate(r, c)
    BY SMTT(60), <1>1, <1>4, <1>5, Fields, DayIsPositive
       DEF Moments, Since, StartDate, StartTime, AllDay, GetRangeStartDate
  <2>5. IsInWeeklyRange(r, t) /\ Since(r, t, c) => IsInWeeklyRange(r, c)
    BY <1>1, <1>4, <1>5, <1>7, <2>4, Fields, DayIsPositive
       DEF Moments, GetRangeStartDate, IsInWeeklyRange, IsInDailyRange
  <2>6. ASSUME IsInWeeklyRange(r, t), IsInWeeklyRange(r, c)
        PROVE  /\ InSameWeek(r, t, c) /\ ~(Opens(r, t) /\ Closes(r, t)) => Since(r, t, c)
               /\ Since(r, t, c) => InSameWeek(r, t, c)
    <3>1. CASE Date(t) = Date(c)
      <4>1. WeekDay(t) = WeekDay(c)
        BY <3>1, NextDay
      <4>2. Abs(Date(t) - Date(c)) = 0
        BY <1>1, <3>1 DEF Moments, Abs
      <4>3. CASE WeekDay(t) = r.startDay
        <5>1. InSameWeek(r, t, c) <=>
                \/ TimeOnly(t) <= r.endTime /\ TimeOnly(c) <= r.endTime
                \/ TimeOnly(t) >= r.startTime /\ TimeOnly(c) >= r.startTime
          BY <4>2, <4>3 DEF InSameWeek
        <5> QED
          BY <1>1, <1>7, <2>2, <2>3, <2>4, <2>6, <3>1, <4>1, <4>3, <5>1, Fields, DayIsPositive
             DEF Moments, GetRangeStartDate, IsInWeeklyRange, IsInDailyRange
      <4>4. CASE WeekDay(t) # r.startDay
        <5>1. InSameWeek(r, t, c)
          BY <4>2, <4>4 DEF InSameWeek
        <5> QED
          BY <1>1, <2>4, <3>1, <4>1, <4>4, <5>1, Fields DEF Moments, GetRangeStartDate
      <4> QED
        BY <4>3, <4>4
    <3>2. CASE Date(t) = Date(c) + 7
      <4>1. WeekDay(t) = WeekDay(c)
        BY <1>1, <1>4, <1>5, <3>2 DEF Moments
      <4>2. Abs(Date(t) - Date(c)) = 7
        BY <1>1, <3>2 DEF Moments, Abs
      <4>3. ~(t < c) /\ t # c
        BY <1>1, <3>2 DEF Moments
      <4>4. InSameWeek(r, t, c) <=>
              /\ WeekDay(t) = r.startDay
              /\ TimeOnly(c) >= r.startTime /\ TimeOnly(t) <= r.endTime
        BY <4>2, <4>3 DEF InSameWeek
      <4> QED
        BY <1>1, <1>7, <2>2, <2>3, <2>4, <2>6, <3>2, <4>1, <4>4, Fields, DayIsPositive
           DEF Moments, GetRangeStartDate, IsInWeeklyRange, IsInDailyRange
    <3>3. CASE Date(t) > Date(c) + 7
      BY SMTT(60), <1>1, <1>4, <1>5, <1>7, <2>2, <2>3, <2>4, <2>6, <3>3, Fields, DayIsPositive
         DEF Moments, GetRangeStartDate, InSameWeek, Abs
    <3>4. CASE Date(t) # Date(c) /\ Date(t) < Date(c) + 7
      BY <1>1, <2>4, <3>4, Fields, DayIsPositive
         DEF Moments, InSameWeek, Abs
    <3> QED
      BY <1>1, <3>1, <3>2, <3>3, <3>4 DEF Moments
  <2> QED
    BY <1>2, <1>3, <2>1, <2>5, <2>6
<1> QED
  BY <1>6, <1>7

\* The store was created since the last strike, in terms of the clock and of dates.
LEMMA SinceStarted ==
  ASSUME IInv
  PROVE  Since(range, now, creation) <=> started <= creation
BY Order DEF IInv, TypeOK, Struck, Since

\* The numbers of one occurrence of the hours are never carried into another:
\* Session::checkSessionTime notices, however long the process was down.
THEOREM OccurrencesStartOver == Spec => []StartedOver
<1>1. IInv => StartedOver
  BY SameDaily, SameWeekly, SinceStarted
     DEF IInv, TypeOK, OpenOnTime, StartedOver, CheckSessionTime
<1> QED
  BY <1>1, Inductive, PTL

\* Within one occurrence of the hours checkSessionTime never starts the numbers over.
THEOREM NumbersKept == Spec => KeptWithin
<1>1. IInv /\ [Next]_vars =>
        [(Look /\ open /\ creation >= started /\ ~(PastMidnight(range) /\ Closes(range, now)))
           => creation' = creation]_vars
  BY SameDaily, SameWeekly, SinceStarted DEF IInv, TypeOK, OpenOnTime, Look, CheckSessionTime
<1> QED
  BY <1>1, Inductive, PTL DEF Spec, KeptWithin

=============================================================================
