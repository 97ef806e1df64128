-------------------------- MODULE RecurrenceProofs --------------------------
(***************************************************************************)
(* Proofs about Recurrence, for any requests, any calendar and any zone    *)
(* whose clocks, set back, show again what they have shown.                *)
(***************************************************************************)
EXTENDS Recurrence, WellFoundedInduction, TLAPS

-----------------------------------------------------------------------------
(* The least of a set of numbers *)

LEMMA LeastNatural ==
  ASSUME NEW T \in SUBSET Nat, T # {}
  PROVE  \E x \in T : \A y \in T : x <= y
<1> DEFINE R == OpToRel(<, Nat)
<1>1. IsWellFoundedOn(R, Nat)
  BY NatLessThanWellFounded
<1>2. \A x, y \in Nat : <<x, y>> \in R <=> x < y
  BY DEF OpToRel
<1> HIDE DEF R
<1>3. PICK x \in T : \A y \in T : ~(<<y, x>> \in R)
  BY <1>1, WFMin
<1>4. ASSUME NEW y \in T PROVE x <= y
  <2>1. x \in Nat /\ y \in Nat /\ ~(y < x)
    BY <1>2, <1>3
  <2>2. QED
    BY <2>1
<1>5. QED
  BY <1>4

\* Min is the least element of a set of integers that has a lower bound.
LEMMA MinIsLeast ==
  ASSUME NEW S, NEW low \in Int, \A x \in S : x \in Int /\ x >= low, S # {}
  PROVE  Min(S) \in S /\ \A y \in S : Min(S) <= y
<1> DEFINE T == {x - low : x \in S}
<1>1. T \in SUBSET Nat /\ T # {}
  OBVIOUS
<1>2. PICK t \in T : \A u \in T : t <= u
  BY <1>1, LeastNatural
<1>3. PICK x \in S : t = x - low
  BY <1>2
<1>4. \A y \in S : x <= y
  <2> SUFFICES ASSUME NEW y \in S PROVE x <= y
    OBVIOUS
  <2>1. t <= y - low
    BY <1>2
  <2>2. QED
    BY <1>3, <2>1
<1>5. QED
  BY <1>4 DEF Min

-----------------------------------------------------------------------------
(* Dates and wall-clock times *)

LEMMA MultiplesInOrder ==
  ASSUME NEW n \in Nat, n > 0, NEW d \in Int, NEW e \in Int, d < e,
         NEW a \in 0..(n - 1), NEW b \in Int, b >= 0
  PROVE  d * n + a < e * n + b
<1>1. (d + 1) * n <= e * n /\ (d + 1) * n = d * n + n
  OBVIOUS
<1>2. d * n \in Int /\ e * n \in Int
  OBVIOUS
<1>3. QED
  BY <1>1, <1>2

\* Division with remainder, and that it is the only one.
LEMMA QuotientAndRest ==
  ASSUME NEW n \in Nat, n > 0, NEW x \in Int
  PROVE  x \div n \in Int /\ x % n \in 0..(n - 1) /\ x = (x \div n) * n + (x % n)
OBVIOUS

LEMMA OneQuotient ==
  ASSUME NEW n \in Nat, n > 0, NEW d \in Int, NEW a \in 0..(n - 1)
  PROVE  LET x == d * n + a IN x \in Int /\ x \div n = d /\ x % n = a
<1> DEFINE x == d * n + a
           e == x \div n
           b == x % n
<1>1. x \in Int
  OBVIOUS
<1>2. e \in Int /\ b \in 0..(n - 1) /\ x = e * n + b
  BY <1>1, QuotientAndRest
<1> HIDE DEF e, b
<1>3. ~(d < e)
  BY <1>2, MultiplesInOrder
<1>4. ~(e < d)
  BY <1>2, MultiplesInOrder
<1>5. d = e
  BY <1>2, <1>3, <1>4
<1>6. a = b
  BY <1>2, <1>5
<1>7. QED
  BY <1>1, <1>5, <1>6 DEF e, b

\* Wall-clock times of one day come before those of a later one.
LEMMA DaysInOrder ==
  ASSUME NEW d \in Int, NEW e \in Int, d < e,
         NEW a \in 0..(DayLength - 1), NEW b \in Int, b >= 0
  PROVE  d * DayLength + a < e * DayLength + b
BY MultiplesInOrder, RecurrenceConstants

LEMMA DateAndTime ==
  ASSUME NEW x \in Int
  PROVE  /\ DateOf(x) \in Int /\ x % DayLength \in 0..(DayLength - 1)
         /\ x = DateOf(x) * DayLength + (x % DayLength)
BY QuotientAndRest, RecurrenceConstants DEF DateOf

LEMMA DateOfWall ==
  ASSUME NEW d \in Int, NEW a \in 0..(DayLength - 1)
  PROVE  LET wall == d * DayLength + a IN
         wall \in Int /\ DateOf(wall) = d /\ wall % DayLength = a
BY OneQuotient, RecurrenceConstants DEF DateOf

TimeOfDay == 0..(DayLength - 1)

\* The instants a tick may come at.
Moment == 0..((LastDay + 1) * DayLength - 1)

LEMMA ClocksNearUtc ==
  ASSUME NEW t \in Int, t >= -DayLength, t <= EndOfTime
  PROVE  /\ Local(t) \in Int
         /\ Local(t) >= t - MaxOffset /\ Local(t) <= t + MaxOffset
<1>1. DayLength \in Nat /\ MaxOffset \in Nat /\ LastDay \in Nat /\ Horizon \in Nat
  BY RecurrenceConstants
<1>2. EndOfTime \in Int /\ t \in -DayLength..EndOfTime
  BY <1>1 DEF EndOfTime
<1>3. Offset(t) \in -MaxOffset..MaxOffset
  BY <1>2, ClocksAssumption
<1>4. QED
  BY <1>1, <1>3 DEF Local

\* The earliest instant of a wall-clock time, where there is one.
LEMMA EarliestShows ==
  ASSUME NEW d \in Int, NEW a \in TimeOfDay, Earliest(d, a) # Never
  PROVE  LET t == Earliest(d, a)
             wall == d * DayLength + a IN
         /\ t \in Int /\ Local(t) = wall
         /\ t >= wall - MaxOffset /\ t <= wall + MaxOffset
         /\ \A u \in Instants(d, a) : t <= u
<1> DEFINE wall == d * DayLength + a
           S == Instants(d, a)
<1>1. wall \in Int /\ MaxOffset \in Nat
  BY RecurrenceConstants, DateOfWall DEF TimeOfDay
<1>2. S # {} /\ Earliest(d, a) = Min(S)
  BY DEF Earliest
<1>3. \A x \in S : x \in Int /\ x >= wall - MaxOffset /\ x <= wall + MaxOffset /\ Local(x) = wall
  BY <1>1 DEF Instants
<1> HIDE DEF S, wall
<1>4. wall - MaxOffset \in Int
  BY <1>1
<1>5. Min(S) \in S /\ \A y \in S : Min(S) <= y
  BY <1>2, <1>3, <1>4, MinIsLeast
<1>6. QED
  BY <1>2, <1>3, <1>5 DEF S, wall

LEMMA InstantsShow ==
  ASSUME NEW d \in Int, NEW a \in TimeOfDay, NEW t \in Int, t >= -DayLength, t <= EndOfTime,
         Local(t) = d * DayLength + a
  PROVE  t \in Instants(d, a)
<1>1. MaxOffset \in Nat
  BY RecurrenceConstants
<1>2. d * DayLength + a \in Int
  BY DateOfWall DEF TimeOfDay
<1>3. QED
  BY <1>1, <1>2, ClocksNearUtc DEF Instants

LEMMA BeforeTheEnd ==
  ASSUME NEW d \in Int, d <= LastDay + Horizon + 1, NEW a \in TimeOfDay, Earliest(d, a) # Never
  PROVE  Earliest(d, a) <= EndOfTime
<1> DEFINE t == Earliest(d, a)
           wall == d * DayLength + a
           n == LastDay + Horizon + 2
<1>1. /\ DayLength \in Nat /\ MaxOffset \in Nat /\ n \in Int /\ MaxOffset <= DayLength
      /\ LastDay \in Nat /\ Horizon \in Nat
  BY RecurrenceConstants
<1>2. wall < n * DayLength + 0
  BY <1>1, DaysInOrder DEF TimeOfDay
<1>3. EndOfTime = n * DayLength + DayLength /\ n * DayLength \in Int
  BY <1>1 DEF EndOfTime
<1>4. t \in Int /\ t <= wall + MaxOffset /\ wall \in Int
  BY <1>1, EarliestShows, DateOfWall DEF TimeOfDay
<1> HIDE DEF t, wall, n
<1>5. QED
  BY <1>1, <1>2, <1>3, <1>4 DEF t

\* Before a wall-clock time is first shown, the clocks show earlier ones only.
LEMMA FirstShown ==
  ASSUME NEW d \in Int, NEW a \in TimeOfDay, Earliest(d, a) # Never,
         Earliest(d, a) <= EndOfTime, NEW u \in Int, u >= -DayLength, u < Earliest(d, a)
  PROVE  Local(u) < d * DayLength + a
<1> DEFINE t == Earliest(d, a)
           wall == d * DayLength + a
<1>1. DayLength \in Nat /\ MaxOffset \in Nat /\ LastDay \in Nat /\ Horizon \in Nat
  BY RecurrenceConstants
<1>2. t \in Int /\ Local(t) = wall /\ \A v \in Instants(d, a) : t <= v
  BY EarliestShows
<1>3. wall \in Int /\ EndOfTime \in Int
  BY <1>1, DateOfWall DEF TimeOfDay, EndOfTime
<1>4. /\ u <= EndOfTime /\ t >= -DayLength /\ t <= EndOfTime
  BY <1>1, <1>2, <1>3
<1> HIDE DEF t
<1>5. /\ Local(u) \in Int /\ Local(u) >= u - MaxOffset /\ Local(u) <= u + MaxOffset
      /\ Local(t) >= t - MaxOffset /\ Local(t) <= t + MaxOffset
  BY <1>2, <1>4, ClocksNearUtc
<1>6. ASSUME NEW v \in Int, v >= -DayLength, v < t PROVE Local(v) # wall
  <2>1. v <= EndOfTime
    BY <1>2, <1>3, <1>4, <1>6
  <2>2. QED
    BY <1>2, <1>6, <2>1, InstantsShow
<1>7. ~(Local(u) > wall)
  <2> SUFFICES ASSUME Local(u) > wall PROVE FALSE
    OBVIOUS
  <2>1. u \in (t - 2 * MaxOffset)..(t - 1) /\ t \in -DayLength..EndOfTime
    BY <1>1, <1>2, <1>3, <1>4, <1>5 DEF t
  <2>2. PICK v \in (t - 2 * MaxOffset)..(t - 1) : v >= -DayLength /\ Local(v) = Local(t)
    BY <1>2, <2>1, ClocksAssumption
  <2>3. v \in Int /\ v < t
    BY <1>1, <1>2
  <2>4. QED
    BY <1>2, <1>6, <2>2, <2>3
<1>8. Local(u) # wall
  BY <1>6 DEF t
<1>9. QED
  BY <1>3, <1>5, <1>7, <1>8

-----------------------------------------------------------------------------
(* The next run *)

LEMMA TodayIsNear ==
  ASSUME NEW t \in Moment
  PROVE  LET today == DateOf(Local(t)) IN
         /\ t >= -DayLength /\ t <= EndOfTime /\ Local(t) \in Int
         /\ today \in Int /\ today <= LastDay + 1
         /\ today * DayLength <= Local(t)
         /\ Local(t) < (today + 1) * DayLength
<1> DEFINE local == Local(t)
           today == DateOf(local)
           time == local % DayLength
<1>1. /\ DayLength \in Nat /\ MaxOffset \in Nat /\ MaxOffset <= DayLength /\ DayLength > 0
      /\ LastDay \in Nat /\ Horizon \in Nat
  BY RecurrenceConstants
<1>2. /\ (LastDay + 1) * DayLength \in Int
      /\ (LastDay + 2) * DayLength = (LastDay + 1) * DayLength + DayLength
      /\ (Horizon + 2) * DayLength >= 0 /\ (Horizon + 2) * DayLength \in Int
      /\ EndOfTime = (LastDay + 1) * DayLength + (Horizon + 2) * DayLength
  BY <1>1 DEF EndOfTime
<1>3. t \in Int /\ t >= -DayLength /\ t <= EndOfTime /\ t < (LastDay + 1) * DayLength
  BY <1>1, <1>2 DEF Moment
<1>4. local \in Int /\ local <= t + MaxOffset
  BY <1>3, ClocksNearUtc
<1> HIDE DEF local
<1>5. today \in Int /\ time \in 0..(DayLength - 1) /\ local = today * DayLength + time
  BY <1>4, DateAndTime
<1> HIDE DEF today, time
<1>6. today * DayLength <= local /\ local < (today + 1) * DayLength
  <2>1. today * DayLength \in Int /\ (today + 1) * DayLength = today * DayLength + DayLength
    BY <1>1, <1>5
  <2>2. QED
    BY <1>1, <1>5, <2>1
<1>7. today <= LastDay + 1
  <2> SUFFICES ASSUME LastDay + 1 < today PROVE FALSE
    BY <1>1, <1>5
  <2>1. (LastDay + 2) * DayLength <= today * DayLength
    BY <1>1, <1>5
  <2>2. today * DayLength \in Int
    BY <1>1, <1>5
  <2>3. QED
    BY <1>1, <1>2, <1>3, <1>4, <1>6, <2>1, <2>2
<1>8. QED
  BY <1>3, <1>4, <1>5, <1>6, <1>7 DEF today, local

\* What the scan over dates finds.
CanRun(s, after, d) == Matches(s, d) /\ Earliest(d, s.at) > after

Scanned(after) == DateOf(Local(after))..(DateOf(Local(after)) + Horizon)

LEMMA ScanFinds ==
  ASSUME NEW s, NEW after \in Moment
  PROVE  \/ /\ NextWallclock(s, after) = NoRun
            /\ \A d \in Scanned(after) : ~CanRun(s, after, d)
         \/ \E d \in Scanned(after) :
              /\ CanRun(s, after, d) /\ NextWallclock(s, after) = Earliest(d, s.at)
              /\ \A e \in Scanned(after) : CanRun(s, after, e) => d <= e
<1> DEFINE S == {d \in Scanned(after) : CanRun(s, after, d)}
           today == DateOf(Local(after))
<1>1. NextWallclock(s, after) = IF S = {} THEN NoRun ELSE Earliest(Min(S), s.at)
  BY DEF NextWallclock, Scanned, CanRun
<1>2. today \in Int /\ \A x \in S : x \in Int /\ x >= today
  <2>1. today \in Int /\ Horizon \in Int
    BY TodayIsNear, RecurrenceConstants
  <2>2. QED
    BY <2>1 DEF Scanned
<1>3. CASE S = {}
  BY <1>1, <1>3
<1>4. CASE S # {}
  <2> HIDE DEF S, today
  <2>1. Min(S) \in S /\ \A y \in S : Min(S) <= y
    BY <1>2, <1>4, MinIsLeast
  <2>2. NextWallclock(s, after) = Earliest(Min(S), s.at)
    BY <1>1, <1>4
  <2>3. QED
    BY <2>1, <2>2 DEF S
<1>5. QED
  BY <1>3, <1>4

LEMMA ScannedDates ==
  ASSUME NEW after \in Moment, NEW d \in Scanned(after)
  PROVE  d \in Int /\ d <= LastDay + Horizon + 1
<1>1. DateOf(Local(after)) \in Int /\ DateOf(Local(after)) <= LastDay + 1
  BY TodayIsNear
<1>2. LastDay \in Nat /\ Horizon \in Nat
  BY RecurrenceConstants
<1>3. QED
  BY <1>1, <1>2 DEF Scanned

\* A run that is found is on its date, at its time, and after the instant asked
\* about; none is found where there is none.
LEMMA RunFound ==
  ASSUME NEW s, s.at \in TimeOfDay, NEW after \in Moment
  PROVE  LET t == NextWallclock(s, after) IN
         \/ t = NoRun /\ \A d \in Scanned(after) : ~CanRun(s, after, d)
         \/ /\ t # NoRun
            /\ \E d \in Scanned(after) :
                 /\ t = Earliest(d, s.at) /\ t # Never /\ t \in Int /\ t > after
                 /\ t <= EndOfTime /\ Local(t) = d * DayLength + s.at /\ Matches(s, d)
                 /\ \A e \in Scanned(after) : CanRun(s, after, e) => d <= e
<1> SUFFICES ASSUME ~\A d \in Scanned(after) : ~CanRun(s, after, d)
             PROVE  /\ NextWallclock(s, after) # NoRun
                    /\ \E d \in Scanned(after) :
                         LET t == NextWallclock(s, after) IN
                         /\ t = Earliest(d, s.at) /\ t # Never /\ t \in Int /\ t > after
                         /\ t <= EndOfTime /\ Local(t) = d * DayLength + s.at /\ Matches(s, d)
                         /\ \A e \in Scanned(after) : CanRun(s, after, e) => d <= e
  BY ScanFinds
<1>1. PICK d \in Scanned(after) :
        /\ CanRun(s, after, d) /\ NextWallclock(s, after) = Earliest(d, s.at)
        /\ \A e \in Scanned(after) : CanRun(s, after, e) => d <= e
  BY ScanFinds
<1>2. d \in Int /\ d <= LastDay + Horizon + 1
  BY ScannedDates
<1> DEFINE t == Earliest(d, s.at)
<1>3. t > after /\ Matches(s, d)
  BY <1>1 DEF CanRun
<1>4. after \in Int /\ after >= 0
  <2>1. (LastDay + 1) * DayLength \in Int
    BY RecurrenceConstants
  <2>2. QED
    BY <2>1 DEF Moment
<1>5. t # Never
  <2> HIDE DEF t
  <2>1. ~(Never > after)
    BY <1>4 DEF Never
  <2>2. QED
    BY <1>3, <2>1
<1>6. t \in Int /\ Local(t) = d * DayLength + s.at /\ t <= EndOfTime
  BY <1>2, <1>5, EarliestShows, BeforeTheEnd
<1>7. t # NoRun
  BY <1>6, RecurrenceConstants
<1>8. QED
  BY <1>1, <1>3, <1>5, <1>6, <1>7

\* No run of a matching date lies between the instant asked about and the answer.
LEMMA NoneBetween ==
  ASSUME NEW s, s.at \in TimeOfDay, NEW after \in Moment,
         NEW date \in Int, date <= LastDay + Horizon, CanRun(s, after, date),
         Earliest(date, s.at) # Never
  PROVE  LET t == NextWallclock(s, after) IN
         IF t = NoRun THEN date > DateOf(Local(after)) + Horizon
         ELSE t <= Earliest(date, s.at)
<1> DEFINE today == DateOf(Local(after))
           t == NextWallclock(s, after)
           moment == Earliest(date, s.at)
<1>1. /\ DayLength \in Nat /\ DayLength > 0 /\ Horizon \in Nat /\ LastDay \in Nat
      /\ (LastDay + 1) * DayLength \in Int
  BY RecurrenceConstants
<1>2. /\ after \in Int /\ after >= 0 /\ after >= -DayLength
  BY <1>1 DEF Moment
<1>3. today \in Int /\ today * DayLength <= Local(after) /\ Local(after) \in Int
  BY TodayIsNear
<1>4. moment \in Int /\ moment <= EndOfTime /\ Local(moment) = date * DayLength + s.at /\ moment > after
  BY <1>1, EarliestShows, BeforeTheEnd DEF CanRun
<1>5. date >= today
  <2> SUFFICES ASSUME date < today PROVE FALSE
    BY <1>3
  <2>1. date * DayLength + s.at < today * DayLength + 0
    BY <1>3, DaysInOrder DEF TimeOfDay
  <2>2. Local(after) < date * DayLength + s.at
    BY <1>2, <1>4, FirstShown
  <2>3. date * DayLength + s.at \in Int /\ today * DayLength \in Int
    BY <1>1, <1>3 DEF TimeOfDay
  <2>4. QED
    BY <1>3, <2>1, <2>2, <2>3
<1>6. CASE t = NoRun
  <2>1. date \notin Scanned(after)
    <3>1. \A d \in Scanned(after) : ~CanRun(s, after, d)
      BY <1>6, RunFound
    <3>2. QED
      BY <3>1
  <2>2. QED
    BY <1>1, <1>3, <1>5, <1>6, <2>1 DEF Scanned
<1>7. CASE t # NoRun
  <2>1. PICK d \in Scanned(after) :
          /\ t = Earliest(d, s.at) /\ t # Never /\ t \in Int /\ t > after
          /\ t <= EndOfTime /\ Local(t) = d * DayLength + s.at
          /\ \A e \in Scanned(after) : CanRun(s, after, e) => d <= e
    BY <1>7, RunFound
  <2>2. d \in Int /\ d <= today + Horizon
    BY <1>1, <1>3, ScannedDates DEF Scanned
  <2>3. d <= date
    <3>1. CASE date <= today + Horizon
      <4>1. date \in Scanned(after)
        BY <1>1, <1>3, <1>5, <3>1 DEF Scanned
      <4>2. QED
        BY <2>1, <4>1
    <3>2. CASE date > today + Horizon
      BY <1>1, <1>3, <2>2, <3>2
    <3>3. QED
      BY <1>1, <1>3, <3>1, <3>2
  <2>4. CASE d = date
    BY <1>4, <1>7, <2>1, <2>4
  <2>5. CASE d < date
    <3> SUFFICES ASSUME moment < t PROVE FALSE
      BY <1>4, <1>7, <2>1
    <3>1. Local(moment) < d * DayLength + s.at
      <4> HIDE DEF t, moment
      <4>1. moment >= -DayLength
        BY <1>1, <1>2, <1>4
      <4>2. QED
        BY <1>4, <2>1, <2>2, <4>1, FirstShown
    <3>2. d * DayLength + s.at < date * DayLength + s.at
      BY <2>2, <2>5, DaysInOrder DEF TimeOfDay
    <3>3. d * DayLength + s.at \in Int /\ date * DayLength + s.at \in Int
      BY <1>1, <2>2 DEF TimeOfDay
    <3>4. QED
      BY <1>4, <3>1, <3>2, <3>3
  <2>6. QED
    BY <2>2, <2>3, <2>4, <2>5
<1>8. QED
  BY <1>6, <1>7

LEMMA NextIntervalFacts ==
  ASSUME NEW after \in Nat, NEW every \in Nat, every > 0
  PROVE  LET t == NextInterval(after, every) IN
         t \in Int /\ t > after /\ t - every <= after /\ t % every = 0
<1> DEFINE q == after \div every
           r == after % every
           t == NextInterval(after, every)
<1>1. q \in Int /\ r \in 0..(every - 1) /\ after = q * every + r
  BY QuotientAndRest
<1>2. t = (q + 1) * every
  BY DEF NextInterval
<1> HIDE DEF q, r, t
<1>3. t \in Int /\ t = q * every + every /\ q * every \in Int
  BY <1>1, <1>2
<1>4. t = (q + 1) * every + 0 /\ q + 1 \in Int /\ 0 \in 0..(every - 1)
  BY <1>1, <1>2, <1>3
<1>5. t % every = 0
  BY <1>4, OneQuotient
<1>6. QED
  BY <1>1, <1>3, <1>5 DEF t

-----------------------------------------------------------------------------
(* Every pass sees the schedule that was asked for *)

IntervalType == FixedType \union {"custom"}

\* What is stored of an accepted request is read back as it was.
LEMMA RoundTrip ==
  ASSUME NEW b \in Body, Build(b) # Rejected
  PROVE  RowToStored(CreateSchedule(b)) = b /\ Build(b) = b
<1> DEFINE text == JoinDays(b.days)
           r == [b EXCEPT !.days = text]
<1>1. b \in Request
  BY RecurrenceConstants
<1>2. Build(b) = b
  BY DEF Build
<1>3. ParseDayNumbers(text) = b.days
  <2>1. CASE b.days = {}
    BY <2>1 DEF ParseDayNumbers, JoinDays
  <2>2. CASE b.days # {}
    <3>1. text \ {<<>>} = {<<day>> : day \in b.days}
      BY <2>2 DEF JoinDays
    <3>2. {part[1] : part \in {<<day>> : day \in b.days}} = b.days
      <4> DEFINE parts == {<<day>> : day \in b.days}
      <4>1. ASSUME NEW day \in b.days PROVE day \in {part[1] : part \in parts}
        <5>1. <<day>> \in parts /\ <<day>>[1] = day
          OBVIOUS
        <5>2. QED
          BY <5>1
      <4>2. ASSUME NEW part \in parts PROVE part[1] \in b.days
        OBVIOUS
      <4> HIDE DEF parts
      <4>3. {part[1] : part \in parts} = b.days
        BY <4>1, <4>2
      <4>4. QED
        BY <4>3 DEF parts
    <3>3. QED
      BY <3>1, <3>2 DEF ParseDayNumbers
  <2>3. QED
    BY <2>1, <2>2
<1> HIDE DEF text
<1>4. [r EXCEPT !.days = b.days] = b /\ r.days = text
  BY <1>1 DEF Request
<1>5. CreateSchedule(b) = r
  BY DEF CreateSchedule, text
<1> HIDE DEF r
<1>6. QED
  BY <1>2, <1>3, <1>4, <1>5 DEF RowToStored

LEMMA Accepted ==
  ASSUME NEW b \in Body, Build(b) # Rejected
  PROVE  /\ b \in Request /\ b.type \in ScheduleType /\ b.at \in TimeOfDay
         /\ b.onceAt \in Int /\ b.every \in Int
<1>1. b \in Request
  BY RecurrenceConstants
<1>2. QED
  BY <1>1 DEF Build, Request, TimeOfDay

LEMMA IntervalIsInt ==
  ASSUME NEW b \in Body, Build(b) # Rejected, b.type \in IntervalType
  PROVE  Interval(b) \in Int
<1>1. /\ b.every \in Int /\ DayLength \in Nat
      /\ DayLength \div 96 \in Int /\ DayLength \div 24 \in Int /\ DayLength \div 6 \in Int
      /\ (7 * DayLength) \div 2 \in Int
  BY Accepted, RecurrenceConstants
<1>2. QED
  BY <1>1 DEF IntervalType, FixedType, Interval

\* A next run, if there is one, is an instant after the one asked about.
LEMMA NextRunIsLater ==
  ASSUME NEW b \in Body, Build(b) # Rejected, NEW after \in Moment,
         NextRun(b, after) # NoRun
  PROVE  /\ NextRun(b, after) \in Int /\ NextRun(b, after) > after
         /\ b.type \in IntervalType =>
              /\ Interval(b) \in Nat /\ Interval(b) > 0
              /\ NextRun(b, after) = NextInterval(after, Interval(b))
<1>1. after \in Nat
  <2>1. (LastDay + 1) * DayLength \in Int
    BY RecurrenceConstants
  <2>2. QED
    BY <2>1 DEF Moment
<1>2. CASE b.type = "once"
  BY <1>2, Accepted DEF NextRun, IntervalType, FixedType, WallClockType
<1>3. CASE b.type \in WallClockType
  <2>1. NextRun(b, after) = NextWallclock(b, after)
    BY <1>3 DEF NextRun, WallClockType
  <2>2. b.type \notin IntervalType
    BY <1>3 DEF WallClockType, IntervalType, FixedType
  <2>3. b.at \in TimeOfDay
    BY Accepted
  <2>4. NextWallclock(b, after) \in Int /\ NextWallclock(b, after) > after
    BY <2>1, <2>3, RunFound
  <2>5. QED
    BY <2>1, <2>2, <2>4
<1>4. CASE b.type \in IntervalType
  <2>1. NextRun(b, after) = IF Interval(b) > 0 THEN NextInterval(after, Interval(b)) ELSE NoRun
    BY <1>4 DEF NextRun, IntervalType, FixedType, WallClockType
  <2>2. Interval(b) \in Int /\ Interval(b) > 0
    BY <1>4, <2>1, IntervalIsInt
  <2>3. QED
    BY <1>1, <2>1, <2>2, NextIntervalFacts
<1>5. b.type = "once" \/ b.type \in WallClockType \/ b.type \in IntervalType
  BY Accepted DEF ScheduleType, IntervalType
<1>6. QED
  BY <1>2, <1>3, <1>4, <1>5

\* The stored row is that of an accepted request, and what is due is its next run
\* after the last tick; what was served last was a date's run, and has passed.
RecurrenceInv ==
  /\ \E b \in Body : Build(b) # Rejected /\ row = CreateSchedule(b) /\ schedule = b
  /\ now \in Moment
  /\ due = NextRun(schedule, now)
  /\ schedule.type \in IntervalType => due # NoRun
  /\ WallClock /\ served # NoRun =>
       /\ served \in 0..now
       /\ \E d \in Int :
            /\ d <= LastDay + Horizon + 1
            /\ served = DueOn(d) /\ served # Never

LEMMA InitHolds == Init => RecurrenceInv
<1> SUFFICES ASSUME Init PROVE RecurrenceInv
  OBVIOUS
<1>1. PICK b \in Body :
        /\ Build(b) # Rejected /\ NextRun(Build(b), now) # NoRun
        /\ row = CreateSchedule(Build(b)) /\ due = NextRun(Build(b), now)
  BY DEF Init
<1>2. Build(b) = b /\ schedule = b
  BY <1>1, RoundTrip DEF schedule
<1>3. now \in Moment
  <2>1. /\ DayLength \in Nat /\ DayLength > 0 /\ LastDay \in Nat
        /\ 4 * DayLength <= (LastDay + 1) * DayLength /\ (LastDay + 1) * DayLength \in Int
    BY RecurrenceConstants
  <2>2. now \in DayLength..(3 * DayLength)
    BY DEF Init
  <2>3. QED
    BY <2>1, <2>2 DEF Moment
<1>4. served = NoRun
  BY DEF Init
<1>5. QED
  BY <1>1, <1>2, <1>3, <1>4 DEF RecurrenceInv

LEMMA NextStep == RecurrenceInv /\ [Next]_vars => RecurrenceInv'
<1> SUFFICES ASSUME RecurrenceInv, [Next]_vars PROVE RecurrenceInv'
  OBVIOUS
<1>1. CASE UNCHANGED vars
  BY <1>1 DEF vars, RecurrenceInv, schedule, WallClock, DueOn
<1>2. CASE Reschedule
  <2>1. PICK b \in Body : Build(b) # Rejected /\ row = CreateSchedule(b) /\ schedule = b
    BY DEF RecurrenceInv
  <2>2. PICK late \in 0..MaxLate :
          /\ DateOf(due + late) <= LastDay
          /\ now' = due + late /\ due' = NextRun(schedule, due + late)
    BY <1>2 DEF Reschedule
  <2>3. due # NoRun /\ row' = row /\ schedule' = schedule /\ served' = due
    BY <1>2 DEF Reschedule, schedule
  <2>4. due = NextRun(b, now) /\ now \in Moment
    BY <2>1 DEF RecurrenceInv
  <2>5. /\ due \in Int /\ due > now /\ late \in Int /\ late >= 0
        /\ b.type \in IntervalType => Interval(b) \in Nat /\ Interval(b) > 0
    BY <2>1, <2>3, <2>4, NextRunIsLater, RecurrenceConstants
  <2>6. due + late \in Moment
    <3> DEFINE x == due + late
    <3>1. x \in Int /\ x >= 0 /\ DateOf(x) <= LastDay
      <4>1. (LastDay + 1) * DayLength \in Int
        BY RecurrenceConstants
      <4>2. QED
        BY <2>2, <2>4, <2>5, <4>1 DEF Moment
    <3> HIDE DEF x
    <3>2. /\ DateOf(x) \in Int /\ x % DayLength \in TimeOfDay
          /\ x = DateOf(x) * DayLength + (x % DayLength)
      BY <3>1, DateAndTime DEF TimeOfDay
    <3>3. DateOf(x) < LastDay + 1 /\ LastDay + 1 \in Int
      BY <3>1, <3>2, RecurrenceConstants
    <3>4. DateOf(x) * DayLength + (x % DayLength) < (LastDay + 1) * DayLength + 0
      BY <3>2, <3>3, DaysInOrder DEF TimeOfDay
    <3>5. (LastDay + 1) * DayLength \in Int
      BY RecurrenceConstants
    <3>6. x < (LastDay + 1) * DayLength
      BY <3>1, <3>2, <3>4, <3>5
    <3>7. x \in Moment
      BY <3>1, <3>5, <3>6 DEF Moment
    <3>8. QED
      BY <3>7 DEF x
  <2>7. b.type \in IntervalType => due' # NoRun
    <3> SUFFICES ASSUME b.type \in IntervalType PROVE NextRun(b, due + late) # NoRun
      BY <2>1, <2>2
    <3>1. NextRun(b, due + late) = NextInterval(due + late, Interval(b))
      BY <2>5 DEF NextRun, IntervalType, FixedType, WallClockType
    <3>2. due + late \in Nat
      BY <2>6, RecurrenceConstants DEF Moment
    <3>3. NextInterval(due + late, Interval(b)) \in Int
      BY <2>5, <3>2, NextIntervalFacts
    <3>4. QED
      BY <3>1, <3>3, RecurrenceConstants
  <2>8. WallClock' =>
          /\ served' \in 0..now'
          /\ \E d \in Int :
               /\ d <= LastDay + Horizon + 1
               /\ served' = DueOn(d)' /\ served' # Never
    <3> SUFFICES ASSUME b.type \in WallClockType
                 PROVE  /\ due \in 0..(due + late)
                        /\ \E d \in Int :
                             /\ d <= LastDay + Horizon + 1
                             /\ due = Earliest(d, b.at) /\ due # Never
      BY <2>1, <2>2, <2>3 DEF WallClock, DueOn
    <3>1. due = NextWallclock(b, now)
      BY <2>4 DEF NextRun, WallClockType
    <3>2. b.at \in TimeOfDay
      BY <2>1, Accepted
    <3>3. PICK d \in Scanned(now) : due = Earliest(d, b.at) /\ due # Never
      BY <2>3, <2>4, <3>1, <3>2, RunFound
    <3>4. d \in Int /\ d <= LastDay + Horizon + 1
      BY <2>4, ScannedDates
    <3>5. now >= 0 /\ now \in Int
      <4>1. (LastDay + 1) * DayLength \in Int
        BY RecurrenceConstants
      <4>2. QED
        BY <2>4, <4>1 DEF Moment
    <3>6. due \in 0..(due + late)
      BY <2>5, <3>5
    <3>7. QED
      BY <3>3, <3>4, <3>6
  <2>9. QED
    BY <2>1, <2>2, <2>3, <2>6, <2>7, <2>8 DEF RecurrenceInv
<1>3. QED
  BY <1>1, <1>2 DEF Next

\* Each pass reads back the schedule that was asked for, and what is due is its next
\* run after the tick before.
THEOREM RecurrenceInvariant == Spec => []RecurrenceInv
BY InitHolds, NextStep, PTL DEF Spec

-----------------------------------------------------------------------------
(* What follows *)

LEMMA WallClockFacts ==
  ASSUME RecurrenceInv, WallClock
  PROVE  schedule.at \in TimeOfDay /\ now \in Moment /\ due = NextWallclock(schedule, now)
<1>1. PICK b \in Body : Build(b) # Rejected /\ schedule = b
  BY DEF RecurrenceInv
<1>2. schedule.at \in TimeOfDay
  BY <1>1, Accepted
<1>3. due = NextWallclock(schedule, now)
  BY DEF RecurrenceInv, WallClock, NextRun, WallClockType
<1>4. QED
  BY <1>2, <1>3 DEF RecurrenceInv

\* The next run is the next one, in every zone and through every change of its
\* clocks: no matching date has its time between the tick and the answer.
THEOREM NextRunSkipsNothing == Spec => []NothingSkipped
<1>1. RecurrenceInv => NothingSkipped
  <2> SUFFICES ASSUME RecurrenceInv, WallClock,
                      NEW date \in 0..(LastDay + Horizon),
                      Matches(schedule, date), DueOn(date) # Never, DueOn(date) > now,
                      IF due = NoRun THEN date <= DateOf(Local(now)) + Horizon
                      ELSE DueOn(date) < due
               PROVE  FALSE
    BY DEF NothingSkipped
  <2>1. schedule.at \in TimeOfDay /\ now \in Moment /\ due = NextWallclock(schedule, now)
    BY WallClockFacts
  <2>2. date \in Int /\ date <= LastDay + Horizon
    BY RecurrenceConstants
  <2>3. CanRun(schedule, now, date) /\ Earliest(date, schedule.at) # Never
    BY DEF CanRun, DueOn
  <2>4. IF due = NoRun THEN date > DateOf(Local(now)) + Horizon ELSE due <= DueOn(date)
    BY <2>1, <2>2, <2>3, NoneBetween DEF DueOn
  <2>5. CASE due = NoRun
    <3>1. DateOf(Local(now)) \in Int /\ Horizon \in Int
      BY <2>1, TodayIsNear, RecurrenceConstants
    <3>2. QED
      BY <2>2, <2>4, <2>5, <3>1
  <2>6. CASE due # NoRun
    <3>1. due \in Int
      BY <2>1, <2>6, RunFound
    <3>2. DueOn(date) \in Int
      BY <2>1, <2>2, <2>3, EarliestShows DEF DueOn
    <3>3. QED
      BY <2>4, <2>6, <3>1, <3>2
  <2>7. QED
    BY <2>5, <2>6
<1>2. QED
  BY <1>1, RecurrenceInvariant, PTL

\* A run is due when its definition says: at its wall-clock time on a matching date,
\* or on the first multiple of its interval after the tick.
THEOREM RunsOnTime == Spec => []OnTime
<1>1. RecurrenceInv => AtWallClockTime
  <2> SUFFICES ASSUME RecurrenceInv, WallClock, due # NoRun
               PROVE  /\ Local(due) % DayLength = schedule.at
                      /\ Matches(schedule, DateOf(Local(due)))
    BY DEF AtWallClockTime
  <2>1. schedule.at \in TimeOfDay /\ now \in Moment /\ due = NextWallclock(schedule, now)
    BY WallClockFacts
  <2>2. PICK d \in Scanned(now) :
          Local(due) = d * DayLength + schedule.at /\ Matches(schedule, d)
    BY <2>1, RunFound
  <2>3. d \in Int
    BY <2>1, ScannedDates
  <2>4. Local(due) % DayLength = schedule.at /\ DateOf(Local(due)) = d
    BY <2>1, <2>2, <2>3, DateOfWall DEF TimeOfDay
  <2>5. QED
    BY <2>2, <2>4
<1>2. RecurrenceInv => OnTheGrid
  <2> SUFFICES ASSUME RecurrenceInv, schedule.type \in IntervalType
               PROVE  /\ due % Interval(schedule) = 0
                      /\ due > now
                      /\ due - Interval(schedule) <= now
    BY DEF OnTheGrid, IntervalType
  <2>1. PICK b \in Body : Build(b) # Rejected /\ schedule = b
    BY DEF RecurrenceInv
  <2>2. now \in Moment /\ due = NextRun(b, now) /\ due # NoRun
    BY <2>1 DEF RecurrenceInv
  <2>3. /\ Interval(b) \in Nat /\ Interval(b) > 0
        /\ due = NextInterval(now, Interval(b))
    BY <2>1, <2>2, NextRunIsLater
  <2>4. now \in Nat
    <3>1. (LastDay + 1) * DayLength \in Int
      BY RecurrenceConstants
    <3>2. QED
      BY <2>2, <3>1 DEF Moment
  <2>5. QED
    BY <2>1, <2>3, <2>4, NextIntervalFacts
<1>3. QED
  BY <1>1, <1>2, RecurrenceInvariant, PTL DEF OnTime

\* No local date is served twice, however late ticks come and whichever way the
\* clocks change between them: the second showing of a time is not a first.
THEOREM DatesServedOnce == Spec => []OncePerDate
<1>1. RecurrenceInv => OncePerDate
  <2> SUFFICES ASSUME RecurrenceInv, WallClock, due # NoRun, served # NoRun
               PROVE  DateOf(Local(due)) > DateOf(Local(served))
    BY DEF OncePerDate
  <2> DEFINE at == schedule.at
  <2>1. at \in TimeOfDay /\ now \in Moment /\ due = NextWallclock(schedule, now)
    BY WallClockFacts
  <2>2. PICK d \in Scanned(now) :
          /\ due = Earliest(d, at) /\ due # Never /\ due \in Int /\ due > now
          /\ due <= EndOfTime /\ Local(due) = d * DayLength + at
    BY <2>1, RunFound
  <2>3. PICK e \in Int :
          e <= LastDay + Horizon + 1 /\ served = Earliest(e, at) /\ served # Never
    BY DEF RecurrenceInv, DueOn
  <2>4. served \in 0..now
    BY DEF RecurrenceInv
  <2>5. served \in Int /\ Local(served) = e * DayLength + at
    BY <2>1, <2>3, EarliestShows
  <2>6. d \in Int /\ now \in Int /\ DayLength \in Nat
    <3>1. (LastDay + 1) * DayLength \in Int
      BY RecurrenceConstants
    <3>2. QED
      BY <2>1, <3>1, ScannedDates, RecurrenceConstants DEF Moment
  <2>7. d * DayLength + at \in Int /\ e * DayLength + at \in Int
    BY <2>1, <2>6, DateOfWall DEF TimeOfDay
  <2>8. ~(d < e)
    <3> SUFFICES ASSUME d < e PROVE FALSE
      OBVIOUS
    <3>1. d * DayLength + at < e * DayLength + at
      BY <2>1, <2>6, DaysInOrder DEF TimeOfDay
    <3>2. Local(served) < d * DayLength + at
      <4>1. served < due /\ served >= -DayLength
        BY <2>2, <2>4, <2>5, <2>6
      <4>2. QED
        BY <2>1, <2>2, <2>5, <2>6, <4>1, FirstShown
    <3>3. QED
      BY <2>5, <2>7, <3>1, <3>2
  <2>9. d # e
    BY <2>2, <2>3, <2>4, <2>5, <2>6
  <2>10. DateOf(Local(due)) = d /\ DateOf(Local(served)) = e
    BY <2>1, <2>2, <2>5, <2>6, DateOfWall DEF TimeOfDay
  <2>11. QED
    BY <2>6, <2>8, <2>9, <2>10
<1>2. QED
  BY <1>1, RecurrenceInvariant, PTL

=============================================================================
