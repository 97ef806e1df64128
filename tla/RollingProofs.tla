--------------------------- MODULE RollingProofs ----------------------------
(***************************************************************************)
(* Proofs about Rolling, for any cadences and runs at any instants, in any *)
(* zone whose clocks, set back, show again what they have shown and no     *)
(* date that they have left.                                               *)
(***************************************************************************)
EXTENDS Rolling, WellFoundedInduction, TLAPS

-----------------------------------------------------------------------------
(* The least and the greatest of a set of numbers *)

LEMMA LeastNatural ==
  ASSUME NEW T \in SUBSET Nat, T # {}
  PROVE  \E x \in T : \A y \in T : x <= y
<1> DEFINE R == OpToRel(<, Nat)
<1>1. IsWellFoundedOn(R, Nat)
  BY NatLessThanWellFounded
<1>2. \A x, y \in Nat : <<x, y>> \in R <=> x < y
  BY DEF OpToRel
<1> HIDE DEF R
<1>3. PICK x \in T : \A y \in T : ~(<<y, x>> \in R)
  BY <1>1, WFMin
<1>4. ASSUME NEW y \in T PROVE x <= y
  <2>1. x \in Nat /\ y \in Nat /\ ~(y < x)
    BY <1>2, <1>3
  <2>2. QED
    BY <2>1
<1>5. QED
  BY <1>4

\* Min is the least element of a set of integers that has a lower bound.
LEMMA MinIsLeast ==
  ASSUME NEW S, NEW low \in Int, \A x \in S : x \in Int /\ x >= low, S # {}
  PROVE  Min(S) \in S /\ \A y \in S : Min(S) <= y
<1> DEFINE T == {x - low : x \in S}
<1>1. T \in SUBSET Nat /\ T # {}
  OBVIOUS
<1>2. PICK t \in T : \A u \in T : t <= u
  BY <1>1, LeastNatural
<1>3. PICK x \in S : t = x - low
  BY <1>2
<1>4. \A y \in S : x <= y
  <2> SUFFICES ASSUME NEW y \in S PROVE x <= y
    OBVIOUS
  <2>1. t <= y - low
    BY <1>2
  <2>2. QED
    BY <1>3, <2>1
<1>5. QED
  BY <1>4 DEF Min

LEMMA MaxIsGreatest ==
  ASSUME NEW S, NEW high \in Int, \A x \in S : x \in Int /\ x <= high, S # {}
  PROVE  Max(S) \in S /\ \A y \in S : Max(S) >= y
<1> DEFINE T == {high - x : x \in S}
<1>1. T \in SUBSET Nat /\ T # {}
  OBVIOUS
<1>2. PICK t \in T : \A u \in T : t <= u
  BY <1>1, LeastNatural
<1>3. PICK x \in S : t = high - x
  BY <1>2
<1>4. \A y \in S : x >= y
  <2> SUFFICES ASSUME NEW y \in S PROVE x >= y
    OBVIOUS
  <2>1. t <= high - y
    BY <1>2
  <2>2. QED
    BY <1>3, <2>1
<1>5. QED
  BY <1>4 DEF Max

-----------------------------------------------------------------------------
(* Midnights *)

Moment == (FirstDay * DayLength)..((LastDay + 1) * DayLength - 1)

\* The dates that may begin a period of an instant asked about.
Beginning == (FirstDay - 31)..(LastDay + 63)

LEMMA Numbers ==
  /\ DayLength \in Nat /\ MaxOffset \in Nat /\ FirstDay \in Nat /\ LastDay \in Nat
  /\ DayLength > 0 /\ MaxOffset <= DayLength /\ FirstDay >= 32 /\ FirstDay <= LastDay
  /\ EndOfTime \in Int
BY RollingConstants DEF EndOfTime

\* Days have their midnights in their order.
LEMMA MidnightsInOrder ==
  ASSUME NEW d \in Int, NEW e \in Int, d <= e
  PROVE  /\ d * DayLength \in Int /\ e * DayLength \in Int
         /\ (d + 1) * DayLength = d * DayLength + DayLength
         /\ d * DayLength <= e * DayLength
<1>1. \A n \in Nat : d * n \in Int /\ e * n \in Int /\ (d + 1) * n = d * n + n
  OBVIOUS
<1>2. \A n \in Nat : d * n <= e * n
  <2> SUFFICES ASSUME NEW n \in Nat PROVE d * n <= e * n
    OBVIOUS
  <2>1. e - d \in Nat /\ e * n = d * n + (e - d) * n /\ (e - d) * n \in Nat /\ d * n \in Int
    OBVIOUS
  <2>2. QED
    BY <2>1
<1>3. QED
  BY <1>1, <1>2, Numbers

LEMMA DateSpan ==
  ASSUME NEW x \in Int
  PROVE  /\ DateOf(x) \in Int
         /\ DateOf(x) * DayLength <= x /\ x < (DateOf(x) + 1) * DayLength
<1>1. \A n \in Nat \ {0} :
        x \div n \in Int /\ (x \div n) * n <= x /\ x < ((x \div n) + 1) * n
  <2> SUFFICES ASSUME NEW n \in Nat \ {0}
               PROVE  x \div n \in Int /\ (x \div n) * n <= x /\ x < ((x \div n) + 1) * n
    OBVIOUS
  <2>1. /\ x \div n \in Int /\ x % n \in 0..(n - 1)
        /\ x = (x \div n) * n + (x % n) /\ (x \div n) * n \in Int
    OBVIOUS
  <2>2. ((x \div n) + 1) * n = (x \div n) * n + n
    BY <2>1
  <2>3. QED
    BY <2>1, <2>2
<1>2. QED
  BY <1>1, Numbers DEF DateOf

\* A wall-clock time is of a date at least d if, and only if, it is not before the
\* midnight that d begins with.
LEMMA DateFrom ==
  ASSUME NEW d \in Int, NEW x \in Int
  PROVE  (d <= DateOf(x)) <=> (d * DayLength <= x)
<1> DEFINE e == DateOf(x)
<1>1. e \in Int /\ e * DayLength <= x /\ x < (e + 1) * DayLength
  BY DateSpan
<1> HIDE DEF e
<1>2. ASSUME d <= e PROVE d * DayLength <= x
  BY <1>1, <1>2, MidnightsInOrder
<1>3. ASSUME d * DayLength <= x PROVE d <= e
  <2> SUFFICES ASSUME e + 1 <= d PROVE FALSE
    BY <1>1
  <2>1. /\ (e + 1) * DayLength <= d * DayLength
        /\ (e + 1) * DayLength \in Int /\ d * DayLength \in Int
    BY <1>1, MidnightsInOrder
  <2>2. QED
    BY <1>1, <1>3, <2>1
<1>4. QED
  BY <1>2, <1>3 DEF e

LEMMA DateOfMidnight ==
  ASSUME NEW d \in Int
  PROVE  DateOf(d * DayLength) = d
<1>1. d * DayLength \in Int /\ DayLength > 0
  BY MidnightsInOrder, Numbers
<1>2. d <= DateOf(d * DayLength) /\ DateOf(d * DayLength) \in Int
  BY <1>1, DateFrom, DateSpan
<1>3. ~(d + 1 <= DateOf(d * DayLength))
  <2>1. (d + 1) * DayLength = d * DayLength + DayLength
    BY MidnightsInOrder
  <2>2. ~((d + 1) * DayLength <= d * DayLength) /\ d + 1 \in Int
    BY <1>1, <2>1, Numbers
  <2>3. QED
    BY <1>1, <2>2, DateFrom
<1>4. QED
  BY <1>2, <1>3

LEMMA ClocksNearUtc ==
  ASSUME NEW t \in 0..EndOfTime
  PROVE  Local(t) \in Int /\ Local(t) >= t - MaxOffset /\ Local(t) <= t + MaxOffset
<1>1. Offset(t) \in -MaxOffset..MaxOffset /\ t \in Int
  BY ClocksAssumption, Numbers
<1>2. QED
  BY <1>1, Numbers DEF Local

\* Dates come in order.
LEMMA DatesInOrder ==
  ASSUME NEW t \in 0..EndOfTime, NEW u \in 0..EndOfTime, u <= t
  PROVE  DateOf(Local(u)) <= DateOf(Local(t))
<1>1. t \in Int /\ u \in Int /\ u >= 0 /\ MaxOffset \in Nat
  BY Numbers
<1>2. /\ Local(t) \in Int /\ Local(t) >= t - MaxOffset
      /\ Local(u) \in Int /\ Local(u) <= u + MaxOffset
  BY ClocksNearUtc
<1>3. DateOf(Local(t)) \in Int /\ DateOf(Local(u)) \in Int
  BY <1>2, DateSpan
<1>4. CASE u = t
  BY <1>3, <1>4
<1>5. CASE u \in (t - 2 * MaxOffset)..(t - 1)
  BY <1>1, <1>5, ClocksAssumption
<1>6. CASE u < t - 2 * MaxOffset
  <2>1. Local(u) <= Local(t)
    BY <1>1, <1>2, <1>6
  <2>2. DateOf(Local(u)) * DayLength <= Local(u) /\ DateOf(Local(u)) * DayLength \in Int
    BY <1>2, <1>3, DateSpan, MidnightsInOrder
  <2>3. DateOf(Local(u)) * DayLength <= Local(t)
    BY <1>2, <2>1, <2>2
  <2>4. QED
    BY <1>2, <1>3, <2>3, DateFrom
<1>7. QED
  BY <1>1, <1>4, <1>5, <1>6

\* The midnight that d begins with is shown.
Shown(d) == Earliest(d, 0) # Never

\* It is first shown at an instant within range, and before that the clocks show
\* earlier times only.
LEMMA FirstShown ==
  ASSUME NEW d \in Beginning, Shown(d)
  PROVE  LET t == Earliest(d, 0) IN
         /\ t \in 0..EndOfTime /\ Local(t) = d * DayLength
         /\ \A u \in 0..EndOfTime : u < t => Local(u) < d * DayLength
<1> DEFINE wall == d * DayLength
           S == Instants(d, 0)
           t == Earliest(d, 0)
<1>1. d \in Int /\ d >= FirstDay - 31 /\ d <= LastDay + 63 /\ wall \in Int /\ wall + 0 = wall
  BY Numbers, MidnightsInOrder DEF Beginning
<1>2. wall - MaxOffset >= 0 /\ wall + MaxOffset <= EndOfTime
  <2>1. 1 <= d /\ 1 * DayLength = DayLength
    BY <1>1, Numbers
  <2>2. 1 * DayLength <= wall
    BY <1>1, <2>1, MidnightsInOrder
  <2>3. (d + 1) * DayLength <= EndOfTime /\ (d + 1) * DayLength = wall + DayLength
    BY <1>1, Numbers, MidnightsInOrder DEF EndOfTime
  <2>4. QED
    BY <1>1, <2>1, <2>2, <2>3, Numbers
<1>3. S # {} /\ t = Min(S)
  BY DEF Shown, Earliest
<1>4. /\ \A x \in S : x \in Int /\ x >= wall - MaxOffset /\ x <= wall + MaxOffset /\ Local(x) = wall
      /\ \A x \in (wall - MaxOffset)..(wall + MaxOffset) : Local(x) = wall => x \in S
  BY <1>1, Numbers DEF Instants
<1> HIDE DEF S, wall, t
<1>5. wall - MaxOffset \in Int
  BY <1>1, Numbers
<1>6. t \in S /\ \A y \in S : t <= y
  BY <1>3, <1>4, <1>5, MinIsLeast
<1>7. t \in 0..EndOfTime /\ Local(t) = wall
  BY <1>2, <1>4, <1>6, <1>1, Numbers
<1>8. ASSUME NEW v \in 0..EndOfTime, v < t PROVE Local(v) # wall
  <2> SUFFICES ASSUME Local(v) = wall PROVE FALSE
    OBVIOUS
  <2>1. v \in Int /\ wall >= v - MaxOffset /\ wall <= v + MaxOffset
    BY ClocksNearUtc, Numbers
  <2>2. v \in (wall - MaxOffset)..(wall + MaxOffset)
    BY <1>1, <2>1, Numbers
  <2>3. t <= v
    BY <1>4, <1>6, <2>2
  <2>4. QED
    BY <1>7, <1>8, <2>1, <2>3
<1>9. ASSUME NEW u \in 0..EndOfTime, u < t PROVE Local(u) < wall
  <2>1. /\ Local(u) \in Int /\ Local(u) <= u + MaxOffset
        /\ wall >= t - MaxOffset
    BY <1>7, ClocksNearUtc
  <2> SUFFICES ASSUME Local(u) > wall PROVE FALSE
    BY <1>1, <1>8, <1>9, <2>1
  <2>2. u \in (t - 2 * MaxOffset)..(t - 1) /\ u >= 0
    BY <1>1, <1>7, <1>9, <2>1, Numbers
  <2>3. PICK v \in (t - 2 * MaxOffset)..(t - 1) : v >= 0 /\ Local(v) = Local(t)
    BY <1>7, <2>2, ClocksAssumption
  <2>4. v \in 0..EndOfTime /\ v < t
    BY <1>7, <2>3, Numbers
  <2>5. QED
    BY <1>7, <1>8, <2>3, <2>4
<1>10. QED
  BY <1>7, <1>9 DEF t, wall

\* A later date begins later; and what comes before a date begins is of an earlier
\* one, what comes after it is not.
LEMMA Begins ==
  ASSUME NEW d \in Beginning, Shown(d)
  PROVE  /\ DateOf(Local(Earliest(d, 0))) = d
         /\ \A t \in 0..EndOfTime : (Earliest(d, 0) <= t) <=> (d <= DateOf(Local(t)))
<1>1. PICK s : s = Earliest(d, 0)
  OBVIOUS
<1>2. d \in Int
  BY Numbers DEF Beginning
<1>3. /\ s \in 0..EndOfTime /\ Local(s) = d * DayLength
      /\ \A u \in 0..EndOfTime : u < s => Local(u) < d * DayLength
  BY <1>1, FirstShown
<1>4. DateOf(Local(s)) = d
  BY <1>2, <1>3, DateOfMidnight
<1>5. ASSUME NEW t \in 0..EndOfTime PROVE (s <= t) <=> (d <= DateOf(Local(t)))
  <2>1. Local(t) \in Int /\ d * DayLength \in Int
    BY <1>2, ClocksNearUtc, MidnightsInOrder
  <2>2. ASSUME s <= t PROVE d <= DateOf(Local(t))
    BY <1>3, <1>4, <2>2, DatesInOrder
  <2>3. ASSUME ~(s <= t) PROVE ~(d <= DateOf(Local(t)))
    <3>1. s \in Int /\ t \in Int
      BY <1>3, Numbers
    <3>2. t < s
      BY <2>3, <3>1
    <3>3. Local(t) < d * DayLength
      BY <1>3, <3>2
    <3>4. QED
      BY <1>2, <2>1, <3>3, DateFrom
  <2>4. QED
    BY <2>2, <2>3
<1>6. QED
  BY <1>1, <1>4, <1>5

LEMMA BeginInOrder ==
  ASSUME NEW d \in Beginning, Shown(d), NEW e \in Beginning, Shown(e), d <= e
  PROVE  Earliest(d, 0) <= Earliest(e, 0)
<1>1. PICK t : t = Earliest(e, 0)
  OBVIOUS
<1>2. t \in 0..EndOfTime /\ DateOf(Local(t)) = e
  BY <1>1, FirstShown, Begins
<1>3. (Earliest(d, 0) <= t) <=> (d <= DateOf(Local(t)))
  BY <1>2, Begins
<1>4. QED
  BY <1>1, <1>2, <1>3

-----------------------------------------------------------------------------
(* The dates of a period *)

\* The dates that periods begin on.
Boundary(c, d) ==
  CASE c.period = "Weekly"   -> WeekdayOf(d) = (c.endDay + 1) % 7
    [] c.period = "Biweekly" -> (d - FirstMonday) % 14 = 0
    [] c.period = "Monthly"  -> DayOfMonth(d) = 1

\* dates are those of the period of today: it begins at a boundary, ends where the
\* next one is, and has none inside.
Tile(c, today, dates) ==
  /\ dates[1] \in (today - 30)..today /\ dates[2] \in (today + 1)..(today + 31)
  /\ Boundary(c, dates[1]) /\ Boundary(c, dates[2])
  /\ \A d \in (dates[1] + 1)..(dates[2] - 1) : ~Boundary(c, d)

\* Dates whose periods lie within range.
Dated == (FirstDay - 1)..(LastDay + 32)

LEMMA WeekTiles ==
  ASSUME NEW c \in Cadence, NEW today \in Dated, c.period = "Weekly"
  PROVE  Tile(c, today, Dates(c, today))
<1> DEFINE k == (c.endDay + 7 - WeekdayOf(today)) % 7
           end == today + k
<1>1. c.endDay \in 0..6
  BY RollingConstants
<1>2. today \in Int /\ today >= FirstDay - 1 /\ today <= LastDay + 32
  BY Numbers DEF Dated
<1>3. \A d \in (today - 6)..(today + 7) : d \in NearDate
  BY <1>2, Numbers DEF NearDate
<1>4. \A d \in (today - 6)..(today + 7) : WeekdayOf(d) \in 0..6
  BY <1>3, CalendarAssumption
<1>5. \A d, e \in (today - 6)..(today + 7) :
        e >= d => WeekdayOf(e) = (WeekdayOf(d) + (e - d)) % 7
  BY <1>3, CalendarAssumption
<1>6. k \in 0..6 /\ (WeekdayOf(today) + k) % 7 = c.endDay
  <2>1. WeekdayOf(today) \in 0..6
    BY <1>2, <1>4
  <2>2. QED
    BY <1>1, <2>1
<1>7. Dates(c, today) = <<end - 6, end + 1>>
  BY DEF Dates
<1> HIDE DEF k
<1>8. /\ end \in Int /\ end - 6 \in (today - 6)..(today + 7) /\ end + 1 \in (today - 6)..(today + 7)
      /\ end \in (today - 6)..(today + 7) /\ today \in (today - 6)..(today + 7)
  BY <1>2, <1>6
<1>9. WeekdayOf(end) = c.endDay
  <2>1. WeekdayOf(end) = (WeekdayOf(today) + (end - today)) % 7 /\ end - today = k
    BY <1>2, <1>5, <1>6, <1>8
  <2>2. QED
    BY <1>6, <2>1
<1> HIDE DEF end
<1>10. WeekdayOf(end + 1) = (c.endDay + 1) % 7
  <2>1. WeekdayOf(end + 1) = (WeekdayOf(end) + (end + 1 - end)) % 7
    BY <1>5, <1>8
  <2>2. QED
    BY <1>8, <1>9, <2>1
<1>11. ASSUME NEW d \in (end - 6)..end
       PROVE  /\ d = end - 6 => WeekdayOf(d) = (c.endDay + 1) % 7
              /\ d # end - 6 => WeekdayOf(d) # (c.endDay + 1) % 7
  <2>1. d \in Int /\ d \in (today - 6)..(today + 7) /\ end >= d /\ end - d \in 0..6
    BY <1>2, <1>8
  <2>2. c.endDay = (WeekdayOf(d) + (end - d)) % 7 /\ WeekdayOf(d) \in 0..6
    BY <1>4, <1>5, <1>8, <1>9, <2>1
  <2>3. \A w, n \in 0..6 :
          /\ n = 6 => w = (((w + n) % 7) + 1) % 7
          /\ n # 6 => w # (((w + n) % 7) + 1) % 7
    OBVIOUS
  <2>4. /\ d = end - 6 => end - d = 6
        /\ d # end - 6 => end - d # 6
    BY <1>8, <2>1
  <2>5. QED
    BY <2>1, <2>2, <2>3, <2>4
<1>12. QED
  <2>1. end - 6 \in (today - 30)..today /\ end + 1 \in (today + 1)..(today + 31)
    BY <1>2, <1>6 DEF end
  <2>2. end - 6 \in (end - 6)..end
    BY <1>8
  <2>3. \A d \in ((end - 6) + 1)..((end + 1) - 1) : d \in (end - 6)..end /\ d # end - 6
    BY <1>8
  <2>4. <<end - 6, end + 1>>[1] = end - 6 /\ <<end - 6, end + 1>>[2] = end + 1
    OBVIOUS
  <2>5. QED
    BY <1>7, <1>10, <1>11, <2>1, <2>2, <2>3, <2>4 DEF Tile, Boundary

LEMMA FortnightTiles ==
  ASSUME NEW c \in Cadence, NEW today \in Int, c.period = "Biweekly"
  PROVE  Tile(c, today, Dates(c, today))
<1> DEFINE q == (today - FirstMonday) \div 14
           start == FirstMonday + q * 14
<1>1. FirstMonday \in Int
  BY RollingConstants
<1>2. q \in Int /\ q * 14 <= today - FirstMonday /\ today - FirstMonday < q * 14 + 14
  BY <1>1
<1>3. Dates(c, today) = <<start, start + 14>>
  BY DEF Dates
<1> HIDE DEF q
<1>4. start \in Int /\ start \in (today - 13)..today /\ start - FirstMonday = q * 14
  BY <1>1, <1>2
<1> HIDE DEF start
<1>5. (start - FirstMonday) % 14 = 0 /\ ((start + 14) - FirstMonday) % 14 = 0
  <2>1. (start + 14) - FirstMonday = (q + 1) * 14
    BY <1>1, <1>2, <1>4
  <2>2. (q * 14) % 14 = 0 /\ ((q + 1) * 14) % 14 = 0
    BY <1>2
  <2>3. QED
    BY <1>4, <2>1, <2>2
<1>6. ASSUME NEW d \in (start + 1)..((start + 14) - 1) PROVE (d - FirstMonday) % 14 # 0
  <2>1. PICK r \in 1..13 : d = start + r
    BY <1>4
  <2>2. d - FirstMonday = q * 14 + r
    BY <1>1, <1>2, <1>4, <2>1
  <2>3. (q * 14 + r) % 14 = r
    BY <1>2
  <2>4. QED
    BY <2>2, <2>3
<1>7. QED
  <2>1. start \in (today - 30)..today /\ start + 14 \in (today + 1)..(today + 31)
    BY <1>4
  <2>2. <<start, start + 14>>[1] = start /\ <<start, start + 14>>[2] = start + 14
    OBVIOUS
  <2>3. /\ Boundary(c, start) /\ Boundary(c, start + 14)
        /\ \A d \in (start + 1)..((start + 14) - 1) : ~Boundary(c, d)
    BY <1>5, <1>6 DEF Boundary
  <2>4. QED
    BY <1>3, <2>1, <2>2, <2>3 DEF Tile

LEMMA MonthTiles ==
  ASSUME NEW c \in Cadence, NEW today \in Dated, c.period = "Monthly"
  PROVE  Tile(c, today, Dates(c, today))
<1> DEFINE S == {d \in (today - 30)..today : DayOfMonth(d) = 1}
           T == {d \in (today + 1)..(today + 31) : DayOfMonth(d) = 1}
<1>1. today \in Int /\ today >= FirstDay - 1 /\ today <= LastDay + 32
  BY Numbers DEF Dated
<1>2. Dates(c, today) = <<Max(S), Min(T)>>
  BY DEF Dates, FirstOfMonth, NextFirst
<1>3. S # {} /\ T # {}
  <2>1. /\ today - 30 \in NearDate /\ (today - 30) + 30 \in NearDate
        /\ today + 1 \in NearDate /\ (today + 1) + 30 \in NearDate
    BY <1>1, Numbers DEF NearDate
  <2>2. PICK e \in (today - 30)..((today - 30) + 30) : DayOfMonth(e) = 1
    BY <2>1, CalendarAssumption
  <2>3. PICK f \in (today + 1)..((today + 1) + 30) : DayOfMonth(f) = 1
    BY <2>1, CalendarAssumption
  <2>4. e \in (today - 30)..today /\ f \in (today + 1)..(today + 31)
    BY <1>1
  <2>5. QED
    BY <2>2, <2>3, <2>4
<1>4. Max(S) \in S /\ \A d \in S : Max(S) >= d
  <2>1. \A x \in S : x \in Int /\ x <= today
    BY <1>1
  <2> HIDE DEF S
  <2>2. QED
    BY <1>1, <1>3, <2>1, MaxIsGreatest
<1>5. Min(T) \in T /\ \A d \in T : Min(T) <= d
  <2>1. \A x \in T : x \in Int /\ x >= today + 1
    BY <1>1
  <2> HIDE DEF T
  <2>2. today + 1 \in Int
    BY <1>1
  <2>3. QED
    BY <1>3, <2>1, <2>2, MinIsLeast
<1>6. ASSUME NEW d \in (Max(S) + 1)..(Min(T) - 1) PROVE DayOfMonth(d) # 1
  <2> SUFFICES ASSUME DayOfMonth(d) = 1 PROVE FALSE
    OBVIOUS
  <2>1. PICK m, n \in Int : m = Max(S) /\ n = Min(T) /\ m >= today - 30 /\ n <= today + 31
    BY <1>1, <1>4, <1>5
  <2>2. d \in Int /\ d > m /\ d < n
    BY <2>1
  <2>3. CASE d <= today
    <3>1. d \in S
      BY <1>1, <2>1, <2>2, <2>3
    <3>2. QED
      BY <1>4, <2>1, <2>2, <3>1
  <2>4. CASE d > today
    <3>1. d \in T
      BY <1>1, <2>1, <2>2, <2>4
    <3>2. QED
      BY <1>5, <2>1, <2>2, <3>1
  <2>5. QED
    BY <1>1, <2>2, <2>3, <2>4
<1>7. QED
  <2>1. /\ Max(S) \in (today - 30)..today /\ DayOfMonth(Max(S)) = 1
        /\ Min(T) \in (today + 1)..(today + 31) /\ DayOfMonth(Min(T)) = 1
    BY <1>4, <1>5
  <2> HIDE DEF S, T
  <2>2. <<Max(S), Min(T)>>[1] = Max(S) /\ <<Max(S), Min(T)>>[2] = Min(T)
    OBVIOUS
  <2>3. QED
    BY <1>2, <1>6, <2>1, <2>2 DEF Tile, Boundary

LEMMA DatesTile ==
  ASSUME NEW c \in Cadence, NEW today \in Dated
  PROVE  Tile(c, today, Dates(c, today))
<1>1. c.period \in {"Weekly", "Biweekly", "Monthly"} /\ today \in Int
  BY RollingConstants, Numbers DEF Dated
<1>2. QED
  BY <1>1, WeekTiles, FortnightTiles, MonthTiles

\* A period begun at a boundary begins there.
LEMMA BoundaryBegins ==
  ASSUME NEW c \in Cadence, NEW d \in Dated, Boundary(c, d)
  PROVE  Dates(c, d)[1] = d
<1>1. PICK dates : dates = Dates(c, d)
  OBVIOUS
<1>2. d \in Int
  BY Numbers DEF Dated
<1>3. /\ dates[1] \in (d - 30)..d /\ dates[2] \in (d + 1)..(d + 31)
      /\ \A e \in (dates[1] + 1)..(dates[2] - 1) : ~Boundary(c, e)
  BY <1>1, DatesTile DEF Tile
<1>4. PICK from, to : from = dates[1] /\ to = dates[2]
  OBVIOUS
<1>5. from \in Int /\ to \in Int /\ from <= d /\ d < to
  BY <1>2, <1>3, <1>4
<1>6. d \notin (from + 1)..(to - 1)
  BY <1>3, <1>4
<1>7. QED
  BY <1>1, <1>2, <1>4, <1>5, <1>6

-----------------------------------------------------------------------------
(* Windows *)

\* The window w of an instant of the date today goes from one boundary to the next.
Bounded(c, today, w, from, to) ==
  /\ from \in Beginning /\ Boundary(c, from) /\ Shown(from)
  /\ to \in Beginning /\ Boundary(c, to) /\ Shown(to)
  /\ from <= today /\ today < to /\ to <= today + 31
  /\ \A d \in (from + 1)..(to - 1) : ~Boundary(c, d)
  /\ w = [start |-> Earliest(from, 0), end |-> Earliest(to, 0)]

LEMMA MomentInRange ==
  ASSUME NEW t \in Moment
  PROVE  /\ t \in 0..EndOfTime /\ DateOf(Local(t)) \in Int
         /\ DateOf(Local(t)) \in (FirstDay - 1)..(LastDay + 1)
<1> DEFINE today == DateOf(Local(t))
<1>1. FirstDay \in Int /\ LastDay \in Int /\ FirstDay - 1 \in Int /\ LastDay + 1 \in Int
  BY Numbers
<1>2. /\ (FirstDay - 1) * DayLength \in Int
      /\ ((FirstDay - 1) + 1) * DayLength = (FirstDay - 1) * DayLength + DayLength
      /\ (LastDay + 1) * DayLength \in Int
      /\ ((LastDay + 1) + 1) * DayLength = (LastDay + 1) * DayLength + DayLength
  BY <1>1, MidnightsInOrder
<1>3. (FirstDay - 1) + 1 = FirstDay /\ (LastDay + 1) + 1 = LastDay + 2
  BY <1>1
<1>4. /\ t \in Int /\ t >= FirstDay * DayLength /\ t < (LastDay + 1) * DayLength
      /\ FirstDay * DayLength \in Int
  <2>1. FirstDay * DayLength \in Int
    BY <1>1, MidnightsInOrder
  <2>2. QED
    BY <1>2, <2>1 DEF Moment
<1>5. 0 <= FirstDay * DayLength /\ (LastDay + 1) * DayLength <= EndOfTime
  <2>1. 0 * DayLength <= FirstDay * DayLength /\ 0 * DayLength = 0
    BY Numbers, MidnightsInOrder
  <2>2. LastDay + 1 <= LastDay + 64 /\ LastDay + 64 \in Int
    BY <1>1
  <2>3. (LastDay + 1) * DayLength <= (LastDay + 64) * DayLength
    BY <1>1, <2>2, MidnightsInOrder
  <2>4. QED
    BY <2>1, <2>3 DEF EndOfTime
<1>6. t \in 0..EndOfTime
  BY <1>2, <1>4, <1>5, Numbers
<1>7. Local(t) \in Int /\ Local(t) >= t - MaxOffset /\ Local(t) <= t + MaxOffset
  BY <1>6, ClocksNearUtc
<1>8. today \in Int /\ FirstDay - 1 <= today
  <2>1. (FirstDay - 1) * DayLength <= Local(t)
    BY <1>2, <1>3, <1>4, <1>7, Numbers
  <2>2. QED
    BY <1>1, <1>7, <2>1, DateFrom, DateSpan
<1>9. ~(LastDay + 2 <= today)
  <2>1. ~((LastDay + 2) * DayLength <= Local(t))
    BY <1>2, <1>3, <1>4, <1>7, Numbers
  <2>2. LastDay + 2 \in Int
    BY <1>1
  <2>3. QED
    BY <1>7, <2>1, <2>2, DateFrom
<1>10. QED
  BY <1>1, <1>6, <1>8, <1>9

LEMMA WindowFacts ==
  ASSUME NEW c \in Cadence, NEW t \in 0..EndOfTime, DateOf(Local(t)) \in Dated,
         Window(c, t) # None
  PROVE  \E from, to \in Int :
           /\ from = Dates(c, DateOf(Local(t)))[1]
           /\ Bounded(c, DateOf(Local(t)), Window(c, t), from, to)
<1>1. PICK today : today = DateOf(Local(t))
  OBVIOUS
<1>2. PICK dates : dates = Dates(c, today)
  OBVIOUS
<1>3. /\ dates[1] \in (today - 30)..today /\ dates[2] \in (today + 1)..(today + 31)
      /\ Boundary(c, dates[1]) /\ Boundary(c, dates[2])
      /\ \A d \in (dates[1] + 1)..(dates[2] - 1) : ~Boundary(c, d)
  BY <1>1, <1>2, DatesTile DEF Tile
<1>4. PICK from, to : from = dates[1] /\ to = dates[2]
  OBVIOUS
<1>5. today \in Int /\ today >= FirstDay - 1 /\ today <= LastDay + 32
  BY <1>1, Numbers DEF Dated
<1>6. /\ from \in Int /\ to \in Int /\ from >= today - 30 /\ from <= today
      /\ today < to /\ to <= today + 31
  BY <1>3, <1>4, <1>5
<1>7. from \in Beginning /\ to \in Beginning
  BY <1>5, <1>6, Numbers DEF Beginning
<1>8. PICK w : w = [start |-> Earliest(from, 0), end |-> Earliest(to, 0)]
  OBVIOUS
<1>9. Window(c, t) = IF Never \in {w.start, w.end} THEN None ELSE w
  BY <1>1, <1>2, <1>4, <1>8 DEF Window
<1>10. Never \notin {w.start, w.end} /\ Window(c, t) = w
  BY <1>9
<1>11. Shown(from) /\ Shown(to)
  BY <1>8, <1>10 DEF Shown
<1>12. Bounded(c, today, w, from, to)
  BY <1>3, <1>4, <1>6, <1>7, <1>8, <1>11 DEF Bounded
<1>13. QED
  BY <1>1, <1>2, <1>4, <1>6, <1>10, <1>12

\* A window contains the instants of its dates.
LEMMA Contains ==
  ASSUME NEW c, NEW t \in 0..EndOfTime, NEW w, NEW from, NEW to,
         Bounded(c, DateOf(Local(t)), w, from, to)
  PROVE  /\ w.start \in Int /\ w.end \in Int /\ w.start >= 0
         /\ w.start <= t /\ t < w.end
<1>1. PICK today, s, e :
        today = DateOf(Local(t)) /\ s = Earliest(from, 0) /\ e = Earliest(to, 0)
  OBVIOUS
<1>2. /\ from \in Beginning /\ Shown(from) /\ to \in Beginning /\ Shown(to)
      /\ from <= today /\ today < to /\ w.start = s /\ w.end = e
  BY <1>1 DEF Bounded
<1>3. s \in 0..EndOfTime /\ e \in 0..EndOfTime
  BY <1>1, <1>2, FirstShown
<1>4. s <= t
  BY <1>1, <1>2, Begins
<1>5. ~(e <= t)
  <2>1. (e <= t) <=> (to <= today)
    BY <1>1, <1>2, Begins
  <2>2. to \in Int /\ today \in Int
    BY <1>1, <1>2, ClocksNearUtc, DateSpan, Numbers DEF Beginning
  <2>3. QED
    BY <1>2, <2>1, <2>2
<1>6. QED
  BY <1>2, <1>3, <1>4, <1>5, Numbers

-----------------------------------------------------------------------------
(* Every instant is taken once *)

\* A date of some period's beginning that is shown.
Start(d) == d \in Beginning /\ Boundary(cadence, d) /\ Shown(d)

\* With no summary active, what was taken lies before a period that has begun.
Settled ==
  covered = {} \/ \E d \in Beginning :
                    /\ Start(d) /\ Earliest(d, 0) <= now
                    /\ \A x \in covered : x < Earliest(d, 0)

\* The active summary took its period's instants up to the last run, and its period
\* ends where another may begin.
Going ==
  LET w == active.window
      through == active.through IN
  /\ active = [window |-> w, through |-> through]
  /\ w.start \in Int /\ through \in Int
  /\ w.start <= through /\ through < w.end /\ through <= now
  /\ w.start..through \subseteq covered
  /\ \A x \in covered : x <= through
  /\ \E d \in Beginning : Start(d) /\ w.end = Earliest(d, 0)

RollingInv ==
  /\ cadence \in Cadence /\ now \in Moment
  /\ twice = FALSE
  /\ covered \subseteq Int
  /\ active = NoSummary => Settled
  /\ active # NoSummary => Going

LEMMA InitHolds == Init => RollingInv
<1> SUFFICES ASSUME Init PROVE RollingInv
  OBVIOUS
<1>1. now \in Moment
  <2>1. /\ FirstDay * DayLength \in Int
        /\ (FirstDay + 1) * DayLength = FirstDay * DayLength + DayLength
        /\ (FirstDay + 1) * DayLength <= (LastDay + 1) * DayLength
        /\ (LastDay + 1) * DayLength \in Int
    BY Numbers, MidnightsInOrder
  <2>2. QED
    BY <2>1, Numbers DEF Init, Moment
<1>2. QED
  BY <1>1 DEF Init, RollingInv, Settled

\* A run comes after the last.
LEMMA LaterRun ==
  ASSUME RollingInv, NEW t \in (now + 1)..((LastDay + 1) * DayLength - 1)
  PROVE  t \in Moment /\ t \in Int /\ now \in Int /\ now < t
<1>1. (LastDay + 1) * DayLength \in Int /\ FirstDay * DayLength \in Int
  BY Numbers, MidnightsInOrder
<1>2. QED
  BY <1>1 DEF RollingInv, Moment

LEMMA StartHolds ==
  ASSUME RollingInv, NEW t \in (now + 1)..((LastDay + 1) * DayLength - 1),
         StartNew(t), now' = t, cadence' = cadence
  PROVE  RollingInv'
<1>1. t \in Moment /\ t \in Int /\ now \in Int /\ now < t
  BY LaterRun
<1>2. /\ cadence \in Cadence /\ now \in Moment
      /\ active = NoSummary /\ Settled /\ covered \subseteq Int
  BY DEF RollingInv, StartNew
<1>3. PICK today, c : today = DateOf(Local(t)) /\ c = cadence
  OBVIOUS
<1>4. /\ t \in 0..EndOfTime /\ now \in 0..EndOfTime /\ today \in Int /\ today \in Dated
  <2>1. t \in 0..EndOfTime /\ now \in 0..EndOfTime
    BY <1>1, <1>2, MomentInRange
  <2>2. today \in Int /\ today \in (FirstDay - 1)..(LastDay + 1)
    BY <1>1, <1>3, MomentInRange
  <2>3. QED
    BY <2>1, <2>2, Numbers DEF Dated
<1>5. PICK w : w = Window(c, t)
  OBVIOUS
<1>6. /\ w # None /\ active' = [window |-> w, through |-> t]
      /\ covered' = covered \union (w.start..t)
      /\ twice' = (twice \/ covered \intersect (w.start..t) # {})
  BY <1>3, <1>5 DEF StartNew, Cover
<1>7. PICK from, to \in Int : Bounded(c, today, w, from, to)
  BY <1>2, <1>3, <1>4, <1>5, <1>6, WindowFacts
<1>8. w.start \in Int /\ w.end \in Int /\ w.start <= t /\ t < w.end
  BY <1>3, <1>4, <1>7, Contains
<1>9. \A x \in covered : x < w.start
  <2>1. CASE covered = {}
    BY <2>1
  <2>2. CASE covered # {}
    <3>1. PICK d \in Beginning :
            /\ Boundary(c, d) /\ Shown(d) /\ Earliest(d, 0) <= now
            /\ \A x \in covered : x < Earliest(d, 0)
      BY <1>2, <1>3, <2>2 DEF Settled, Start
    <3>2. PICK s : s = Earliest(d, 0)
      OBVIOUS
    <3>3. d \in Int /\ s \in Int /\ s \in 0..EndOfTime
      <4>1. s \in 0..EndOfTime
        BY <3>1, <3>2, FirstShown
      <4>2. QED
        BY <4>1, Numbers DEF Beginning
    <3>4. s <= t
      BY <1>1, <3>1, <3>2, <3>3
    <3>5. d <= today
      BY <1>3, <1>4, <3>1, <3>2, <3>4, Begins
    <3>6. d <= from
      <4>1. d \notin (from + 1)..(to - 1) /\ today < to
        BY <1>7, <3>1 DEF Bounded
      <4>2. QED
        BY <1>4, <1>7, <3>3, <3>5, <4>1
    <3>7. s <= w.start
      <4>1. from \in Beginning /\ Shown(from) /\ w.start = Earliest(from, 0)
        BY <1>7 DEF Bounded
      <4>2. QED
        BY <3>1, <3>2, <3>6, <4>1, BeginInOrder
    <3>8. QED
      BY <1>2, <1>8, <3>1, <3>2, <3>3, <3>7
  <2>3. QED
    BY <2>1, <2>2
<1>10. twice' = FALSE
  <2>1. covered \intersect (w.start..t) = {}
    BY <1>1, <1>2, <1>8, <1>9
  <2>2. QED
    BY <1>6, <2>1 DEF RollingInv
<1>11. covered' \subseteq Int
  <2>1. w.start..t \subseteq Int
    BY <1>1, <1>8
  <2>2. QED
    BY <1>2, <1>6, <2>1
<1>12. active' # NoSummary
  BY <1>6 DEF NoSummary
<1>13. Going'
  <2>1. active'.window = w /\ active'.through = t /\ active' = [window |-> w, through |-> t]
    BY <1>6
  <2>2. w.start..t \subseteq covered'
    BY <1>6
  <2>3. \A x \in covered' : x <= t
    BY <1>1, <1>2, <1>6, <1>8, <1>9
  <2>4. to \in Beginning /\ Boundary(cadence', to) /\ Shown(to) /\ w.end = Earliest(to, 0)
    BY <1>3, <1>7 DEF Bounded
  <2>5. t <= now'
    BY <1>1
  <2>6. QED
    BY <1>1, <1>8, <2>1, <2>2, <2>3, <2>4, <2>5 DEF Going, Start
<1>14. QED
  BY <1>1, <1>2, <1>10, <1>11, <1>12, <1>13 DEF RollingInv

LEMMA AccumulateHolds ==
  ASSUME RollingInv, NEW t \in (now + 1)..((LastDay + 1) * DayLength - 1),
         Accumulate(t), now' = t, cadence' = cadence
  PROVE  RollingInv'
<1>1. t \in Moment /\ t \in Int /\ now \in Int /\ now < t
  BY LaterRun
<1>2. cadence \in Cadence /\ active # NoSummary /\ Going /\ covered \subseteq Int
  BY DEF RollingInv, Accumulate
<1>3. PICK w, through : w = active.window /\ through = active.through
  OBVIOUS
<1>4. /\ w.start \in Int /\ through \in Int
      /\ w.start <= through /\ through <= now
      /\ w.start..through \subseteq covered
      /\ \A x \in covered : x <= through
  BY <1>2, <1>3 DEF Going
<1>5. PICK d \in Beginning : Start(d) /\ w.end = Earliest(d, 0)
  BY <1>2, <1>3 DEF Going
<1>6. /\ t < w.end /\ active' = [active EXCEPT !.through = t]
      /\ covered' = covered \union ((through + 1)..t)
      /\ twice' = (twice \/ covered \intersect ((through + 1)..t) # {})
  BY <1>3 DEF Accumulate, Cover
<1>7. active' = [window |-> w, through |-> t]
  <2>1. active = [window |-> w, through |-> through]
    BY <1>2, <1>3 DEF Going
  <2>2. QED
    BY <1>6, <2>1
<1>8. twice' = FALSE
  <2>1. covered \intersect ((through + 1)..t) = {}
    BY <1>1, <1>2, <1>4
  <2>2. QED
    BY <1>6, <2>1 DEF RollingInv
<1>9. covered' \subseteq Int
  <2>1. (through + 1)..t \subseteq Int
    BY <1>1, <1>4
  <2>2. QED
    BY <1>2, <1>6, <2>1
<1>10. active' # NoSummary
  <2>1. t # Never
    BY <1>1, MomentInRange, Numbers DEF Never
  <2>2. QED
    BY <1>7, <2>1 DEF NoSummary
<1>11. Going'
  <2>1. active'.window = w /\ active'.through = t /\ active' = [window |-> w, through |-> t]
    BY <1>7
  <2>2. w.start..t \subseteq covered'
    <3>1. \A x \in w.start..t : x \in w.start..through \/ x \in (through + 1)..t
      BY <1>1, <1>4
    <3>2. QED
      BY <1>4, <1>6, <3>1
  <2>3. \A x \in covered' : x <= t
    <3>1. \A x \in covered : x <= t
      BY <1>1, <1>2, <1>4
    <3>2. \A x \in (through + 1)..t : x <= t
      BY <1>1, <1>4
    <3>3. QED
      BY <1>6, <3>1, <3>2
  <2>4. Boundary(cadence', d) /\ Shown(d) /\ w.end = Earliest(d, 0)
    BY <1>5 DEF Start
  <2>5. w.start <= t /\ t <= now'
    BY <1>1, <1>4
  <2>6. QED
    BY <1>1, <1>4, <1>6, <2>1, <2>2, <2>3, <2>4, <2>5 DEF Going, Start
<1>12. QED
  BY <1>1, <1>2, <1>8, <1>9, <1>10, <1>11 DEF RollingInv

LEMMA FinalizeHolds ==
  ASSUME RollingInv, NEW t \in (now + 1)..((LastDay + 1) * DayLength - 1),
         Finalize(t), now' = t, cadence' = cadence
  PROVE  RollingInv'
<1>1. t \in Moment /\ t \in Int /\ now \in Int /\ now < t
  BY LaterRun
<1>2. /\ Going /\ covered' = covered /\ active' = NoSummary /\ twice' = FALSE
      /\ cadence \in Cadence /\ covered \subseteq Int
  BY DEF RollingInv, Finalize
<1>3. PICK w, through : w = active.window /\ through = active.through
  OBVIOUS
<1>4. /\ through \in Int /\ through < w.end /\ w.end <= t
      /\ \A x \in covered : x <= through
  BY <1>2, <1>3 DEF Going, Finalize
<1>5. PICK d \in Beginning : Start(d) /\ w.end = Earliest(d, 0)
  BY <1>2, <1>3 DEF Going
<1>6. w.end \in Int
  BY <1>5, FirstShown, Numbers DEF Start
<1>7. \A x \in covered : x < w.end
  BY <1>2, <1>4, <1>6
<1>8. Settled'
  <2>1. Boundary(cadence', d) /\ Shown(d) /\ Earliest(d, 0) <= now'
    BY <1>4, <1>5, <1>2 DEF Start
  <2>2. \A x \in covered' : x < Earliest(d, 0)
    BY <1>2, <1>5, <1>7
  <2>3. QED
    BY <2>1, <2>2 DEF Settled, Start
<1>9. QED
  BY <1>1, <1>2, <1>8 DEF RollingInv

\* Every instant a run comes at leaves the windows taken whole, apart and in order,
\* also when runs are late or missing and the clocks change in between.
THEOREM RollingInvariant == Spec => []RollingInv
<1>1. RollingInv /\ [Next]_vars => RollingInv'
  <2> SUFFICES ASSUME RollingInv, [Next]_vars PROVE RollingInv'
    OBVIOUS
  <2>1. CASE UNCHANGED vars
    BY <2>1 DEF vars, RollingInv, Settled, Going, Start
  <2>2. ASSUME NEW t \in (now + 1)..((LastDay + 1) * DayLength - 1),
               StartNew(t) \/ Accumulate(t) \/ Finalize(t), now' = t, UNCHANGED cadence
        PROVE  RollingInv'
    BY <2>2, StartHolds, AccumulateHolds, FinalizeHolds
  <2>3. QED
    BY <2>1, <2>2 DEF Next, Run
<1>2. QED
  BY <1>1, InitHolds, PTL DEF Spec

\* No instant's messages go into a summary twice, and those of the active period
\* are all in it, up to the last run.
THEOREM InstantsTakenOnce == Spec => []TakenOnce
<1>1. RollingInv => TakenOnce
  <2> SUFFICES ASSUME RollingInv PROVE TakenOnce
    OBVIOUS
  <2>1. NothingTwice
    BY DEF RollingInv, NothingTwice
  <2>2. ASSUME active # NoSummary
        PROVE  /\ active.through \in active.window.start..(active.window.end - 1)
               /\ active.window.start..active.through \subseteq covered
    <3>1. Going
      BY <2>2 DEF RollingInv
    <3>2. PICK d \in Beginning : Start(d) /\ active.window.end = Earliest(d, 0)
      BY <3>1 DEF Going
    <3>3. active.window.end \in Int
      BY <3>2, FirstShown, Numbers DEF Start
    <3>4. QED
      BY <3>1, <3>3 DEF Going
  <2>3. QED
    BY <2>1, <2>2 DEF TakenOnce, CaughtUp
<1>2. QED
  BY <1>1, RollingInvariant, PTL

\* An instant lies in its window, and where a window ends, by the clocks of its
\* zone, the next begins: no instant is in two, or in none between them.
THEOREM WindowsArePartition == Spec => []WindowsPartition
<1>1. RollingInv => WindowsPartition
  <2> SUFFICES ASSUME RollingInv PROVE WindowsPartition
    OBVIOUS
  <2>1. PICK t, c : t = now /\ c = cadence
    OBVIOUS
  <2>2. PICK today : today = DateOf(Local(t))
    OBVIOUS
  <2>3. c \in Cadence /\ t \in 0..EndOfTime /\ today \in (FirstDay - 1)..(LastDay + 1)
    BY <2>1, <2>2, MomentInRange DEF RollingInv
  <2>4. PICK w : w = Window(c, t)
    OBVIOUS
  <2>5. today \in Dated
    BY <2>3, Numbers DEF Dated
  <2>6. CASE w # None
    <3>1. PICK from, to \in Int : Bounded(c, today, w, from, to)
      BY <2>2, <2>3, <2>4, <2>5, <2>6, WindowFacts
    <3>2. w.start <= t /\ t < w.end
      BY <2>2, <2>3, <3>1, Contains
    <3>3. /\ to \in Beginning /\ Shown(to) /\ Boundary(c, to) /\ w.end = Earliest(to, 0)
          /\ today < to /\ to <= today + 31
      BY <3>1 DEF Bounded
    <3>4. PICK e : e = w.end
      OBVIOUS
    <3>5. e \in 0..EndOfTime /\ DateOf(Local(e)) = to
      BY <3>3, <3>4, FirstShown, Begins
    <3>6. to \in Dated
      BY <2>3, <3>1, <3>3, Numbers DEF Dated
    <3>7. PICK next : next = Window(c, e)
      OBVIOUS
    <3>8. ASSUME next # None PROVE next.start = e
      <4>1. PICK from2, to2 \in Int :
              from2 = Dates(c, to)[1] /\ Bounded(c, to, next, from2, to2)
        BY <2>3, <3>5, <3>6, <3>7, <3>8, WindowFacts
      <4>2. from2 = to
        BY <2>3, <3>3, <3>6, <4>1, BoundaryBegins
      <4>3. next.start = Earliest(from2, 0)
        BY <4>1 DEF Bounded
      <4>4. QED
        BY <3>3, <3>4, <4>2, <4>3
    <3>9. QED
      BY <2>1, <2>4, <3>2, <3>4, <3>7, <3>8
         DEF WindowsPartition, WindowContainsInstant, WindowsTile
  <2>7. CASE w = None
    BY <2>1, <2>4, <2>7 DEF WindowsPartition, WindowContainsInstant, WindowsTile
  <2>8. QED
    BY <2>6, <2>7
<1>2. QED
  BY <1>1, RollingInvariant, PTL

=============================================================================
