-------------------------- MODULE ProjectionProofs --------------------------
(***************************************************************************)
(* Theorems of Recurrence, Projection and ProjectionSessions, for every    *)
(* calendar, limit and content of the tables and every finite set of       *)
(* sessions.                                                               *)
(*                                                                         *)
(* An obligation's dates rise along its grid, so the loop that expands it  *)
(* has passed every due date when it leaves (ObligationsExpandExactly).    *)
(* The engine's order is total on the events of the rows, so the balance   *)
(* after an event sums what precedes it; the lowest balance of a day is    *)
(* one of those or the opening one (LowestIsReached, LowestIsLowest), and  *)
(* the events up to a day are the images of the rows that matter by then   *)
(* (EventsOfRows).                                                         *)
(* A replacement of the policy holds its owner's row and shares the        *)
(* accounts that it has checked, and what a reader has read is what its    *)
(* first query saw (PInv).                                                 *)
(***************************************************************************)
EXTENDS ProjectionSessions, SumTheorems

-----------------------------------------------------------------------------
(* Products *)

LEMMA ProductsGrow ==
  ASSUME NEW w \in Nat \ {0}, NEW j \in Nat, NEW k \in Nat, j < k
  PROVE  j * w \in Nat /\ k * w \in Nat /\ j * w < k * w /\ k <= k * w
<1>1. k * w = j * w + (k - j) * w
  OBVIOUS
<1>2. (k - j) * w >= 1
  <2>1. k - j >= 1 /\ k - j \in Nat /\ w >= 1
    OBVIOUS
  <2> QED
    BY <2>1
<1>3. j * w \in Nat /\ k * w \in Nat
  OBVIOUS
<1>4. k <= k * w
  <2>1. k * w = k + k * (w - 1)
    OBVIOUS
  <2>2. k * (w - 1) >= 0
    OBVIOUS
  <2> QED
    BY <2>1, <2>2
<1> QED
  BY <1>1, <1>2, <1>3, <1>4

LEMMA Multiples ==
  ASSUME NEW w \in Nat \ {0}, NEW x \in Nat
  PROVE  x % w = 0 <=> \E k \in Nat : x = k * w
<1>1. ASSUME NEW k \in Nat, x = k * w PROVE x % w = 0
  BY <1>1
<1>2. ASSUME x % w = 0 PROVE \E k \in Nat : x = k * w
  BY <1>2
<1> QED
  BY <1>1, <1>2

-----------------------------------------------------------------------------
(* The calendar *)

LEMMA CalendarTypes ==
  /\ Len(MonthEnds) \in Nat \ {0} /\ Months = 1..Len(MonthEnds)
  /\ \A m \in Months : MonthEnds[m] \in Nat \ {0}
  /\ \A m, n \in Months : m < n => MonthEnds[m] < MonthEnds[n]
  /\ LastDate \in Nat \ {0}
<1>1. /\ MonthEnds \in Seq(Nat \ {0}) /\ MonthEnds # <<>>
      /\ \A m, n \in DOMAIN MonthEnds : m < n => MonthEnds[m] < MonthEnds[n]
  BY CalendarAssumption
<1>2. Len(MonthEnds) \in Nat \ {0} /\ DOMAIN MonthEnds = 1..Len(MonthEnds)
  BY <1>1
<1>3. \A m \in Months : MonthEnds[m] \in Nat \ {0}
  BY <1>1, <1>2 DEF Months
<1> QED
  BY <1>1, <1>2, <1>3 DEF Months, LastDate

LEMMA MonthsAreDisjoint ==
  /\ \A m \in Months : DaysBefore(m) \in Nat /\ DaysBefore(m) < MonthEnds[m] /\ MonthEnds[m] <= LastDate
                       /\ MonthLength(m) \in Nat \ {0} /\ DaysBefore(m) + MonthLength(m) = MonthEnds[m]
  /\ \A m, n \in Months : m < n => MonthEnds[m] <= DaysBefore(n)
<1>1. ASSUME NEW m \in Months
      PROVE  /\ DaysBefore(m) \in Nat /\ DaysBefore(m) < MonthEnds[m] /\ MonthEnds[m] <= LastDate
             /\ MonthLength(m) \in Nat \ {0} /\ DaysBefore(m) + MonthLength(m) = MonthEnds[m]
  <2>1. m = 1 \/ (m - 1 \in Months /\ m - 1 < m)
    BY CalendarTypes
  <2>2. DaysBefore(m) \in Nat /\ DaysBefore(m) < MonthEnds[m]
    BY <2>1, CalendarTypes DEF DaysBefore
  <2>3. m = Len(MonthEnds) \/ m < Len(MonthEnds)
    BY CalendarTypes
  <2>4. MonthEnds[m] <= LastDate
    BY <2>3, CalendarTypes DEF LastDate
  <2> QED
    BY <2>2, <2>4, CalendarTypes DEF MonthLength
<1>2. ASSUME NEW m \in Months, NEW n \in Months, m < n PROVE MonthEnds[m] <= DaysBefore(n)
  <2>1. n # 1 /\ n - 1 \in Months /\ (m = n - 1 \/ m < n - 1)
    BY <1>2, CalendarTypes
  <2> QED
    BY <2>1, CalendarTypes DEF DaysBefore
<1> QED
  BY <1>1, <1>2

LEMMA MonthOfDate ==
  ASSUME NEW date \in Dates
  PROVE  /\ MonthOf(date) \in Months
         /\ DaysBefore(MonthOf(date)) < date /\ date <= MonthEnds[MonthOf(date)]
         /\ \A m \in Months : DaysBefore(m) < date /\ date <= MonthEnds[m] => m = MonthOf(date)
         /\ DayOf(date) \in Nat \ {0} /\ date = DaysBefore(MonthOf(date)) + DayOf(date)
<1> DEFINE Reaching == {m \in Months : date <= MonthEnds[m]}
<1>1. Len(MonthEnds) \in Reaching /\ Reaching \in SUBSET Nat
  BY CalendarTypes DEF Dates, LastDate
<1>2. PICK m \in Reaching : \A n \in Reaching : m <= n
  <2> HIDE DEF Reaching
  <2> QED
    BY <1>1, LeastNumber
<1>3. DaysBefore(m) < date
  <2>1. m = 1 \/ (m - 1 \in Months /\ m - 1 \notin Reaching)
    BY <1>1, <1>2, CalendarTypes
  <2> QED
    BY <2>1, CalendarTypes DEF DaysBefore, Dates
<1>4. \E n \in Months : DaysBefore(n) < date /\ date <= MonthEnds[n]
  BY <1>2, <1>3
<1>5. MonthOf(date) \in Months /\ DaysBefore(MonthOf(date)) < date /\ date <= MonthEnds[MonthOf(date)]
  BY <1>4 DEF MonthOf
<1>6. ASSUME NEW n \in Months, DaysBefore(n) < date, date <= MonthEnds[n] PROVE n = MonthOf(date)
  <2>1. n < MonthOf(date) \/ n = MonthOf(date) \/ MonthOf(date) < n
    BY <1>5, CalendarTypes
  <2>2. CASE n < MonthOf(date)
    <3>1. MonthEnds[n] <= DaysBefore(MonthOf(date))
      BY <1>5, <2>2, MonthsAreDisjoint
    <3> QED
      BY <1>5, <1>6, <3>1, MonthsAreDisjoint, CalendarTypes DEF Dates
  <2>3. CASE MonthOf(date) < n
    <3>1. MonthEnds[MonthOf(date)] <= DaysBefore(n)
      BY <1>5, <2>3, MonthsAreDisjoint
    <3> QED
      BY <1>5, <1>6, <3>1, MonthsAreDisjoint, CalendarTypes DEF Dates
  <2> QED
    BY <2>1, <2>2, <2>3
<1> QED
  BY <1>5, <1>6, MonthsAreDisjoint DEF DayOf, Dates

\* A month ends at least as many days after the first as it comes after months.
LEMMA MonthsHaveDays == \A m \in Months : m <= MonthEnds[m]
<1> DEFINE Short == {m \in Months : m > MonthEnds[m]}
<1> SUFFICES ASSUME Short # {} PROVE FALSE
  BY CalendarTypes
<1>1. Short \in SUBSET Nat
  BY CalendarTypes
<1>2. PICK m \in Short : \A n \in Short : m <= n
  <2> HIDE DEF Short
  <2> QED
    BY <1>1, LeastNumber
<1>3. m # 1 /\ m - 1 \in Months /\ m - 1 < m
  BY <1>2, CalendarTypes
<1>4. m - 1 \notin Short
  BY <1>2, <1>3, CalendarTypes
<1> QED
  BY <1>2, <1>3, <1>4, CalendarTypes
-----------------------------------------------------------------------------
(* The dates that the loop looks at *)

LEMMA ObligationTypes ==
  ASSUME NEW o, IsObligation(o)
  PROVE  /\ o.start \in Dates /\ o.start \in Nat \ {0} /\ o.start <= LastDate
         /\ o.recurrence \in Recurrences
         /\ o.end \in Dates \cup {NoDate} /\ o.inactiveFrom \in Dates \cup {NoDate}
         /\ Dates \subseteq Nat \ {0} /\ NoDate \notin Int
         /\ o.id \in Nat /\ o.amount \in Nat \ {0} /\ o.exact \in BOOLEAN
BY DateAssumption, CalendarTypes DEF IsObligation, ObligationRow, Dates

\* The day's date in a month.
Clamped(month, day) == DaysBefore(month) + Min({day, MonthLength(month)})

LEMMA LessOfTwo ==
  ASSUME NEW x \in Nat, NEW y \in Nat
  PROVE  Min({x, y}) = IF x <= y THEN x ELSE y
<1> DEFINE less == IF x <= y THEN x ELSE y
<1>1. less \in {x, y} /\ \A z \in {x, y} : less <= z
  OBVIOUS
<1>2. \A z \in {x, y} : (\A v \in {x, y} : z <= v) => z = less
  OBVIOUS
<1>3. Min({x, y}) \in {x, y} /\ \A v \in {x, y} : Min({x, y}) <= v
  BY <1>1 DEF Min
<1> QED
  BY <1>2, <1>3

LEMMA ClampedIsOfMonth ==
  ASSUME NEW m \in Months, NEW day \in Nat \ {0}
  PROVE  /\ Clamped(m, day) \in Dates /\ MonthOf(Clamped(m, day)) = m
         /\ DayOf(Clamped(m, day)) = IF day <= MonthLength(m) THEN day ELSE MonthLength(m)
<1>1. Clamped(m, day) = DaysBefore(m) + IF day <= MonthLength(m) THEN day ELSE MonthLength(m)
  BY LessOfTwo, MonthsAreDisjoint DEF Clamped
<1>2. DaysBefore(m) < Clamped(m, day) /\ Clamped(m, day) <= MonthEnds[m] /\ Clamped(m, day) \in Nat
  BY <1>1, MonthsAreDisjoint
<1>3. Clamped(m, day) \in Dates
  BY <1>2, MonthsAreDisjoint, CalendarTypes DEF Dates
<1>4. MonthOf(Clamped(m, day)) = m
  BY <1>2, <1>3, MonthOfDate
<1> QED
  BY <1>1, <1>3, <1>4, MonthsAreDisjoint DEF DayOf

\* In a monthly obligation.
LEMMA MonthlyCandidates ==
  ASSUME NEW o, IsObligation(o), o.recurrence = "monthly", NEW k \in Nat
  PROVE  Candidate(o, k) = IF MonthOf(o.start) + k \in Months THEN Clamped(MonthOf(o.start) + k, DayOf(o.start)) ELSE NoDate
BY DEF Candidate, anchoredMonth, ClampedDate, Clamped

LEMMA MonthlyGrid ==
  ASSUME NEW o, IsObligation(o), o.recurrence = "monthly", NEW date \in Dates
  PROVE  (o.start <= date /\ OnGrid(o, date)) <=>
           \E k \in Nat : MonthOf(o.start) + k \in Months /\ date = Clamped(MonthOf(o.start) + k, DayOf(o.start))
<1> DEFINE m == MonthOf(o.start)
           n == MonthOf(date)
           day == DayOf(o.start)
<1>1. /\ o.start \in Dates /\ m \in Months /\ n \in Months /\ m \in Nat /\ n \in Nat /\ day \in Nat \ {0}
      /\ o.start = DaysBefore(m) + day /\ date = DaysBefore(n) + DayOf(date) /\ DayOf(date) \in Nat \ {0}
      /\ day <= MonthLength(m) /\ DayOf(date) <= MonthLength(n)
  <2>1. o.start \in Dates
    BY ObligationTypes
  <2>2. /\ m \in Months /\ DaysBefore(m) < o.start /\ o.start <= MonthEnds[m]
        /\ day \in Nat \ {0} /\ o.start = DaysBefore(m) + day
    BY <2>1, MonthOfDate
  <2>3. /\ n \in Months /\ DaysBefore(n) < date /\ date <= MonthEnds[n]
        /\ DayOf(date) \in Nat \ {0} /\ date = DaysBefore(n) + DayOf(date)
    BY MonthOfDate
  <2>4. m \in Nat /\ n \in Nat
    BY <2>2, <2>3, CalendarTypes
  <2> HIDE DEF m, n, day
  <2>5. day <= MonthLength(m) /\ DayOf(date) <= MonthLength(n)
    BY <2>2, <2>3, MonthsAreDisjoint
  <2> QED
    BY <2>1, <2>2, <2>3, <2>4, <2>5
<1>2. OnGrid(o, date) <=> DayOf(date) = day \/ (DayOf(date) < day /\ date = MonthEnds[n])
  BY DEF OnGrid
<1>3. OnGrid(o, date) <=> date = Clamped(n, day)
  <2>1. Clamped(n, day) = DaysBefore(n) + IF day <= MonthLength(n) THEN day ELSE MonthLength(n)
    BY <1>1, LessOfTwo, MonthsAreDisjoint DEF Clamped
  <2> QED
    BY <1>1, <1>2, <2>1, MonthsAreDisjoint
<1>4. ASSUME o.start <= date, OnGrid(o, date)
      PROVE  \E k \in Nat : m + k \in Months /\ date = Clamped(m + k, day)
  <2>1. m <= n
    <3>1. n < m => MonthEnds[n] <= DaysBefore(m)
      BY <1>1, MonthsAreDisjoint
    <3> QED
      BY <1>1, <1>4, <3>1, MonthsAreDisjoint
  <2>2. n - m \in Nat /\ m + (n - m) = n
    BY <1>1, <2>1
  <2> QED
    BY <1>1, <1>3, <1>4, <2>2
<1>5. ASSUME NEW k \in Nat, m + k \in Months, date = Clamped(m + k, day)
      PROVE  o.start <= date /\ OnGrid(o, date)
  <2>1. n = m + k
    BY <1>1, <1>5, ClampedIsOfMonth
  <2>2. OnGrid(o, date)
    BY <1>3, <1>5, <2>1
  <2>3. CASE k = 0
    <3>1. Clamped(m, day) = DaysBefore(m) + day
      BY <1>1, LessOfTwo, MonthsAreDisjoint DEF Clamped
    <3>2. m + k = m
      BY <1>1, <2>3
    <3> QED
      BY <1>1, <1>5, <2>2, <3>1, <3>2, ObligationTypes
  <2>4. CASE k > 0
    <3>1. MonthEnds[m] <= DaysBefore(n)
      BY <1>1, <2>1, <2>4, MonthsAreDisjoint
    <3> QED
      BY <1>1, <2>2, <3>1, MonthsAreDisjoint
  <2> QED
    BY <2>2, <2>3, <2>4
<1> QED
  BY <1>4, <1>5

\* The dates of the grid from the start on are what the loop looks at, in order,
\* and none comes after the last date.
LEMMA Candidates ==
  ASSUME NEW o, IsObligation(o), o.recurrence # "one_time"
  PROVE  /\ \A k \in Nat : Candidate(o, k) \in Dates \cup {NoDate}
         /\ Candidate(o, 0) = o.start
         /\ Candidate(o, LastDate) = NoDate
         /\ \A j, k \in Nat : j < k /\ Candidate(o, k) # NoDate =>
              Candidate(o, j) # NoDate /\ Candidate(o, j) < Candidate(o, k)
         /\ \A date \in Dates : (o.start <= date /\ OnGrid(o, date)) <=> \E k \in Nat : Candidate(o, k) = date
<1>1. CASE o.recurrence = "monthly"
  <2> DEFINE m == MonthOf(o.start)
             day == DayOf(o.start)
  <2>1. o.start \in Dates /\ m \in Months /\ m \in Nat \ {0} /\ day \in Nat \ {0} /\ o.start = DaysBefore(m) + day
        /\ o.start <= MonthEnds[m]
    BY ObligationTypes, MonthOfDate, CalendarTypes
  <2>2. \A k \in Nat : Candidate(o, k) = IF m + k \in Months THEN Clamped(m + k, day) ELSE NoDate
    BY <1>1, MonthlyCandidates
  <2> HIDE DEF m, day
  <2>3. \A k \in Nat : Candidate(o, k) \in Dates \cup {NoDate}
    BY <2>1, <2>2, ClampedIsOfMonth
  <2>4. Candidate(o, 0) = o.start
    <3>1. m + 0 = m /\ Candidate(o, 0) = Clamped(m, day)
      BY <2>1, <2>2
    <3>2. Clamped(m, day) = DaysBefore(m) + day
      BY <2>1, LessOfTwo, MonthsAreDisjoint DEF Clamped
    <3> QED
      BY <2>1, <3>1, <3>2
  <2>5. Candidate(o, LastDate) = NoDate
    <3>1. Len(MonthEnds) <= LastDate
      BY MonthsHaveDays, CalendarTypes DEF LastDate
    <3> QED
      BY <2>1, <2>2, <3>1, CalendarTypes
  <2>6. ASSUME NEW j \in Nat, NEW k \in Nat, j < k, Candidate(o, k) # NoDate
        PROVE  Candidate(o, j) # NoDate /\ Candidate(o, j) < Candidate(o, k)
    <3>1. m + k \in Months /\ m + j \in Months /\ m + j < m + k
      BY <2>1, <2>2, <2>6, CalendarTypes
    <3>2. Candidate(o, j) = Clamped(m + j, day) /\ Candidate(o, k) = Clamped(m + k, day)
      BY <2>2, <3>1
    <3>3. /\ Clamped(m + j, day) \in Dates /\ MonthOf(Clamped(m + j, day)) = m + j
          /\ Clamped(m + k, day) \in Dates /\ MonthOf(Clamped(m + k, day)) = m + k
      BY <2>1, <3>1, ClampedIsOfMonth
    <3>4. Clamped(m + j, day) <= MonthEnds[m + j] /\ DaysBefore(m + k) < Clamped(m + k, day)
      BY <3>3, MonthOfDate
    <3>5. MonthEnds[m + j] <= DaysBefore(m + k)
      BY <3>1, MonthsAreDisjoint
    <3>6. Clamped(m + j, day) \in Int /\ Clamped(m + k, day) \in Int /\ MonthEnds[m + j] \in Int /\ DaysBefore(m + k) \in Int
      BY <3>1, <3>3, ObligationTypes, CalendarTypes, MonthsAreDisjoint
    <3> QED
      BY <3>2, <3>3, <3>4, <3>5, <3>6, ObligationTypes
  <2>7. ASSUME NEW date \in Dates
        PROVE  (o.start <= date /\ OnGrid(o, date)) <=> \E k \in Nat : Candidate(o, k) = date
    <3>1. (o.start <= date /\ OnGrid(o, date)) <=> \E k \in Nat : m + k \in Months /\ date = Clamped(m + k, day)
      BY <1>1, MonthlyGrid DEF m, day
    <3>2. date # NoDate
      BY ObligationTypes
    <3> QED
      BY <2>2, <3>1, <3>2
  <2> QED
    BY <2>3, <2>4, <2>5, <2>6, <2>7
<1>2. ASSUME NEW w \in Nat \ {0}, \A k \in Nat : Candidate(o, k) = AddDays(o.start, k * w),
             \A date : OnGrid(o, date) <=> (date - o.start) % w = 0
      PROVE  /\ \A k \in Nat : Candidate(o, k) \in Dates \cup {NoDate}
             /\ Candidate(o, 0) = o.start
             /\ Candidate(o, LastDate) = NoDate
             /\ \A j, k \in Nat : j < k /\ Candidate(o, k) # NoDate =>
                  Candidate(o, j) # NoDate /\ Candidate(o, j) < Candidate(o, k)
             /\ \A date \in Dates : (o.start <= date /\ OnGrid(o, date)) <=> \E k \in Nat : Candidate(o, k) = date
  <2>1. o.start \in Nat \ {0} /\ o.start <= LastDate /\ LastDate \in Nat \ {0}
    BY ObligationTypes, CalendarTypes
  <2>2. \A k \in Nat : k * w \in Nat /\ Candidate(o, k) = IF o.start + k * w <= LastDate THEN o.start + k * w ELSE NoDate
    BY <1>2 DEF AddDays
  <2>3. \A k \in Nat : Candidate(o, k) \in Dates \cup {NoDate}
    BY <2>1, <2>2 DEF Dates
  <2>4. Candidate(o, 0) = o.start
    <3>1. 0 * w = 0
      OBVIOUS
    <3> QED
      BY <2>1, <2>2, <3>1
  <2>5. Candidate(o, LastDate) = NoDate
    <3>1. LastDate <= LastDate * w /\ LastDate * w \in Nat
      BY <2>1, ProductsGrow
    <3> QED
      BY <2>1, <2>2, <3>1
  <2>6. ASSUME NEW j \in Nat, NEW k \in Nat, j < k, Candidate(o, k) # NoDate
        PROVE  Candidate(o, j) # NoDate /\ Candidate(o, j) < Candidate(o, k)
    <3>1. j * w < k * w /\ j * w \in Nat /\ k * w \in Nat
      BY <2>6, ProductsGrow
    <3>2. o.start + k * w <= LastDate /\ o.start + j * w <= LastDate
      <4>1. o.start + k * w <= LastDate
        BY <2>2, <2>6
      <4>2. ASSUME NEW x \in Nat, NEW y \in Nat, x < y, o.start + y <= LastDate PROVE o.start + x <= LastDate
        BY <2>1, <4>2
      <4> QED
        BY <3>1, <4>1, <4>2
    <3>3. Candidate(o, j) = o.start + j * w /\ Candidate(o, k) = o.start + k * w
      BY <2>2, <3>2
    <3> QED
      BY <2>1, <3>1, <3>3, ObligationTypes
  <2>7. ASSUME NEW date \in Dates
        PROVE  (o.start <= date /\ OnGrid(o, date)) <=> \E k \in Nat : Candidate(o, k) = date
    <3>1. date \in Nat /\ date <= LastDate /\ date # NoDate
      BY <2>1, ObligationTypes DEF Dates
    <3>2. ASSUME o.start <= date, OnGrid(o, date) PROVE \E k \in Nat : Candidate(o, k) = date
      <4>1. date - o.start \in Nat /\ (date - o.start) % w = 0
        BY <1>2, <2>1, <3>1, <3>2
      <4>2. PICK k \in Nat : date - o.start = k * w
        BY <4>1, Multiples
      <4>3. date = o.start + k * w /\ k * w \in Nat
        BY <2>1, <2>2, <3>1, <4>2
      <4> QED
        BY <2>2, <3>1, <4>3
    <3>3. ASSUME NEW k \in Nat, Candidate(o, k) = date PROVE o.start <= date /\ OnGrid(o, date)
      <4>1. date = o.start + k * w /\ k * w \in Nat
        BY <2>2, <3>1, <3>3
      <4>2. date - o.start = k * w
        BY <2>1, <4>1
      <4>3. (date - o.start) % w = 0
        BY <4>1, <4>2, Multiples
      <4> QED
        BY <1>2, <2>1, <4>1, <4>3
    <3> QED
      BY <3>2, <3>3
  <2> QED
    BY <2>3, <2>4, <2>5, <2>6, <2>7
<1>3. CASE o.recurrence = "weekly"
  <2>1. \A k \in Nat : Candidate(o, k) = AddDays(o.start, k * WeekDays)
    BY <1>3 DEF Candidate
  <2>2. \A date : OnGrid(o, date) <=> (date - o.start) % WeekDays = 0
    BY <1>3 DEF OnGrid
  <2> QED
    BY <1>2, <2>1, <2>2, OccurrenceAssumption
<1>4. CASE o.recurrence = "biweekly"
  <2>1. WeekDays \in Nat \ {0} /\ 2 * WeekDays \in Nat \ {0}
    BY OccurrenceAssumption
  <2>2. \A k \in Nat : (k * 2) * WeekDays = k * (2 * WeekDays)
    BY <2>1
  <2>3. \A k \in Nat : Candidate(o, k) = AddDays(o.start, k * (2 * WeekDays))
    BY <1>4, <2>2 DEF Candidate
  <2>4. \A date : OnGrid(o, date) <=> (date - o.start) % (2 * WeekDays) = 0
    BY <1>4 DEF OnGrid
  <2> QED
    BY <1>2, <2>1, <2>3, <2>4
<1> QED
  BY <1>1, <1>3, <1>4, ObligationTypes DEF Recurrences

-----------------------------------------------------------------------------
(* Where the loop stops *)

\* What is beyond stays beyond.
LEMMA LaterIsBeyond ==
  ASSUME NEW o, IsObligation(o), NEW to \in Int, NEW x \in Dates, NEW y \in Dates, x <= y
  PROVE  Beyond(o, to, x) => Beyond(o, to, y)
BY ObligationTypes DEF Beyond, Ends, IsArchived

\* After the last date come only dates that are beyond.
LEMMA AfterLastIsBeyond ==
  ASSUME NEW o, IsObligation(o), NEW to \in Int, NEW x \in Dates, NEW y \in Dates, x < y, IsLast(o, to, x)
  PROVE  Beyond(o, to, y)
BY ObligationTypes DEF Beyond, IsLast, Ends, IsArchived

LEMMA FoundIsFinite ==
  ASSUME NEW o, NEW from, NEW to, NEW k \in Nat
  PROVE  /\ IsFiniteSet(Found(o, from, to, k)) /\ Cardinality(Found(o, from, to, k)) \in Nat
         /\ \A d \in Found(o, from, to, k) : within(o, from, to, d) /\ \E n \in 0..k : d = Candidate(o, n)
         /\ \A n \in 0..k : within(o, from, to, Candidate(o, n)) => Candidate(o, n) \in Found(o, from, to, k)
<1> DEFINE look == [n \in 0..k |-> Candidate(o, n)]
<1>1. IsFiniteSet({look[n] : n \in 0..k})
  <2>1. IsFiniteSet(0..k)
    BY FS_Interval
  <2> HIDE DEF look
  <2> QED
    BY <2>1, ImageIsFinite
<1>2. Found(o, from, to, k) \in SUBSET {look[n] : n \in 0..k}
  BY DEF Found
<1> QED
  BY <1>1, <1>2, FS_Subset, FS_CardinalityType DEF Found

\* The loop stops, at the first date at which it leaves.
LEMMA Stops ==
  ASSUME NEW o, IsObligation(o), o.recurrence # "one_time", NEW from, NEW to
  PROVE  /\ Steps(o, from, to) \in Nat /\ Steps(o, from, to) <= LastDate
         /\ LeavesAt(o, from, to, Steps(o, from, to))
         /\ \A n \in Nat : n < Steps(o, from, to) => ~ LeavesAt(o, from, to, n)
<1> DEFINE Leaving == {k \in 0..LastDate : LeavesAt(o, from, to, k)}
<1>1. LastDate \in Leaving
  BY Candidates, CalendarTypes DEF LeavesAt
<1>2. Leaving \in SUBSET Nat /\ Leaving # {}
  BY <1>1
<1>3. \E k \in Leaving : \A n \in Leaving : k <= n
  <2> HIDE DEF Leaving
  <2> QED
    BY <1>2, LeastNumber
<1>4. Steps(o, from, to) \in Leaving /\ \A n \in Leaving : Steps(o, from, to) <= n
  BY <1>3 DEF Steps, Min
<1> QED
  BY <1>4, CalendarTypes

\* What the loop goes past.
LEMMA GoesPast ==
  ASSUME NEW o, IsObligation(o), o.recurrence # "one_time", NEW from \in Dates, NEW to \in Dates,
         NEW n \in Nat, n < Steps(o, from, to)
  PROVE  /\ Candidate(o, n) \in Dates /\ ~ Beyond(o, to, Candidate(o, n)) /\ ~ IsLast(o, to, Candidate(o, n))
         /\ ~ IsTooMany(Found(o, from, to, n))
<1>1. ~ LeavesAt(o, from, to, n)
  BY Stops
<1>2. Candidate(o, n) \in Dates \cup {NoDate}
  BY Candidates
<1> QED
  BY <1>1, <1>2 DEF LeavesAt

\* What is due is what the loop would find if it never stopped.
LEMMA DueIsFound ==
  ASSUME NEW o, IsObligation(o), o.recurrence # "one_time", NEW from \in Dates, NEW to \in Dates, NEW date
  PROVE  date \in DueDates(o, from, to) <=>
           date \in Dates /\ within(o, from, to, date) /\ \E n \in Nat : date = Candidate(o, n)
<1>1. date \in DueDates(o, from, to) <=>
        date \in Dates /\ o.start <= date /\ OnGrid(o, date) /\ within(o, from, to, date)
  <2>1. ASSUME date \in Dates
        PROVE  /\ (Ends(o) => date <= o.end) <=> ~ (Ends(o) /\ date > o.end)
               /\ (IsArchived(o) => date < o.inactiveFrom) <=> ~ (IsArchived(o) /\ date >= o.inactiveFrom)
               /\ date <= to <=> ~ date > to
    BY <2>1, ObligationTypes DEF Ends, IsArchived
  <2> QED
    BY <2>1 DEF DueDates, within, Beyond
<1>2. date \in Dates => ((o.start <= date /\ OnGrid(o, date)) <=> \E n \in Nat : Candidate(o, n) = date)
  BY Candidates
<1> QED
  BY <1>1, <1>2 DEF within

LEMMA DueIsFinite ==
  ASSUME NEW o, NEW from, NEW to
  PROVE  IsFiniteSet(DueDates(o, from, to)) /\ Cardinality(DueDates(o, from, to)) \in Nat
<1>1. DueDates(o, from, to) \in SUBSET (1..LastDate)
  BY DEF DueDates, Dates
<1>2. IsFiniteSet(1..LastDate)
  BY FS_Interval, CalendarTypes
<1> QED
  BY <1>1, <1>2, FS_Subset, FS_CardinalityType

\* When the loop has left for the first time, it has missed nothing that is due.
LEMMA NothingIsMissed ==
  ASSUME NEW o, IsObligation(o), o.recurrence # "one_time", NEW from \in Dates, NEW to \in Dates,
         ~ IsTooMany(Found(o, from, to, Steps(o, from, to))) \/ Candidate(o, Steps(o, from, to)) = NoDate
  PROVE  \A date \in DueDates(o, from, to) : \E n \in 0..Steps(o, from, to) : date = Candidate(o, n)
<1> DEFINE k == Steps(o, from, to)
<1> SUFFICES ASSUME NEW date \in DueDates(o, from, to)
             PROVE  \E n \in 0..k : date = Candidate(o, n)
  OBVIOUS
<1>1. date \in Dates /\ within(o, from, to, date)
  BY DueIsFound
<1>2. PICK n \in Nat : date = Candidate(o, n)
  BY DueIsFound
<1>3. k \in Nat /\ LeavesAt(o, from, to, k) /\ Candidate(o, k) \in Dates \cup {NoDate}
  BY Stops, Candidates
<1>4. ASSUME n > k PROVE FALSE
  <2>1. Candidate(o, k) # NoDate /\ Candidate(o, k) < date
    BY <1>1, <1>2, <1>3, <1>4, Candidates, ObligationTypes
  <2>2. Candidate(o, k) \in Dates /\ (Beyond(o, to, Candidate(o, k)) \/ IsLast(o, to, Candidate(o, k)))
    BY <1>3, <2>1 DEF LeavesAt
  <2>3. Beyond(o, to, date)
    <3>1. to \in Int /\ Candidate(o, k) <= date
      BY <1>1, <2>1, <2>2, ObligationTypes
    <3> QED
      BY <1>1, <2>1, <2>2, <3>1, LaterIsBeyond, AfterLastIsBeyond
  <2> QED
    BY <1>1, <2>3 DEF within
<1> QED
  BY <1>2, <1>3, <1>4

\* The last date of the grid.
LEMMA LastOfGrid ==
  ASSUME NEW o, IsObligation(o), o.recurrence # "one_time", NEW k \in Nat, Candidate(o, k) \in Dates
  PROVE  LET last == Max({date \in Dates : o.start <= date /\ OnGrid(o, date)}) IN
         /\ last \in Dates /\ Candidate(o, k) <= last
         /\ Candidate(o, k + 1) = NoDate => last = Candidate(o, k)
<1> DEFINE Grid == {date \in Dates : o.start <= date /\ OnGrid(o, date)}
<1>1. Candidate(o, k) \in Grid
  BY Candidates
<1>2. IsFiniteSet(Grid) /\ Grid \subseteq Int /\ Grid # {}
  <2>1. IsFiniteSet(1..LastDate) /\ Grid \in SUBSET (1..LastDate)
    BY FS_Interval, CalendarTypes DEF Dates
  <2>2. Grid \subseteq Int /\ Grid # {}
    BY <1>1, ObligationTypes
  <2> HIDE DEF Grid
  <2> QED
    BY <2>1, <2>2, FS_Subset
<1>3. \E n \in Grid : \A m \in Grid : m <= n
  <2> HIDE DEF Grid
  <2> QED
    BY <1>2, GreatestNumber
<1>4. Max(Grid) \in Grid /\ \A m \in Grid : m <= Max(Grid)
  BY <1>2, <1>3 DEF Max
<1>5. ASSUME Candidate(o, k + 1) = NoDate PROVE Max(Grid) = Candidate(o, k)
  <2>1. PICK n \in Nat : Candidate(o, n) = Max(Grid)
    BY <1>4, Candidates
  <2>2. Candidate(o, n) # NoDate /\ Candidate(o, n) \in Int /\ Candidate(o, k) \in Int
    BY <1>1, <1>2, <1>4, <2>1, ObligationTypes
  <2>3. n <= k
    <3>1. CASE n = k + 1
      BY <1>5, <2>2, <3>1
    <3>2. CASE k + 1 < n
      BY <1>5, <2>2, <3>2, Candidates
    <3> QED
      BY <3>1, <3>2
  <2>4. n = k \/ n < k
    BY <2>3
  <2>5. n < k => Candidate(o, n) < Candidate(o, k)
    BY Candidates, ObligationTypes
  <2> QED
    BY <1>1, <1>4, <2>1, <2>2, <2>4, <2>5
<1> QED
  BY <1>1, <1>4, <1>5

\* An expansion is every due date once, whatever the calendar, the grid and
\* the limit are.
LEMMA ObligationsExpandExactly ==
  ASSUME NEW o, IsObligation(o), NEW from \in Dates, NEW to \in Dates
  PROVE  ExpandsExactly(o, from, to)
<1> DEFINE due == DueDates(o, from, to)
           k == Steps(o, from, to)
           found == Found(o, from, to, k)
           date == Candidate(o, k)
<1> SUFFICES occurrenceDates(o, from, to) =
               IF o.recurrence # "one_time" /\ Cardinality(due) > MaxOccurrenceCount THEN Refused("occurrence_limit")
               ELSE IF RunsOffTheCalendar(o, to) THEN Refused("invalid_date")
               ELSE Expanded(due)
  BY DEF ExpandsExactly
<1>1. CASE o.recurrence = "one_time"
  <2>1. {d \in {o.start} : within(o, from, to, d)} = due
    <3>1. o.start \in Dates /\ \A d \in Dates : OnGrid(o, d) <=> d = o.start
      BY <1>1, ObligationTypes DEF OnGrid
    <3>2. /\ (Ends(o) => o.start <= o.end) <=> ~ (Ends(o) /\ o.start > o.end)
          /\ (IsArchived(o) => o.start < o.inactiveFrom) <=> ~ (IsArchived(o) /\ o.start >= o.inactiveFrom)
          /\ o.start <= to <=> ~ o.start > to
          /\ o.start <= o.start
      BY ObligationTypes DEF Ends, IsArchived
    <3>3. o.start \in due <=> within(o, from, to, o.start)
      BY <3>1, <3>2 DEF DueDates, within, Beyond
    <3>4. \A d \in due : d = o.start
      BY <3>1 DEF DueDates
    <3> QED
      BY <3>3, <3>4
  <2> QED
    BY <1>1, <2>1 DEF occurrenceDates, RunsOffTheCalendar
<1>2. CASE o.recurrence # "one_time"
  <2>1. /\ k \in Nat /\ LeavesAt(o, from, to, k) /\ date \in Dates \cup {NoDate}
        /\ IsFiniteSet(found) /\ Cardinality(found) \in Nat /\ IsFiniteSet(due) /\ Cardinality(due) \in Nat
        /\ MaxOccurrenceCount \in Nat
    BY <1>2, Stops, Candidates, FoundIsFinite, DueIsFinite, OccurrenceAssumption
  <2>2. \A d \in found : within(o, from, to, d) /\ \E n \in 0..k : d = Candidate(o, n)
    BY <2>1, FoundIsFinite
  <2>3. \A n \in 0..k : within(o, from, to, Candidate(o, n)) => Candidate(o, n) \in found
    BY <2>1, FoundIsFinite
  <2>4. \A n \in Nat : n < k =>
          /\ Candidate(o, n) \in Dates /\ ~ Beyond(o, to, Candidate(o, n)) /\ ~ IsLast(o, to, Candidate(o, n))
          /\ ~ IsTooMany(Found(o, from, to, n))
    BY <1>2, GoesPast
  <2>5. occurrenceDates(o, from, to) =
          IF date = NoDate THEN Refused("invalid_date")
          ELSE IF IsTooMany(found) THEN Refused("occurrence_limit")
          ELSE Expanded(found)
    BY <1>2 DEF occurrenceDates
  <2>6. ~ IsTooMany(found) \/ date = NoDate => \A d \in due : \E n \in 0..k : d = Candidate(o, n)
    BY <1>2, NothingIsMissed
  <2>7. \A d : d \in due <=> d \in Dates /\ within(o, from, to, d) /\ \E n \in Nat : d = Candidate(o, n)
    BY <1>2, DueIsFound
  <2>8. k = 0 => date = o.start /\ date # NoDate
    BY <1>2, Candidates, ObligationTypes
  <2>9. k > 0 => k - 1 \in Nat /\ k - 1 < k /\ (k - 1) + 1 = k
    BY <2>1
  <2> HIDE DEF due, k, found, date
  <2>10. CASE date = NoDate
    <3>1. k > 0 /\ k - 1 \in Nat /\ k - 1 < k /\ (k - 1) + 1 = k
      BY <2>1, <2>8, <2>9, <2>10
    <3>2. due \subseteq Found(o, from, to, k - 1)
      <4>1. ASSUME NEW d \in due PROVE d \in Found(o, from, to, k - 1)
        <5>1. d \in Dates /\ within(o, from, to, d) /\ d # NoDate
          BY <2>7, <4>1, ObligationTypes
        <5>2. PICK n \in 0..k : d = Candidate(o, n)
          BY <2>6, <2>10, <4>1
        <5>3. n # k
          BY <2>10, <5>1, <5>2 DEF date
        <5>4. n \in 0..(k - 1)
          BY <2>1, <3>1, <5>3
        <5> QED
          BY <3>1, <5>1, <5>2, <5>4, FoundIsFinite
      <4> QED
        BY <4>1
    <3>3. Cardinality(due) <= MaxOccurrenceCount
      <4>1. IsFiniteSet(Found(o, from, to, k - 1)) /\ Cardinality(Found(o, from, to, k - 1)) \in Nat
        BY <3>1, FoundIsFinite
      <4>2. Cardinality(due) <= Cardinality(Found(o, from, to, k - 1))
        BY <3>2, <4>1, FS_Subset
      <4>3. ~ Cardinality(Found(o, from, to, k - 1)) > MaxOccurrenceCount
        BY <2>4, <3>1 DEF IsTooMany
      <4> QED
        BY <2>1, <4>1, <4>2, <4>3
    <3>4. Candidate(o, k - 1) \in Dates /\ GoesOnAfter(o, to, Candidate(o, k - 1))
      BY <2>4, <3>1 DEF GoesOnAfter
    <3>5. RunsOffTheCalendar(o, to)
      <4>1. Candidate(o, (k - 1) + 1) = NoDate
        BY <2>10, <3>1 DEF date
      <4>2. Max({d \in Dates : o.start <= d /\ OnGrid(o, d)}) = Candidate(o, k - 1)
        BY <1>2, <3>1, <3>4, <4>1, LastOfGrid
      <4> QED
        BY <1>2, <3>4, <4>2 DEF RunsOffTheCalendar
    <3> QED
      BY <2>1, <2>5, <2>10, <3>3, <3>5
  <2>11. CASE date # NoDate
    <3>1. date \in Dates
      BY <2>1, <2>11
    <3>2. found \subseteq due
      <4>1. ASSUME NEW d \in found PROVE d \in due
        <5>1. PICK n \in 0..k : d = Candidate(o, n)
          BY <2>2, <4>1
        <5>2. n \in Nat /\ (n = k \/ n < k)
          BY <2>1
        <5>3. d \in Dates
          BY <2>4, <3>1, <5>1, <5>2 DEF date
        <5> QED
          BY <2>2, <2>7, <4>1, <5>1, <5>2, <5>3
      <4> QED
        BY <4>1
    <3>3. CASE IsTooMany(found)
      <4>1. Cardinality(found) <= Cardinality(due)
        BY <2>1, <3>2, FS_Subset
      <4> QED
        BY <1>2, <2>1, <2>5, <2>11, <3>3, <4>1 DEF IsTooMany
    <3>4. CASE ~ IsTooMany(found)
      <4>1. due \subseteq found
        BY <2>3, <2>6, <2>7, <3>4
      <4>2. due = found
        BY <3>2, <4>1
      <4>3. Beyond(o, to, date) \/ IsLast(o, to, date)
        BY <2>1, <2>11, <3>4 DEF LeavesAt, date, found
      <4>4. ~ RunsOffTheCalendar(o, to)
        <5> DEFINE last == Max({d \in Dates : o.start <= d /\ OnGrid(o, d)})
        <5>1. last \in Dates /\ date <= last
          BY <1>2, <2>1, <3>1, LastOfGrid DEF date
        <5> HIDE DEF last
        <5>2. to \in Int /\ (date = last \/ date < last)
          BY <3>1, <5>1, ObligationTypes
        <5>3. Beyond(o, to, last) \/ IsLast(o, to, last)
          BY <3>1, <4>3, <5>1, <5>2, LaterIsBeyond, AfterLastIsBeyond
        <5> QED
          BY <5>3 DEF RunsOffTheCalendar, GoesOnAfter, last
      <4> QED
        BY <1>2, <2>1, <2>5, <2>11, <3>4, <4>2, <4>4 DEF IsTooMany
    <3> QED
      BY <3>3, <3>4
  <2> QED
    BY <2>10, <2>11
<1> QED
  BY <1>1, <1>2


-----------------------------------------------------------------------------
(* The order of events *)

IsEvent(e, from, to) ==
  /\ e.source \in {"obligation", "manual", "receivable", "card"} /\ e.direction \in {"inflow", "outflow"}
  /\ e.row \in Nat /\ e.amount \in Nat \ {0} /\ e.exact \in BOOLEAN
  /\ e.date \in Int /\ from < e.date /\ e.date <= to
  /\ e # NoEvent

\* Events after one date and up to another, none of them twice.
AreEvents(E, from, to) ==
  /\ IsFiniteSet(E)
  /\ \A e \in E : IsEvent(e, from, to)
  /\ \A e, f \in E : e.source = f.source /\ e.row = f.row /\ e.date = f.date => e = f

LEMMA EventRanks ==
  ASSUME NEW from, NEW to, NEW e, IsEvent(e, from, to), NEW f, IsEvent(f, from, to)
  PROVE  /\ SourceRank[e.source] \in Nat /\ directionRank(e.direction) \in Nat
         /\ SourceRank[e.source] = SourceRank[f.source] <=> e.source = f.source
         /\ directionRank(e.direction) = directionRank(f.direction) <=> e.direction = f.direction
         /\ directionRank(e.direction) < directionRank(f.direction) <=> e.direction = "outflow" /\ f.direction = "inflow"
<1>1. /\ SourceRank["obligation"] = 0 /\ SourceRank["manual"] = 1
      /\ SourceRank["receivable"] = 2 /\ SourceRank["card"] = 3
  BY DEF SourceRank
<1>2. /\ e.source \in {"obligation", "manual", "receivable", "card"}
      /\ f.source \in {"obligation", "manual", "receivable", "card"}
      /\ e.direction \in {"inflow", "outflow"} /\ f.direction \in {"inflow", "outflow"}
  BY DEF IsEvent
<1>3. /\ SourceRank[e.source] \in Nat
      /\ SourceRank[e.source] = SourceRank[f.source] <=> e.source = f.source
  BY <1>1, <1>2
<1>4. directionRank("inflow") = 1 /\ directionRank("outflow") = 0
  BY DEF directionRank
<1> QED
  BY <1>2, <1>3, <1>4

\* Of two events one precedes the other.
LEMMA EventsAreOrdered ==
  ASSUME NEW from, NEW to, NEW E, AreEvents(E, from, to), NEW e \in E, NEW f \in E, NEW g \in E
  PROVE  /\ ~ Precedes(e, e)
         /\ Precedes(e, f) /\ Precedes(f, g) => Precedes(e, g)
         /\ e # f => Precedes(e, f) \/ Precedes(f, e)
<1>1. IsEvent(e, from, to) /\ IsEvent(f, from, to) /\ IsEvent(g, from, to)
  BY DEF AreEvents
<1> DEFINE s(x) == SourceRank[x.source]
           r(x) == directionRank(x.direction)
<1>2. /\ s(e) \in Nat /\ s(f) \in Nat /\ s(g) \in Nat /\ r(e) \in Nat /\ r(f) \in Nat /\ r(g) \in Nat
      /\ s(e) = s(f) <=> e.source = f.source
      /\ s(f) = s(g) <=> f.source = g.source
      /\ s(e) = s(g) <=> e.source = g.source
      /\ r(e) = r(f) <=> e.direction = f.direction
      /\ r(f) = r(g) <=> f.direction = g.direction
      /\ r(e) = r(g) <=> e.direction = g.direction
  BY <1>1, EventRanks
<1>3. /\ e.date \in Int /\ f.date \in Int /\ g.date \in Int
      /\ e.row \in Nat /\ f.row \in Nat /\ g.row \in Nat
  BY <1>1 DEF IsEvent
<1>4. e.source = f.source /\ e.row = f.row /\ e.date = f.date => e = f
  BY DEF AreEvents
<1>5. ~ Precedes(e, e)
  BY <1>2, <1>3 DEF Precedes
<1>6. Precedes(e, f) /\ Precedes(f, g) => Precedes(e, g)
  BY <1>2, <1>3 DEF Precedes
<1>7. e # f => Precedes(e, f) \/ Precedes(f, e)
  BY <1>2, <1>3, <1>4 DEF Precedes
<1> QED
  BY <1>5, <1>6, <1>7

LEMMA FirstIsFirst ==
  ASSUME NEW from, NEW to, NEW E, AreEvents(E, from, to), NEW S \in SUBSET E, S # {}
  PROVE  First(S) \in S /\ \A f \in S \ {First(S)} : Precedes(First(S), f)
<1> DEFINE Heads == {UpTo(S, e) : e \in S}
<1>1. Heads \in SUBSET SUBSET E /\ Heads # {} /\ IsFiniteSet(E)
  <2>1. \A e \in S : UpTo(S, e) \subseteq E
    BY DEF UpTo
  <2>2. \A T \in Heads : T \subseteq E
    BY <2>1
  <2> QED
    BY <2>2 DEF AreEvents
<1>2. PICK T \in Heads : \A U \in Heads : U \subseteq T => U = T
  <2> HIDE DEF Heads
  <2> QED
    BY <1>1, MinimalSet
<1>3. PICK e \in S : T = UpTo(S, e)
  BY <1>2
<1>4. ASSUME NEW f \in S \ {e} PROVE Precedes(e, f)
  <2>1. SUFFICES ASSUME Precedes(f, e) PROVE FALSE
    BY EventsAreOrdered
  <2>2. UpTo(S, f) \subseteq UpTo(S, e)
    BY <2>1, EventsAreOrdered DEF UpTo
  <2>3. e \in UpTo(S, f)
    BY <1>2, <1>3, <2>2 DEF UpTo
  <2> QED
    BY <2>1, <2>3, EventsAreOrdered DEF UpTo
<1> QED
  BY <1>4 DEF First

LEMMA LastExists ==
  ASSUME NEW from, NEW to, NEW E, AreEvents(E, from, to), NEW S \in SUBSET E, S # {}
  PROVE  \E l \in S : \A f \in S \ {l} : Precedes(f, l)
<1> DEFINE Onward(e) == {f \in S : f = e \/ Precedes(e, f)}
           Families == {Onward(e) : e \in S}
<1>1. Families \in SUBSET SUBSET E /\ Families # {} /\ IsFiniteSet(E)
  <2>1. \A e \in S : Onward(e) \subseteq E
    OBVIOUS
  <2>2. (\A T \in Families : T \subseteq E) /\ Families # {}
    BY <2>1
  <2> HIDE DEF Families
  <2> QED
    BY <2>2 DEF AreEvents
<1>2. PICK T \in Families : \A U \in Families : U \subseteq T => U = T
  <2> HIDE DEF Families
  <2> QED
    BY <1>1, MinimalSet
<1>3. PICK e \in S : T = Onward(e)
  BY <1>2
<1>4. ASSUME NEW f \in S \ {e} PROVE Precedes(f, e)
  <2>1. SUFFICES ASSUME Precedes(e, f) PROVE FALSE
    BY EventsAreOrdered
  <2>2. Onward(f) \subseteq Onward(e)
    BY <2>1, EventsAreOrdered
  <2>3. e \in Onward(f)
    BY <1>2, <1>3, <2>2
  <2> QED
    BY <2>1, <2>3, EventsAreOrdered
<1> QED
  BY <1>4

-----------------------------------------------------------------------------
(* What events add up to *)

Signs(E) == [e \in E |-> Signed(e)]

\* Inflows of some dates and outflows of others.
Part(E, dates, others) ==
  {e \in E : (e.direction = "inflow" /\ e.date \in dates) \/ (e.direction = "outflow" /\ e.date \in others)}

LEMMA SignsAreIntegers ==
  ASSUME NEW from, NEW to, NEW E, AreEvents(E, from, to)
  PROVE  /\ Summable(E, Signs(E))
         /\ \A S \in SUBSET E : IsFiniteSet(S) /\ SumFunctionOnSet(Signs(E), S) \in Int
         /\ \A e \in E : /\ e.amount \in Nat \ {0} /\ Signs(E)[e] = Signed(e)
                         /\ e.direction = "inflow" => Signs(E)[e] = e.amount
                         /\ e.direction = "outflow" => Signs(E)[e] = -e.amount
<1>1. ASSUME NEW e \in E
      PROVE  /\ e.amount \in Nat \ {0} /\ Signs(E)[e] = Signed(e) /\ Signs(E)[e] \in Int
             /\ e.direction = "inflow" => Signs(E)[e] = e.amount
             /\ e.direction = "outflow" => Signs(E)[e] = -e.amount
  BY DEF AreEvents, IsEvent, Signs, Signed
<1>2. Summable(E, Signs(E))
  BY <1>1 DEF Summable, AreEvents
<1>3. ASSUME NEW S \in SUBSET E PROVE IsFiniteSet(S) /\ SumFunctionOnSet(Signs(E), S) \in Int
  <2>1. IsFiniteSet(S) /\ \A e \in S : Signs(E)[e] \in Int
    BY <1>1, <1>2, FS_Subset DEF Summable
  <2> QED
    BY <2>1, SumOnSet
<1> QED
  BY <1>1, <1>2, <1>3

LEMMA SignsOfUnion ==
  ASSUME NEW from, NEW to, NEW E, AreEvents(E, from, to), NEW T, NEW U, T \subseteq E, U \subseteq E, T \cap U = {}
  PROVE  SumFunctionOnSet(Signs(E), T \cup U) = SumFunctionOnSet(Signs(E), T) + SumFunctionOnSet(Signs(E), U)
<1>1. Summable(E, Signs(E))
  BY SignsAreIntegers
<1> QED
  BY <1>1, SumOfUnion

\* Only inflows add up to something that is not negative, only outflows to
\* something that is not positive.
LEMMA SidesHaveSigns ==
  ASSUME NEW from, NEW to, NEW E, AreEvents(E, from, to), NEW S \in SUBSET E
  PROVE  /\ (\A e \in S : e.direction = "inflow") =>
              /\ SumFunctionOnSet(Signs(E), S) = Total(S)
              /\ Total(S) \in Nat
         /\ (\A e \in S : e.direction = "outflow") =>
              /\ SumFunctionOnSet(Signs(E), S) = -Total(S)
              /\ Total(S) \in Nat
<1> DEFINE amounts == [e \in S |-> e.amount]
<1>1. IsFiniteSet(S) /\ \A e \in S : amounts[e] \in Nat /\ amounts[e] \in Int
  BY SignsAreIntegers
<1>2. Total(S) = SumFunctionOnSet(amounts, S)
  BY DEF Total, SumFunction
<1>3. SumFunctionOnSet(amounts, S) \in Nat
  BY <1>1, SumOfNaturals
<1>4. ASSUME \A e \in S : e.direction = "inflow" PROVE SumFunctionOnSet(Signs(E), S) = SumFunctionOnSet(amounts, S)
  <2>1. \A e \in S : Signs(E)[e] = amounts[e]
    BY <1>4, SignsAreIntegers
  <2> HIDE DEF amounts
  <2> QED
    BY <1>1, <2>1, SumOfEquals
<1>5. ASSUME \A e \in S : e.direction = "outflow" PROVE SumFunctionOnSet(Signs(E), S) = -SumFunctionOnSet(amounts, S)
  <2>1. \A e \in S : amounts[e] \in Int /\ Signs(E)[e] = -amounts[e]
    BY <1>5, SignsAreIntegers
  <2> HIDE DEF amounts
  <2> QED
    BY <1>1, <2>1, SumNegated
<1> QED
  BY <1>2, <1>3, <1>4, <1>5

LEMMA PartAddsUp ==
  ASSUME NEW from, NEW to, NEW E, AreEvents(E, from, to), NEW dates, NEW others
  PROVE  /\ SumFunctionOnSet(Signs(E), Part(E, dates, others)) = InflowsOf(E, dates) - OutflowsOf(E, others)
         /\ InflowsOf(E, dates) \in Nat /\ OutflowsOf(E, others) \in Nat
<1> DEFINE T == {e \in E : e.direction = "inflow" /\ e.date \in dates}
           U == {e \in E : e.direction = "outflow" /\ e.date \in others}
<1>1. T \subseteq E /\ U \subseteq E /\ T \cap U = {} /\ Part(E, dates, others) = T \cup U
  BY DEF Part
<1>2. InflowsOf(E, dates) = Total(T) /\ OutflowsOf(E, others) = Total(U)
  BY DEF InflowsOf, OutflowsOf
<1>3. (\A e \in T : e.direction = "inflow") /\ (\A e \in U : e.direction = "outflow")
  OBVIOUS
<1> HIDE DEF T, U
<1>4. SumFunctionOnSet(Signs(E), T) = Total(T) /\ Total(T) \in Nat
  BY <1>1, <1>3, SidesHaveSigns
<1>5. SumFunctionOnSet(Signs(E), U) = -Total(U) /\ Total(U) \in Nat
  BY <1>1, <1>3, SidesHaveSigns
<1>6. SumFunctionOnSet(Signs(E), T \cup U) = SumFunctionOnSet(Signs(E), T) + SumFunctionOnSet(Signs(E), U)
  BY <1>1, SignsOfUnion
<1> QED
  BY <1>1, <1>2, <1>4, <1>5, <1>6

-----------------------------------------------------------------------------
(* The lowest balances *)

\* A baseline without an error is what Calculate makes of some events.
IsProjection(b, E) ==
  /\ b.asOf \in Int /\ b.opening \in Int
  /\ b.policy.configuration.horizon \in Nat \ {0} /\ b.policy.configuration.reserve \in Nat
  /\ AreEvents(E, b.asOf, b.asOf + b.policy.configuration.horizon)
  /\ DOMAIN b.after = E
  /\ \A e \in E : b.after[e] = b.opening + SumFunctionOnSet(Signs(E), UpTo(E, e))
  /\ b.minimum = Min({b.opening} \cup {b.after[e] : e \in E})
  /\ b.limiting = IF b.minimum = b.opening THEN NoEvent ELSE First({e \in E : b.after[e] = b.minimum})

LEMMA LeastIs ==
  ASSUME NEW S \in SUBSET Int, NEW m \in S, \A x \in S : m <= x
  PROVE  Min(S) = m
<1>1. \A x \in S : (\A y \in S : x <= y) => x = m
  OBVIOUS
<1>2. Min(S) \in S /\ \A y \in S : Min(S) <= y
  BY DEF Min
<1> QED
  BY <1>1, <1>2

LEMMA LeastExists ==
  ASSUME NEW S \in SUBSET Int, IsFiniteSet(S), S # {}
  PROVE  \E m \in S : \A x \in S : m <= x
<1> DEFINE neg == [x \in S |-> -x]
           T == {neg[x] : x \in S}
<1>1. IsFiniteSet(T)
  <2> HIDE DEF neg
  <2> QED
    BY ImageIsFinite
<1>2. T # {} /\ T \subseteq Int
  <2>1. \A x \in S : neg[x] \in Int
    OBVIOUS
  <2> HIDE DEF neg
  <2> QED
    BY <2>1
<1>3. PICK n \in T : \A k \in T : k <= n
  <2> HIDE DEF T
  <2> QED
    BY <1>1, <1>2, GreatestNumber
<1>4. PICK m \in S : n = -m
  BY <1>3
<1>5. \A x \in S : -x <= -m
  BY <1>3, <1>4
<1> QED
  BY <1>5

LEMMA LowestTypes ==
  ASSUME NEW b, NEW E, IsProjection(b, E)
  PROVE  /\ b.asOf \in Int /\ b.opening \in Int /\ b.policy.configuration.horizon \in Nat \ {0}
         /\ b.asOf \in Horizon(b) /\ \A d \in Horizon(b) : d \in Int /\ b.asOf <= d
         /\ \A d \in Horizon(b) :
              /\ Lowest(b)[d] \in Int
              /\ Lowest(b)[d] = b.opening + SumFunctionOnSet(Signs(E), Part(E, b.asOf..d - 1, b.asOf..d))
         /\ \A e \in E : b.after[e] \in Int /\ e.date \in Horizon(b) /\ b.asOf < e.date /\ UpTo(E, e) \in SUBSET E
<1>1. AreEvents(E, b.asOf, b.asOf + b.policy.configuration.horizon)
  BY DEF IsProjection
<1>2. /\ b.asOf \in Int /\ b.opening \in Int /\ b.policy.configuration.horizon \in Nat \ {0} /\ DOMAIN b.after = E
      /\ \A e \in E : b.after[e] = b.opening + SumFunctionOnSet(Signs(E), UpTo(E, e))
  BY DEF IsProjection
<1>3. ASSUME NEW d \in Horizon(b)
      PROVE  /\ Lowest(b)[d] = b.opening + SumFunctionOnSet(Signs(E), Part(E, b.asOf..d - 1, b.asOf..d))
             /\ Lowest(b)[d] \in Int
  <2>1. Lowest(b)[d] = b.opening + InflowsOf(E, b.asOf..d - 1) - OutflowsOf(E, b.asOf..d)
    BY <1>2 DEF Lowest
  <2>2. /\ SumFunctionOnSet(Signs(E), Part(E, b.asOf..d - 1, b.asOf..d)) = InflowsOf(E, b.asOf..d - 1) - OutflowsOf(E, b.asOf..d)
        /\ InflowsOf(E, b.asOf..d - 1) \in Nat /\ OutflowsOf(E, b.asOf..d) \in Nat
    BY <1>1, PartAddsUp
  <2> QED
    BY <1>2, <2>1, <2>2
<1>4. ASSUME NEW e \in E
      PROVE  b.after[e] \in Int /\ e.date \in Horizon(b) /\ b.asOf < e.date /\ UpTo(E, e) \in SUBSET E
  <2>1. UpTo(E, e) \in SUBSET E
    BY DEF UpTo
  <2>2. SumFunctionOnSet(Signs(E), UpTo(E, e)) \in Int
    BY <1>1, <2>1, SignsAreIntegers
  <2>3. e.date \in Int /\ b.asOf < e.date /\ e.date <= b.asOf + b.policy.configuration.horizon
    BY <1>1 DEF AreEvents, IsEvent
  <2> QED
    BY <1>2, <2>1, <2>2, <2>3 DEF Horizon
<1>5. b.asOf \in Horizon(b) /\ \A d \in Horizon(b) : d \in Int /\ b.asOf <= d
  BY <1>2 DEF Horizon
<1> QED
  BY <1>2, <1>3, <1>4, <1>5

\* The lowest balance of a day is the opening one or that after an event of
\* that day or an earlier one.
LEMMA LowestIsReached ==
  ASSUME NEW b, NEW E, IsProjection(b, E), NEW d \in Horizon(b)
  PROVE  \/ Lowest(b)[d] = b.opening
         \/ \E e \in E : Lowest(b)[d] = b.after[e] /\ e.date <= d
<1> DEFINE S == Part(E, b.asOf..d - 1, b.asOf..d)
<1>1. AreEvents(E, b.asOf, b.asOf + b.policy.configuration.horizon)
  BY DEF IsProjection
<1>2. S \in SUBSET E /\ d \in Int /\ b.asOf \in Int /\ b.opening \in Int
  BY LowestTypes DEF Part
<1>3. \A e \in E : /\ e.date \in Int /\ b.asOf < e.date /\ e.direction \in {"inflow", "outflow"}
                   /\ e \in S <=> e.date < d \/ (e.date = d /\ e.direction = "outflow")
  <2> SUFFICES ASSUME NEW e \in E
               PROVE  /\ e.date \in Int /\ b.asOf < e.date /\ e.direction \in {"inflow", "outflow"}
                      /\ e \in S <=> e.date < d \/ (e.date = d /\ e.direction = "outflow")
    OBVIOUS
  <2>1. e.date \in Int /\ b.asOf < e.date /\ e.direction \in {"inflow", "outflow"}
    BY <1>1 DEF AreEvents, IsEvent
  <2> QED
    BY <1>2, <2>1 DEF Part
<1>4. Lowest(b)[d] = b.opening + SumFunctionOnSet(Signs(E), S)
  BY LowestTypes
<1> HIDE DEF S
<1>5. CASE S = {}
  BY <1>2, <1>4, <1>5, SumOfNone
<1>6. CASE S # {}
  <2>1. PICK l \in S : \A f \in S \ {l} : Precedes(f, l)
    BY <1>1, <1>2, <1>6, LastExists
  <2>2. ASSUME NEW f \in E, Precedes(f, l), f # l PROVE f \in S
    <3>1. IsEvent(f, b.asOf, b.asOf + b.policy.configuration.horizon) /\ IsEvent(l, b.asOf, b.asOf + b.policy.configuration.horizon)
      BY <1>1, <1>2, <2>1 DEF AreEvents
    <3>2. directionRank(f.direction) < directionRank(l.direction) => f.direction = "outflow"
      BY <3>1, EventRanks
    <3>3. f.date <= l.date /\ (f.date = l.date => f.direction = "outflow" \/ f.direction = l.direction)
      BY <1>2, <1>3, <2>1, <2>2, <3>2 DEF Precedes
    <3> QED
      BY <1>2, <1>3, <2>1, <3>3
  <2>3. UpTo(E, l) = S
    BY <1>2, <2>1, <2>2 DEF UpTo
  <2>4. b.after[l] = b.opening + SumFunctionOnSet(Signs(E), UpTo(E, l)) /\ l.date <= d /\ l \in E
    BY <1>2, <1>3, <2>1 DEF IsProjection
  <2> QED
    BY <1>4, <2>3, <2>4
<1> QED
  BY <1>5, <1>6

\* The balance after an event is never under the lowest one of its day.
LEMMA LowestIsLowest ==
  ASSUME NEW b, NEW E, IsProjection(b, E), NEW e \in E
  PROVE  Lowest(b)[e.date] <= b.after[e]
<1> DEFINE d == e.date
           S == Part(E, b.asOf..d - 1, b.asOf..d)
           T == UpTo(E, e)
           Sum(s) == SumFunctionOnSet(Signs(E), s)
<1>1. AreEvents(E, b.asOf, b.asOf + b.policy.configuration.horizon)
  BY DEF IsProjection
<1>2. S \in SUBSET E /\ T \in SUBSET E /\ b.asOf \in Int /\ b.opening \in Int /\ d \in Horizon(b)
  BY LowestTypes DEF Part
<1>3. \A f \in E : /\ f.date \in Int /\ b.asOf < f.date /\ f.direction \in {"inflow", "outflow"}
                   /\ f \in S <=> f.date < d \/ (f.date = d /\ f.direction = "outflow")
                   /\ f \in T <=> f = e \/ Precedes(f, e)
  <2> SUFFICES ASSUME NEW f \in E
               PROVE  /\ f.date \in Int /\ b.asOf < f.date /\ f.direction \in {"inflow", "outflow"}
                      /\ f \in S <=> f.date < d \/ (f.date = d /\ f.direction = "outflow")
                      /\ f \in T <=> f = e \/ Precedes(f, e)
    OBVIOUS
  <2>1. f.date \in Int /\ b.asOf < f.date /\ f.direction \in {"inflow", "outflow"} /\ d \in Int
    BY <1>1 DEF AreEvents, IsEvent
  <2> QED
    BY <1>2, <2>1 DEF Part, UpTo
<1>4. Lowest(b)[d] = b.opening + Sum(S) /\ b.after[e] = b.opening + Sum(T)
  <2>1. Lowest(b)[d] = b.opening + Sum(S)
    BY <1>2, LowestTypes
  <2> QED
    BY <2>1 DEF IsProjection
<1>5. d \in Int
  BY <1>3
<1> HIDE DEF S, T
<1>6. \A f \in T \ S : f.direction = "inflow"
  <2> TAKE f \in T \ S
  <2>1. f.date <= d
    BY <1>2, <1>3, <1>5 DEF Precedes
  <2> QED
    BY <1>2, <1>3, <1>5, <2>1
<1>7. \A f \in S \ T : f.direction = "outflow"
  <2> TAKE f \in S \ T
  <2>1. Precedes(e, f)
    BY <1>1, <1>2, <1>3, EventsAreOrdered
  <2>2. d <= f.date
    BY <1>2, <1>3, <1>5, <2>1 DEF Precedes
  <2> QED
    BY <1>2, <1>3, <1>5, <2>2
<1>8. /\ Sum(S \cap T) \in Int
      /\ Sum(S \ T) \in Int /\ Sum(S \ T) <= 0 /\ Sum(T \ S) \in Int /\ 0 <= Sum(T \ S)
  <2>1. S \cap T \in SUBSET E /\ S \ T \in SUBSET E /\ T \ S \in SUBSET E
    BY <1>2
  <2>2. Sum(S \cap T) \in Int /\ Sum(S \ T) \in Int /\ Sum(T \ S) \in Int
    BY <1>1, <2>1, SignsAreIntegers
  <2>3. Sum(T \ S) = Total(T \ S) /\ Total(T \ S) \in Nat
    BY <1>1, <1>6, <2>1, SidesHaveSigns
  <2>4. Sum(S \ T) = -Total(S \ T) /\ Total(S \ T) \in Nat
    BY <1>1, <1>7, <2>1, SidesHaveSigns
  <2> QED
    BY <2>2, <2>3, <2>4
<1>9. Sum(S) = Sum(S \cap T) + Sum(S \ T) /\ Sum(T) = Sum(S \cap T) + Sum(T \ S)
  <2>2. ASSUME NEW U, NEW V, U \subseteq E, V \subseteq E, U \cap V = {}
        PROVE  Sum(U \cup V) = Sum(U) + Sum(V)
    BY <1>1, <2>2, SignsOfUnion
  <2>3. (S \cap T) \cup (S \ T) = S /\ (S \cap T) \cup (T \ S) = T
    OBVIOUS
  <2>4. (S \cap T) \cap (S \ T) = {} /\ (S \cap T) \cap (T \ S) = {}
    OBVIOUS
  <2>5. S \cap T \subseteq E /\ S \ T \subseteq E /\ T \ S \subseteq E
    BY <1>2
  <2> HIDE DEF Sum
  <2>6. Sum((S \cap T) \cup (S \ T)) = Sum(S \cap T) + Sum(S \ T)
    BY <2>2, <2>4, <2>5
  <2>7. Sum((S \cap T) \cup (T \ S)) = Sum(S \cap T) + Sum(T \ S)
    BY <2>2, <2>4, <2>5
  <2> QED
    BY <2>3, <2>6, <2>7
<1> HIDE DEF Sum
<1>10. Sum(S) <= Sum(T) /\ Sum(S) \in Int /\ Sum(T) \in Int
  BY <1>8, <1>9
<1> QED
  BY <1>2, <1>4, <1>10

LEMMA MinimumIsLowest ==
  ASSUME NEW b, NEW E, IsProjection(b, E)
  PROVE  /\ b.minimum \in Int /\ b.minimum <= b.opening
         /\ b.minimum # b.opening => \E e \in E : b.after[e] = b.minimum
         /\ \A d \in Horizon(b) : b.minimum <= Lowest(b)[d]
         /\ \E d \in Horizon(b) : b.minimum = Lowest(b)[d]
         /\ \A e \in E : b.minimum <= b.after[e]
<1> DEFINE afters == {b.after[e] : e \in E}
           balances == {b.opening} \cup afters
<1>1. IsFiniteSet(balances)
  <2>1. IsFiniteSet(E)
    BY DEF IsProjection, AreEvents
  <2>2. IsFiniteSet(afters)
    BY <2>1, ImageIsFinite
  <2> HIDE DEF afters
  <2> QED
    BY <2>2, FS_AddElement
<1>2. balances \in SUBSET Int /\ b.opening \in balances /\ \A e \in E : b.after[e] \in balances
  BY LowestTypes
<1>3. \A x \in balances : x = b.opening \/ \E e \in E : b.after[e] = x
  OBVIOUS
<1>4. b.minimum = Min(balances)
  BY DEF IsProjection
<1> HIDE DEF balances
<1>5. PICK m \in balances : \A x \in balances : m <= x
  BY <1>1, <1>2, LeastExists
<1>6. b.minimum = m
  BY <1>2, <1>4, <1>5, LeastIs
<1>7. \A d \in Horizon(b) : Lowest(b)[d] \in balances
  BY <1>2, LowestIsReached
<1>8. \E d \in Horizon(b) : Lowest(b)[d] <= m
  <2>1. CASE m = b.opening
    <3>1. b.asOf \in Horizon(b) /\ b.asOf..b.asOf - 1 = {} /\ \A e \in E : ~ (e.date <= b.asOf) /\ e.date \in Int
      BY LowestTypes
    <3>2. Lowest(b)[b.asOf] = b.opening
      BY <3>1, LowestIsReached
    <3> QED
      BY <1>2, <2>1, <3>1, <3>2
  <2>2. CASE m # b.opening
    <3>1. PICK e \in E : b.after[e] = m
      BY <1>3, <1>5, <2>2
    <3> QED
      BY <3>1, LowestIsLowest, LowestTypes
  <2> QED
    BY <2>1, <2>2
<1>9. PICK d \in Horizon(b) : Lowest(b)[d] <= m
  BY <1>8
<1>10. Lowest(b)[d] = m
  <2>1. Lowest(b)[d] \in balances /\ Lowest(b)[d] \in Int /\ m \in Int
    BY <1>2, <1>5, <1>7, <1>9, LowestTypes
  <2>2. m <= Lowest(b)[d]
    BY <1>5, <2>1
  <2> QED
    BY <1>9, <2>1, <2>2
<1> QED
  BY <1>2, <1>3, <1>5, <1>6, <1>7, <1>10

\* The first day whose lowest balance is not over a bound is the first one, or
\* that of the first event that leaves such a balance.
LEMMA FirstDayUnder ==
  ASSUME NEW b, NEW E, IsProjection(b, E), NEW c \in Int
  PROVE  LET under == {e \in E : b.after[e] <= c} IN
         /\ b.opening <= c => Min({d \in Horizon(b) : Lowest(b)[d] <= c}) = b.asOf
         /\ b.opening > c /\ under # {} =>
              First(under) \in E /\ Min({d \in Horizon(b) : Lowest(b)[d] <= c}) = First(under).date
<1> DEFINE under == {e \in E : b.after[e] <= c}
           days == {d \in Horizon(b) : Lowest(b)[d] <= c}
<1>1. days \in SUBSET Int /\ \A d \in days : d \in Horizon(b) /\ b.asOf <= d
  BY LowestTypes
<1>2. ASSUME b.opening <= c PROVE Min(days) = b.asOf
  <2>1. b.asOf \in Horizon(b) /\ \A e \in E : ~ (e.date <= b.asOf)
    BY LowestTypes
  <2>2. Lowest(b)[b.asOf] = b.opening
    BY <2>1, LowestIsReached
  <2>3. b.asOf \in days
    BY <1>2, <2>1, <2>2
  <2> HIDE DEF days
  <2> QED
    BY <1>1, <2>3, LeastIs
<1>3. ASSUME b.opening > c, under # {} PROVE First(under) \in E /\ Min(days) = First(under).date
  <2>1. AreEvents(E, b.asOf, b.asOf + b.policy.configuration.horizon) /\ under \in SUBSET E
    BY DEF IsProjection
  <2> DEFINE f == First(under)
  <2>2. f \in under /\ \A g \in under \ {f} : Precedes(f, g)
    <3> HIDE DEF under
    <3> QED
      BY <1>3, <2>1, FirstIsFirst
  <2>3. f \in E /\ b.after[f] <= c
    BY <2>2
  <2> HIDE DEF f
  <2>4. f.date \in days
    <3>1. Lowest(b)[f.date] <= b.after[f] /\ f.date \in Horizon(b) /\ b.after[f] \in Int /\ Lowest(b)[f.date] \in Int
      BY <2>3, LowestIsLowest, LowestTypes
    <3> QED
      BY <2>3, <3>1
  <2>5. ASSUME NEW d \in days PROVE f.date <= d
    <3>1. d \in Horizon(b) /\ Lowest(b)[d] <= c /\ d \in Int /\ b.opening \in Int /\ f.date \in Int
      BY <1>1, <2>3, LowestTypes
    <3>2. PICK e \in E : Lowest(b)[d] = b.after[e] /\ e.date <= d
      BY <1>3, <3>1, LowestIsReached
    <3>3. e \in under /\ e.date \in Int
      BY <3>1, <3>2, LowestTypes
    <3>4. e = f \/ Precedes(f, e)
      BY <2>2, <3>3
    <3>5. f.date <= e.date
      BY <3>1, <3>3, <3>4 DEF Precedes
    <3> QED
      BY <3>1, <3>2, <3>3, <3>5
  <2>6. Min(days) = f.date
    <3> HIDE DEF days
    <3> QED
      BY <1>1, <2>4, <2>5, LeastIs
  <2> QED
    BY <2>3, <2>6 DEF f
<1> QED
  BY <1>2, <1>3

LEMMA PointDates ==
  ASSUME NEW b, NEW E, IsProjection(b, E)
  PROVE  /\ Point(b, NoEvent).date = b.asOf
         /\ \A e \in E : Point(b, e).date = e.date
         /\ \A e : Point(b, e) # NoEvent
<1>1. \A e \in E : e # NoEvent
  BY DEF IsProjection, AreEvents, IsEvent
<1>2. ASSUME NEW e PROVE Point(b, e) # NoEvent
  <2>1. "date" \in DOMAIN Point(b, e) /\ "date" \notin DOMAIN NoEvent
    BY DEF Point, NoEvent
  <2> QED
    BY <2>1
<1>3. Point(b, NoEvent).date = b.asOf /\ \A e \in E : Point(b, e).date = e.date
  BY <1>1 DEF Point
<1> QED
  BY <1>2, <1>3

\* The limiting point is of the first day with the lowest balance, and the
\* breach of the first day under the reserve.
LEMMA PointsAreFirst ==
  ASSUME NEW b, NEW E, IsProjection(b, E)
  PROVE  /\ Point(b, b.limiting).date = Min({d \in Horizon(b) : Lowest(b)[d] = b.minimum})
         /\ b.minimum < b.policy.configuration.reserve =>
              EarliestBreach(b).date = Min({d \in Horizon(b) : Lowest(b)[d] < b.policy.configuration.reserve})
<1> DEFINE reserve == b.policy.configuration.reserve
           under(c) == {e \in E : b.after[e] <= c}
           days(c) == {d \in Horizon(b) : Lowest(b)[d] <= c}
<1>1. reserve \in Int /\ reserve - 1 \in Int /\ b.opening \in Int /\ b.minimum \in Int
  <2>1. reserve \in Nat /\ b.opening \in Int
    BY DEF IsProjection
  <2>2. b.minimum \in Int
    BY MinimumIsLowest
  <2> QED
    BY <2>1, <2>2
<1>2. \A e \in E : b.after[e] \in Int /\ b.minimum <= b.after[e]
  BY MinimumIsLowest, LowestTypes
<1>3. \A d \in Horizon(b) : Lowest(b)[d] \in Int /\ b.minimum <= Lowest(b)[d]
  BY MinimumIsLowest, LowestTypes
<1>4. ASSUME NEW c \in Int
      PROVE  /\ b.opening <= c => Min(days(c)) = b.asOf
             /\ b.opening > c /\ under(c) # {} => First(under(c)) \in E /\ Min(days(c)) = First(under(c)).date
  BY FirstDayUnder
<1>5. Point(b, b.limiting).date = Min({d \in Horizon(b) : Lowest(b)[d] = b.minimum})
  <2>1. {d \in Horizon(b) : Lowest(b)[d] = b.minimum} = days(b.minimum)
    BY <1>1, <1>3
  <2>2. {e \in E : b.after[e] = b.minimum} = under(b.minimum)
    BY <1>1, <1>2
  <2>3. b.limiting = IF b.minimum = b.opening THEN NoEvent ELSE First(under(b.minimum))
    BY <2>2 DEF IsProjection
  <2>4. b.minimum # b.opening => b.opening > b.minimum /\ under(b.minimum) # {}
    <3>1. b.minimum <= b.opening /\ (b.minimum # b.opening => \E e \in E : b.after[e] = b.minimum)
      BY MinimumIsLowest
    <3> QED
      BY <1>1, <2>2, <3>1
  <2> HIDE DEF days, under
  <2>5. CASE b.minimum = b.opening
    <3>1. Min(days(b.minimum)) = b.asOf
      BY <1>1, <1>4, <2>5
    <3> QED
      BY <2>1, <2>3, <2>5, <3>1, PointDates
  <2>6. CASE b.minimum # b.opening
    <3>1. First(under(b.minimum)) \in E /\ Min(days(b.minimum)) = First(under(b.minimum)).date
      BY <1>1, <1>4, <2>4, <2>6
    <3> QED
      BY <2>1, <2>3, <2>6, <3>1, PointDates
  <2> QED
    BY <2>5, <2>6
<1>6. ASSUME b.minimum < reserve
      PROVE  EarliestBreach(b).date = Min({d \in Horizon(b) : Lowest(b)[d] < reserve})
  <2>1. {d \in Horizon(b) : Lowest(b)[d] < reserve} = days(reserve - 1)
    BY <1>1, <1>3
  <2>2. {e \in E : b.after[e] < reserve} = under(reserve - 1)
    BY <1>1, <1>2
  <2>3. EarliestBreach(b) = Point(b, IF b.opening < reserve THEN NoEvent ELSE First(under(reserve - 1)))
    BY <2>2 DEF EarliestBreach, IsProjection
  <2>4. ~ (b.opening < reserve) => b.opening > reserve - 1 /\ under(reserve - 1) # {}
    <3>1. b.minimum # b.opening => \E e \in E : b.after[e] = b.minimum
      BY MinimumIsLowest
    <3>2. ~ (b.opening < reserve) => \E e \in E : b.after[e] < reserve
      BY <1>1, <1>6, <3>1
    <3> QED
      BY <1>1, <2>2, <3>2
  <2>5. b.opening < reserve => b.opening <= reserve - 1
    BY <1>1
  <2> HIDE DEF days, under
  <2>6. CASE b.opening < reserve
    <3>1. Min(days(reserve - 1)) = b.asOf
      BY <1>1, <1>4, <2>5, <2>6
    <3> QED
      BY <2>1, <2>3, <2>6, <3>1, PointDates
  <2>7. CASE ~ (b.opening < reserve)
    <3>1. First(under(reserve - 1)) \in E /\ Min(days(reserve - 1)) = First(under(reserve - 1)).date
      BY <1>1, <1>4, <2>4, <2>7
    <3> QED
      BY <2>1, <2>3, <2>7, <3>1, PointDates
  <2> QED
    BY <2>6, <2>7
<1> QED
  BY <1>5, <1>6

-----------------------------------------------------------------------------
(* The events of the tables *)

\* Tables of which a date has a projection.
HasProjection(t, asOf) ==
  /\ IsTables(t) /\ asOf \in Dates /\ t.policy # NoPolicy
  /\ AddDays(asOf, t.policy.configuration.horizon) # NoDate
  /\ \A o \in t.obligations : Expansion(t, o, asOf).error = "none"

LEMMA HorizonDates ==
  ASSUME NEW t, NEW asOf, HasProjection(t, asOf)
  PROVE  /\ t.policy \in PolicyRow /\ t.policy.configuration \in Configuration
         /\ t.policy.configuration.horizon \in Nat \ {0} /\ t.policy.configuration.reserve \in Nat
         /\ asOf \in Nat \ {0} /\ asOf \in Dates /\ asOf + 1 \in Dates /\ asOf + t.policy.configuration.horizon \in Dates
<1>1. t.policy \in PolicyRow /\ asOf \in Dates
  BY DEF HasProjection, IsTables
<1>2. t.policy.configuration \in Configuration
  BY <1>1 DEF PolicyRow
<1>3. t.policy.configuration.horizon \in Nat \ {0} /\ t.policy.configuration.reserve \in Nat
  BY <1>2 DEF Configuration
<1>4. asOf + t.policy.configuration.horizon <= LastDate
  BY DEF HasProjection, AddDays
<1> QED
  BY <1>1, <1>2, <1>3, <1>4, CalendarTypes DEF Dates

\* An obligation that expands has its due dates.
LEMMA ExpansionIsDue ==
  ASSUME NEW t, NEW asOf, HasProjection(t, asOf), NEW o \in t.obligations
  PROVE  /\ Expansion(t, o, asOf).dates = DueDates(o, asOf + 1, asOf + t.policy.configuration.horizon)
         /\ \A d \in Expansion(t, o, asOf).dates : /\ d \in Nat /\ asOf < d
                                                   /\ d <= asOf + t.policy.configuration.horizon
<1> DEFINE end == asOf + t.policy.configuration.horizon
           due == DueDates(o, asOf + 1, end)
<1>1. IsObligation(o) /\ Expansion(t, o, asOf).error = "none" /\ asOf + 1 \in Dates /\ end \in Dates /\ asOf \in Nat
  BY HorizonDates DEF HasProjection, IsTables
<1>2. Expansion(t, o, asOf) = occurrenceDates(o, asOf + 1, end)
  BY DEF Expansion
<1>3. ExpandsExactly(o, asOf + 1, end)
  BY <1>1, ObligationsExpandExactly
<1>4. Expansion(t, o, asOf) \in {Refused("occurrence_limit"), Refused("invalid_date"), Expanded(due)}
  BY <1>2, <1>3 DEF ExpandsExactly
<1>5. /\ Refused("occurrence_limit").error # "none" /\ Refused("invalid_date").error # "none"
      /\ Expanded(due).dates = due
  BY DEF Refused, Expanded
<1>6. Expansion(t, o, asOf).dates = due
  BY <1>1, <1>4, <1>5
<1>7. \A d \in due : d \in Nat /\ asOf + 1 <= d /\ d <= end
  BY CalendarTypes DEF DueDates, Dates
<1> QED
  BY <1>1, <1>6, <1>7

LEMMA EventFields ==
  ASSUME NEW source, NEW row, NEW date, NEW amount, NEW direction, NEW basis, NEW exact, NEW certainty
  PROVE  LET e == Event(source, row, date, amount, direction, basis, exact, certainty) IN
         /\ e.source = source /\ e.row = row /\ e.date = date /\ e.amount = amount /\ e.direction = direction
         /\ e.basis = basis /\ e.exact = exact /\ e.certainty = certainty
         /\ e # NoEvent
<1> DEFINE e == Event(source, row, date, amount, direction, basis, exact, certainty)
<1>1. /\ e.source = source /\ e.row = row /\ e.date = date /\ e.amount = amount /\ e.direction = direction
      /\ e.basis = basis /\ e.exact = exact /\ e.certainty = certainty
  BY DEF Event
<1>2. e # NoEvent
  <2>1. "date" \in DOMAIN e /\ "date" \notin DOMAIN NoEvent
    BY DEF Event, NoEvent
  <2> HIDE DEF e
  <2> QED
    BY <2>1
<1> QED
  BY <1>1, <1>2

\* Events of one source, no row and date of which has two.
AreEventsOf(source, E, from, to) ==
  /\ IsFiniteSet(E)
  /\ \A e \in E : IsEvent(e, from, to) /\ e.source = source
  /\ \A e, f \in E : e.row = f.row /\ e.date = f.date => e = f

LEMMA ObligationEventsAreEvents ==
  ASSUME NEW t, NEW asOf, HasProjection(t, asOf)
  PROVE  AreEventsOf("obligation", ObligationEvents(t, asOf), asOf, asOf + t.policy.configuration.horizon)
<1> DEFINE end == asOf + t.policy.configuration.horizon
           make(o, d) == Event("obligation", o.id, d, o.amount, "outflow", "mandatory_obligation_outflow", o.exact, "none")
           of == [o \in t.obligations |-> {make(o, d) : d \in Expansion(t, o, asOf).dates}]
           E == ObligationEvents(t, asOf)
<1>1. E = UNION {of[o] : o \in t.obligations}
  BY DEF ObligationEvents
<1>2. /\ IsFiniteSet(t.obligations) /\ \A o \in t.obligations : IsObligation(o)
      /\ \A o, p \in t.obligations : o.id = p.id => o = p
  BY DEF HasProjection, IsTables, IsTable
<1>3. ASSUME NEW o \in t.obligations PROVE IsFiniteSet(of[o])
  <2> DEFINE dates == Expansion(t, o, asOf).dates
             h == [d \in dates |-> make(o, d)]
  <2>1. IsFiniteSet(dates)
    BY ExpansionIsDue, DueIsFinite
  <2>2. of[o] = {h[d] : d \in dates}
    OBVIOUS
  <2> HIDE DEF h, dates, of
  <2> QED
    BY <2>1, <2>2, ImageIsFinite
<1>4. IsFiniteSet(E)
  <2>1. IsFiniteSet({of[o] : o \in t.obligations})
    <3> HIDE DEF of
    <3> QED
      BY <1>2, ImageIsFinite
  <2>2. \A T \in {of[o] : o \in t.obligations} : IsFiniteSet(T)
    <3> HIDE DEF of
    <3> QED
      BY <1>3
  <2> HIDE DEF of, E
  <2> QED
    BY <1>1, <2>1, <2>2, FS_UNION
<1>5. \A e \in E : \E o \in t.obligations : \E d \in Expansion(t, o, asOf).dates : e = make(o, d)
  BY DEF ObligationEvents
<1>6. ASSUME NEW o \in t.obligations, NEW d \in Expansion(t, o, asOf).dates
      PROVE  /\ IsEvent(make(o, d), asOf, end)
             /\ make(o, d).source = "obligation" /\ make(o, d).row = o.id /\ make(o, d).date = d
  <2>1. o.id \in Nat /\ o.amount \in Nat \ {0} /\ o.exact \in BOOLEAN
    BY <1>2, ObligationTypes
  <2>2. d \in Int /\ asOf < d /\ d <= end
    BY ExpansionIsDue
  <2>3. /\ make(o, d).source = "obligation" /\ make(o, d).row = o.id /\ make(o, d).date = d
        /\ make(o, d).amount = o.amount /\ make(o, d).direction = "outflow" /\ make(o, d).exact = o.exact
        /\ make(o, d) # NoEvent
    BY EventFields
  <2> HIDE DEF make
  <2>4. IsEvent(make(o, d), asOf, end)
    BY <2>1, <2>2, <2>3 DEF IsEvent
  <2> QED
    BY <2>3, <2>4
<1> HIDE DEF make
<1>7. \A e \in E : IsEvent(e, asOf, end) /\ e.source = "obligation"
  BY <1>5, <1>6
<1>8. \A e, f \in E : e.row = f.row /\ e.date = f.date => e = f
  BY <1>2, <1>5, <1>6
<1> QED
  BY <1>4, <1>7, <1>8 DEF AreEventsOf

MakeEvents(source, table, S, make, from, to) ==
  /\ IsTable(table) /\ S \subseteq table
  /\ \A r \in S : /\ IsEvent(make[r], from, to) /\ make[r].source = source
                 /\ make[r].row = r.id /\ make[r].date = r.date

\* Rows with ids of their own make events of their own.
LEMMA RowsMakeEvents ==
  ASSUME NEW source, NEW table, NEW S, NEW make, NEW from, NEW to, MakeEvents(source, table, S, make, from, to)
  PROVE  AreEventsOf(source, {make[r] : r \in S}, from, to)
<1>1. IsFiniteSet(S) /\ \A r, q \in S : r.id = q.id => r = q
  BY FS_Subset DEF MakeEvents, IsTable
<1>2. IsFiniteSet({make[r] : r \in S})
  BY <1>1, ImageIsFinite
<1> QED
  BY <1>1, <1>2 DEF MakeEvents, AreEventsOf

LEMMA FlowEventsAreEvents ==
  ASSUME NEW t, NEW asOf, HasProjection(t, asOf)
  PROVE  AreEventsOf("manual", FlowEvents(t, asOf), asOf, asOf + t.policy.configuration.horizon)
<1> DEFINE end == asOf + t.policy.configuration.horizon
           S == {g \in FlowsInRange(t, asOf) : flowExclusionReasons(t, g) = {}}
           make == [f \in S |-> Event("manual", f.id, f.date, f.amount, f.direction, manualInclusionBasis(t, f), f.exact, "none")]
<1>1. FlowEvents(t, asOf) = {make[f] : f \in S}
  BY DEF FlowEvents
<1>2. IsTable(t.flows) /\ S \in SUBSET t.flows /\ t.flows \subseteq FlowRow
  BY DEF HasProjection, IsTables, FlowsInRange
<1>3. ASSUME NEW f \in S
      PROVE  /\ IsEvent(make[f], asOf, end) /\ make[f].source = "manual"
             /\ make[f].row = f.id /\ make[f].date = f.date
  <2>1. /\ f.id \in Nat /\ f.date \in Dates /\ f.amount \in Nat \ {0} /\ f.direction \in {"inflow", "outflow"}
        /\ f.exact \in BOOLEAN
    BY <1>2 DEF FlowRow
  <2>2. f.date \in Int /\ asOf < f.date /\ f.date <= end
    BY <2>1 DEF FlowsInRange, withinFutureRange, Dates
  <2>3. make[f] = Event("manual", f.id, f.date, f.amount, f.direction, manualInclusionBasis(t, f), f.exact, "none")
    OBVIOUS
  <2> HIDE DEF make
  <2>4. /\ make[f].source = "manual" /\ make[f].row = f.id /\ make[f].date = f.date
        /\ make[f].amount = f.amount /\ make[f].direction = f.direction /\ make[f].exact = f.exact
        /\ make[f] # NoEvent
    BY <2>3, EventFields
  <2>5. IsEvent(make[f], asOf, end)
    BY <2>1, <2>2, <2>4 DEF IsEvent
  <2> QED
    BY <2>4, <2>5
<1> HIDE DEF make, S, end
<1>4. MakeEvents("manual", t.flows, S, make, asOf, end)
  BY <1>2, <1>3 DEF MakeEvents
<1>5. AreEventsOf("manual", {make[r] : r \in S}, asOf, end)
  BY <1>4, RowsMakeEvents
<1> QED
  BY <1>1, <1>5 DEF end

LEMMA CardEventsAreEvents ==
  ASSUME NEW t, NEW asOf, HasProjection(t, asOf)
  PROVE  AreEventsOf("card", CardEvents(t, asOf), asOf, asOf + t.policy.configuration.horizon)
<1> DEFINE end == asOf + t.policy.configuration.horizon
           S == {g \in t.cardFlows : withinFutureRange(g.date, asOf, asOf + t.policy.configuration.horizon)}
           make == [f \in S |-> Event("card", f.id, f.date, f.amount, "outflow", "authoritative_card_payment_intent", TRUE, "none")]
<1>1. CardEvents(t, asOf) = {make[f] : f \in S}
  BY DEF CardEvents
<1>2. IsTable(t.cardFlows) /\ S \in SUBSET t.cardFlows /\ t.cardFlows \subseteq CardFlowRow
  BY DEF HasProjection, IsTables
<1>3. ASSUME NEW f \in S
      PROVE  /\ IsEvent(make[f], asOf, end) /\ make[f].source = "card"
             /\ make[f].row = f.id /\ make[f].date = f.date
  <2>1. f.id \in Nat /\ f.date \in Dates /\ f.amount \in Nat \ {0}
    BY <1>2 DEF CardFlowRow
  <2>2. f.date \in Int /\ asOf < f.date /\ f.date <= end
    BY <2>1 DEF withinFutureRange, Dates
  <2>3. make[f] = Event("card", f.id, f.date, f.amount, "outflow", "authoritative_card_payment_intent", TRUE, "none")
    OBVIOUS
  <2> HIDE DEF make
  <2>4. /\ make[f].source = "card" /\ make[f].row = f.id /\ make[f].date = f.date
        /\ make[f].amount = f.amount /\ make[f].direction = "outflow"
    BY <2>3 DEF Event
  <2>5. make[f].exact \in BOOLEAN
    BY <2>3 DEF Event
  <2>6. make[f] # NoEvent
    <3>1. "date" \in DOMAIN make[f]
      BY <2>3 DEF Event
    <3>2. "date" \notin DOMAIN NoEvent
      BY DEF NoEvent
    <3> QED
      BY <3>1, <3>2
  <2>7. IsEvent(make[f], asOf, end)
    BY <2>1, <2>2, <2>4, <2>5, <2>6 DEF IsEvent
  <2> QED
    BY <2>4, <2>7
<1> HIDE DEF make, S, end
<1>4. MakeEvents("card", t.cardFlows, S, make, asOf, end)
  BY <1>2, <1>3 DEF MakeEvents
<1>5. AreEventsOf("card", {make[r] : r \in S}, asOf, end)
  BY <1>4, RowsMakeEvents
<1> QED
  BY <1>1, <1>5 DEF end

\* A receivable without a reason against it is open, dated and not all collected.
LEMMA IncludedReceivables ==
  ASSUME NEW t, IsTables(t), NEW r \in t.receivables, receivableExclusionReasons(t, r) = {}
  PROVE  /\ r.status \in {"pending", "partially_collected"} /\ r.date \in Dates /\ r.date # NoDate
         /\ r.certainty # "uncertain" /\ (r.certainty = "expected" => IncludesExpected(t))
         /\ OutstandingAmount(r) \in Nat \ {0}
<1>1. r \in ReceivableRow /\ (IF r.status = "collected" THEN r.collected = r.original ELSE r.collected < r.original)
  BY DEF IsTables
<1>2. /\ r.status \in {"pending", "partially_collected", "collected", "cancelled"}
      /\ r.date \in Dates \cup {NoDate} /\ r.original \in Nat /\ r.collected \in Nat
  BY <1>1 DEF ReceivableRow
<1>3. r.status \notin {"cancelled", "collected"}
  BY DEF receivableExclusionReasons
<1>4. /\ {x \in {"undated_receivable"} : r.date = NoDate} = {}
      /\ {x \in {"uncertain_receivable"} : r.certainty = "uncertain"} = {}
      /\ {x \in {"policy_excluded_inflow"} : r.certainty = "expected" /\ ~ IncludesExpected(t)} = {}
  BY <1>3 DEF receivableExclusionReasons
<1>5. r.date # NoDate /\ r.certainty # "uncertain" /\ (r.certainty = "expected" => IncludesExpected(t))
  BY <1>4
<1>6. r.collected < r.original
  BY <1>1, <1>3
<1> QED
  BY <1>2, <1>3, <1>5, <1>6 DEF OutstandingAmount

LEMMA ReceivableEventsAreEvents ==
  ASSUME NEW t, NEW asOf, HasProjection(t, asOf)
  PROVE  AreEventsOf("receivable", ReceivableEvents(t, asOf), asOf, asOf + t.policy.configuration.horizon)
<1> DEFINE end == asOf + t.policy.configuration.horizon
           S == {q \in t.receivables : /\ receivableExclusionReasons(t, q) = {}
                                       /\ withinFutureRange(q.date, asOf, asOf + t.policy.configuration.horizon)
                                       /\ OutstandingAmount(q) # 0}
           make == [r \in S |-> Event("receivable", r.id, r.date, OutstandingAmount(r), "inflow",
                                      receivableInclusionBasis(r), r.exact, r.certainty)]
<1>1. ReceivableEvents(t, asOf) = {make[r] : r \in S}
  BY DEF ReceivableEvents
<1>2. IsTable(t.receivables) /\ S \in SUBSET t.receivables /\ t.receivables \subseteq ReceivableRow /\ IsTables(t)
  BY DEF HasProjection, IsTables
<1>3. ASSUME NEW r \in S
      PROVE  /\ IsEvent(make[r], asOf, end) /\ make[r].source = "receivable"
             /\ make[r].row = r.id /\ make[r].date = r.date
  <2>1. r.id \in Nat /\ r.date \in Dates /\ OutstandingAmount(r) \in Nat \ {0} /\ r.exact \in BOOLEAN
    BY <1>2, IncludedReceivables DEF ReceivableRow
  <2>2. r.date \in Int /\ asOf < r.date /\ r.date <= end
    BY <2>1 DEF withinFutureRange, Dates
  <2>3. make[r] = Event("receivable", r.id, r.date, OutstandingAmount(r), "inflow",
                        receivableInclusionBasis(r), r.exact, r.certainty)
    OBVIOUS
  <2> HIDE DEF make
  <2>4. /\ make[r].source = "receivable" /\ make[r].row = r.id /\ make[r].date = r.date
        /\ make[r].amount = OutstandingAmount(r) /\ make[r].direction = "inflow" /\ make[r].exact = r.exact
        /\ make[r] # NoEvent
    BY <2>3, EventFields
  <2>5. IsEvent(make[r], asOf, end)
    BY <2>1, <2>2, <2>4 DEF IsEvent
  <2> QED
    BY <2>4, <2>5
<1> HIDE DEF make, S, end
<1>4. MakeEvents("receivable", t.receivables, S, make, asOf, end)
  BY <1>2, <1>3 DEF MakeEvents
<1>5. AreEventsOf("receivable", {make[r] : r \in S}, asOf, end)
  BY <1>4, RowsMakeEvents
<1> QED
  BY <1>1, <1>5 DEF end

LEMMA EventsAreEvents ==
  ASSUME NEW t, NEW asOf, HasProjection(t, asOf)
  PROVE  AreEvents(Events(t, asOf), asOf, asOf + t.policy.configuration.horizon)
<1>1. /\ AreEventsOf("obligation", ObligationEvents(t, asOf), asOf, asOf + t.policy.configuration.horizon)
      /\ AreEventsOf("manual", FlowEvents(t, asOf), asOf, asOf + t.policy.configuration.horizon)
      /\ AreEventsOf("card", CardEvents(t, asOf), asOf, asOf + t.policy.configuration.horizon)
      /\ AreEventsOf("receivable", ReceivableEvents(t, asOf), asOf, asOf + t.policy.configuration.horizon)
  BY ObligationEventsAreEvents, FlowEventsAreEvents, CardEventsAreEvents, ReceivableEventsAreEvents
<1>2. IsFiniteSet(Events(t, asOf))
  BY <1>1, FS_Union DEF AreEventsOf, Events
<1> QED
  BY <1>1, <1>2 DEF AreEvents, AreEventsOf, Events

\* A baseline without an error is a projection of the tables' events.
LEMMA BaselineIsProjection ==
  ASSUME NEW t, IsTables(t), NEW asOf \in Dates, Baseline(t, asOf).error = "none"
  PROVE  /\ HasProjection(t, asOf)
         /\ IsProjection(Baseline(t, asOf), Events(t, asOf))
         /\ Baseline(t, asOf).asOf = asOf /\ Baseline(t, asOf).policy = t.policy
         /\ Baseline(t, asOf).opening = OpeningBalance(t) /\ Baseline(t, asOf).issues = t.issues
         /\ Baseline(t, asOf).exclusions = Exclusions(t, asOf)
<1> DEFINE b == Baseline(t, asOf)
           E == Events(t, asOf)
           opening == OpeningBalance(t)
           after == [e \in E |-> opening + SumFunction([f \in UpTo(E, e) |-> Signed(f)])]
           minimum == Min({opening} \cup {after[e] : e \in E})
           result == [error |-> "none", asOf |-> asOf, policy |-> t.policy, opening |-> opening, after |-> after,
                      minimum |-> minimum,
                      limiting |-> IF minimum = opening THEN NoEvent ELSE First({e \in E : after[e] = minimum}),
                      exclusions |-> Exclusions(t, asOf), issues |-> t.issues]
<1>1. \A x : Failed(x).error = x
  BY DEF Failed
<1>2. t.policy # NoPolicy
  BY <1>1 DEF Baseline
<1>3. AddDays(asOf, t.policy.configuration.horizon) # NoDate
  BY <1>1, <1>2 DEF Baseline
<1>4. b = IF \E a \in SelectedAccounts(t) : ~ Eligible(t, a) THEN Failed("configuration_invalid")
          ELSE IF \E a \in SelectedAccounts(t) : ~ Fits(OpeningUpTo(t, a)) THEN Failed("overflow")
          ELSE IF \E o \in t.obligations : Expansion(t, o, asOf).error # "none" THEN Failed(ExpansionError(t, asOf))
          ELSE IF \E e \in Events(t, asOf) : ~ IsValid(e) THEN Failed("invalid_event")
          ELSE Calculate(t, asOf, opening, Events(t, asOf), Exclusions(t, asOf))
  BY <1>2, <1>3 DEF Baseline
<1>5. ASSUME \E o \in t.obligations : Expansion(t, o, asOf).error # "none" PROVE ExpansionError(t, asOf) # "none"
  <2> DEFINE failing == {o \in t.obligations : Expansion(t, o, asOf).error # "none"}
             ids == {o.id : o \in failing}
             first == CHOOSE o \in failing : \A p \in failing : o.id <= p.id
  <2>1. ids \in SUBSET Nat /\ ids # {}
    BY <1>5, ObligationTypes DEF IsTables
  <2>2. PICK m \in ids : \A n \in ids : m <= n
    <3> HIDE DEF ids
    <3> QED
      BY <2>1, LeastNumber
  <2>3. \E o \in failing : \A p \in failing : o.id <= p.id
    BY <2>2
  <2>4. first \in failing
    <3> HIDE DEF failing
    <3> QED
      BY <2>3
  <2>5. ExpansionError(t, asOf) = Expansion(t, first, asOf).error
    BY DEF ExpansionError
  <2> QED
    BY <2>4, <2>5
<1>6. \A o \in t.obligations : Expansion(t, o, asOf).error = "none"
  BY <1>1, <1>4, <1>5
<1>7. HasProjection(t, asOf)
  BY <1>2, <1>3, <1>6 DEF HasProjection
<1>8. b = Calculate(t, asOf, opening, E, Exclusions(t, asOf))
  <2>1. b.error = "none"
    OBVIOUS
  <2> HIDE DEF b, opening, E
  <2>2. ~ \E a \in SelectedAccounts(t) : ~ Eligible(t, a)
    BY <1>1, <1>4, <2>1
  <2>3. ~ \E a \in SelectedAccounts(t) : ~ Fits(OpeningUpTo(t, a))
    BY <1>1, <1>4, <2>1, <2>2
  <2>4. ~ \E o \in t.obligations : Expansion(t, o, asOf).error # "none"
    BY <1>6
  <2>5. ~ \E e \in Events(t, asOf) : ~ IsValid(e)
    BY <1>1, <1>4, <2>1, <2>2, <2>3, <2>4
  <2>6. b = Calculate(t, asOf, opening, Events(t, asOf), Exclusions(t, asOf))
    BY <1>4, <2>2, <2>3, <2>4, <2>5, Zenon
  <2> QED
    BY <2>6 DEF E
<1>9. b = result
  BY <1>1, <1>8 DEF Calculate
<1>10. /\ b.asOf = asOf /\ b.policy = t.policy /\ b.opening = opening /\ b.after = after /\ b.minimum = minimum
       /\ b.limiting = IF minimum = opening THEN NoEvent ELSE First({e \in E : after[e] = minimum})
       /\ b.exclusions = Exclusions(t, asOf) /\ b.issues = t.issues
  <2> HIDE DEF b, after, minimum, opening, E
  <2> QED
    BY <1>9
<1>11. opening \in Int
  <2>1. DOMAIN t.accounts \subseteq Nat /\ t.accounts \in [DOMAIN t.accounts -> AccountRow] /\ IsFiniteSet(DOMAIN t.accounts)
    BY DEF IsTables
  <2>2. SelectedAccounts(t) \subseteq DOMAIN t.accounts
    BY <1>2 DEF SelectedAccounts, IsTables
  <2>3. IsFiniteSet(SelectedAccounts(t)) /\ [a \in SelectedAccounts(t) |-> t.accounts[a].balance] \in [SelectedAccounts(t) -> Int]
    BY <2>1, <2>2, FS_Subset DEF AccountRow
  <2> QED
    BY <2>3, SumType DEF OpeningBalance
<1>12. AreEvents(E, asOf, asOf + t.policy.configuration.horizon)
  BY <1>7, EventsAreEvents
<1>13. \A e \in E : after[e] = opening + SumFunctionOnSet(Signs(E), UpTo(E, e))
  <2> TAKE e \in E
  <2> DEFINE g == [f \in UpTo(E, e) |-> Signed(f)]
  <2>1. UpTo(E, e) \in SUBSET E
    BY DEF UpTo
  <2>2. IsFiniteSet(UpTo(E, e)) /\ DOMAIN g = UpTo(E, e) /\ \A f \in UpTo(E, e) : g[f] = Signs(E)[f]
    BY <1>12, <2>1, SignsAreIntegers
  <2>3. SumFunction(g) = SumFunctionOnSet(Signs(E), UpTo(E, e))
    <3> HIDE DEF g, E
    <3> QED
      BY <2>2, SumOfPart
  <2> QED
    BY <2>3
<1>14. DOMAIN after = E
  OBVIOUS
<1>15. t.policy.configuration.horizon \in Nat \ {0} /\ t.policy.configuration.reserve \in Nat /\ asOf \in Int
  BY <1>7, HorizonDates
<1> HIDE DEF b, after, minimum, opening, E
<1>16. IsProjection(b, E)
  <2>1. b.minimum = Min({b.opening} \cup {b.after[e] : e \in E})
    BY <1>10 DEF minimum
  <2>2. b.limiting = IF b.minimum = b.opening THEN NoEvent ELSE First({e \in E : b.after[e] = b.minimum})
    BY <1>10
  <2> QED
    BY <1>10, <1>11, <1>12, <1>13, <1>14, <1>15, <2>1, <2>2 DEF IsProjection
<1> QED
  BY <1>7, <1>10, <1>16 DEF b, E, opening

LEMMA GreaterOfZero ==
  ASSUME NEW x \in Int
  PROVE  Max({x, 0}) = IF x >= 0 THEN x ELSE 0
<1> DEFINE more == IF x >= 0 THEN x ELSE 0
<1>1. more \in {x, 0} /\ \A z \in {x, 0} : more >= z
  OBVIOUS
<1>2. \A z \in {x, 0} : (\A v \in {x, 0} : z >= v) => z = more
  OBVIOUS
<1>3. Max({x, 0}) \in {x, 0} /\ \A v \in {x, 0} : Max({x, 0}) >= v
  BY <1>1 DEF Max
<1> QED
  BY <1>2, <1>3

\* What is safe to spend of a projection.
LEMMA SpendingIsExact ==
  ASSUME NEW b, NEW E, IsProjection(b, E), NEW account, account \in AccountRow, IsLiquid(account), b.issues = {},
         NEW s, s = CalculateSafeToSpend(b, account), s.error = "none"
  PROVE  SpendableIs(b, account, s.amount) /\ StatusIs(b, account, s)
<1> DEFINE reserve == b.policy.configuration.reserve
           low == Lowest(b)
           funding == account.balance
           headroom == b.minimum - reserve
           least == Min({low[d] : d \in Horizon(b)})
<1>1. /\ b.minimum \in Int /\ reserve \in Nat /\ funding \in Int /\ headroom \in Int
      /\ \A d \in Horizon(b) : low[d] \in Int /\ b.minimum <= low[d]
      /\ \E d \in Horizon(b) : b.minimum = low[d]
  <2>1. reserve \in Nat /\ funding \in Int
    BY DEF IsProjection, AccountRow
  <2>2. \A d \in Horizon(b) : low[d] \in Int
    BY LowestTypes
  <2>3. /\ b.minimum \in Int /\ \A d \in Horizon(b) : b.minimum <= low[d]
        /\ \E d \in Horizon(b) : b.minimum = low[d]
    BY MinimumIsLowest
  <2> QED
    BY <2>1, <2>2, <2>3
<1>2. least = b.minimum
  <2> DEFINE lows == {low[d] : d \in Horizon(b)}
  <2>1. lows \in SUBSET Int /\ b.minimum \in lows /\ \A x \in lows : b.minimum <= x
    <3> HIDE DEF low
    <3> QED
      BY <1>1
  <2> HIDE DEF lows
  <2>2. Min(lows) = b.minimum
    BY <2>1, LeastIs
  <2> QED
    BY <2>2 DEF lows
<1>3. \A x \in Int : (\A d \in Horizon(b) : low[d] - x >= reserve) <=> x <= headroom
  <2> HIDE DEF low
  <2> QED
    BY <1>1
<1>4. \A status, amount : /\ Safe(status, amount).error = "none" /\ Safe(status, amount).status = status
                          /\ Safe(status, amount).amount = amount /\ Safe(status, amount).deficit = 0
  BY DEF Safe
<1>5. /\ s.error = "none"
      /\ headroom < 0 =>
           /\ s.status = "already_below_reserve" /\ s.amount = 0 /\ s.deficit = reserve - b.minimum
           /\ s.limiting = Point(b, b.limiting) /\ s.breach = EarliestBreach(b)
      /\ headroom >= 0 => s = SafeAbove(b, funding, headroom)
  <2>1. Fits(reserve - b.minimum)
    BY DEF CalculateSafeToSpend, Failed
  <2>2. s = IF b.minimum < reserve THEN
              [Safe("already_below_reserve", 0) EXCEPT !.deficit = reserve - b.minimum,
                 !.limiting = Point(b, b.limiting), !.breach = EarliestBreach(b)]
            ELSE SafeAbove(b, account.balance, b.minimum - reserve)
    BY <2>1 DEF CalculateSafeToSpend
  <2>3. b.minimum < reserve <=> headroom < 0
    BY <1>1
  <2>4. headroom < 0 => s = [Safe("already_below_reserve", 0) EXCEPT !.deficit = reserve - b.minimum,
                               !.limiting = Point(b, b.limiting), !.breach = EarliestBreach(b)]
    BY <2>2, <2>3
  <2>5. headroom >= 0 => s = SafeAbove(b, funding, headroom)
    BY <1>1, <2>2, <2>3
  <2>6. headroom < 0 =>
           /\ s.status = "already_below_reserve" /\ s.amount = 0 /\ s.deficit = reserve - b.minimum
           /\ s.limiting = Point(b, b.limiting) /\ s.breach = EarliestBreach(b)
    BY <2>4 DEF Safe
  <2> QED
    BY <2>5, <2>6
<1>6. headroom >= 0 =>
        /\ s.deficit = 0
        /\ funding <= 0 => s.status = "constrained_by_funding_balance" /\ s.amount = 0
        /\ funding > 0 /\ headroom < funding =>
             /\ s.status = "constrained_by_future_cash_flow" /\ s.amount = headroom
             /\ s.limiting = Point(b, b.limiting)
        /\ funding > 0 /\ headroom > funding => s.status = "constrained_by_funding_balance" /\ s.amount = funding
        /\ funding > 0 /\ headroom = funding => s.status = "safe" /\ s.amount = headroom
  <2> SUFFICES ASSUME headroom >= 0
               PROVE  /\ s.deficit = 0
                      /\ funding <= 0 => s.status = "constrained_by_funding_balance" /\ s.amount = 0
                      /\ funding > 0 /\ headroom < funding =>
                           /\ s.status = "constrained_by_future_cash_flow" /\ s.amount = headroom
                           /\ s.limiting = Point(b, b.limiting)
                      /\ funding > 0 /\ headroom > funding => s.status = "constrained_by_funding_balance" /\ s.amount = funding
                      /\ funding > 0 /\ headroom = funding => s.status = "safe" /\ s.amount = headroom
    OBVIOUS
  <2>1. s = SafeAbove(b, funding, headroom) /\ funding \in Int /\ headroom \in Int
    BY <1>1, <1>5
  <2> HIDE DEF funding, headroom
  <2>2. CASE funding <= 0
    <3>1. s = Safe("constrained_by_funding_balance", 0)
      BY <2>1, <2>2 DEF SafeAbove
    <3> QED
      BY <1>4, <2>1, <2>2, <3>1
  <2>3. CASE funding > 0 /\ headroom < funding
    <3>1. s = [Safe("constrained_by_future_cash_flow", headroom) EXCEPT !.limiting = Point(b, b.limiting)]
      BY <2>1, <2>3 DEF SafeAbove
    <3>2. /\ s.deficit = 0 /\ s.status = "constrained_by_future_cash_flow" /\ s.amount = headroom
          /\ s.limiting = Point(b, b.limiting)
      BY <3>1 DEF Safe
    <3> QED
      BY <2>1, <2>3, <3>2
  <2>4. CASE funding > 0 /\ headroom > funding
    <3>1. s = Safe("constrained_by_funding_balance", funding)
      BY <2>1, <2>4 DEF SafeAbove
    <3> QED
      BY <1>4, <2>1, <2>4, <3>1
  <2>5. CASE funding > 0 /\ headroom = funding
    <3>1. s = Safe("safe", headroom)
      BY <2>1, <2>5 DEF SafeAbove
    <3> QED
      BY <1>4, <2>1, <2>5, <3>1
  <2> QED
    BY <2>1, <2>2, <2>3, <2>4, <2>5
<1>7. /\ Point(b, b.limiting) # NoEvent
      /\ Point(b, b.limiting).date = Min({d \in Horizon(b) : low[d] = least})
      /\ headroom < 0 => EarliestBreach(b).date = Min({d \in Horizon(b) : low[d] < reserve})
  <2>1. b.minimum < reserve <=> headroom < 0
    BY <1>1
  <2>2. /\ Point(b, b.limiting).date = Min({d \in Horizon(b) : low[d] = b.minimum})
        /\ b.minimum < reserve => EarliestBreach(b).date = Min({d \in Horizon(b) : low[d] < reserve})
    BY PointsAreFirst
  <2>3. Point(b, b.limiting) # NoEvent
    BY PointDates
  <2> HIDE DEF low, least
  <2> QED
    BY <1>2, <2>1, <2>2, <2>3
<1>8. /\ Max({funding, 0}) = IF funding >= 0 THEN funding ELSE 0
      /\ Max({-headroom, 0}) = IF headroom <= 0 THEN -headroom ELSE 0
  <2>1. -headroom \in Int /\ funding \in Int
    BY <1>1
  <2>2. -headroom >= 0 <=> headroom <= 0
    BY <1>1
  <2> HIDE DEF funding, headroom
  <2> QED
    BY <2>1, <2>2, GreaterOfZero
<1>9. SpendableIs(b, account, s.amount)
  <2>1. s.amount \in Int /\ s.amount >= 0
    BY <1>1, <1>5, <1>6
  <2>2. ASSUME NEW x \in Int, x >= 1 PROVE x <= s.amount <=> x <= funding /\ x <= headroom
    BY <1>1, <1>5, <1>6, <2>2
  <2>3. \A x \in 1..MaxBalance : x \in Int /\ x >= 1
    OBVIOUS
  <2>4. ASSUME NEW x \in 1..MaxBalance
        PROVE  x <= s.amount <=> x <= account.balance /\ \A d \in Horizon(b) : low[d] - x >= reserve
    BY <1>3, <2>2, <2>3
  <2> QED
    BY <2>1, <2>4 DEF SpendableIs
<1>10. StatusIs(b, account, s)
  <2> DEFINE room == least - reserve
             held == Max({account.balance, 0})
  <2>1. room = headroom /\ held = IF funding >= 0 THEN funding ELSE 0
    BY <1>2, <1>8
  <2>2. /\ s.status = "already_below_reserve" <=> room < 0
        /\ s.status = "constrained_by_future_cash_flow" <=> 0 <= room /\ room < held
        /\ s.status = "safe" <=> room = held /\ held > 0
    BY <1>1, <1>5, <1>6, <2>1
  <2>3. s.deficit = Max({-room, 0})
    <3>1. Max({-room, 0}) = IF headroom <= 0 THEN -headroom ELSE 0
      BY <1>8, <2>1
    <3>2. headroom < 0 => s.deficit = -headroom
      BY <1>1, <1>5
    <3>3. headroom >= 0 => s.deficit = 0
      BY <1>6
    <3> QED
      BY <1>1, <3>1, <3>2, <3>3
  <2>4. room < 0 => s.breach.date = Min({d \in Horizon(b) : low[d] < reserve})
    BY <1>5, <1>7, <2>1
  <2>5. room < held => s.limiting # NoEvent /\ s.limiting.date = Min({d \in Horizon(b) : low[d] = least})
    <3>1. room < held => s.limiting = Point(b, b.limiting)
      BY <1>1, <1>5, <1>6, <2>1
    <3> QED
      BY <1>7, <3>1
  <2> QED
    BY <2>2, <2>3, <2>4, <2>5 DEF StatusIs
<1> QED
  BY <1>9, <1>10

\* SafeToSpendIsExact, of any tables and date.
LEMMA TablesSpendExactly ==
  ASSUME NEW t, IsTables(t), NEW asOf \in Dates, NEW a \in DOMAIN t.accounts,
         NEW s, s = SafeToSpend(t, Baseline(t, asOf), a), s.error = "none"
  PROVE  IF IsLiquid(t.accounts[a]) /\ t.issues = {}
           THEN SpendableIs(Baseline(t, asOf), t.accounts[a], s.amount) /\ StatusIs(Baseline(t, asOf), t.accounts[a], s)
           ELSE s.amount = 0
<1> DEFINE b == Baseline(t, asOf)
           account == t.accounts[a]
<1>1. \A x : Failed(x).error = x
  BY DEF Failed
<1>2. b.error = "none"
  BY DEF SafeToSpend
<1>3. s = CalculateSafeToSpend(b, account)
  BY <1>1, <1>2 DEF SafeToSpend
<1>4. IsProjection(b, Events(t, asOf)) /\ b.issues = t.issues
  BY <1>2, BaselineIsProjection
<1>5. account \in AccountRow
  BY DEF IsTables
<1> HIDE DEF b, account
<1>6. CASE IsLiquid(account) /\ t.issues = {}
  <2>1. SpendableIs(b, account, s.amount) /\ StatusIs(b, account, s)
    BY <1>3, <1>4, <1>5, <1>6, SpendingIsExact
  <2> QED
    BY <1>6, <2>1 DEF b, account
<1>7. CASE ~ (IsLiquid(account) /\ t.issues = {})
  <2>1. s = Safe("unsupported_funding_type", 0) \/ s = Safe("indeterminate", 0)
    BY <1>3, <1>4, <1>7 DEF CalculateSafeToSpend
  <2> QED
    BY <1>7, <2>1 DEF account, Safe
<1> QED
  BY <1>6, <1>7

-----------------------------------------------------------------------------
(* What the events of the rows are *)

ObligationEvent(o, d) ==
  Event("obligation", o.id, d, o.amount, "outflow", "mandatory_obligation_outflow", o.exact, "none")

FlowEvent(t, f) ==
  Event("manual", f.id, f.date, f.amount, f.direction, manualInclusionBasis(t, f), f.exact, "none")

CardEvent(f) ==
  Event("card", f.id, f.date, f.amount, "outflow", "authoritative_card_payment_intent", TRUE, "none")

ReceivableEvent(r) ==
  Event("receivable", r.id, r.date, OutstandingAmount(r), "inflow", receivableInclusionBasis(r), r.exact, r.certainty)

LEMMA ObligationEventFields ==
  ASSUME NEW o, NEW d
  PROVE  LET e == ObligationEvent(o, d) IN
         e.source = "obligation" /\ e.row = o.id /\ e.date = d /\ e.amount = o.amount /\ e.direction = "outflow"
         /\ e.basis = "mandatory_obligation_outflow"
BY EventFields DEF ObligationEvent

LEMMA FlowEventFields ==
  ASSUME NEW t, NEW f
  PROVE  LET e == FlowEvent(t, f) IN
         e.source = "manual" /\ e.row = f.id /\ e.date = f.date /\ e.amount = f.amount /\ e.direction = f.direction
         /\ e.basis = manualInclusionBasis(t, f) /\ e.exact = f.exact
BY EventFields DEF FlowEvent

LEMMA CardEventFields ==
  ASSUME NEW f
  PROVE  LET e == CardEvent(f) IN
         e.source = "card" /\ e.row = f.id /\ e.date = f.date /\ e.amount = f.amount /\ e.direction = "outflow"
         /\ e.basis = "authoritative_card_payment_intent" /\ e.exact
BY DEF CardEvent, Event

LEMMA ReceivableEventFields ==
  ASSUME NEW r
  PROVE  LET e == ReceivableEvent(r) IN
         e.source = "receivable" /\ e.row = r.id /\ e.date = r.date /\ e.amount = OutstandingAmount(r)
         /\ e.direction = "inflow" /\ e.basis = receivableInclusionBasis(r) /\ e.certainty = r.certainty
BY EventFields DEF ReceivableEvent

\* Rows that make events up to a date.
DueOf(o, asOf, d) == DueDates(o, asOf + 1, d)

FlowsOf(t, asOf, d) == {f \in t.flows : flowExclusionReasons(t, f) = {} /\ f.date \in asOf + 1..d}

CardFlowsOf(t, asOf, d) == {f \in t.cardFlows : f.date \in asOf + 1..d}

ReceivablesOf(t, asOf, d) == {r \in t.receivables : receivableExclusionReasons(t, r) = {} /\ r.date \in asOf + 1..d}

\* An event up to a date is one of a row with that date.
LEMMA EventsOfRows ==
  ASSUME NEW t, NEW asOf, HasProjection(t, asOf), NEW d \in asOf..asOf + t.policy.configuration.horizon, NEW e
  PROVE  e \in Events(t, asOf) /\ e.date \in asOf..d <=>
           \/ \E o \in t.obligations : \E x \in DueOf(o, asOf, d) : e = ObligationEvent(o, x)
           \/ \E f \in FlowsOf(t, asOf, d) : e = FlowEvent(t, f)
           \/ \E f \in CardFlowsOf(t, asOf, d) : e = CardEvent(f)
           \/ \E r \in ReceivablesOf(t, asOf, d) : e = ReceivableEvent(r)
<1> DEFINE end == asOf + t.policy.configuration.horizon
<1>1. asOf \in Nat /\ end \in Nat /\ d \in Int /\ asOf <= d /\ d <= end
  BY HorizonDates
<1>2. e \in ObligationEvents(t, asOf) /\ e.date \in asOf..d <=>
        \E o \in t.obligations : \E x \in DueOf(o, asOf, d) : e = ObligationEvent(o, x)
  <2>1. e \in ObligationEvents(t, asOf) <=>
          \E o \in t.obligations : \E x \in Expansion(t, o, asOf).dates : e = ObligationEvent(o, x)
    BY DEF ObligationEvents, ObligationEvent
  <2>2. ASSUME NEW o \in t.obligations, NEW x
        PROVE  x \in DueOf(o, asOf, d) <=> x \in Expansion(t, o, asOf).dates /\ x \in asOf..d
    <3>1. Expansion(t, o, asOf).dates = DueDates(o, asOf + 1, end)
      BY ExpansionIsDue
    <3>2. x \in Dates => x \in Int
      BY CalendarTypes DEF Dates
    <3> QED
      BY <1>1, <3>1, <3>2 DEF DueOf, DueDates
  <2>3. \A o \in t.obligations : \A x : ObligationEvent(o, x).date = x
    BY ObligationEventFields
  <2> QED
    BY <2>1, <2>2, <2>3
<1>3. e \in FlowEvents(t, asOf) /\ e.date \in asOf..d <=> \E f \in FlowsOf(t, asOf, d) : e = FlowEvent(t, f)
  <2>1. e \in FlowEvents(t, asOf) <=>
          \E f \in t.flows : /\ withinFutureRange(f.date, asOf, end) /\ flowExclusionReasons(t, f) = {}
                             /\ e = FlowEvent(t, f)
    BY DEF FlowEvents, FlowEvent, FlowsInRange
  <2>2. ASSUME NEW f \in t.flows
        PROVE  f.date \in asOf + 1..d <=> withinFutureRange(f.date, asOf, end) /\ f.date \in asOf..d
    <3>1. f.date \in Int
      BY CalendarTypes DEF HasProjection, IsTables, FlowRow, Dates
    <3> QED
      BY <1>1, <3>1 DEF withinFutureRange
  <2>3. \A f \in t.flows : FlowEvent(t, f).date = f.date
    BY FlowEventFields
  <2> QED
    BY <2>1, <2>2, <2>3 DEF FlowsOf
<1>4. e \in CardEvents(t, asOf) /\ e.date \in asOf..d <=> \E f \in CardFlowsOf(t, asOf, d) : e = CardEvent(f)
  <2>1. e \in CardEvents(t, asOf) <=>
          \E f \in t.cardFlows : withinFutureRange(f.date, asOf, end) /\ e = CardEvent(f)
    BY DEF CardEvents, CardEvent
  <2>2. ASSUME NEW f \in t.cardFlows
        PROVE  f.date \in asOf + 1..d <=> withinFutureRange(f.date, asOf, end) /\ f.date \in asOf..d
    <3>1. f.date \in Int
      BY CalendarTypes DEF HasProjection, IsTables, CardFlowRow, Dates
    <3> QED
      BY <1>1, <3>1 DEF withinFutureRange
  <2>3. \A f \in t.cardFlows : CardEvent(f).date = f.date
    BY CardEventFields
  <2> QED
    BY <2>1, <2>2, <2>3 DEF CardFlowsOf
<1>5. e \in ReceivableEvents(t, asOf) /\ e.date \in asOf..d <=> \E r \in ReceivablesOf(t, asOf, d) : e = ReceivableEvent(r)
  <2>1. e \in ReceivableEvents(t, asOf) <=>
          \E r \in t.receivables : /\ receivableExclusionReasons(t, r) = {} /\ withinFutureRange(r.date, asOf, end)
                                   /\ OutstandingAmount(r) # 0 /\ e = ReceivableEvent(r)
    BY DEF ReceivableEvents, ReceivableEvent
  <2>2. ASSUME NEW r \in t.receivables, receivableExclusionReasons(t, r) = {}
        PROVE  /\ r.date \in asOf + 1..d <=> withinFutureRange(r.date, asOf, end) /\ r.date \in asOf..d
               /\ OutstandingAmount(r) # 0
    <3>1. r.date \in Int /\ OutstandingAmount(r) # 0
      BY <2>2, IncludedReceivables, CalendarTypes DEF HasProjection, Dates
    <3> QED
      BY <1>1, <3>1 DEF withinFutureRange
  <2>3. \A r \in t.receivables : ReceivableEvent(r).date = r.date
    BY ReceivableEventFields
  <2> QED
    BY <2>1, <2>2, <2>3 DEF ReceivablesOf
<1> QED
  BY <1>2, <1>3, <1>4, <1>5 DEF Events

\* No row makes an event that the engine refuses.
LEMMA EventsAreValid ==
  ASSUME NEW t, NEW asOf, HasProjection(t, asOf), NEW e \in Events(t, asOf)
  PROVE  IsValid(e)
<1> DEFINE end == asOf + t.policy.configuration.horizon
<1>1. e.date \in asOf..end /\ end \in asOf..end
  <2>1. asOf \in Nat /\ end \in Nat /\ asOf <= end
    BY HorizonDates
  <2>2. IsEvent(e, asOf, end)
    BY EventsAreEvents DEF AreEvents
  <2> QED
    BY <2>1, <2>2 DEF IsEvent
<1>2. \/ \E o \in t.obligations : \E x \in DueOf(o, asOf, end) : e = ObligationEvent(o, x)
      \/ \E f \in FlowsOf(t, asOf, end) : e = FlowEvent(t, f)
      \/ \E f \in CardFlowsOf(t, asOf, end) : e = CardEvent(f)
      \/ \E r \in ReceivablesOf(t, asOf, end) : e = ReceivableEvent(r)
  BY <1>1, EventsOfRows
<1>3. CASE \E o \in t.obligations : \E x \in DueOf(o, asOf, end) : e = ObligationEvent(o, x)
  <2>1. e.source = "obligation" /\ e.direction = "outflow" /\ e.basis = "mandatory_obligation_outflow"
    BY <1>3, ObligationEventFields
  <2> QED
    BY <2>1 DEF IsValid
<1>4. CASE \E f \in FlowsOf(t, asOf, end) : e = FlowEvent(t, f)
  <2>1. PICK f \in FlowsOf(t, asOf, end) : e = FlowEvent(t, f)
    BY <1>4
  <2>2. /\ f.direction \in {"inflow", "outflow"} /\ f.status # "cancelled"
        /\ f.direction = "inflow" => manualInflowIncluded(t, f)
    BY DEF FlowsOf, HasProjection, IsTables, FlowRow, flowExclusionReasons
  <2>3. e.source = "manual" /\ e.direction = f.direction /\ e.basis = manualInclusionBasis(t, f) /\ e.exact = f.exact
    BY <2>1, FlowEventFields
  <2>4. IF e.direction = "outflow" THEN e.basis = "mandatory_manual_outflow"
        ELSE e.basis = IF e.exact THEN "eligible_manual_inflow" ELSE "expected_manual_inflow_allowed_by_policy"
    BY <2>2, <2>3 DEF manualInclusionBasis, manualInflowIncluded
  <2> QED
    BY <2>3, <2>4 DEF IsValid
<1>5. CASE \E f \in CardFlowsOf(t, asOf, end) : e = CardEvent(f)
  <2>1. e.source = "card" /\ e.basis = "authoritative_card_payment_intent" /\ e.exact
    BY <1>5, CardEventFields
  <2> QED
    BY <2>1 DEF IsValid
<1>6. CASE \E r \in ReceivablesOf(t, asOf, end) : e = ReceivableEvent(r)
  <2>1. PICK r \in ReceivablesOf(t, asOf, end) : e = ReceivableEvent(r)
    BY <1>6
  <2>2. r \in t.receivables /\ receivableExclusionReasons(t, r) = {} /\ IsTables(t)
    BY DEF ReceivablesOf, HasProjection
  <2>3. r.certainty \in {"confirmed", "expected"}
    BY <2>2, IncludedReceivables DEF IsTables, ReceivableRow
  <2>4. e.source = "receivable" /\ e.basis = receivableInclusionBasis(r) /\ e.certainty = r.certainty
    BY <2>1, ReceivableEventFields
  <2>5. \/ e.certainty = "confirmed" /\ e.basis = "confirmed_receivable"
        \/ e.certainty = "expected" /\ e.basis = "expected_receivable_allowed_by_policy"
    BY <2>3, <2>4 DEF receivableInclusionBasis
  <2> QED
    BY <2>4, <2>5 DEF IsValid
<1> QED
  BY <1>2, <1>3, <1>4, <1>5, <1>6

\* No row makes the projection fail with an event that it refuses.
LEMMA NoEventIsRefused ==
  ASSUME NEW t, IsTables(t), NEW asOf \in Dates
  PROVE  Baseline(t, asOf).error # "invalid_event"
<1> SUFFICES ASSUME Baseline(t, asOf).error = "invalid_event" PROVE FALSE
  OBVIOUS
<1> DEFINE b == Baseline(t, asOf)
<1>1. \A x : Failed(x).error = x
  BY DEF Failed
<1>2. t.policy # NoPolicy /\ AddDays(asOf, t.policy.configuration.horizon) # NoDate
  <2>1. t.policy # NoPolicy
    BY <1>1 DEF Baseline
  <2>2. AddDays(asOf, t.policy.configuration.horizon) # NoDate
    BY <1>1, <2>1 DEF Baseline
  <2> QED
    BY <2>1, <2>2
<1>3. b = IF \E a \in SelectedAccounts(t) : ~ Eligible(t, a) THEN Failed("configuration_invalid")
          ELSE IF \E a \in SelectedAccounts(t) : ~ Fits(OpeningUpTo(t, a)) THEN Failed("overflow")
          ELSE IF \E o \in t.obligations : Expansion(t, o, asOf).error # "none" THEN Failed(ExpansionError(t, asOf))
          ELSE IF \E e \in Events(t, asOf) : ~ IsValid(e) THEN Failed("invalid_event")
          ELSE Calculate(t, asOf, OpeningBalance(t), Events(t, asOf), Exclusions(t, asOf))
  BY <1>2 DEF Baseline
<1>4. b.error = "invalid_event"
  OBVIOUS
<1> HIDE DEF b
<1>5. Calculate(t, asOf, OpeningBalance(t), Events(t, asOf), Exclusions(t, asOf)).error \in {"none", "overflow"}
  BY <1>1 DEF Calculate
<1>6. ASSUME \E o \in t.obligations : Expansion(t, o, asOf).error # "none"
      PROVE  ExpansionError(t, asOf) # "invalid_event"
  <2> DEFINE failing == {o \in t.obligations : Expansion(t, o, asOf).error # "none"}
             first == CHOOSE o \in failing : \A p \in failing : o.id <= p.id
  <2>1. \E o \in failing : \A p \in failing : o.id <= p.id
    <3> DEFINE ids == {o.id : o \in failing}
    <3>1. ids \in SUBSET Nat /\ ids # {}
      BY <1>6, ObligationTypes DEF IsTables
    <3>2. PICK m \in ids : \A n \in ids : m <= n
      <4> HIDE DEF ids
      <4> QED
        BY <3>1, LeastNumber
    <3> QED
      BY <3>2
  <2>2. first \in failing
    <3> HIDE DEF failing
    <3> QED
      BY <2>1
  <2>3. ExpansionError(t, asOf) = Expansion(t, first, asOf).error
    BY DEF ExpansionError
  <2>4. \A found, why : /\ Expanded(found).error = "none" /\ Refused(why).error = why
    BY DEF Expanded, Refused
  <2>5. ASSUME NEW o, NEW from, NEW to PROVE occurrenceDates(o, from, to).error \in {"none", "invalid_date", "occurrence_limit"}
    BY <2>4 DEF occurrenceDates
  <2>6. Expansion(t, first, asOf).error \in {"none", "invalid_date", "occurrence_limit"}
    BY <2>5 DEF Expansion
  <2> QED
    BY <2>3, <2>6
<1>7. /\ ~ \E a \in SelectedAccounts(t) : ~ Eligible(t, a)
      /\ ~ \E a \in SelectedAccounts(t) : ~ Fits(OpeningUpTo(t, a))
  <2>1. ~ \E a \in SelectedAccounts(t) : ~ Eligible(t, a)
    BY <1>1, <1>3, <1>4
  <2> QED
    BY <1>1, <1>3, <1>4, <2>1
<1>8. ~ \E o \in t.obligations : Expansion(t, o, asOf).error # "none"
  BY <1>1, <1>3, <1>4, <1>6, <1>7
<1>9. HasProjection(t, asOf)
  BY <1>2, <1>8 DEF HasProjection
<1>10. ~ \E e \in Events(t, asOf) : ~ IsValid(e)
  BY <1>9, EventsAreValid
<1>11. b = Calculate(t, asOf, OpeningBalance(t), Events(t, asOf), Exclusions(t, asOf))
  BY <1>3, <1>7, <1>8, <1>10, Zenon
<1> QED
  BY <1>4, <1>5, <1>11

\* Amounts of different events add up.
LEMMA TotalOfUnion ==
  ASSUME NEW from, NEW to, NEW E, AreEvents(E, from, to), NEW T, NEW U, T \subseteq E, U \subseteq E, T \cap U = {}
  PROVE  Total(T \cup U) = Total(T) + Total(U) /\ Total(T) \in Nat /\ Total(U) \in Nat
<1> DEFINE amounts == [e \in E |-> e.amount]
<1>1. Summable(E, amounts) /\ \A e \in E : amounts[e] \in Nat
  BY SignsAreIntegers DEF Summable
<1>2. ASSUME NEW S, S \subseteq E PROVE Total(S) = SumFunctionOnSet(amounts, S) /\ Total(S) \in Nat
  <2> DEFINE part == [e \in S |-> e.amount]
  <2>1. IsFiniteSet(S)
    BY <1>1, <1>2, FS_Subset DEF Summable
  <2>2. DOMAIN part = S /\ \A e \in S : part[e] = amounts[e] /\ amounts[e] \in Nat
    BY <1>1, <1>2
  <2>3. Total(S) = SumFunction(part)
    BY DEF Total
  <2> HIDE DEF amounts, part
  <2>4. SumFunction(part) = SumFunctionOnSet(amounts, S)
    BY <2>1, <2>2, SumOfPart
  <2>5. SumFunctionOnSet(amounts, S) \in Nat
    BY <2>1, <2>2, SumOfNaturals
  <2> QED
    BY <2>3, <2>4, <2>5
<1> HIDE DEF amounts
<1>3. SumFunctionOnSet(amounts, T \cup U) = SumFunctionOnSet(amounts, T) + SumFunctionOnSet(amounts, U)
  BY <1>1, SumOfUnion
<1> QED
  BY <1>2, <1>3

\* Rows, what each amounts to, and an event of each with that amount.
Made(chosen, value, make) ==
  /\ IsFiniteSet(chosen) /\ value \in [chosen -> Nat]
  /\ \A r, q \in chosen : make[r] = make[q] => r = q
  /\ \A r \in chosen : make[r].amount = value[r]

LEMMA TotalOfMade ==
  ASSUME NEW chosen, NEW value, NEW make, Made(chosen, value, make)
  PROVE  Total({make[r] : r \in chosen}) = SumFunction(value)
<1> DEFINE T == {make[r] : r \in chosen}
           g == [e \in T |-> e.amount]
<1>1. IsFiniteSet(chosen) /\ value \in [chosen -> Int] /\ \A r, q \in chosen : make[r] = make[q] => r = q
  BY DEF Made
<1>2. \A r \in chosen : g[make[r]] = value[r]
  BY DEF Made
<1>3. g \in [T -> Int]
  BY <1>1 DEF Made
<1>4. Total(T) = SumFunction(g)
  BY DEF Total
<1> HIDE DEF g
<1>5. SumFunction(g) = SumFunction(value)
  BY <1>1, <1>2, <1>3, SumRewritten
<1> QED
  BY <1>4, <1>5

\* Flows of one direction up to a date, the card's, and the receivables.
FlowsTowards(t, asOf, d, direction) == {f \in FlowsOf(t, asOf, d) : f.direction = direction}

LEMMA FlowsTotal ==
  ASSUME NEW t, NEW asOf, HasProjection(t, asOf), NEW d, NEW direction
  PROVE  Total({FlowEvent(t, f) : f \in FlowsTowards(t, asOf, d, direction)})
           = Total(FlowsTowards(t, asOf, d, direction))
<1> DEFINE chosen == FlowsTowards(t, asOf, d, direction)
           value == [f \in chosen |-> f.amount]
           make == [f \in chosen |-> FlowEvent(t, f)]
<1>1. chosen \subseteq t.flows /\ IsTable(t.flows) /\ t.flows \subseteq FlowRow
  BY DEF FlowsTowards, FlowsOf, HasProjection, IsTables
<1>2. IsFiniteSet(chosen) /\ \A f, g \in chosen : f.id = g.id => f = g
  BY <1>1, FS_Subset DEF IsTable
<1>3. value \in [chosen -> Nat]
  BY <1>1 DEF FlowRow
<1>4. \A f \in chosen : make[f].row = f.id /\ make[f].amount = value[f]
  BY FlowEventFields
<1>5. {make[f] : f \in chosen} = {FlowEvent(t, f) : f \in chosen} /\ Total(chosen) = SumFunction(value)
  BY DEF Total
<1> HIDE DEF chosen, value, make
<1>6. Made(chosen, value, make)
  BY <1>2, <1>3, <1>4 DEF Made
<1>7. Total({make[f] : f \in chosen}) = SumFunction(value)
  BY <1>6, TotalOfMade
<1> QED
  BY <1>5, <1>7 DEF chosen

LEMMA CardFlowsTotal ==
  ASSUME NEW t, NEW asOf, HasProjection(t, asOf), NEW d
  PROVE  Total({CardEvent(f) : f \in CardFlowsOf(t, asOf, d)}) = Total(CardFlowsOf(t, asOf, d))
<1> DEFINE chosen == CardFlowsOf(t, asOf, d)
           value == [f \in chosen |-> f.amount]
           make == [f \in chosen |-> CardEvent(f)]
<1>1. chosen \subseteq t.cardFlows /\ IsTable(t.cardFlows) /\ t.cardFlows \subseteq CardFlowRow
  BY DEF CardFlowsOf, HasProjection, IsTables
<1>2. IsFiniteSet(chosen) /\ \A f, g \in chosen : f.id = g.id => f = g
  BY <1>1, FS_Subset DEF IsTable
<1>3. value \in [chosen -> Nat]
  BY <1>1 DEF CardFlowRow
<1>4. \A f \in chosen : make[f].row = f.id /\ make[f].amount = value[f]
  BY CardEventFields
<1>5. {make[f] : f \in chosen} = {CardEvent(f) : f \in chosen} /\ Total(chosen) = SumFunction(value)
  BY DEF Total
<1> HIDE DEF chosen, value, make
<1>6. Made(chosen, value, make)
  BY <1>2, <1>3, <1>4 DEF Made
<1>7. Total({make[f] : f \in chosen}) = SumFunction(value)
  BY <1>6, TotalOfMade
<1> QED
  BY <1>5, <1>7 DEF chosen

LEMMA ReceivablesTotal ==
  ASSUME NEW t, NEW asOf, HasProjection(t, asOf), NEW d
  PROVE  Total({ReceivableEvent(r) : r \in ReceivablesOf(t, asOf, d)})
           = SumFunction([r \in ReceivablesOf(t, asOf, d) |-> r.original - r.collected])
<1> DEFINE chosen == ReceivablesOf(t, asOf, d)
           value == [r \in chosen |-> r.original - r.collected]
           make == [r \in chosen |-> ReceivableEvent(r)]
<1>1. chosen \subseteq t.receivables /\ IsTable(t.receivables) /\ IsTables(t)
  BY DEF ReceivablesOf, HasProjection, IsTables
<1>2. IsFiniteSet(chosen) /\ \A r, q \in chosen : r.id = q.id => r = q
  BY <1>1, FS_Subset DEF IsTable
<1>3. \A r \in chosen : OutstandingAmount(r) \in Nat /\ value[r] = OutstandingAmount(r)
  BY <1>1, IncludedReceivables DEF ReceivablesOf, OutstandingAmount
<1>4. value \in [chosen -> Nat]
  BY <1>3
<1>5. \A r \in chosen : make[r].row = r.id /\ make[r].amount = value[r]
  BY <1>3, ReceivableEventFields
<1>6. {make[r] : r \in chosen} = {ReceivableEvent(r) : r \in chosen}
  OBVIOUS
<1> HIDE DEF chosen, make
<1>7. Made(chosen, value, make)
  BY <1>2, <1>4, <1>5 DEF Made
<1>8. Total({make[r] : r \in chosen}) = SumFunction(value)
  BY <1>7, TotalOfMade
<1> QED
  BY <1>6, <1>8 DEF chosen

\* An obligation is owed as often as it falls due.
LEMMA ObligationsTotal ==
  ASSUME NEW t, NEW asOf, HasProjection(t, asOf), NEW d
  PROVE  Total(UNION {{ObligationEvent(o, x) : x \in DueOf(o, asOf, d)} : o \in t.obligations})
           = SumFunction([o \in t.obligations |-> o.amount * Cardinality(DueOf(o, asOf, d))])
<1> DEFINE of == [o \in t.obligations |-> {ObligationEvent(o, x) : x \in DueOf(o, asOf, d)}]
           all == UNION {of[o] : o \in t.obligations}
           amounts == [e \in all |-> e.amount]
           owed == [o \in t.obligations |-> o.amount * Cardinality(DueOf(o, asOf, d))]
<1>1. /\ IsFiniteSet(t.obligations) /\ \A o \in t.obligations : IsObligation(o)
      /\ \A o, p \in t.obligations : o.id = p.id => o = p
  BY DEF HasProjection, IsTables, IsTable
<1>2. \A o \in t.obligations : o.amount \in Nat /\ IsFiniteSet(DueOf(o, asOf, d)) /\ Cardinality(DueOf(o, asOf, d)) \in Nat
  BY <1>1, ObligationTypes, DueIsFinite DEF DueOf
<1>3. ASSUME NEW o \in t.obligations
      PROVE  /\ IsFiniteSet(of[o]) /\ of[o] \subseteq all
             /\ \A e \in of[o] : e.row = o.id /\ e.amount = o.amount /\ amounts[e] = o.amount
             /\ owed[o] = SumFunctionOnSet(amounts, of[o])
  <2> DEFINE due == DueOf(o, asOf, d)
             make == [x \in due |-> ObligationEvent(o, x)]
             same == [x \in due |-> o.amount]
  <2>1. of[o] = {make[x] : x \in due} /\ of[o] \subseteq all
    OBVIOUS
  <2>2. \A x \in due : make[x].row = o.id /\ make[x].amount = o.amount /\ make[x].date = x
    BY ObligationEventFields
  <2>3. \A e \in of[o] : e.row = o.id /\ e.amount = o.amount /\ amounts[e] = o.amount
    <3>1. \A e \in of[o] : e.row = o.id /\ e.amount = o.amount
      <4> HIDE DEF of, make
      <4> QED
        BY <2>1, <2>2
    <3> HIDE DEF of
    <3> QED
      BY <2>1, <3>1
  <2>4. IsFiniteSet(due) /\ o.amount \in Int /\ \A x \in due : same[x] = o.amount /\ same[x] \in Int
    BY <1>2
  <2>5. (\A x, y \in due : make[x] = make[y] => x = y) /\ \A x \in due : amounts[make[x]] = same[x]
    <3>1. \A x \in due : make[x] \in of[o]
      OBVIOUS
    <3> HIDE DEF of, amounts, make
    <3> QED
      BY <2>2, <2>3, <3>1
  <2>6. owed[o] = o.amount * Cardinality(due)
    OBVIOUS
  <2> HIDE DEF of, amounts, make, same, due, all, owed
  <2>7. SumFunctionOnSet(same, due) = o.amount * Cardinality(due)
    BY <2>4, SumOfConstant
  <2>8. IsFiniteSet({make[x] : x \in due}) /\ SumFunctionOnSet(amounts, {make[x] : x \in due}) = SumFunctionOnSet(same, due)
    BY <2>4, <2>5, SumOfImage
  <2> QED
    BY <2>1, <2>3, <2>6, <2>7, <2>8
<1>4. IsFiniteSet(all) /\ \A e \in all : amounts[e] \in Int
  <2>1. IsFiniteSet({of[o] : o \in t.obligations})
    <3> HIDE DEF of
    <3> QED
      BY <1>1, ImageIsFinite
  <2>2. IsFiniteSet(all)
    <3>1. \A T \in {of[o] : o \in t.obligations} : IsFiniteSet(T)
      <4> HIDE DEF of
      <4> QED
        BY <1>3
    <3> HIDE DEF of
    <3> QED
      BY <2>1, <3>1, FS_UNION
  <2>3. \A e \in all : \E o \in t.obligations : e \in of[o]
    <3> HIDE DEF of
    <3> QED
      OBVIOUS
  <2> HIDE DEF of, amounts, all
  <2>4. ASSUME NEW e \in all PROVE amounts[e] \in Int
    <3>1. PICK o \in t.obligations : e \in of[o]
      BY <2>3
    <3>2. amounts[e] = o.amount
      BY <1>3, <3>1
    <3> QED
      BY <1>2, <3>2
  <2> QED
    BY <2>2, <2>4
<1>5. \A o, p \in t.obligations : o # p => of[o] \cap of[p] = {}
  <2> HIDE DEF of, amounts, all
  <2>1. ASSUME NEW o \in t.obligations, NEW p \in t.obligations, NEW e \in of[o], e \in of[p] PROVE o = p
    <3>1. e.row = o.id
      BY <1>3
    <3>2. e.row = p.id
      BY <1>3, <2>1
    <3> QED
      BY <1>1, <3>1, <3>2
  <2> QED
    BY <2>1
<1>6. Total(all) = SumFunctionOnSet(amounts, all) /\ SumFunction(owed) = SumFunctionOnSet(owed, t.obligations)
  BY DEF Total, SumFunction
<1>7. all = UNION {{ObligationEvent(o, x) : x \in DueOf(o, asOf, d)} : o \in t.obligations}
  OBVIOUS
<1>8. SumFunctionOnSet(amounts, all) = SumFunctionOnSet(owed, t.obligations)
  <2>1. \A o \in t.obligations : of[o] \in SUBSET all /\ owed[o] = SumFunctionOnSet(amounts, of[o])
    BY <1>3
  <2>2. all = UNION {of[o] : o \in t.obligations}
    OBVIOUS
  <2> HIDE DEF of, amounts, all, owed
  <2>3. SumFunctionOnSet(amounts, UNION {of[o] : o \in t.obligations}) = SumFunctionOnSet(owed, t.obligations)
    BY <1>1, <1>4, <1>5, <2>1, SumOfParts
  <2> QED
    BY <2>2, <2>3
<1> QED
  BY <1>6, <1>7, <1>8

\* The flows that the policy relies on, or that are owed, are those that make events.
LEMMA FlowsMatter ==
  ASSUME NEW t, NEW asOf, HasProjection(t, asOf), NEW d
  PROVE  /\ {f \in t.flows : f.direction = "outflow" /\ f.status = "scheduled" /\ f.date \in asOf + 1..d}
              = FlowsTowards(t, asOf, d, "outflow")
         /\ {f \in t.flows : /\ f.direction = "inflow" /\ f.status = "scheduled" /\ f.date \in asOf + 1..d
                             /\ f.eligible /\ (f.exact \/ IncludesExpected(t))}
              = FlowsTowards(t, asOf, d, "inflow")
<1>1. \A f \in t.flows : f.direction \in {"inflow", "outflow"} /\ f.status \in {"scheduled", "cancelled"}
  BY DEF HasProjection, IsTables, FlowRow
<1>2. ASSUME NEW f \in t.flows
      PROVE  flowExclusionReasons(t, f) = {} <=>
               f.status = "scheduled" /\ (f.direction = "inflow" => manualInflowIncluded(t, f))
  BY <1>1 DEF flowExclusionReasons
<1> QED
  BY <1>1, <1>2 DEF FlowsTowards, FlowsOf, manualInflowIncluded

LEMMA ReasonsAgainstReceivables ==
  ASSUME NEW t, IsTables(t), NEW r \in t.receivables
  PROVE  receivableExclusionReasons(t, r) = {} <=> Open(r) /\ Relied(t, r)
<1>1. /\ r.status \in {"pending", "partially_collected", "collected", "cancelled"}
      /\ r.certainty \in {"confirmed", "expected", "uncertain"}
  BY DEF IsTables, ReceivableRow
<1>2. ASSUME receivableExclusionReasons(t, r) = {} PROVE Open(r) /\ Relied(t, r)
  <2>1. /\ r.status \in {"pending", "partially_collected"} /\ r.date # NoDate
        /\ r.certainty # "uncertain" /\ (r.certainty = "expected" => IncludesExpected(t))
    BY <1>2, IncludedReceivables
  <2> QED
    BY <1>1, <2>1 DEF Open, Relied
<1>3. ASSUME Open(r), Relied(t, r) PROVE receivableExclusionReasons(t, r) = {}
  <2>1. /\ {x \in {"undated_receivable"} : r.date = NoDate} = {}
        /\ {x \in {"uncertain_receivable"} : r.certainty = "uncertain"} = {}
        /\ {x \in {"policy_excluded_inflow"} : r.certainty = "expected" /\ ~ IncludesExpected(t)} = {}
    BY <1>3 DEF Open, Relied
  <2>2. r.status \notin {"cancelled", "collected"}
    BY <1>3 DEF Open
  <2> QED
    BY <2>1, <2>2 DEF receivableExclusionReasons
<1> QED
  BY <1>2, <1>3

LEMMA SidesOfEvents ==
  ASSUME NEW t
  PROVE  /\ \A o, x : ObligationEvent(o, x).direction = "outflow" /\ ObligationEvent(o, x).source = "obligation"
         /\ \A f : /\ FlowEvent(t, f).direction = f.direction /\ FlowEvent(t, f).source = "manual"
                  /\ FlowEvent(t, f).row = f.id
         /\ \A f : CardEvent(f).direction = "outflow" /\ CardEvent(f).source = "card"
         /\ \A r : /\ ReceivableEvent(r).direction = "inflow" /\ ReceivableEvent(r).source = "receivable"
                  /\ ReceivableEvent(r).row = r.id
<1>1. \A o, x : ObligationEvent(o, x).direction = "outflow" /\ ObligationEvent(o, x).source = "obligation"
  BY ObligationEventFields
<1>2. \A f : FlowEvent(t, f).direction = f.direction /\ FlowEvent(t, f).source = "manual" /\ FlowEvent(t, f).row = f.id
  BY FlowEventFields
<1>3. \A f : CardEvent(f).direction = "outflow" /\ CardEvent(f).source = "card"
  BY CardEventFields
<1>4. \A r : /\ ReceivableEvent(r).direction = "inflow" /\ ReceivableEvent(r).source = "receivable"
            /\ ReceivableEvent(r).row = r.id
  BY ReceivableEventFields
<1> QED
  BY <1>1, <1>2, <1>3, <1>4

LEMMA InflowsAreExpected ==
  ASSUME NEW t, NEW asOf, HasProjection(t, asOf), NEW d \in asOf..asOf + t.policy.configuration.horizon
  PROVE  InflowsOf(Events(t, asOf), asOf..d) = Expected(t, asOf, d) /\ Expected(t, asOf, d) \in Nat
<1> DEFINE E == Events(t, asOf)
           T == {FlowEvent(t, f) : f \in FlowsTowards(t, asOf, d, "inflow")}
           U == {ReceivableEvent(r) : r \in ReceivablesOf(t, asOf, d)}
           in == {e \in E : e.direction = "inflow" /\ e.date \in asOf..d}
<1>1. \A e : e \in E /\ e.date \in asOf..d <=>
           \/ \E o \in t.obligations : \E x \in DueOf(o, asOf, d) : e = ObligationEvent(o, x)
           \/ \E f \in FlowsOf(t, asOf, d) : e = FlowEvent(t, f)
           \/ \E f \in CardFlowsOf(t, asOf, d) : e = CardEvent(f)
           \/ \E r \in ReceivablesOf(t, asOf, d) : e = ReceivableEvent(r)
  BY EventsOfRows
<1>2. /\ \A o, x : ObligationEvent(o, x).direction = "outflow"
      /\ \A f : FlowEvent(t, f).direction = f.direction /\ FlowEvent(t, f).source = "manual"
      /\ \A f : CardEvent(f).direction = "outflow"
      /\ \A r : ReceivableEvent(r).direction = "inflow" /\ ReceivableEvent(r).source = "receivable"
  BY SidesOfEvents
<1>3. T \subseteq in
  BY <1>1, <1>2 DEF FlowsTowards
<1>4. U \subseteq in
  BY <1>1, <1>2
<1>5. in \subseteq T \cup U
  <2> SUFFICES ASSUME NEW e \in in PROVE e \in T \cup U
    OBVIOUS
  <2> HIDE DEF E
  <2>1. \/ \E f \in FlowsOf(t, asOf, d) : e = FlowEvent(t, f)
        \/ \E r \in ReceivablesOf(t, asOf, d) : e = ReceivableEvent(r)
    BY <1>1, <1>2
  <2> QED
    BY <1>2, <2>1 DEF FlowsTowards
<1>6. T \cap U = {}
  <2>1. (\A e \in T : e.source = "manual") /\ \A e \in U : e.source = "receivable"
    BY <1>2
  <2> HIDE DEF T, U
  <2> QED
    BY <2>1
<1>7. AreEvents(E, asOf, asOf + t.policy.configuration.horizon) /\ in \subseteq E
  BY EventsAreEvents
<1>8. InflowsOf(E, asOf..d) = Total(in)
  BY DEF InflowsOf
<1>9. Total(T) = Total(FlowsTowards(t, asOf, d, "inflow"))
  BY FlowsTotal
<1>10. Total(U) = SumFunction([r \in ReceivablesOf(t, asOf, d) |-> r.original - r.collected])
  BY ReceivablesTotal
<1>11. {q \in t.receivables : Open(q) /\ q.date \in asOf + 1..d /\ Relied(t, q)} = ReceivablesOf(t, asOf, d)
  BY ReasonsAgainstReceivables DEF ReceivablesOf, HasProjection
<1>12. Expected(t, asOf, d) = Total(FlowsTowards(t, asOf, d, "inflow"))
                                + SumFunction([r \in ReceivablesOf(t, asOf, d) |-> r.original - r.collected])
  BY <1>11, FlowsMatter DEF Expected
<1> HIDE DEF T, U, in, E
<1>13. T \subseteq E /\ U \subseteq E /\ in = T \cup U
  BY <1>3, <1>4, <1>5, <1>7
<1>14. Total(T \cup U) = Total(T) + Total(U) /\ Total(T) \in Nat /\ Total(U) \in Nat
  BY <1>6, <1>7, <1>13, TotalOfUnion
<1> QED
  BY <1>8, <1>9, <1>10, <1>12, <1>13, <1>14 DEF E

LEMMA OutflowsAreOwed ==
  ASSUME NEW t, NEW asOf, HasProjection(t, asOf), NEW d \in asOf..asOf + t.policy.configuration.horizon
  PROVE  OutflowsOf(Events(t, asOf), asOf..d) = Owed(t, asOf, d) /\ Owed(t, asOf, d) \in Nat
<1> DEFINE E == Events(t, asOf)
           R == UNION {{ObligationEvent(o, x) : x \in DueOf(o, asOf, d)} : o \in t.obligations}
           T == {FlowEvent(t, f) : f \in FlowsTowards(t, asOf, d, "outflow")}
           U == {CardEvent(f) : f \in CardFlowsOf(t, asOf, d)}
           out == {e \in E : e.direction = "outflow" /\ e.date \in asOf..d}
<1>1. \A e : e \in E /\ e.date \in asOf..d <=>
           \/ \E o \in t.obligations : \E x \in DueOf(o, asOf, d) : e = ObligationEvent(o, x)
           \/ \E f \in FlowsOf(t, asOf, d) : e = FlowEvent(t, f)
           \/ \E f \in CardFlowsOf(t, asOf, d) : e = CardEvent(f)
           \/ \E r \in ReceivablesOf(t, asOf, d) : e = ReceivableEvent(r)
  BY EventsOfRows
<1>2. /\ \A o, x : ObligationEvent(o, x).direction = "outflow" /\ ObligationEvent(o, x).source = "obligation"
      /\ \A f : FlowEvent(t, f).direction = f.direction /\ FlowEvent(t, f).source = "manual"
      /\ \A f : CardEvent(f).direction = "outflow" /\ CardEvent(f).source = "card"
      /\ \A r : ReceivableEvent(r).direction = "inflow"
  BY SidesOfEvents
<1>3. \A e : e \in R <=> \E o \in t.obligations : \E x \in DueOf(o, asOf, d) : e = ObligationEvent(o, x)
  OBVIOUS
<1> HIDE DEF R, E
<1>4. R \subseteq out /\ T \subseteq out /\ U \subseteq out
  <2>1. R \subseteq out
    BY <1>1, <1>2, <1>3
  <2>2. T \subseteq out
    BY <1>1, <1>2 DEF FlowsTowards
  <2>3. U \subseteq out
    BY <1>1, <1>2
  <2> QED
    BY <2>1, <2>2, <2>3
<1>5. out \subseteq R \cup T \cup U
  <2> SUFFICES ASSUME NEW e \in out PROVE e \in R \cup T \cup U
    OBVIOUS
  <2>1. \/ e \in R
        \/ \E f \in FlowsOf(t, asOf, d) : e = FlowEvent(t, f)
        \/ \E f \in CardFlowsOf(t, asOf, d) : e = CardEvent(f)
    BY <1>1, <1>2, <1>3
  <2> QED
    BY <1>2, <2>1 DEF FlowsTowards
<1>6. R \cap T = {} /\ (R \cup T) \cap U = {}
  <2>1. \A e \in R : e.source = "obligation"
    BY <1>2, <1>3
  <2>2. (\A e \in T : e.source = "manual") /\ \A e \in U : e.source = "card"
    BY <1>2
  <2> HIDE DEF T, U
  <2> QED
    BY <2>1, <2>2
<1>7. AreEvents(E, asOf, asOf + t.policy.configuration.horizon) /\ out \subseteq E
  BY EventsAreEvents DEF E
<1>8. OutflowsOf(E, asOf..d) = Total(out)
  BY DEF OutflowsOf
<1>9. Total(T) = Total(FlowsTowards(t, asOf, d, "outflow"))
  BY FlowsTotal
<1>10. Total(U) = Total(CardFlowsOf(t, asOf, d))
  BY CardFlowsTotal
<1>11. Total(R) = SumFunction([o \in t.obligations |-> o.amount * Cardinality(DueOf(o, asOf, d))])
  BY ObligationsTotal DEF R
<1>12. Owed(t, asOf, d) = SumFunction([o \in t.obligations |-> o.amount * Cardinality(DueOf(o, asOf, d))])
                            + Total(FlowsTowards(t, asOf, d, "outflow")) + Total(CardFlowsOf(t, asOf, d))
  BY FlowsMatter DEF Owed, DueOf, CardFlowsOf
<1> HIDE DEF T, U, out
<1>13. R \subseteq E /\ T \subseteq E /\ U \subseteq E /\ R \cup T \subseteq E /\ out = (R \cup T) \cup U
  BY <1>4, <1>5, <1>7
<1>14. Total(R \cup T) = Total(R) + Total(T) /\ Total(R) \in Nat /\ Total(T) \in Nat
  BY <1>6, <1>7, <1>13, TotalOfUnion
<1>15. Total((R \cup T) \cup U) = Total(R \cup T) + Total(U) /\ Total(U) \in Nat
  BY <1>6, <1>7, <1>13, TotalOfUnion
<1> QED
  BY <1>8, <1>9, <1>10, <1>11, <1>12, <1>13, <1>14, <1>15 DEF E

LEMMA DaysAreCountedOnce ==
  ASSUME NEW t, IsTables(t), NEW asOf \in Dates, Baseline(t, asOf).error = "none"
  PROVE  CountedOnce(t, Baseline(t, asOf))
<1> DEFINE b == Baseline(t, asOf)
           E == Events(t, asOf)
<1>1. /\ HasProjection(t, asOf) /\ IsProjection(b, E)
      /\ b.asOf = asOf /\ b.policy = t.policy /\ b.opening = OpeningBalance(t)
  BY BaselineIsProjection
<1>2. DOMAIN b.after = E /\ b.opening \in Int
  BY <1>1 DEF IsProjection
<1> HIDE DEF b, E
<1>3. ASSUME NEW d \in Horizon(b)
      PROVE  b.opening + InflowsOf(DOMAIN b.after, b.asOf..d) - OutflowsOf(DOMAIN b.after, b.asOf..d)
               = SumFunction([a \in SelectedAccounts(t) |-> t.accounts[a].balance])
                   + Expected(t, b.asOf, d) - Owed(t, b.asOf, d)
  <2>1. d \in asOf..asOf + t.policy.configuration.horizon
    BY <1>1 DEF Horizon
  <2>2. InflowsOf(E, asOf..d) = Expected(t, asOf, d)
    BY <1>1, <2>1, InflowsAreExpected DEF E
  <2>3. OutflowsOf(E, asOf..d) = Owed(t, asOf, d)
    BY <1>1, <2>1, OutflowsAreOwed DEF E
  <2>4. b.opening = SumFunction([a \in SelectedAccounts(t) |-> t.accounts[a].balance])
    BY <1>1 DEF OpeningBalance
  <2> QED
    BY <1>1, <1>2, <2>2, <2>3, <2>4
<1>4. CountedOnce(t, b)
  BY <1>3 DEF CountedOnce
<1> QED
  BY <1>4 DEF b

LEMMA CardinalityOfOne ==
  ASSUME NEW x
  PROVE  Cardinality({x}) = 1
BY FS_Singleton

\* A row is one event or one exclusion.
LEMMA RowsAreExplainedOnce ==
  ASSUME NEW t, IsTables(t), NEW asOf \in Dates, Baseline(t, asOf).error = "none"
  PROVE  ExplainedOnce(t, Baseline(t, asOf))
<1> DEFINE b == Baseline(t, asOf)
           E == Events(t, asOf)
           X == Exclusions(t, asOf)
           end == asOf + t.policy.configuration.horizon
           future == asOf + 1..end
<1>1. /\ HasProjection(t, asOf) /\ IsProjection(b, E)
      /\ b.asOf = asOf /\ b.policy = t.policy /\ b.exclusions = X
  BY BaselineIsProjection
<1>2. DOMAIN b.after = E
  BY <1>1 DEF IsProjection
<1>3. asOf \in Nat /\ end \in Nat /\ end \in asOf..end /\ \A e \in E : e.date \in asOf..end
  <2>1. asOf \in Nat /\ end \in Nat /\ asOf <= end
    BY <1>1, HorizonDates
  <2>2. \A e \in E : e.date \in Int /\ asOf < e.date /\ e.date <= end
    BY <1>1, EventsAreEvents DEF AreEvents, IsEvent
  <2> QED
    BY <2>1, <2>2
<1>4. \A e : e \in E <=>
           \/ \E o \in t.obligations : \E x \in DueOf(o, asOf, end) : e = ObligationEvent(o, x)
           \/ \E f \in FlowsOf(t, asOf, end) : e = FlowEvent(t, f)
           \/ \E f \in CardFlowsOf(t, asOf, end) : e = CardEvent(f)
           \/ \E r \in ReceivablesOf(t, asOf, end) : e = ReceivableEvent(r)
  <2> TAKE e
  <2>1. e \in E /\ e.date \in asOf..end <=>
           \/ \E o \in t.obligations : \E x \in DueOf(o, asOf, end) : e = ObligationEvent(o, x)
           \/ \E f \in FlowsOf(t, asOf, end) : e = FlowEvent(t, f)
           \/ \E f \in CardFlowsOf(t, asOf, end) : e = CardEvent(f)
           \/ \E r \in ReceivablesOf(t, asOf, end) : e = ReceivableEvent(r)
    BY <1>1, <1>3, EventsOfRows
  <2> HIDE DEF E
  <2> QED
    BY <1>3, <2>1
<1>5. /\ \A o, x : ObligationEvent(o, x).source = "obligation"
      /\ \A f : FlowEvent(t, f).source = "manual" /\ FlowEvent(t, f).row = f.id
      /\ \A f : CardEvent(f).source = "card"
      /\ \A r : ReceivableEvent(r).source = "receivable" /\ ReceivableEvent(r).row = r.id
  BY SidesOfEvents
<1>6. \A source, row, reasons : /\ Exclusion(source, row, reasons).source = source
                                /\ Exclusion(source, row, reasons).row = row
                                /\ Exclusion(source, row, reasons).reasons = reasons
  BY DEF Exclusion
<1>7. \A x : x \in X <=>
           \/ \E f \in FlowsInRange(t, asOf) : flowExclusionReasons(t, f) # {} /\ x = Exclusion("manual", f.id, flowExclusionReasons(t, f))
           \/ \E r \in t.receivables : receivableExclusionReasons(t, r) # {} /\ x = Exclusion("receivable", r.id, receivableExclusionReasons(t, r))
  BY <1>6 DEF Exclusions
<1>8. /\ \A f, g \in t.flows : f.id = g.id => f = g
      /\ \A r, q \in t.receivables : r.id = q.id => r = q
      /\ \A f \in t.flows : f.date \in Int
  BY CalendarTypes DEF IsTables, IsTable, FlowRow, Dates
<1> HIDE DEF E, X, b
<1>9. ASSUME NEW f \in t.flows
      PROVE  NumberOf("manual", f.id, E) + NumberOf("manual", f.id, X) = IF f.date \in future THEN 1 ELSE 0
  <2> DEFINE events == {x \in E : x.source = "manual" /\ x.row = f.id}
             excluded == {x \in X : x.source = "manual" /\ x.row = f.id}
  <2>1. ASSUME NEW x \in events PROVE x = FlowEvent(t, f) /\ f \in FlowsOf(t, asOf, end)
    <3>1. x \in E /\ x.source = "manual" /\ x.row = f.id
      OBVIOUS
    <3>2. PICK g \in FlowsOf(t, asOf, end) : x = FlowEvent(t, g)
      <4>1. \/ \E o \in t.obligations : \E y \in DueOf(o, asOf, end) : x = ObligationEvent(o, y)
            \/ \E g \in FlowsOf(t, asOf, end) : x = FlowEvent(t, g)
            \/ \E g \in CardFlowsOf(t, asOf, end) : x = CardEvent(g)
            \/ \E r \in ReceivablesOf(t, asOf, end) : x = ReceivableEvent(r)
        BY <1>4, <3>1, Zenon
      <4> QED
        BY <1>5, <3>1, <4>1
    <3>3. g \in t.flows /\ g.id = f.id
      BY <1>5, <3>1, <3>2 DEF FlowsOf
    <3>4. g = f
      BY <1>8, <3>3
    <3> QED
      BY <3>2, <3>4
  <2>2. f \in FlowsOf(t, asOf, end) => FlowEvent(t, f) \in events
    BY <1>4, <1>5
  <2>3. \A x \in excluded : /\ x = Exclusion("manual", f.id, flowExclusionReasons(t, f))
                            /\ f \in FlowsInRange(t, asOf) /\ flowExclusionReasons(t, f) # {}
    BY <1>6, <1>7, <1>8 DEF FlowsInRange
  <2>4. f \in FlowsInRange(t, asOf) /\ flowExclusionReasons(t, f) # {} =>
          Exclusion("manual", f.id, flowExclusionReasons(t, f)) \in excluded
    BY <1>6, <1>7
  <2>5. /\ f \in FlowsInRange(t, asOf) <=> f.date \in future
        /\ f \in FlowsOf(t, asOf, end) <=> f.date \in future /\ flowExclusionReasons(t, f) = {}
    BY <1>3, <1>8 DEF FlowsInRange, FlowsOf, withinFutureRange
  <2>6. NumberOf("manual", f.id, E) = Cardinality(events) /\ NumberOf("manual", f.id, X) = Cardinality(excluded)
    BY DEF NumberOf
  <2> HIDE DEF events, excluded, future
  <2>7. CASE f.date \in future /\ flowExclusionReasons(t, f) = {}
    <3>1. events = {FlowEvent(t, f)} /\ excluded = {}
      BY <2>1, <2>2, <2>3, <2>5, <2>7
    <3>2. Cardinality(events) = 1 /\ Cardinality(excluded) = 0
      BY <3>1, CardinalityOfOne, FS_EmptySet
    <3> QED
      BY <2>6, <2>7, <3>2
  <2>8. CASE f.date \in future /\ flowExclusionReasons(t, f) # {}
    <3>1. events = {} /\ excluded = {Exclusion("manual", f.id, flowExclusionReasons(t, f))}
      BY <2>1, <2>3, <2>4, <2>5, <2>8
    <3>2. Cardinality(events) = 0 /\ Cardinality(excluded) = 1
      BY <3>1, CardinalityOfOne, FS_EmptySet
    <3> QED
      BY <2>6, <2>8, <3>2
  <2>9. CASE f.date \notin future
    <3>1. events = {} /\ excluded = {}
      BY <2>1, <2>3, <2>5, <2>9
    <3>2. Cardinality(events) = 0 /\ Cardinality(excluded) = 0
      BY <3>1, CardinalityOfOne, FS_EmptySet
    <3> QED
      BY <2>6, <2>9, <3>2
  <2> QED
    BY <2>7, <2>8, <2>9
<1>10. ASSUME NEW r \in t.receivables
       PROVE  NumberOf("receivable", r.id, E) + NumberOf("receivable", r.id, X)
                = IF Open(r) /\ Relied(t, r) /\ r.date \notin future THEN 0 ELSE 1
  <2> DEFINE events == {x \in E : x.source = "receivable" /\ x.row = r.id}
             excluded == {x \in X : x.source = "receivable" /\ x.row = r.id}
             why == receivableExclusionReasons(t, r)
  <2>1. ASSUME NEW x \in events PROVE x = ReceivableEvent(r) /\ r \in ReceivablesOf(t, asOf, end)
    <3>1. x \in E /\ x.source = "receivable" /\ x.row = r.id
      OBVIOUS
    <3>2. PICK q \in ReceivablesOf(t, asOf, end) : x = ReceivableEvent(q)
      BY <1>4, <1>5, <3>1
    <3>3. q \in t.receivables /\ q.id = r.id
      BY <1>5, <3>1, <3>2 DEF ReceivablesOf
    <3>4. q = r
      BY <1>8, <3>3
    <3> QED
      BY <3>2, <3>4
  <2>2. r \in ReceivablesOf(t, asOf, end) => ReceivableEvent(r) \in events
    BY <1>4, <1>5
  <2>3. \A x \in excluded : x = Exclusion("receivable", r.id, why) /\ why # {}
    BY <1>6, <1>7, <1>8
  <2>4. why # {} => Exclusion("receivable", r.id, why) \in excluded
    BY <1>6, <1>7
  <2>5. r \in ReceivablesOf(t, asOf, end) <=> r.date \in future /\ why = {}
    BY DEF ReceivablesOf
  <2>6. NumberOf("receivable", r.id, E) = Cardinality(events) /\ NumberOf("receivable", r.id, X) = Cardinality(excluded)
    BY DEF NumberOf
  <2>7. why = {} <=> Open(r) /\ Relied(t, r)
    BY ReasonsAgainstReceivables
  <2> HIDE DEF events, excluded, future, why
  <2>8. CASE why = {} /\ r.date \in future
    <3>1. events = {ReceivableEvent(r)} /\ excluded = {}
      BY <2>1, <2>2, <2>3, <2>5, <2>8
    <3>2. Cardinality(events) = 1 /\ Cardinality(excluded) = 0
      BY <3>1, CardinalityOfOne, FS_EmptySet
    <3> QED
      BY <2>6, <2>8, <3>2
  <2>9. CASE why # {}
    <3>1. events = {} /\ excluded = {Exclusion("receivable", r.id, why)}
      BY <2>1, <2>3, <2>4, <2>5, <2>9
    <3>2. Cardinality(events) = 0 /\ Cardinality(excluded) = 1
      BY <3>1, CardinalityOfOne, FS_EmptySet
    <3> QED
      BY <2>6, <2>7, <2>9, <3>2
  <2>10. CASE why = {} /\ r.date \notin future
    <3>1. events = {} /\ excluded = {}
      BY <2>1, <2>3, <2>5, <2>10
    <3>2. Cardinality(events) = 0 /\ Cardinality(excluded) = 0
      BY <3>1, CardinalityOfOne, FS_EmptySet
    <3> QED
      BY <2>6, <2>7, <2>10, <3>2
  <2> QED
    BY <2>8, <2>9, <2>10
<1>11. ExplainedOnce(t, b)
  BY <1>1, <1>2, <1>9, <1>10 DEF ExplainedOnce
<1> QED
  BY <1>11 DEF b
-----------------------------------------------------------------------------
(* The sessions *)

Replacing == {"accounts", "compare", "write"}

Reading == {"read_accounts", "read_future", "calculate"}

Statements ==
  {"idle", "owner", "account", "archive", "flow", "claim", "post", "cancel", "policy"} \cup Replacing \cup Reading \cup Ended

Asks(s, operations) == request[s] # NoRequest /\ request[s].operation \in operations

Named(s) == request[s].configuration.ids

\* A session runs the statements of what it was asked for.
DoesWhatIsAsked(s) ==
  /\ pc[s] # "done" => request[s] # NoRequest
  /\ pc[s] \in {"owner"} \cup Replacing => Asks(s, {"replace_policy"})
  /\ pc[s] = "account" => Asks(s, {"archive", "post"})
  /\ pc[s] = "archive" => Asks(s, {"archive"})
  /\ pc[s] = "claim" => Asks(s, {"post", "cancel_flow"})
  /\ pc[s] = "post" => Asks(s, {"post"})
  /\ pc[s] \in {"flow", "cancel"} => Asks(s, {"cancel_flow"})
  /\ pc[s] \in {"policy"} \cup Reading => Asks(s, Reads)

\* What a replacement has checked is still so: it holds the owner's row, and
\* shares the accounts that it found eligible.
ChecksHold(s) ==
  /\ pc[s] \in {"idle", "owner"} => shared[s] = {}
  /\ pc[s] \in Replacing => OwnerRow \in exclusive[s]
  /\ pc[s] \in Replacing => \A a \in Named(s) : AccountOf(a) \in shared[s] => Eligible(tables, a)
  /\ pc[s] \in {"compare", "write"} =>
       Named(s) \subseteq DOMAIN tables.accounts /\ \A a \in Named(s) : AccountOf(a) \in shared[s]
  /\ pc[s] = "write" => ~ samePolicyConfiguration(s)
  /\ pc[s] = "archive" => AccountOf(request[s].account) \in exclusive[s]

\* What a reader has read is what its first query saw.
ReadsHold(s) ==
  /\ pc[s] \in Reading => rows[s] = snapshot[s] /\ IsTables(snapshot[s])
  /\ IsRead(s) /\ pc[s] = "done" => answer[s] = Answer(s, snapshot[s])

\* A row that is locked for update is locked by one session.
LocksHold == \A s, o \in Sessions : s # o => exclusive[s] \cap (exclusive[o] \cup shared[o]) = {}

SessionTypes ==
  /\ request \in [Sessions -> RequestRow \cup {NoRequest}]
  /\ pc \in [Sessions -> Statements]
  /\ moment \in [Sessions -> Nat]
  /\ DOMAIN exclusive = Sessions /\ DOMAIN shared = Sessions
  /\ DOMAIN snapshot = Sessions /\ DOMAIN rows = Sessions /\ DOMAIN answer = Sessions

\* The inductive invariant.
PInv ==
  /\ IsTables(tables)
  /\ SessionTypes
  /\ LocksHold
  /\ \A s \in Sessions : DoesWhatIsAsked(s) /\ ChecksHold(s) /\ ReadsHold(s)

-----------------------------------------------------------------------------
(* The tables keep their types *)

LEMMA PolicyKeepsTypes ==
  ASSUME NEW t, IsTables(t), NEW policy \in PolicyRow, policy.created <= policy.updated,
         policy.configuration.ids \subseteq DOMAIN t.accounts
  PROVE  IsTables([t EXCEPT !.policy = policy])
<1> DEFINE u == [t EXCEPT !.policy = policy]
<1>1. t = [accounts |-> t.accounts, policy |-> t.policy, obligations |-> t.obligations, flows |-> t.flows,
           cardFlows |-> t.cardFlows, issues |-> t.issues, receivables |-> t.receivables]
  BY DEF IsTables
<1>2. /\ u = [accounts |-> u.accounts, policy |-> u.policy, obligations |-> u.obligations, flows |-> u.flows,
              cardFlows |-> u.cardFlows, issues |-> u.issues, receivables |-> u.receivables]
      /\ u.accounts = t.accounts /\ u.policy = policy /\ u.obligations = t.obligations /\ u.flows = t.flows
      /\ u.cardFlows = t.cardFlows /\ u.receivables = t.receivables
  BY <1>1
<1> HIDE DEF u
<1> QED
  BY <1>2 DEF IsTables

LEMMA AccountsKeepTypes ==
  ASSUME NEW t, IsTables(t), NEW accounts \in [DOMAIN t.accounts -> AccountRow]
  PROVE  IsTables([t EXCEPT !.accounts = accounts])
<1> DEFINE u == [t EXCEPT !.accounts = accounts]
<1>1. t = [accounts |-> t.accounts, policy |-> t.policy, obligations |-> t.obligations, flows |-> t.flows,
           cardFlows |-> t.cardFlows, issues |-> t.issues, receivables |-> t.receivables]
  BY DEF IsTables
<1>2. /\ u = [accounts |-> u.accounts, policy |-> u.policy, obligations |-> u.obligations, flows |-> u.flows,
              cardFlows |-> u.cardFlows, issues |-> u.issues, receivables |-> u.receivables]
      /\ u.accounts = accounts /\ u.policy = t.policy /\ u.obligations = t.obligations /\ u.flows = t.flows
      /\ u.cardFlows = t.cardFlows /\ u.receivables = t.receivables
  BY <1>1
<1> HIDE DEF u
<1>3. DOMAIN u.accounts = DOMAIN t.accounts
  BY <1>2
<1> QED
  BY <1>2, <1>3 DEF IsTables

LEMMA FlowsKeepTypes ==
  ASSUME NEW t, IsTables(t), NEW flows, IsTable(flows), flows \subseteq FlowRow
  PROVE  IsTables([t EXCEPT !.flows = flows])
<1> DEFINE u == [t EXCEPT !.flows = flows]
<1>1. t = [accounts |-> t.accounts, policy |-> t.policy, obligations |-> t.obligations, flows |-> t.flows,
           cardFlows |-> t.cardFlows, issues |-> t.issues, receivables |-> t.receivables]
  BY DEF IsTables
<1>2. /\ u = [accounts |-> u.accounts, policy |-> u.policy, obligations |-> u.obligations, flows |-> u.flows,
              cardFlows |-> u.cardFlows, issues |-> u.issues, receivables |-> u.receivables]
      /\ u.accounts = t.accounts /\ u.policy = t.policy /\ u.obligations = t.obligations /\ u.flows = flows
      /\ u.cardFlows = t.cardFlows /\ u.receivables = t.receivables
  BY <1>1
<1> HIDE DEF u
<1> QED
  BY <1>2 DEF IsTables

\* Cancelling changes no id: the flows are still a table.
LEMMA CancelledFlows ==
  ASSUME NEW flows, IsTable(flows), flows \subseteq FlowRow, NEW id
  PROVE  IsTable(WithCancelled(flows, id)) /\ WithCancelled(flows, id) \subseteq FlowRow
<1> DEFINE then(f) == IF f.id = id THEN Cancelled(f) ELSE f
           cancelled == {then(f) : f \in flows}
           cancel == [f \in flows |-> then(f)]
<1>0. WithCancelled(flows, id) = cancelled
  BY DEF WithCancelled
<1>1. IsFiniteSet(cancelled)
  <2>1. {cancel[f] : f \in flows} = cancelled
    OBVIOUS
  <2>2. IsFiniteSet(flows)
    BY DEF IsTable
  <2> HIDE DEF cancel, cancelled
  <2> QED
    BY <2>1, <2>2, ImageIsFinite
<1>2. \A f \in flows : then(f) \in FlowRow /\ then(f).id = f.id
  BY DEF FlowRow, Cancelled
<1>3. ASSUME NEW x \in cancelled, NEW y \in cancelled, x.id = y.id PROVE x = y
  <2>1. PICK f \in flows : x = then(f)
    OBVIOUS
  <2>2. PICK g \in flows : y = then(g)
    OBVIOUS
  <2>3. f = g
    BY <1>2, <1>3, <2>1, <2>2 DEF IsTable
  <2> QED
    BY <2>1, <2>2, <2>3
<1> QED
  BY <1>0, <1>1, <1>2, <1>3 DEF IsTable

-----------------------------------------------------------------------------
(* A step of one session *)

\* A step of s leaves what the other sessions have checked as it is.
TablesKeep(s) ==
  /\ DOMAIN tables'.accounts = DOMAIN tables.accounts
  /\ \A o \in Sessions \ {s} : \A a \in Named(o) :
       AccountOf(a) \in shared[o] /\ Eligible(tables, a) => Eligible(tables', a)
  /\ tables'.policy # tables.policy => OwnerRow \in exclusive[s]

\* A step of s is about s alone.
OthersKeep(s) ==
  /\ request' = request
  /\ DOMAIN pc' = Sessions
  /\ DOMAIN exclusive' = Sessions /\ DOMAIN shared' = Sessions
  /\ DOMAIN snapshot' = Sessions /\ DOMAIN rows' = Sessions /\ DOMAIN answer' = Sessions
  /\ \A o \in Sessions \ {s} :
       /\ pc'[o] = pc[o] /\ exclusive'[o] = exclusive[o] /\ shared'[o] = shared[o]
       /\ snapshot'[o] = snapshot[o] /\ rows'[o] = rows[o] /\ answer'[o] = answer[o]

\* What s holds after its step, nobody else holds against it.
LocksAreFree(s) ==
  \A o \in Sessions \ {s} :
    exclusive'[s] \cap (exclusive[o] \cup shared[o]) = {} /\ exclusive[o] \cap shared'[s] = {}

LEMMA SessionStep ==
  ASSUME PInv, NEW s \in Sessions, OthersKeep(s), TablesKeep(s), LocksAreFree(s),
         IsTables(tables'), moment' \in [Sessions -> Nat],
         pc' = [o \in Sessions |-> pc'[o]], pc'[s] \in Statements,
         DoesWhatIsAsked(s)', ChecksHold(s)', ReadsHold(s)'
  PROVE  PInv'
<1>1. SessionTypes'
  BY DEF PInv, SessionTypes, OthersKeep
<1>2. LocksHold'
  BY DEF PInv, LocksHold, OthersKeep, LocksAreFree
<1>3. ASSUME NEW o \in Sessions \ {s} PROVE (DoesWhatIsAsked(o) /\ ChecksHold(o) /\ ReadsHold(o))'
  <2>1. /\ pc'[o] = pc[o] /\ exclusive'[o] = exclusive[o] /\ shared'[o] = shared[o]
        /\ snapshot'[o] = snapshot[o] /\ rows'[o] = rows[o] /\ answer'[o] = answer[o]
        /\ request'[o] = request[o]
    BY <1>3 DEF OthersKeep
  <2>2. DoesWhatIsAsked(o) /\ ChecksHold(o) /\ ReadsHold(o)
    BY <1>3 DEF PInv
  <2>3. DoesWhatIsAsked(o)'
    BY <2>1, <2>2 DEF DoesWhatIsAsked, Asks
  <2>4. pc[o] \in Replacing => tables'.policy = tables.policy
    BY <1>3, <2>2 DEF TablesKeep, ChecksHold, PInv, LocksHold
  <2>5. ChecksHold(o)'
    BY <1>3, <2>1, <2>2, <2>4 DEF ChecksHold, TablesKeep, Named, Replacing, samePolicyConfiguration
  <2>6. ReadsHold(o)'
    BY <2>1, <2>2 DEF ReadsHold, IsRead, Answer
  <2> QED
    BY <2>3, <2>5, <2>6
<1> QED
  BY <1>1, <1>2, <1>3 DEF PInv

\* A session that ends holds nothing.
LEMMA EndStep ==
  ASSUME PInv, NEW s \in Sessions, NEW outcome \in Ended, End(s, outcome), IsTables(tables'), TablesKeep(s),
         DOMAIN answer' = Sessions, \A o \in Sessions \ {s} : answer'[o] = answer[o],
         outcome = "done" => request[s] # NoRequest /\ (IsRead(s) => answer'[s] = Answer(s, snapshot[s])),
         outcome # "done" => request[s] # NoRequest
  PROVE  PInv'
<1> USE DEF PInv, SessionTypes
<1>1. OthersKeep(s)
  BY DEF End, Goto, OthersKeep, reading
<1>2. LocksAreFree(s) /\ pc'[s] = outcome /\ pc' = [o \in Sessions |-> pc'[o]] /\ outcome \in Statements
  BY DEF End, Goto, LocksAreFree, Statements
<1>3. pc'[s] \in Ended /\ request' = request /\ snapshot' = snapshot /\ moment' = moment
  BY <1>2 DEF End, reading
<1>4. DoesWhatIsAsked(s)'
  BY <1>3, <1>2 DEF DoesWhatIsAsked, Ended, Replacing, Reading
<1>5. ChecksHold(s)'
  BY <1>3 DEF ChecksHold, Ended, Replacing
<1>6. ReadsHold(s)'
  BY <1>2, <1>3 DEF ReadsHold, Ended, Reading, IsRead, Answer
<1> QED
  BY <1>1, <1>2, <1>3, <1>4, <1>5, <1>6, SessionStep

LEMMA QuietTables ==
  ASSUME NEW s \in Sessions, tables' = tables
  PROVE  TablesKeep(s)
BY DEF TablesKeep

LEMMA Unfolded ==
  ASSUME PInv, NEW s \in Sessions
  PROVE  SessionTypes /\ IsTables(tables) /\ DoesWhatIsAsked(s) /\ ChecksHold(s) /\ ReadsHold(s) /\ LocksHold
BY DEF PInv

\* A transaction that fails leaves no trace.
LEMMA FailedStep ==
  ASSUME PInv, NEW s \in Sessions, pc[s] # "done", NEW outcome \in {"rejected", "failed"},
         End(s, outcome), UNCHANGED <<tables, answer>>
  PROVE  PInv'
<1>1. request[s] # NoRequest /\ TablesKeep(s) /\ IsTables(tables') /\ DOMAIN answer = Sessions
  BY Unfolded, QuietTables DEF DoesWhatIsAsked, SessionTypes
<1>2. outcome \in Ended /\ outcome # "done"
  BY DEF Ended
<1> QED
  BY <1>1, <1>2, EndStep

LEMMA RefusedStep ==
  ASSUME PInv, NEW s \in Sessions, pc[s] # "done", Reject(s)
  PROVE  PInv'
<1>1. End(s, "rejected") /\ UNCHANGED <<tables, answer>>
  BY DEF Reject
<1> QED
  BY <1>1, FailedStep

\* A statement that takes no lock and changes no table, but moves on.
LEMMA QuietStep ==
  ASSUME PInv, NEW s \in Sessions, UNCHANGED <<tables, locks, request, answer>>,
         pc'[s] \in Statements, pc' = [o \in Sessions |-> IF o = s THEN pc'[s] ELSE pc[o]],
         moment' \in [Sessions -> Nat],
         DOMAIN snapshot' = Sessions, DOMAIN rows' = Sessions,
         \A o \in Sessions \ {s} : snapshot'[o] = snapshot[o] /\ rows'[o] = rows[o],
         DoesWhatIsAsked(s)', ChecksHold(s)', ReadsHold(s)'
  PROVE  PInv'
<1>1. OthersKeep(s) /\ LocksAreFree(s)
  BY DEF PInv, SessionTypes, LocksHold, OthersKeep, LocksAreFree, locks
<1>2. TablesKeep(s) /\ IsTables(tables')
  BY QuietTables DEF PInv
<1> QED
  BY <1>1, <1>2, SessionStep

LEMMA BeginStep ==
  ASSUME PInv, NEW s \in Sessions, Begin(s)
  PROVE  PInv'
<1>1. SessionTypes /\ DoesWhatIsAsked(s) /\ ChecksHold(s) /\ pc[s] = "idle"
  BY Unfolded DEF Begin
<1>2. PICK operation \in {"replace_policy", "archive", "post", "cancel_flow", "baseline", "safe_to_spend"} :
        request[s].operation = operation
  BY <1>1 DEF SessionTypes, DoesWhatIsAsked, RequestRow
<1>3. moment' \in [Sessions -> Nat]
  <2> DEFINE times == {moment[o] : o \in Sessions}
  <2>1. IsFiniteSet(times)
    BY ImageIsFinite, SessionAssumption
  <2>2. times # {} /\ times \subseteq Nat /\ times \subseteq Int
    BY <1>1 DEF SessionTypes
  <2>3. \E n \in times : \A m \in times : m <= n
    <3> HIDE DEF times
    <3> QED
      BY <2>1, <2>2, GreatestNumber
  <2>4. Max(times) \in times
    BY <2>2, <2>3 DEF Max
  <2>5. Max(times) + 1 \in Nat
    BY <2>2, <2>4
  <2> QED
    BY <1>1, <2>5 DEF SessionTypes, Begin
<1>4. /\ pc' = [o \in Sessions |-> IF o = s THEN pc'[s] ELSE pc[o]]
      /\ request' = request /\ shared' = shared /\ reading' = reading
      /\ pc'[s] = CASE operation = "replace_policy"        -> "owner"
                    [] operation \in {"archive", "post"}   -> "account"
                    [] operation = "cancel_flow"           -> "flow"
                    [] OTHER                               -> "policy"
  BY <1>1, <1>2 DEF Begin, Goto, SessionTypes, locks
<1>5. pc'[s] \in Statements
  BY <1>2, <1>4 DEF Statements
<1>6. DoesWhatIsAsked(s)'
  BY <1>1, <1>2, <1>4 DEF DoesWhatIsAsked, Asks, Reads, Replacing, Reading
<1>7. ChecksHold(s)'
  BY <1>1, <1>2, <1>4 DEF ChecksHold, Replacing
<1>8. ReadsHold(s)'
  BY <1>2, <1>4 DEF ReadsHold, Reading
<1> QED
  BY <1>1, <1>3, <1>4, <1>5, <1>6, <1>7, <1>8, QuietStep DEF Begin, SessionTypes, reading, locks
-----------------------------------------------------------------------------
(* Replacement of the policy *)

LEMMA LockOwnerStep ==
  ASSUME PInv, NEW s \in Sessions, LockOwner(s)
  PROVE  PInv'
<1>1. /\ SessionTypes /\ DoesWhatIsAsked(s) /\ ChecksHold(s) /\ pc[s] = "owner"
      /\ request' = request /\ shared' = shared /\ reading' = reading /\ tables' = tables /\ answer' = answer
      /\ moment' = moment
  BY Unfolded DEF LockOwner, Ready, Take
<1>2. /\ pc'[s] = "accounts" /\ pc' = [o \in Sessions |-> pc'[o]] /\ \A o \in Sessions \ {s} : pc'[o] = pc[o]
      /\ exclusive'[s] = exclusive[s] \cup {OwnerRow} /\ DOMAIN exclusive' = Sessions
      /\ \A o \in Sessions \ {s} : exclusive'[o] = exclusive[o]
  BY <1>1 DEF LockOwner, Goto, Take, SessionTypes
<1>3. OthersKeep(s)
  BY <1>1, <1>2 DEF OthersKeep, SessionTypes, reading
<1>4. LocksAreFree(s)
  BY <1>1, <1>2 DEF LocksAreFree, PInv, LocksHold, LockOwner, Ready, WaitsFor, ExclusiveBlockers
<1>5. DoesWhatIsAsked(s)'
  BY <1>1, <1>2 DEF DoesWhatIsAsked, Asks, Replacing, Reading
<1>6. ChecksHold(s)'
  BY <1>1, <1>2 DEF ChecksHold, Replacing
<1>7. ReadsHold(s)'
  BY <1>1, <1>2 DEF ReadsHold, Reading
<1> QED
  BY <1>1, <1>2, <1>3, <1>4, <1>5, <1>6, <1>7, SessionStep, QuietTables, Unfolded DEF SessionTypes, Statements, Replacing

\* An account that is shared is one that was eligible when its lock was granted.
LEMMA CheckAccountStep ==
  ASSUME PInv, NEW s \in Sessions, CheckAccount(s)
  PROVE  PInv'
<1> DEFINE a == Min(Unchecked(s))
<1>1. SessionTypes /\ DoesWhatIsAsked(s) /\ ChecksHold(s) /\ ReadsHold(s) /\ pc[s] = "accounts"
  BY Unfolded DEF CheckAccount, Ready
<1>2. CASE Reject(s)
  BY <1>1, <1>2, RefusedStep
<1>3. CASE /\ Unchecked(s) # {} /\ Eligible(tables, a)
           /\ Share(s, AccountOf(a)) /\ UNCHANGED <<pc, tables, request, moment, reading, answer>>
  <2>1. /\ exclusive' = exclusive /\ DOMAIN shared' = Sessions /\ shared'[s] = shared[s] \cup {AccountOf(a)}
        /\ \A o \in Sessions \ {s} : shared'[o] = shared[o]
    BY <1>1, <1>3 DEF Share, SessionTypes
  <2>2. OthersKeep(s)
    BY <1>1, <1>3, <2>1 DEF OthersKeep, SessionTypes, reading
  <2>3. ShareBlockers(s, AccountOf(a)) = {}
    BY <1>1, <1>3 DEF CheckAccount, Ready, WaitsFor
  <2>4. LocksAreFree(s)
    BY <2>1, <2>3 DEF LocksAreFree, PInv, LocksHold, ShareBlockers
  <2>5. DoesWhatIsAsked(s)' /\ ReadsHold(s)'
    BY <1>1, <1>3 DEF DoesWhatIsAsked, Asks, ReadsHold, IsRead, Answer, reading, Reading
  <2>6. ChecksHold(s)'
    BY <1>1, <1>3, <2>1 DEF ChecksHold, Replacing, Named, AccountOf
  <2> QED
    BY <1>1, <1>3, <2>2, <2>4, <2>5, <2>6, SessionStep, QuietTables, Unfolded DEF SessionTypes
<1>4. CASE /\ Unchecked(s) = {} /\ request[s].configuration.ids \subseteq DOMAIN tables.accounts
           /\ Goto(s, "compare") /\ UNCHANGED <<tables, locks, request, moment, reading, answer>>
  <2>1. pc' = [o \in Sessions |-> IF o = s THEN pc'[s] ELSE pc[o]] /\ pc'[s] = "compare"
    BY <1>1, <1>4 DEF Goto, SessionTypes
  <2>2. DoesWhatIsAsked(s)' /\ ReadsHold(s)'
    BY <1>1, <1>4, <2>1 DEF DoesWhatIsAsked, Asks, ReadsHold, Replacing, Reading
  <2>3. ChecksHold(s)'
    BY <1>1, <1>4, <2>1 DEF ChecksHold, Replacing, Named, Unchecked, locks
  <2> QED
    BY <1>1, <1>4, <2>1, <2>2, <2>3, QuietStep DEF SessionTypes, Statements, Replacing, reading
<1> QED
  BY <1>2, <1>3, <1>4 DEF CheckAccount

LEMMA ComparePolicyStep ==
  ASSUME PInv, NEW s \in Sessions, ComparePolicy(s)
  PROVE  PInv'
<1>1. SessionTypes /\ DoesWhatIsAsked(s) /\ ChecksHold(s) /\ ReadsHold(s) /\ pc[s] = "compare"
  BY Unfolded DEF ComparePolicy, Ready
<1>2. CASE samePolicyConfiguration(s)
  <2>1. /\ End(s, "done") /\ tables' = tables
        /\ DOMAIN answer' = Sessions /\ \A o \in Sessions \ {s} : answer'[o] = answer[o]
    BY <1>1, <1>2 DEF ComparePolicy, Done, SessionTypes
  <2>2. request[s] # NoRequest /\ ~ IsRead(s)
    BY <1>1 DEF DoesWhatIsAsked, Asks, Replacing, IsRead, Reads
  <2> QED
    BY <2>1, <2>2, EndStep, QuietTables, Unfolded DEF Ended
<1>3. CASE ~ samePolicyConfiguration(s)
  <2>1. /\ pc' = [o \in Sessions |-> IF o = s THEN pc'[s] ELSE pc[o]] /\ pc'[s] = "write"
        /\ UNCHANGED <<tables, locks, request, moment, reading, answer>>
    BY <1>1, <1>3 DEF ComparePolicy, Goto, SessionTypes
  <2>2. DoesWhatIsAsked(s)' /\ ReadsHold(s)'
    BY <1>1, <2>1 DEF DoesWhatIsAsked, Asks, ReadsHold, Replacing, Reading
  <2>3. ChecksHold(s)'
    BY <1>1, <1>3, <2>1 DEF ChecksHold, Replacing, Named, locks, samePolicyConfiguration
  <2> QED
    BY <1>1, <2>1, <2>2, <2>3, QuietStep DEF SessionTypes, Statements, Replacing, reading
<1> QED
  BY <1>2, <1>3

LEMMA PolicyIs ==
  ASSUME PInv, NEW s \in Sessions, pc[s] = "write"
  PROVE  /\ NewPolicy(s) \in PolicyRow /\ NewPolicy(s).configuration = request[s].configuration
         /\ NewPolicy(s).configuration.ids \subseteq DOMAIN tables.accounts
<1>1. request[s] \in RequestRow /\ ChecksHold(s) /\ moment[s] \in Nat
  BY Unfolded DEF SessionTypes, DoesWhatIsAsked
<1>2. request[s].configuration \in Configuration
  BY <1>1 DEF RequestRow
<1>3. tables.policy # NoPolicy => tables.policy.version \in Nat \ {0} /\ tables.policy.created \in Nat
  BY DEF PInv, IsTables, PolicyRow
<1> QED
  BY <1>1, <1>2, <1>3 DEF NewPolicy, PolicyRow, ChecksHold, Named

LEMMA WritePolicyStep ==
  ASSUME PInv, NEW s \in Sessions, WritePolicy(s)
  PROVE  PInv'
<1>1. SessionTypes /\ DoesWhatIsAsked(s) /\ ChecksHold(s) /\ pc[s] = "write"
  BY Unfolded DEF WritePolicy, Ready
<1>2. CASE Reject(s)
  BY <1>1, <1>2, RefusedStep
<1>3. CASE /\ ~ NewPolicy(s).updated < NewPolicy(s).created
           /\ tables' = [tables EXCEPT !.policy = NewPolicy(s)] /\ Done(s, NewPolicy(s))
  <2>1. NewPolicy(s).created <= NewPolicy(s).updated
    BY <1>1, <1>3, PolicyIs DEF PolicyRow
  <2>2. IsTables(tables')
    BY <1>1, <1>3, <2>1, PolicyIs, PolicyKeepsTypes DEF PInv
  <2>3. tables'.accounts = tables.accounts
    BY <1>3, <2>2, Unfolded DEF IsTables
  <2>4. TablesKeep(s)
    BY <1>1, <2>3 DEF TablesKeep, Eligible, ChecksHold, Replacing
  <2>5. request[s] # NoRequest /\ ~ IsRead(s)
    BY <1>1 DEF DoesWhatIsAsked, Asks, Replacing, IsRead, Reads
  <2>6. /\ End(s, "done") /\ DOMAIN answer' = Sessions /\ \A o \in Sessions \ {s} : answer'[o] = answer[o]
    BY <1>1, <1>3 DEF Done, SessionTypes
  <2> QED
    BY <2>2, <2>4, <2>5, <2>6, EndStep DEF Ended
<1> QED
  BY <1>2, <1>3 DEF WritePolicy

-----------------------------------------------------------------------------
(* The ledger and the schedule *)

LEMMA LockAccountStep ==
  ASSUME PInv, NEW s \in Sessions, LockAccount(s)
  PROVE  PInv'
<1> DEFINE row == AccountOf(request[s].account)
<1>1. /\ SessionTypes /\ DoesWhatIsAsked(s) /\ ChecksHold(s) /\ pc[s] = "account"
      /\ request' = request /\ shared' = shared /\ reading' = reading /\ tables' = tables /\ answer' = answer
      /\ moment' = moment
  BY Unfolded DEF LockAccount, Ready, Take
<1>2. /\ pc'[s] = (IF request[s].operation = "archive" THEN "archive" ELSE "claim")
      /\ pc' = [o \in Sessions |-> pc'[o]] /\ \A o \in Sessions \ {s} : pc'[o] = pc[o]
      /\ exclusive'[s] = exclusive[s] \cup {row} /\ DOMAIN exclusive' = Sessions
      /\ \A o \in Sessions \ {s} : exclusive'[o] = exclusive[o]
  BY <1>1 DEF LockAccount, Goto, Take, SessionTypes
<1>3. OthersKeep(s)
  BY <1>1, <1>2 DEF OthersKeep, SessionTypes, reading
<1>4. LocksAreFree(s)
  BY <1>1, <1>2 DEF LocksAreFree, PInv, LocksHold, LockAccount, Ready, WaitsFor, ExclusiveBlockers
<1>5. DoesWhatIsAsked(s)'
  BY <1>1, <1>2 DEF DoesWhatIsAsked, Asks, Replacing, Reading
<1>6. ChecksHold(s)'
  BY <1>1, <1>2 DEF ChecksHold, Replacing
<1>7. ReadsHold(s)'
  BY <1>1, <1>2 DEF ReadsHold, Reading
<1> QED
  BY <1>1, <1>2, <1>3, <1>4, <1>5, <1>6, <1>7, SessionStep, QuietTables, Unfolded DEF SessionTypes, Statements

\* An account that is archived is shared by nobody.
LEMMA ArchiveAccountStep ==
  ASSUME PInv, NEW s \in Sessions, ArchiveAccount(s)
  PROVE  PInv'
<1> DEFINE x == request[s].account
<1>1. SessionTypes /\ DoesWhatIsAsked(s) /\ ChecksHold(s) /\ IsTables(tables) /\ LocksHold /\ pc[s] = "archive"
  BY Unfolded DEF ArchiveAccount, Ready
<1>2. CASE Reject(s)
  BY <1>1, <1>2, RefusedStep
<1>3. CASE tables' = [tables EXCEPT !.accounts[x].status = "archived"] /\ Done(s, NoAnswer)
  <2> DEFINE accounts == [tables.accounts EXCEPT ![x].status = "archived"]
  <2>1. accounts \in [DOMAIN tables.accounts -> AccountRow]
        /\ \A a \in DOMAIN tables.accounts \ {x} : accounts[a] = tables.accounts[a]
    BY <1>1 DEF IsTables, AccountRow
  <2>2. tables' = [tables EXCEPT !.accounts = accounts]
    BY <1>1, <1>3 DEF IsTables
  <2>3. IsTables(tables') /\ tables'.accounts = accounts /\ tables'.policy = tables.policy
    <3> HIDE DEF accounts
    <3> QED
      BY <1>1, <2>1, <2>2, AccountsKeepTypes DEF IsTables
  <2>4. ASSUME NEW o \in Sessions \ {s}, NEW a, AccountOf(a) \in shared[o] PROVE a # x
    BY <1>1, <2>4 DEF ChecksHold, LocksHold
  <2>5. ASSUME NEW a, a # x PROVE tables'.accounts[a] = tables.accounts[a]
    <3>1. CASE a \in DOMAIN tables.accounts
      BY <2>1, <2>3, <2>5, <3>1
    <3> QED
      BY <2>3, <2>5, <3>1
  <2>6. TablesKeep(s)
    BY <2>1, <2>3, <2>4, <2>5 DEF TablesKeep, Eligible
  <2>7. request[s] # NoRequest /\ ~ IsRead(s)
    BY <1>1 DEF DoesWhatIsAsked, Asks, IsRead, Reads
  <2>8. /\ End(s, "done") /\ DOMAIN answer' = Sessions /\ \A o \in Sessions \ {s} : answer'[o] = answer[o]
    BY <1>1, <1>3 DEF Done, SessionTypes
  <2> QED
    BY <2>3, <2>6, <2>7, <2>8, EndStep DEF Ended
<1> QED
  BY <1>2, <1>3 DEF ArchiveAccount

LEMMA ClaimMutationStep ==
  ASSUME PInv, NEW s \in Sessions, ClaimMutation(s)
  PROVE  PInv'
<1>1. /\ SessionTypes /\ DoesWhatIsAsked(s) /\ ChecksHold(s) /\ pc[s] = "claim"
      /\ request' = request /\ exclusive' = exclusive /\ reading' = reading /\ tables' = tables /\ answer' = answer
      /\ moment' = moment
  BY Unfolded DEF ClaimMutation, Ready, Share
<1>2. /\ pc'[s] = (IF request[s].operation = "post" THEN "post" ELSE "cancel")
      /\ pc' = [o \in Sessions |-> pc'[o]] /\ \A o \in Sessions \ {s} : pc'[o] = pc[o]
      /\ shared'[s] = shared[s] \cup {OwnerRow} /\ DOMAIN shared' = Sessions
      /\ \A o \in Sessions \ {s} : shared'[o] = shared[o]
  BY <1>1 DEF ClaimMutation, Goto, Share, SessionTypes
<1>3. OthersKeep(s)
  BY <1>1, <1>2 DEF OthersKeep, SessionTypes, reading
<1>4. LocksAreFree(s)
  BY <1>1, <1>2 DEF LocksAreFree, PInv, LocksHold, ClaimMutation, Ready, WaitsFor, ShareBlockers
<1>5. DoesWhatIsAsked(s)'
  BY <1>1, <1>2 DEF DoesWhatIsAsked, Asks, Replacing, Reading
<1>6. ChecksHold(s)'
  BY <1>1, <1>2 DEF ChecksHold, Replacing
<1>7. ReadsHold(s)'
  BY <1>1, <1>2 DEF ReadsHold, Reading
<1> QED
  BY <1>1, <1>2, <1>3, <1>4, <1>5, <1>6, <1>7, SessionStep, QuietTables, Unfolded DEF SessionTypes, Statements

LEMMA PostTransactionStep ==
  ASSUME PInv, NEW s \in Sessions, PostTransaction(s)
  PROVE  PInv'
<1> DEFINE x == request[s].account
<1>1. SessionTypes /\ DoesWhatIsAsked(s) /\ IsTables(tables) /\ pc[s] = "post"
  BY Unfolded DEF PostTransaction, Ready
<1>2. CASE Reject(s)
  BY <1>1, <1>2, RefusedStep
<1>3. CASE tables' = [tables EXCEPT !.accounts[x].balance = @ + request[s].amount] /\ Done(s, NoAnswer)
  <2> DEFINE accounts == [tables.accounts EXCEPT ![x].balance = @ + request[s].amount]
  <2>1. request[s].amount \in Int
    BY <1>1 DEF SessionTypes, DoesWhatIsAsked, RequestRow
  <2>2. /\ accounts \in [DOMAIN tables.accounts -> AccountRow]
        /\ \A a \in DOMAIN tables.accounts :
             accounts[a].status = tables.accounts[a].status /\ accounts[a].type = tables.accounts[a].type
    <3>1. tables.accounts \in [DOMAIN tables.accounts -> AccountRow]
      BY <1>1 DEF IsTables
    <3>2. \A a \in DOMAIN tables.accounts : accounts[a] =
            IF a = x THEN [tables.accounts[a] EXCEPT !.balance = tables.accounts[a].balance + request[s].amount]
            ELSE tables.accounts[a]
      BY <3>1
    <3>3. ASSUME NEW a \in DOMAIN tables.accounts
          PROVE  /\ accounts[a] \in AccountRow
                 /\ accounts[a].status = tables.accounts[a].status /\ accounts[a].type = tables.accounts[a].type
      <4>1. tables.accounts[a] \in AccountRow
        BY <3>1
      <4>2. accounts[a] = IF a = x THEN [tables.accounts[a] EXCEPT !.balance = tables.accounts[a].balance + request[s].amount]
                          ELSE tables.accounts[a]
        BY <3>2
      <4> HIDE DEF accounts
      <4> QED
        BY <2>1, <4>1, <4>2 DEF AccountRow
    <3> QED
      BY <3>1, <3>3
  <2>3. tables' = [tables EXCEPT !.accounts = accounts]
    BY <1>1, <1>3 DEF IsTables
  <2>4. IsTables(tables') /\ tables'.accounts = accounts /\ tables'.policy = tables.policy
    <3> HIDE DEF accounts
    <3> QED
      BY <1>1, <2>2, <2>3, AccountsKeepTypes DEF IsTables
  <2>5. ASSUME NEW a, Eligible(tables, a) PROVE Eligible(tables', a)
    <3>1. CASE a \in DOMAIN tables.accounts
      BY <2>2, <2>4, <2>5, <3>1 DEF Eligible, IsLiquid
    <3>2. CASE a \notin DOMAIN tables.accounts
      BY <2>4, <2>5, <3>2 DEF Eligible
    <3> QED
      BY <3>1, <3>2
  <2>6. TablesKeep(s)
    BY <2>2, <2>4, <2>5 DEF TablesKeep
  <2>7. request[s] # NoRequest /\ ~ IsRead(s)
    BY <1>1 DEF DoesWhatIsAsked, Asks, IsRead, Reads
  <2>8. /\ End(s, "done") /\ DOMAIN answer' = Sessions /\ \A o \in Sessions \ {s} : answer'[o] = answer[o]
    BY <1>1, <1>3 DEF Done, SessionTypes
  <2> QED
    BY <2>4, <2>6, <2>7, <2>8, EndStep DEF Ended
<1> QED
  BY <1>2, <1>3 DEF PostTransaction

LEMMA LockFlowStep ==
  ASSUME PInv, NEW s \in Sessions, LockFlow(s)
  PROVE  PInv'
<1> DEFINE row == FlowOf(request[s].flow)
<1>1. SessionTypes /\ DoesWhatIsAsked(s) /\ ChecksHold(s) /\ pc[s] = "flow"
  BY Unfolded DEF LockFlow, Ready
<1>2. CASE Reject(s)
  BY <1>1, <1>2, RefusedStep
<1>3. CASE Take(s, row) /\ Goto(s, "claim") /\ UNCHANGED <<tables, request, moment, reading, answer>>
  <2>1. /\ pc'[s] = "claim" /\ pc' = [o \in Sessions |-> pc'[o]] /\ \A o \in Sessions \ {s} : pc'[o] = pc[o]
        /\ exclusive'[s] = exclusive[s] \cup {row} /\ DOMAIN exclusive' = Sessions
        /\ \A o \in Sessions \ {s} : exclusive'[o] = exclusive[o]
        /\ shared' = shared
    BY <1>1, <1>3 DEF Goto, Take, SessionTypes
  <2>2. OthersKeep(s)
    BY <1>1, <1>3, <2>1 DEF OthersKeep, SessionTypes, reading
  <2>3. LocksAreFree(s)
    BY <1>1, <2>1 DEF LocksAreFree, PInv, LocksHold, LockFlow, Ready, WaitsFor, ExclusiveBlockers
  <2>4. DoesWhatIsAsked(s)'
    BY <1>1, <1>3, <2>1 DEF DoesWhatIsAsked, Asks, Replacing, Reading
  <2>5. ChecksHold(s)' /\ ReadsHold(s)'
    BY <2>1 DEF ChecksHold, ReadsHold, Replacing, Reading
  <2> QED
    BY <1>1, <1>3, <2>1, <2>2, <2>3, <2>4, <2>5, SessionStep, QuietTables, Unfolded DEF SessionTypes, Statements
<1> QED
  BY <1>2, <1>3 DEF LockFlow

LEMMA CancelFlowStep ==
  ASSUME PInv, NEW s \in Sessions, CancelFlow(s)
  PROVE  PInv'
<1> DEFINE cancelled == WithCancelled(tables.flows, request[s].flow)
<1>1. SessionTypes /\ DoesWhatIsAsked(s) /\ IsTables(tables) /\ pc[s] = "cancel"
  BY Unfolded DEF CancelFlow, Ready
<1>2. CASE Reject(s)
  BY <1>1, <1>2, RefusedStep
<1>3. CASE tables' = [tables EXCEPT !.flows = cancelled] /\ Done(s, NoAnswer)
  <2>1. IsTable(cancelled) /\ cancelled \subseteq FlowRow
    BY <1>1, CancelledFlows DEF IsTables
  <2>2. IsTables(tables') /\ tables'.accounts = tables.accounts /\ tables'.policy = tables.policy
    <3> HIDE DEF cancelled
    <3> QED
      BY <1>1, <1>3, <2>1, FlowsKeepTypes DEF IsTables
  <2>3. TablesKeep(s)
    BY <2>2 DEF TablesKeep, Eligible
  <2>4. request[s] # NoRequest /\ ~ IsRead(s)
    BY <1>1 DEF DoesWhatIsAsked, Asks, IsRead, Reads
  <2>5. /\ End(s, "done") /\ DOMAIN answer' = Sessions /\ \A o \in Sessions \ {s} : answer'[o] = answer[o]
    BY <1>1, <1>3 DEF Done, SessionTypes
  <2> QED
    BY <2>2, <2>3, <2>4, <2>5, EndStep DEF Ended
<1>4. tables' = [tables EXCEPT !.flows = WithCancelled(@, request[s].flow)] => tables' = [tables EXCEPT !.flows = cancelled]
  BY <1>1 DEF IsTables
<1> QED
  BY <1>2, <1>3, <1>4 DEF CancelFlow

-----------------------------------------------------------------------------
(* The projection's reads *)

LEMMA ReadPolicyStep ==
  ASSUME PInv, NEW s \in Sessions, ReadPolicy(s)
  PROVE  PInv'
<1>1. /\ SessionTypes /\ DoesWhatIsAsked(s) /\ ChecksHold(s) /\ IsTables(tables) /\ pc[s] = "policy"
      /\ UNCHANGED <<tables, locks, request, moment, answer>>
  BY Unfolded DEF ReadPolicy, Ready
<1>2. /\ pc' = [o \in Sessions |-> IF o = s THEN pc'[s] ELSE pc[o]] /\ pc'[s] = "read_accounts"
      /\ DOMAIN snapshot' = Sessions /\ DOMAIN rows' = Sessions
      /\ \A o \in Sessions \ {s} : snapshot'[o] = snapshot[o] /\ rows'[o] = rows[o]
      /\ snapshot'[s] = tables /\ rows'[s] = tables
  BY <1>1 DEF ReadPolicy, Goto, SessionTypes
<1>3. DoesWhatIsAsked(s)' /\ ChecksHold(s)' /\ ReadsHold(s)'
  BY <1>1, <1>2 DEF DoesWhatIsAsked, Asks, ChecksHold, ReadsHold, Replacing, Reading
<1> QED
  BY <1>1, <1>2, <1>3, QuietStep DEF SessionTypes, Statements, Reading

LEMMA ReadAccountsStep ==
  ASSUME PInv, NEW s \in Sessions, ReadAccounts(s)
  PROVE  PInv'
<1>1. /\ SessionTypes /\ DoesWhatIsAsked(s) /\ ReadsHold(s) /\ pc[s] = "read_accounts"
      /\ UNCHANGED <<tables, locks, request, moment, snapshot, answer>>
  BY Unfolded DEF ReadAccounts, Ready
<1>2. rows[s] = snapshot[s] /\ IsTables(snapshot[s])
  BY <1>1 DEF ReadsHold, Reading
<1>3. /\ pc' = [o \in Sessions |-> IF o = s THEN pc'[s] ELSE pc[o]] /\ pc'[s] = "read_future"
      /\ DOMAIN rows' = Sessions /\ \A o \in Sessions \ {s} : rows'[o] = rows[o]
      /\ rows'[s] = [rows[s] EXCEPT !.accounts = snapshot[s].accounts]
  BY <1>1 DEF ReadAccounts, Goto, SessionTypes, Visible
<1>4. rows'[s] = snapshot[s]
  BY <1>2, <1>3 DEF IsTables
<1>5. DoesWhatIsAsked(s)' /\ ChecksHold(s)' /\ ReadsHold(s)'
  BY <1>1, <1>2, <1>3, <1>4 DEF DoesWhatIsAsked, Asks, ChecksHold, ReadsHold, Replacing, Reading
<1> QED
  BY <1>1, <1>3, <1>5, QuietStep DEF SessionTypes, Statements, Reading

LEMMA ReadFutureStep ==
  ASSUME PInv, NEW s \in Sessions, ReadFuture(s)
  PROVE  PInv'
<1>1. /\ SessionTypes /\ DoesWhatIsAsked(s) /\ ReadsHold(s) /\ pc[s] = "read_future"
      /\ UNCHANGED <<tables, locks, request, moment, snapshot, answer>>
  BY Unfolded DEF ReadFuture, Ready
<1>2. rows[s] = snapshot[s] /\ IsTables(snapshot[s])
  BY <1>1 DEF ReadsHold, Reading
<1>3. /\ pc' = [o \in Sessions |-> IF o = s THEN pc'[s] ELSE pc[o]] /\ pc'[s] = "calculate"
      /\ DOMAIN rows' = Sessions /\ \A o \in Sessions \ {s} : rows'[o] = rows[o]
      /\ rows'[s] = [snapshot[s] EXCEPT !.policy = rows[s].policy, !.accounts = rows[s].accounts]
  BY <1>1 DEF ReadFuture, Goto, SessionTypes, Visible
<1>4. rows'[s] = snapshot[s]
  BY <1>2, <1>3 DEF IsTables
<1>5. DoesWhatIsAsked(s)' /\ ChecksHold(s)' /\ ReadsHold(s)'
  BY <1>1, <1>2, <1>3, <1>4 DEF DoesWhatIsAsked, Asks, ChecksHold, ReadsHold, Replacing, Reading
<1> QED
  BY <1>1, <1>3, <1>5, QuietStep DEF SessionTypes, Statements, Reading

LEMMA CalculatedStep ==
  ASSUME PInv, NEW s \in Sessions, Calculated(s)
  PROVE  PInv'
<1>1. SessionTypes /\ DoesWhatIsAsked(s) /\ ReadsHold(s) /\ IsTables(tables) /\ pc[s] = "calculate"
  BY Unfolded DEF Calculated, Ready
<1>2. rows[s] = snapshot[s] /\ request[s] # NoRequest
  BY <1>1 DEF ReadsHold, Reading, DoesWhatIsAsked
<1>3. /\ End(s, "done") /\ tables' = tables /\ answer'[s] = Answer(s, snapshot[s])
      /\ DOMAIN answer' = Sessions /\ \A o \in Sessions \ {s} : answer'[o] = answer[o]
  BY <1>1, <1>2 DEF Calculated, Done, SessionTypes
<1> QED
  BY <1>1, <1>2, <1>3, EndStep, QuietTables DEF Ended

-----------------------------------------------------------------------------
(* Every step *)

LEMMA InitPInv == Init => PInv
<1> SUFFICES ASSUME Init PROVE PInv
  OBVIOUS
<1>1. PICK c \in Cases : tables = c.tables /\ request = c.request
  BY DEF Init
<1>2. IsTables(tables) /\ request \in [Sessions -> RequestRow \cup {NoRequest}]
  BY <1>1, CaseAssumption
<1>3. SessionTypes
  BY <1>2 DEF Init, SessionTypes, Statements, Ended
<1>4. LocksHold
  BY DEF Init, LocksHold
<1>5. ASSUME NEW s \in Sessions PROVE DoesWhatIsAsked(s) /\ ChecksHold(s) /\ ReadsHold(s)
  <2>1. pc[s] = (IF request[s] = NoRequest THEN "done" ELSE "idle") /\ shared[s] = {}
    BY DEF Init
  <2> QED
    BY <2>1 DEF DoesWhatIsAsked, ChecksHold, ReadsHold, IsRead, Replacing, Reading
<1> QED
  BY <1>2, <1>3, <1>4, <1>5 DEF PInv

LEMMA NextPreservesPInv == PInv /\ [Next]_vars => PInv'
<1> SUFFICES ASSUME PInv, [Next]_vars PROVE PInv'
  OBVIOUS
<1>1. CASE \E s \in Sessions : Begin(s)
  BY <1>1, BeginStep
<1>2. ASSUME NEW s \in Sessions, Progress(s) PROVE PInv'
  <2>1. CASE LockOwner(s) \/ CheckAccount(s) \/ ComparePolicy(s) \/ WritePolicy(s)
    BY <2>1, LockOwnerStep, CheckAccountStep, ComparePolicyStep, WritePolicyStep
  <2>2. CASE \/ LockAccount(s) \/ ArchiveAccount(s) \/ ClaimMutation(s) \/ PostTransaction(s)
             \/ LockFlow(s) \/ CancelFlow(s)
    BY <2>2, LockAccountStep, ArchiveAccountStep, ClaimMutationStep, PostTransactionStep, LockFlowStep, CancelFlowStep
  <2>3. CASE ReadPolicy(s) \/ ReadAccounts(s) \/ ReadFuture(s) \/ Calculated(s)
    BY <2>3, ReadPolicyStep, ReadAccountsStep, ReadFutureStep, CalculatedStep
  <2>4. CASE BreakDeadlock(s)
    <3>1. pc[s] # "done"
      BY <2>4 DEF BreakDeadlock, InDeadlock, WaitsFor
    <3>2. End(s, "failed") /\ UNCHANGED <<tables, answer>>
      BY <2>4 DEF BreakDeadlock
    <3> QED
      BY <3>1, <3>2, FailedStep
  <2> QED
    BY <1>2, <2>1, <2>2, <2>3, <2>4 DEF Progress
<1>3. ASSUME NEW s \in Sessions, Fail(s) PROVE PInv'
  <2>1. pc[s] # "done" /\ End(s, "failed") /\ UNCHANGED <<tables, answer>>
    BY <1>3 DEF Fail, Ended
  <2> QED
    BY <2>1, FailedStep
<1>4. CASE UNCHANGED vars
  <2>1. SessionTypes' /\ LocksHold' /\ IsTables(tables')
    BY <1>4 DEF PInv, SessionTypes, LocksHold, vars, locks, reading
  <2>2. ASSUME NEW s \in Sessions PROVE (DoesWhatIsAsked(s) /\ ChecksHold(s) /\ ReadsHold(s))'
    BY <1>4 DEF PInv, DoesWhatIsAsked, Asks, ChecksHold, Named, samePolicyConfiguration, ReadsHold, IsRead, Answer,
                vars, locks, reading
  <2> QED
    BY <2>1, <2>2 DEF PInv
<1> QED
  BY <1>1, <1>2, <1>3, <1>4 DEF Next, AllServed

LEMMA SpecKeepsPInv == Spec => []PInv
BY InitPInv, NextPreservesPInv, PTL DEF Spec

\* The tables keep their columns' types, foreign keys and CHECKs whatever
\* commits between the statements of others (a policy's times among them), and
\* no row that is locked for update is locked by another session.
THEOREM ProjectionTypes == Spec => []TablesTypeOK
<1>1. PInv => TablesTypeOK
  BY DEF PInv, TablesTypeOK, LocksHold, ExclusiveBlockers, SessionTypes
<1> QED
  BY <1>1, SpecKeepsPInv, PTL

\* Whatever the calendar is, and whatever the tables hold: an obligation of
\* theirs expands to each of its due dates once, and fails only past the last
\* date or over the limit (Occurrences of recurrence.go).
THEOREM ProjectionExpansionsAreExact == Spec => []ExpansionsAreExact
<1>1. PInv => ExpansionsAreExact
  <2> SUFFICES ASSUME PInv, NEW o \in tables.obligations, NEW from \in Dates, NEW to \in from..LastDate
               PROVE  ExpandsExactly(o, from, to)
    BY DEF ExpansionsAreExact
  <2>1. IsObligation(o)
    BY DEF PInv, IsTables
  <2>2. to \in Dates
    BY CalendarTypes DEF Dates
  <2> QED
    BY <2>1, <2>2, ObligationsExpandExactly
<1> QED
  BY <1>1, SpecKeepsPInv, PTL

\* Whatever the tables hold and the clock shows: what is safe to spend from a
\* liquid account is the greatest amount that it holds and that leaves every
\* balance on the way at the reserve or above it, and the status, the deficit and
\* the two dates say why (safe_to_spend.go, engine.go).
THEOREM ProjectionSafeToSpendIsExact == Spec => []SafeToSpendIsExact
<1>1. PInv => SafeToSpendIsExact
  <2> SUFFICES ASSUME PInv, NEW asOf \in Today, NEW a \in DOMAIN tables.accounts,
                      SafeToSpend(tables, Baseline(tables, asOf), a).error = "none"
               PROVE  LET b == Baseline(tables, asOf)
                          s == SafeToSpend(tables, b, a)
                      IN
                      IF IsLiquid(tables.accounts[a]) /\ tables.issues = {}
                        THEN SpendableIs(b, tables.accounts[a], s.amount) /\ StatusIs(b, tables.accounts[a], s)
                        ELSE s.amount = 0
    BY DEF SafeToSpendIsExact
  <2>1. IsTables(tables) /\ asOf \in Dates
    BY TodayAssumption DEF PInv
  <2> QED
    BY <2>1, TablesSpendExactly
<1> QED
  BY <1>1, SpecKeepsPInv, PTL

\* Whatever the tables hold and the clock shows: every day of a projection ends
\* with the money of the accounts, what is relied on by then and not what is owed
\* by then, every row in range is one event or one exclusion, and none of them
\* makes the projection fail (service.go, engine.go).
THEOREM ProjectionCountsEveryRowOnce == Spec => []EveryRowIsCountedOnce
<1>1. PInv => EveryRowIsCountedOnce
  <2> SUFFICES ASSUME PInv, NEW asOf \in Today
               PROVE  LET b == Baseline(tables, asOf) IN
                      /\ b.error # "invalid_event"
                      /\ b.error = "none" => CountedOnce(tables, b) /\ ExplainedOnce(tables, b)
    BY DEF EveryRowIsCountedOnce
  <2>1. IsTables(tables) /\ asOf \in Dates
    BY TodayAssumption DEF PInv
  <2> QED
    BY <2>1, NoEventIsRefused, DaysAreCountedOnce, RowsAreExplainedOnce
<1> QED
  BY <1>1, SpecKeepsPInv, PTL

\* What a projection answers is what the tables were when its first query ran.
THEOREM ProjectionsAreOfOneMoment == Spec => []AnswersAreOfOneMoment
<1>1. PInv => AnswersAreOfOneMoment
  BY DEF PInv, AnswersAreOfOneMoment, ReadsHold
<1> QED
  BY <1>1, SpecKeepsPInv, PTL

-----------------------------------------------------------------------------
(* Policies *)

PolicyStep ==
  tables'.policy # tables.policy =>
    LET new == tables'.policy IN
    /\ \A a \in new.configuration.ids : Eligible(tables, a)
    /\ IF tables.policy = NoPolicy THEN new.version = 1
       ELSE /\ new.version = tables.policy.version + 1
            /\ new.configuration # tables.policy.configuration
            /\ new.created = tables.policy.created

LEMMA NextKeepsPoliciesSound == PInv /\ [Next]_vars => [PolicyStep]_vars
<1> SUFFICES ASSUME PInv, [Next]_vars, tables'.policy # tables.policy
             PROVE  PolicyStep
  BY DEF PolicyStep
<1>1. ASSUME NEW s \in Sessions, WritePolicy(s) PROVE PolicyStep
  <2>1. tables' = [tables EXCEPT !.policy = NewPolicy(s)] /\ pc[s] = "write"
    BY <1>1 DEF WritePolicy, Reject, Ready
  <2>2. ChecksHold(s) /\ IsTables(tables)
    BY Unfolded
  <2>3. tables'.policy = NewPolicy(s)
    BY <2>1, <2>2 DEF IsTables
  <2>4. \A a \in request[s].configuration.ids : Eligible(tables, a)
    BY <2>1, <2>2 DEF ChecksHold, Named, Replacing
  <2>5. ~ samePolicyConfiguration(s)
    BY <2>1, <2>2 DEF ChecksHold
  <2> QED
    BY <2>3, <2>4, <2>5 DEF PolicyStep, NewPolicy, samePolicyConfiguration
<1>2. ASSUME NEW s \in Sessions, ArchiveAccount(s) \/ PostTransaction(s) \/ CancelFlow(s) PROVE FALSE
  BY <1>2 DEF ArchiveAccount, PostTransaction, CancelFlow, Reject, PInv, IsTables
<1>3. ASSUME NEW s \in Sessions,
             \/ LockOwner(s) \/ CheckAccount(s) \/ ComparePolicy(s)
             \/ LockAccount(s) \/ LockFlow(s) \/ ClaimMutation(s)
      PROVE  FALSE
  BY <1>3 DEF LockOwner, CheckAccount, ComparePolicy, LockAccount, LockFlow, ClaimMutation, Reject
<1>4. ASSUME NEW s \in Sessions,
             \/ Begin(s) \/ ReadPolicy(s) \/ ReadAccounts(s) \/ ReadFuture(s) \/ Calculated(s)
             \/ BreakDeadlock(s) \/ Fail(s)
      PROVE  FALSE
  BY <1>4 DEF Begin, ReadPolicy, ReadAccounts, ReadFuture, Calculated, BreakDeadlock, Fail
<1>5. CASE UNCHANGED vars
  BY <1>5 DEF vars
<1> QED
  BY <1>1, <1>2, <1>3, <1>4, <1>5 DEF Next, Progress, AllServed

\* A policy changes by one version, to another configuration, and only while
\* every account that it names is active and liquid: the replacement holds the
\* owner's row and shares these accounts from its check to its commit.
THEOREM ProjectionPoliciesAreSound == Spec => PolicyChangesAreSound
<1>1. PInv /\ [Next]_vars => [PolicyStep]_vars
  BY NextKeepsPoliciesSound
<1>2. Spec => [][PolicyStep]_vars
  BY <1>1, SpecKeepsPInv, PTL DEF Spec
<1> QED
  BY <1>2 DEF PolicyChangesAreSound, PolicyStep

=============================================================================
