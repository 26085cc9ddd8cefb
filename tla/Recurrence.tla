----------------------------- MODULE Recurrence -----------------------------
(***************************************************************************)
(* How an obligation expands to dates: internal/domain/schedule/           *)
(* recurrence.go over internal/domain/financialdate.  A date is a day      *)
(* number of a calendar whose months end on the days MonthEnds; the last   *)
(* of them stands for 9999-12-31, after which there is no date.            *)
(***************************************************************************)
EXTENDS Integers, Sequences, FiniteSets, FiniteSetsExt

CONSTANTS
  MonthEnds,            \* the last day of each month of the calendar
  WeekDays,             \* days of a week
  MaxOccurrenceCount,   \* occurrences an expansion may have (1000)
  NoDate                \* no end date, not archived, no expected date

ASSUME CalendarAssumption ==
  /\ MonthEnds \in Seq(Nat \ {0}) /\ MonthEnds # <<>>
  /\ \A m, n \in DOMAIN MonthEnds : m < n => MonthEnds[m] < MonthEnds[n]

ASSUME DateAssumption == NoDate \notin Int

ASSUME OccurrenceAssumption == WeekDays \in Nat \ {0} /\ MaxOccurrenceCount \in Nat

-----------------------------------------------------------------------------
(* Dates *)

Months == DOMAIN MonthEnds

\* Days of the calendar before a month.
DaysBefore(month) == IF month = 1 THEN 0 ELSE MonthEnds[month - 1]

MonthLength(month) == MonthEnds[month] - DaysBefore(month)

LastDate == MonthEnds[Len(MonthEnds)]

Dates == 1..LastDate

MonthOf(date) == CHOOSE m \in Months : DaysBefore(m) < date /\ date <= MonthEnds[m]

DayOf(date) == date - DaysBefore(MonthOf(date))

\* Calendar days later: an error, NoDate, beyond the last date.
AddDays(date, days) == IF date + days <= LastDate THEN date + days ELSE NoDate

-----------------------------------------------------------------------------
(* Obligations *)

Recurrences == {"one_time", "weekly", "biweekly", "monthly"}

\* What the domain accepts: an end on or after the start, any date of archival.
ObligationRow == [id : Nat, amount : Nat \ {0}, exact : BOOLEAN, start : Dates, recurrence : Recurrences,
                  end : Dates \cup {NoDate}, inactiveFrom : Dates \cup {NoDate}]

Ends(o) == o.end # NoDate

IsObligation(o) == o \in ObligationRow /\ (Ends(o) => o.start <= o.end)

IsArchived(o) == o.inactiveFrom # NoDate

\* Mutant: the day is taken from the month before, not from the start.
driftingMonth(start, offset) ==
  LET month == MonthOf(start) + offset
      day == Min({DayOf(start)} \cup {MonthLength(m) : m \in {n \in Months : n < month /\ n >= MonthOf(start)}})
  IN
  IF month \in Months THEN DaysBefore(month) + Min({day, MonthLength(month)}) ELSE NoDate

\* A day of a month, or the last one of a shorter month.
ClampedDate(month, day) ==
  IF month \in Months THEN DaysBefore(month) + Min({day, MonthLength(month)}) ELSE NoDate

\* The anchor's day in a later month.
anchoredMonth(start, offset) == ClampedDate(MonthOf(start) + offset, DayOf(start))

\* The date that the loop looks at after k others.
Candidate(o, k) ==
  CASE o.recurrence = "monthly"  -> anchoredMonth(o.start, k)
    [] o.recurrence = "weekly"   -> AddDays(o.start, k * WeekDays)
    [] o.recurrence = "biweekly" -> AddDays(o.start, k * 2 * WeekDays)

\* The loop ends before a date that is past the range, the end, or archival.
Beyond(o, to, date) ==
  \/ date > to
  \/ Ends(o) /\ date > o.end
  \/ IsArchived(o) /\ date >= o.inactiveFrom

\* It ends after a date that closes the range or the obligation.
IsLast(o, to, date) == date = to \/ date = o.end

within(o, from, to, date) == o.start <= date /\ from <= date /\ ~ Beyond(o, to, date)

Expanded(found) == [error |-> "none", dates |-> found]

Refused(error) == [error |-> error, dates |-> {}]

\* The dates that the loop has found when it has looked at its k-th one.
Found(o, from, to, k) == {d \in {Candidate(o, n) : n \in 0..k} : within(o, from, to, d)}

IsTooMany(found) == Cardinality(found) > MaxOccurrenceCount

\* The loop goes no further than its k-th date.
LeavesAt(o, from, to, k) ==
  LET date == Candidate(o, k) IN
  date = NoDate \/ Beyond(o, to, date) \/ IsTooMany(Found(o, from, to, k)) \/ IsLast(o, to, date)

\* How many dates the loop goes past: a date for every day is more than it has.
Steps(o, from, to) == Min({k \in 0..LastDate : LeavesAt(o, from, to, k)})

\* The dates of an obligation from one date to another, or why there are none.
occurrenceDates(o, from, to) ==
  IF o.recurrence = "one_time" THEN Expanded({d \in {o.start} : within(o, from, to, d)})
  ELSE LET k == Steps(o, from, to)
           found == Found(o, from, to, k)
       IN
       IF Candidate(o, k) = NoDate THEN Refused("invalid_date")
       ELSE IF IsTooMany(found) THEN Refused("occurrence_limit")
       ELSE Expanded(found)

-----------------------------------------------------------------------------
(* What an expansion should be *)

\* The days of the month or week grid that starts with the obligation.
OnGrid(o, date) ==
  CASE o.recurrence = "one_time" -> date = o.start
    [] o.recurrence = "weekly"   -> (date - o.start) % WeekDays = 0
    [] o.recurrence = "biweekly" -> (date - o.start) % (2 * WeekDays) = 0
    [] o.recurrence = "monthly"  ->
         \/ DayOf(date) = DayOf(o.start)
         \/ DayOf(date) < DayOf(o.start) /\ date = MonthEnds[MonthOf(date)]

DueDates(o, from, to) ==
  {date \in Dates : /\ o.start <= date /\ from <= date /\ date <= to
                    /\ OnGrid(o, date)
                    /\ Ends(o) => date <= o.end
                    /\ IsArchived(o) => date < o.inactiveFrom}

GoesOnAfter(o, to, date) == ~ Beyond(o, to, date) /\ ~ IsLast(o, to, date)

\* The last date of the grid comes before every date at which the loop would
\* stop, so that it asks the calendar for one more.
RunsOffTheCalendar(o, to) ==
  /\ o.recurrence # "one_time"
  /\ GoesOnAfter(o, to, Max({date \in Dates : o.start <= date /\ OnGrid(o, date)}))

\* An expansion is every due date once; it fails when there are more of them
\* than the limit, or when the range goes on after the last date that the
\* calendar has for the obligation, and never otherwise.
ExpandsExactly(o, from, to) ==
  \E due \in {DueDates(o, from, to)} :
    occurrenceDates(o, from, to) =
      IF o.recurrence # "one_time" /\ Cardinality(due) > MaxOccurrenceCount THEN Refused("occurrence_limit")
      ELSE IF RunsOffTheCalendar(o, to) THEN Refused("invalid_date")
      ELSE Expanded(due)

=============================================================================
