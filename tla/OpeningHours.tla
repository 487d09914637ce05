----------------------------- MODULE OpeningHours -----------------------------
(***************************************************************************)
(* The club's opening hours and the validator's reading of them.  The      *)
(* owner writes one row per weekday; a booking must lie in the windows of  *)
(* the days around its start, which are merged where they meet.  Time is   *)
(* an integer, a day is DayLength of its units, and the last unit of a day *)
(* stands for 23:59.  Daylight saving is left out.                         *)
(*                                                                         *)
(* MergedForward, which no definition uses, is a wrong version of the      *)
(* definition below it.                                                    *)
(***************************************************************************)
EXTENDS Integers, Sequences, FiniteSets, SequencesExt

CONSTANTS
    DayLength,    \* units of a day
    HourLength,   \* units of an hour
    WeekLength,   \* days of a week
    Openings,     \* the rows the owner may write: open, close, closed
    MaxSpan       \* the longest booking, in hours: within a day

ASSUME DayAssumption ==
    /\ HourLength \in Nat \ {0, 1} /\ DayLength \in Nat \ {0} /\ DayLength % HourLength = 0
    /\ WeekLength \in Nat \ {0}
ASSUME SpanAssumption == MaxSpan \in Nat \ {0} /\ MaxSpan * HourLength <= DayLength
ASSUME OpeningsAssumption ==
    Openings \subseteq [open : 0 .. DayLength - 1, close : 0 .. DayLength - 1, closed : BOOLEAN]

VARIABLE hours   \* working_hours: the rows on file, per weekday

Weekdays == 0 .. WeekLength - 1

HoursTypeOK == \E days \in SUBSET Weekdays : hours \in [days -> Openings]

HoursInit == hours = [d \in {} |-> {}]

\* PUT /settings/working-hours: the rows of the request, in one transaction.
UpsertWorkingHours(rows) ==
    hours' = [d \in DOMAIN hours \cup DOMAIN rows |->
                 IF d \in DOMAIN rows THEN rows[d] ELSE hours[d]]

HoursNext == \E d \in Weekdays, row \in Openings : UpsertWorkingHours([x \in {d} |-> row])

-----------------------------------------------------------------------------
(* The validator's reading *)

DayOf(t) == t \div DayLength

\* One day's row as a window, or none: equal times are 24 hours, 23:59 is
\* midnight, and a close at or before the open is on the next day.
DayWindow(day) ==
    LET row   == hours[day % WeekLength]
        close == IF row.close = DayLength - 1 THEN DayLength ELSE row.close
        last  == CASE row.open = row.close -> row.open + DayLength
                   [] row.open # row.close /\ close <= row.open -> close + DayLength
                   [] OTHER -> close
    IN IF day % WeekLength \notin DOMAIN hours \/ row.closed THEN {}
       ELSE {[open |-> day * DayLength + row.open, close |-> day * DayLength + last]}

Meets(earlier, later) == later.open <= earlier.close

\* A window joins the last of the spans where they meet.
Joined(spans, w) ==
    LET n == Len(spans)
    IN IF n > 0 /\ Meets(spans[n], w)
       THEN [spans EXCEPT ![n].close = IF w.close > @ THEN w.close ELSE @]
       ELSE Append(spans, w)

JoinedDay(spans, day) ==
    IF DayWindow(day) = {} THEN spans ELSE Joined(spans, CHOOSE w \in DayWindow(day) : TRUE)

\* The previous day's shift may run past midnight, the slot into the next day.
\* A window opens on its own day, so the days are in the order of the sort.
MergedForward(day) == JoinedDay(JoinedDay(<<>>, day), day + 1)
Merged(day)        == JoinedDay(JoinedDay(JoinedDay(<<>>, day - 1), day), day + 1)

WithinWorkingHours(from, to) ==
    \E span \in Range(Merged(DayOf(from))) : from >= span.open /\ to <= span.close

-----------------------------------------------------------------------------
(* What the hours mean at the door *)

\* On the clock of the day and of the day before.
OpenAt(t) ==
    LET clock == t % DayLength
        On(d, Reads(_)) == d % WeekLength \in DOMAIN hours /\ Reads(hours[d % WeekLength])
        Early(row) == row.open # row.close /\ row.close > row.open
        Today(row)     == /\ ~row.closed /\ clock >= row.open
                          /\ Early(row) => clock < row.close \/ row.close = DayLength - 1
        Yesterday(row) == /\ ~row.closed /\ ~Early(row)
                          /\ clock < row.close
                          /\ row.close = DayLength - 1 => row.open = row.close
    IN On(DayOf(t), Today) \/ On(DayOf(t) - 1, Yesterday)

\* A member's booking of any length, at any time and across any midnights, is
\* within the working hours exactly when the club is open at every moment of
\* it, for every way the week's rows are opened, closed, overnight or 24 hours.
HoursAreHonoured ==
    \A from \in 0 .. WeekLength * DayLength - 1, span \in 1 .. MaxSpan :
        LET to == from + span * HourLength
        IN WithinWorkingHours(from, to) <=> \A t \in from .. to - 1 : OpenAt(t)
=============================================================================
