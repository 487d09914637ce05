------------------------------ MODULE SlotBoards ------------------------------
(***************************************************************************)
(* The pages that show one court's hours and the forms they open: the      *)
(* availability grid and its booking form, the schedule grid, and the week *)
(* calendar with its booking panel.  A page holds the response it loaded   *)
(* while the desk, the owner and the clock go on; what a form sends is     *)
(* answered by the validator, from the tables of that moment.              *)
(*                                                                         *)
(* Hours are counted from 0 to HoursPerDay - 1; the club's day runs from   *)
(* Noon to Cutoff on the next calendar day.                                *)
(*                                                                         *)
(* FormStartSameDay, which no definition uses, is a wrong version of the   *)
(* definition below it.                                                    *)
(***************************************************************************)
EXTENDS OpeningHours

CONSTANTS
    Noon,         \* the hour the club's day starts
    Cutoff,       \* the hour it ends, on the next day (OVERNIGHT_CUTOFF)
    DefaultOpen, DefaultClose,  \* the schedule grid's hours when the day has no row
    Dates,        \* the days the pages are opened on
    Intervals,    \* the intervals bookings and closures may take
    MaxRows,      \* how many bookings and closures there may be
    Dawn, Horizon,  \* the first moment and the last
    NotOpen       \* a page or form that is not open

HoursPerDay == DayLength \div HourLength

ASSUME BoardAssumption ==
    /\ 0 < Cutoff /\ Cutoff < Noon /\ Noon < HoursPerDay
    /\ {DefaultOpen, DefaultClose} \subseteq 0 .. HoursPerDay - 1
    /\ Intervals \subseteq [from : Int, to : Int] /\ Dates \subseteq Int
    /\ Cutoff \in Int /\ Noon \in Int /\ Dawn \in Int /\ Horizon \in Int /\ Dawn <= Horizon

VARIABLES
    service,   \* the court's row: available, maintenance, or inactive
    taken,     \* bookings: start, end, status
    closures,  \* blocked_periods of the court or of the club
    clock,     \* now
    visitor,   \* who sits at the pages: a member or staff
    grid,      \* the availability page's response
    form       \* the booking form

boardVars == <<service, taken, closures, clock, visitor, grid, form>>

CourtStates == {"available", "maintenance", "inactive"}
Statuses    == {"draft", "confirmed", "no_show"}

\* The statuses in which a booking holds its slot against others.
Holding == {"draft", "confirmed"}

-----------------------------------------------------------------------------
(* The validator *)

Rows == Cardinality(taken) + Cardinality(closures)

At(day, hour) == day * DayLength + hour * HourLength

Overlaps(row, from, to) == row.from < to /\ row.to > from

\* createBooking and validateBookingSlot, in the order they look.
Verdict(who, from, to) ==
    IF who = "member" /\ from < clock THEN "past"
    ELSE IF to - from \notin {n * HourLength : n \in 1 .. MaxSpan} THEN "length"
    ELSE IF service # "available" THEN "unavailable"
    ELSE IF who = "member" /\ ~WithinWorkingHours(from, to) THEN "closed"
    ELSE IF \E c \in closures : Overlaps(c, from, to) THEN "blocked"
    ELSE IF \E b \in taken : b.status \in Holding /\ Overlaps(b, from, to) THEN "taken"
    ELSE "created"

-----------------------------------------------------------------------------
(* The availability grid *)

\* The rows of the page: noon to midnight, then to the cutoff.
GridHours == Noon .. HoursPerDay - 1 \cup 0 .. Cutoff - 1

\* The bookings the page's query returns.
ShownHeld(b) == b.status \in Holding

LoadedGrid(date) ==
    LET InDay(row) == Overlaps(row, At(date, Noon), At(date + 1, Cutoff))
    IN [date |-> date, listed |-> service # "inactive",
        booked  |-> {[from |-> b.from, to |-> b.to] : b \in {x \in taken : ShownHeld(x) /\ InDay(x)}},
        blocked |-> {c \in closures : InDay(c)},
        current |-> TRUE]

\* The moment a row of the page begins.
CellStart(date, hour) == At(IF hour < Cutoff THEN date + 1 ELSE date, hour)

SlotState(hour) ==
    LET from == CellStart(grid.date, hour)
        to   == from + HourLength
    IN IF \E b \in grid.booked : Overlaps(b, from, to) THEN "booked"
       ELSE IF \E c \in grid.blocked : Overlaps(c, from, to) THEN "blocked"
       ELSE IF to <= clock THEN "past" ELSE "free"

OpenGrid(date) ==
    /\ grid' = LoadedGrid(date)
    /\ form' = NotOpen
    /\ UNCHANGED <<service, taken, closures, clock, visitor>>

\* A green slot opens the booking form with its court, date and hour.
HandleSlotClick(hour) ==
    /\ grid # NotOpen /\ grid.listed
    /\ SlotState(hour) = "free"
    /\ form' = [date |-> grid.date, hour |-> hour, end |-> hour + 1,
                cell |-> CellStart(grid.date, hour), current |-> grid.current]
    /\ grid' = NotOpen
    /\ UNCHANGED <<service, taken, closures, clock, visitor>>

-----------------------------------------------------------------------------
(* The booking form *)

NoCell == -1   \* the form no longer says what was clicked

\* An hour before the cutoff belongs to the night of the day picked.
FormStartSameDay(f) == At(f.date, f.hour)
FormStart(f)        == At(IF f.hour < Cutoff THEN f.date + 1 ELSE f.date, f.hour)
FormEnd(f)          == FormStart(f) + (f.end - f.hour) * HourLength

\* The span stays; the end may run past midnight.
HandleStartHourChange(hour) ==
    /\ form # NotOpen /\ hour # form.hour
    /\ form' = [form EXCEPT !.hour = hour, !.end = hour + (form.end - form.hour), !.cell = NoCell, !.current = FALSE]
    /\ UNCHANGED <<service, taken, closures, clock, visitor, grid>>

HandleEndHourChange(end) ==
    /\ form # NotOpen /\ end \in form.hour + 1 .. form.hour + MaxSpan /\ end # form.end
    /\ form' = [form EXCEPT !.end = end, !.cell = NoCell, !.current = FALSE]
    /\ UNCHANGED <<service, taken, closures, clock, visitor, grid>>

HandleSubmit ==
    /\ form # NotOpen
    /\ Verdict(visitor, FormStart(form), FormEnd(form)) = "created"
    /\ [from |-> FormStart(form), to |-> FormEnd(form)] \in Intervals /\ Rows < MaxRows
    /\ taken' = taken \cup {[from |-> FormStart(form), to |-> FormEnd(form), status |-> "draft"]}
    /\ form' = NotOpen
    /\ UNCHANGED <<service, closures, clock, visitor, grid>>

-----------------------------------------------------------------------------
(* What goes on meanwhile *)

\* What is on the screen is from before this change.
Outdated ==
    /\ grid' = IF grid = NotOpen THEN NotOpen ELSE [grid EXCEPT !.current = FALSE]
    /\ form' = IF form = NotOpen THEN NotOpen ELSE [form EXCEPT !.current = FALSE]

\* Every form asks for whole hours from a full hour on.
OnTheHour == {i \in Intervals : i.from % HourLength = 0}

BookElsewhere(i) ==
    /\ Rows < MaxRows /\ Verdict("staff", i.from, i.to) = "created"
    /\ taken' = taken \cup {[from |-> i.from, to |-> i.to, status |-> "draft"]}
    /\ Outdated /\ UNCHANGED <<service, closures, clock, visitor>>

\* A booking is paid for, and its customer does not come; or it is cancelled,
\* and no page shows it any more.
MoveOn(b, status) ==
    /\ <<b.status, status>> \in {<<"draft", "confirmed">>, <<"confirmed", "no_show">>}
    /\ taken' = (taken \ {b}) \cup {[b EXCEPT !.status = status]}
    /\ Outdated /\ UNCHANGED <<service, closures, clock, visitor>>

Cancel(b) ==
    /\ b.status \in Holding
    /\ taken' = taken \ {b}
    /\ Outdated /\ UNCHANGED <<service, closures, clock, visitor>>

\* The block form takes two times of one calendar day, and has no 24:00.
BlockModal(date) ==
    {[from |-> At(date, 0) + t[1], to |-> At(date, 0) + t[2]] :
        t \in {x \in (0 .. DayLength - 1) \X (0 .. DayLength - 1) : x[1] < x[2]}}

\* POST /courts/blocked-periods: refused over a booking or another block.
BlockSlot(i) ==
    /\ Rows < MaxRows
    /\ \A b \in taken : b.status \in Holding => ~Overlaps(b, i.from, i.to)
    /\ \A c \in closures : ~Overlaps(c, i.from, i.to)
    /\ closures' = closures \cup {i}
    /\ Outdated /\ UNCHANGED <<service, taken, clock, visitor>>

Unblock(c) ==
    /\ closures' = closures \ {c}
    /\ Outdated /\ UNCHANGED <<service, taken, clock, visitor>>

SetCourt(status) ==
    /\ status # service
    /\ service' = status
    /\ Outdated /\ UNCHANGED <<taken, closures, clock, visitor>>

Tick ==
    /\ clock < Horizon
    /\ clock' = clock + 1
    /\ UNCHANGED <<service, taken, closures, visitor, grid, form>>

-----------------------------------------------------------------------------
(* The schedule grid: the bookings and blocks of a business day on one scale *)

OnSchedule(date) ==
    {row \in taken \cup closures : Overlaps(row, At(date, Noon), At(date + 1, Cutoff))}

\* parseHour of the day's times, or the defaults.
GridTimes(date) ==
    LET day == date % WeekLength
    IN IF day \in DOMAIN hours /\ ~hours[day].closed
       THEN [open |-> hours[day].open \div HourLength, close |-> hours[day].close \div HourLength]
       ELSE [open |-> DefaultOpen, close |-> DefaultClose]
GridStartHour(date) == GridTimes(date).open

\* One row an hour from the opening to the close, which may be past midnight.
GridLength(date) ==
    LET times == GridTimes(date)
        span  == times.close - times.open
    IN (IF span < 0 THEN span + HoursPerDay ELSE span) + 1

\* How far below the first row a booking or a block is drawn.
ScheduleTop(date, from) ==
    LET hour == (from % DayLength) \div HourLength
        raw  == IF hour < GridStartHour(date) THEN hour + HoursPerDay ELSE hour
    IN (raw - GridStartHour(date)) * HourLength + (from % HourLength)

\* What would start below the last row is not drawn.
BlockCard(date, c)   == ScheduleTop(date, c.from) < GridLength(date) * HourLength
BookingCard(date, b) == ScheduleTop(date, b.from) < GridLength(date) * HourLength

-----------------------------------------------------------------------------
(* The week calendar and its panel *)

EventsAt(day, hour) ==
    {b \in taken : DayOf(b.from) = day /\ (b.from % DayLength) \div HourLength = hour}

\* openSlot, the panel's prefill, and the start it sends.
PanelStart(day, hour) == At(day, hour)

-----------------------------------------------------------------------------
BoardsInit ==
    /\ service = "available" /\ taken = {} /\ closures = {} /\ clock = Dawn
    /\ visitor \in {"member", "staff"} /\ grid = NotOpen /\ form = NotOpen

\* The schedule page can be turned to any day.
Calendar == UNION {{date, date + 1} : date \in Dates}

BoardsNext ==
    \/ \E date \in Dates : OpenGrid(date)
    \/ \E hour \in GridHours : HandleSlotClick(hour)
    \/ \E hour \in 0 .. HoursPerDay - 1 : HandleStartHourChange(hour)
    \/ \E end \in 1 .. HoursPerDay - 1 + MaxSpan : HandleEndHourChange(end)
    \/ HandleSubmit
    \/ \E i \in OnTheHour : BookElsewhere(i)
    \/ \E date \in Calendar : \E i \in BlockModal(date) \cap Intervals : BlockSlot(i)
    \/ \E b \in taken, status \in Statuses : MoveOn(b, status)
    \/ \E b \in taken : Cancel(b)
    \/ \E c \in closures : Unblock(c)
    \/ \E status \in CourtStates : SetCourt(status)
    \/ Tick

BoardsTypeOK ==
    LET Cells == {CellStart(date, hour) : date \in Dates, hour \in GridHours}
    IN /\ service \in CourtStates /\ visitor \in {"member", "staff"} /\ clock \in Dawn .. Horizon
       /\ \A b \in taken : [from |-> b.from, to |-> b.to] \in Intervals /\ b.status \in Statuses
       /\ closures \subseteq Intervals
       /\ grid # NotOpen => /\ grid.date \in Dates /\ grid.listed \in BOOLEAN /\ grid.current \in BOOLEAN
                          /\ grid.booked \cup grid.blocked \subseteq Intervals
       /\ form # NotOpen => /\ form.date \in Dates /\ form.hour \in 0 .. HoursPerDay - 1
                          /\ form.end - form.hour \in 1 .. MaxSpan
                          /\ form.cell \in Cells \cup {NoCell} /\ form.current \in BOOLEAN

-----------------------------------------------------------------------------
\* While nothing but the clock has moved since the page was loaded, a slot is
\* shown booked or blocked exactly when the validator would refuse it as such.
GridAgrees ==
    grid # NotOpen /\ grid.current /\ service = "available" =>
        \A hour \in GridHours :
            LET from == CellStart(grid.date, hour)
                told == Verdict("staff", from, from + HourLength)
            IN CASE SlotState(hour) = "booked"  -> told = "taken"
                 [] SlotState(hour) = "blocked" -> told = "blocked"
                 [] OTHER -> told = "created"

\* A green slot sent as it was clicked asks for the hour that was clicked, and
\* is refused only for the hours, a court out of service, or an hour begun.
OfferIsHonoured ==
    form # NotOpen /\ form.cell # NoCell =>
        /\ FormStart(form) = form.cell /\ FormEnd(form) = form.cell + HourLength
        /\ form.current => LET told == Verdict(visitor, FormStart(form), FormEnd(form))
                           IN told \in {"created", "unavailable", "closed", "past"}

\* A booking or block is on the schedule of its day, or of the night before,
\* unless it is over by noon and begins no earlier than six: those no day loads,
\* though the page draws rows for them from the opening hour on
\* (court.controller.ts 330-339).  What is loaded and starts in the day from the
\* first row on is drawn where its time is, so that no two are drawn over each
\* other; and what is loaded and within the day's own hours is drawn at all, unless
\* the day opens and closes in one hour of the clock, the next day's too: of a
\* club open 24 hours the grid has one row (schedule/page.tsx 517-521).
ScheduleIsTrue ==
    /\ \A row \in taken \cup closures :
          LET day == DayOf(row.from)
          IN row \in OnSchedule(day) \cup OnSchedule(day - 1)
                <=> row.from < At(day, Cutoff) \/ At(day, Noon) < row.to
    /\ \A date \in Dates : \A row \in OnSchedule(date) :
          LET top == row.from - At(date, GridStartHour(date))
          IN /\ top \in 0 .. DayLength - 1 => ScheduleTop(date, row.from) = top
             /\ \A w \in DayWindow(date) :
                   w.open <= row.from /\ row.to <= w.close /\ GridTimes(date).open # GridTimes(date).close =>
                       IF row \in closures THEN BlockCard(date, row) ELSE BookingCard(date, row)

\* In the week calendar a booking stands in one cell; a free cell's hour is
\* refused as taken only for a booking that runs on into it.
CalendarIsTrue ==
    \A date \in Dates, hour \in 0 .. HoursPerDay - 1 :
        LET from == PanelStart(date, hour)
        IN \A b \in taken \ EventsAt(date, hour) :
               b.status \in Holding /\ Overlaps(b, from, from + HourLength) => b.from < from

\* What the court pages show and their forms send agrees with the validator.
BoardsAreTrue == GridAgrees /\ OfferIsHonoured /\ ScheduleIsTrue /\ CalendarIsTrue
=============================================================================
