------------------------------- MODULE Overview -------------------------------
(***************************************************************************)
(* The analytics screen.  One answer carries the headline figures of the   *)
(* last so many days and the charts that split them: by day, month,        *)
(* weekday, hour, court and customer.  A count is the set of bookings it   *)
(* runs over, so that two agree when their sets do; a revenue is the sum   *)
(* of what was collected on them, which is not the sum the owner's report  *)
(* has.  The trend's months are UTC's, its bookings' the club's.  The      *)
(* customers' page has its own list, of all time, and its own sum.         *)
(***************************************************************************)
EXTENDS ReportJobs

CONSTANTS
    Ranges,       \* the ranges offered, in days
    TrendMonths,  \* months in the trend
    LastPeak,     \* the last hour of the peak-hours chart
    Retired,      \* courts no longer active
    TopPlaces,    \* customers among the top
    ListCap,      \* customers on the customers' page
    JoinedAt      \* when each customer registered

ASSUME OverviewAssumption ==
    /\ Ranges \subseteq Nat \ {0} /\ TrendMonths \in Nat \ {0} /\ TopPlaces \in Nat
    /\ ListCap \in Nat /\ JoinedAt \in [1 .. MemberCount -> Nat]
    /\ LastPeak \in SixAM .. UnitsPerDay - 1 /\ Retired \subseteq 1 .. CourtCount

\* VERIFIED_STATUSES_SQL: a no-show's deposit is kept.
Verified == Earning \cup {"no_show"}
Booked   == DOMAIN Ways \ {"cancelled"}

\* deleted_at IS NULL
LiveRows == {v \in Visits : visit[v].row = "live"}

\* COLLECTED_SQL has the amounts with a method, the customers' page all on file.
Taken == [v \in Visits |-> visit[v].taken]
Filed == [v \in Visits |-> visit[v].filed]

With(S, statuses) == {v \in S : visit[v].status \in statuses}
Collected(S)      == Total(With(S, Verified), Taken)
Figures(S)        == [bookings |-> With(S, Booked), revenue |-> Collected(S)]

\* From so many days ago on, what is yet to come included.
Recent(n) == {v \in LiveRows : StartOf[v] >= now - n * UnitsPerDay}
Before(n) == {v \in LiveRows \ Recent(n) : StartOf[v] >= now - 2 * n * UnitsPerDay}

\* The headline, with what the rates are rates of.
Headline(n) ==
    LET part(S) == [figures |-> Figures(S), cancelled |-> With(S, {"cancelled"}), absent |-> With(S, {"no_show"})]
    IN  [current |-> part(Recent(n)), previous |-> part(Before(n)), members |-> {MemberOf[v] : v \in Recent(n)}]

\* A bar for each of the last n of the club's days, whether booked or not.
PerDay(n) ==
    [d \in {OperationalDay(now - i * UnitsPerDay) : i \in 0 .. n - 1} |->
        Figures({v \in Recent(n) : OperationalDay(StartOf[v]) = d})]

\* The trends begin at midnight UTC; a booking is of the club's month, a
\* registration of the calendar's.
MonthOf(day) == day \div DaysPerMonth
LastMonth    == MonthOf(now \div UnitsPerDay)
FirstMonth   == LastMonth - TrendMonths + 1
InTrend(t)   == t >= FirstMonth * DaysPerMonth * UnitsPerDay
PerMonth ==
    [m \in FirstMonth .. LastMonth |->
        Figures({v \in LiveRows : InTrend(StartOf[v]) /\ MonthOf(OperationalDay(StartOf[v])) = m})]
CustomerGrowth ==
    [m \in FirstMonth .. LastMonth |->
        {c \in 1 .. MemberCount : InTrend(JoinedAt[c]) /\ MonthOf(CalendarDay(JoinedAt[c])) = m}]

\* New customers registered in the range; those returning booked in it.
NewCustomers(n)       == {c \in 1 .. MemberCount : JoinedAt[c] >= now - n * UnitsPerDay}
ReturningCustomers(n) == {MemberOf[v] : v \in With(Recent(n), Booked)} \ NewCustomers(n)

\* The weekday and the hour are the calendar's.
PerWeekday(n) ==
    [d \in 0 .. DaysPerWeek - 1 |-> With({v \in Recent(n) : CalendarDay(StartOf[v]) % DaysPerWeek = d}, Booked)]
PeakHours(n) ==
    [h \in SixAM .. LastPeak |-> With({v \in Recent(n) : (StartOf[v] + Ahead) % UnitsPerDay = h}, Earning)]

PerCourt(n)      == [k \in (1 .. CourtCount) \ Retired |-> Figures({v \in Recent(n) : NumberOf[v] = k})]
RevenueSlices(n) == {k \in DOMAIN PerCourt(n) : PerCourt(n)[k].revenue # 0}

\* Customers with a booking, those who paid most first.
TopCustomers(n) ==
    LET of(m) == {v \in Recent(n) : MemberOf[v] = m}
    IN  Cuts({[key |-> m, place |-> -Collected(of(m))] :
                m \in {k \in 1 .. MemberCount : With(of(k), Booked) # {}}}, TopPlaces)

\* The customers' page: who booked most comes first, and the totals on top are
\* those of the list.
Customers ==
    LET of(m) == {v \in LiveRows : MemberOf[v] = m}
    IN  Cuts({[key |-> m, place |-> -Cardinality(With(of(m), Booked)), spent |-> Total(With(of(m), Verified), Filed)] :
                m \in 1 .. MemberCount}, ListCap)
CustomerTotals(list) ==
    [bookings |-> With({v \in LiveRows : \E x \in list : x.key = MemberOf[v]}, Booked),
     revenue  |-> Total(list, [x \in list |-> x.spent])]
-----------------------------------------------------------------------------
Split(parts, whole) ==
    /\ UNION {parts[k] : k \in DOMAIN parts} = whole
    /\ \A j, k \in DOMAIN parts : j # k => parts[j] \cap parts[k] = {}

\* Parts and the rest of a sum add up to it.
AddsUp(parts, rest, whole) == Total(DOMAIN parts, parts) + rest = whole

\* A bar of the trends is never part of a day or of a month, though the query
\* starts at an instant; together the days' bars miss of the headline only the
\* day it starts in and the days to come.  The courts' slices miss the courts
\* retired, the hours those between the chart's last and six, the weekdays
\* nothing, each counting a booking and its money once; and a customer with a
\* booking is off the list of the top ones only when it is full of customers
\* who paid as much (analytics.controller.ts 54-318).
ChartsAgree ==
    /\ \A m \in DOMAIN PerMonth : PerMonth[m] = Figures({v \in LiveRows : MonthOf(OperationalDay(StartOf[v])) = m})
    /\ \A n \in Ranges :
        LET head    == Headline(n).current.figures
            today   == OperationalDay(now)
            days    == today - n + 1 .. today
            hour(v) == (StartOf[v] + Ahead) % UnitsPerDay
            of(m)   == {v \in Recent(n) : MemberOf[v] = m}
        IN  /\ DOMAIN PerDay(n) = days
            /\ \A d \in days : PerDay(n)[d] = Figures({v \in LiveRows : OperationalDay(StartOf[v]) = d})
            /\ AddsUp([d \in days |-> PerDay(n)[d].revenue],
                      Collected({v \in Recent(n) : OperationalDay(StartOf[v]) \notin days}), head.revenue)
            /\ Split([d \in days |-> PerDay(n)[d].bookings], {v \in head.bookings : OperationalDay(StartOf[v]) \in days})
            /\ AddsUp([k \in RevenueSlices(n) |-> PerCourt(n)[k].revenue],
                      Collected({v \in Recent(n) : NumberOf[v] \in Retired}), head.revenue)
            /\ Split(PerWeekday(n), head.bookings)
            /\ Split(PeakHours(n), {v \in With(head.bookings, Earning) : hour(v) \in SixAM .. LastPeak})
            /\ \A top \in TopCustomers(n), v \in head.bookings :
                  \/ \E x \in top : x.key = MemberOf[v]
                  \/ /\ Cardinality(top) = TopPlaces
                     /\ \A x \in top : Collected(of(x.key)) >= Collected(of(MemberOf[v]))

\* A day's bar and that day's row of the owner's report are about the same
\* bookings, but for the no-shows, which the report leaves out; they are not
\* the same money, though revenue.ts 2-4 says that all screens agree: the
\* report has the prices, the bar what was collected.  The bar and what is
\* still owed of the prices are the row, what was collected above a price, and
\* what the no-shows left (report.controller.ts 139-149, revenue.ts 8-27).
Short   == [v \in Visits |-> IF PriceOf[v] > visit[v].taken THEN PriceOf[v] - visit[v].taken ELSE 0]
Surplus == [v \in Visits |-> IF PriceOf[v] < visit[v].taken THEN visit[v].taken - PriceOf[v] ELSE 0]
BarsMatchReport ==
    \A n \in Ranges : \A d \in DOMAIN PerDay(n) :
        LET rows        == {x \in ReportRows("daily_revenue", [from |-> 0, to |-> LastNow]) : x.key = d}
            day(states) == With({v \in Visits : OperationalDay(StartOf[v]) = d}, states)
            earning     == day(Earning)
        IN  /\ {x.bookings : x \in rows} = {Cardinality(earning)} \ {0}
            /\ \A x \in rows :
                  PerDay(n)[d].revenue + Total(earning, Short) =
                      x.revenue + Total(earning, Surplus) + Total(day({"no_show"}), Taken)
            /\ rows = {} => PerDay(n)[d].revenue = Total(day({"no_show"}), Taken)

\* A customer who booked in a range is new or returning, and not both; every
\* month but the first counts all who registered in it, which the first does
\* but for those of its first hours, before midnight UTC; and while all
\* customers are on it, the customers' page has all bookings, and all that was
\* collected on them with what is on file without a method
\* (analytics.controller.ts 103-123, 214-222, auth.controller.ts 690-711).
CustomersAgree ==
    /\ \A n \in Ranges :
        /\ {MemberOf[v] : v \in With(Recent(n), Booked)} \subseteq NewCustomers(n) \cup ReturningCustomers(n)
        /\ ReturningCustomers(n) \subseteq Headline(n).members
        /\ \A c \in ReturningCustomers(n) : \E v \in Recent(n) : MemberOf[v] = c /\ JoinedAt[c] < StartOf[v]
    /\ \A c \in 1 .. MemberCount :
        LET m == MonthOf(CalendarDay(JoinedAt[c]))
        IN  m \in FirstMonth .. LastMonth =>
              \/ c \in CustomerGrowth[m]
              \/ m = FirstMonth /\ (JoinedAt[c] + Ahead) % UnitsPerDay < Ahead
    /\ MemberCount <= ListCap => \A list \in Customers :
          LET all == CustomerTotals(list)
          IN  /\ all.bookings = Figures(LiveRows).bookings
              /\ all.revenue = Collected(LiveRows)
                               + Total(With(LiveRows, Verified), [v \in Visits |-> visit[v].filed - visit[v].taken])

\* The period compared with ends where the range begins: the two together are
\* the range of twice the length, and count no booking twice.
PeriodsMeet ==
    \A n \in Ranges :
        LET twice == Headline(2 * n).current
            parts == Headline(n)
        IN  \A k \in {"cancelled", "absent"} : Split(<<parts.current[k], parts.previous[k]>>, twice[k])

OverviewIsTrue == ChartsAgree /\ BarsMatchReport /\ CustomersAgree /\ PeriodsMeet
=============================================================================
