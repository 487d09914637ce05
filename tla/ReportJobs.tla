------------------------------ MODULE ReportJobs ------------------------------
(***************************************************************************)
(* The owner's reports.  A click stores a job, builds the document from    *)
(* the bookings as they are, marks the job and sends the file; a download  *)
(* builds the document again from the stored request.  Times are in units  *)
(* of a few hours UTC; a document is the set of its rows, which the cap    *)
(* and the page of a PDF cut short.  A revenue report sums what the        *)
(* bookings cost (payments.total_amount, written once), not what was       *)
(* collected on them.                                                      *)
(*                                                                         *)
(* PresentChoice, which no other definition uses, is a wrong version of    *)
(* NamedFor, and CalendarDay would be one of OperationalDay here.          *)
(***************************************************************************)
EXTENDS Integers, FiniteSets, Totals

CONSTANTS
    Visits,          \* the club's bookings
    StartOf,         \* when each starts
    NumberOf,        \* the number of its court
    MemberOf,        \* its customer
    PriceOf,         \* payments.total_amount, from its creation
    Receipts,        \* per booking, what a settlement may leave: on file, and of it collected
    CourtCount, MemberCount,   \* the courts and the customers are 1, 2, ...
    Jobs,            \* the clicks on Generate
    Types,           \* the reports asked for
    UnitsPerDay,     \* units of time in a day
    SixAM,           \* units from midnight to the start of the club's day
    Ahead,           \* units the club's clock is ahead of UTC
    DaysPerWeek, DaysPerMonth,
    RowCap,          \* MAX_REPORT_ROWS
    PdfRows,         \* rows a PDF has room for
    Picked,          \* the dates the page's fields are given, at UTC midnight
    FirstNow, LastNow,   \* bounds on the clock
    Unset            \* a date left empty, a document not there

AllTypes == {"daily_revenue", "weekly_revenue", "monthly_revenue", "court_utilization", "booking_history",
             "customer_activity", "payment_history", "cancellation_report", "noshow_report"}

ASSUME ReportsAssumption ==
    /\ Types \subseteq AllTypes
    /\ UnitsPerDay \in Nat \ {0} /\ SixAM \in 0 .. UnitsPerDay - 1 /\ Ahead \in 0 .. SixAM
    /\ DaysPerWeek \in Nat \ {0} /\ DaysPerMonth \in Nat \ {0} /\ CourtCount \in Nat /\ MemberCount \in Nat
    /\ RowCap \in Nat /\ PdfRows \in Nat /\ LastNow \in Nat /\ FirstNow \in 0 .. LastNow
    /\ \A d \in Picked : d \in Nat /\ d % UnitsPerDay = 0
    /\ IsFiniteSet(Visits) /\ StartOf \in [Visits -> SixAM .. LastNow]
    /\ NumberOf \in [Visits -> 1 .. CourtCount] /\ MemberOf \in [Visits -> 1 .. MemberCount]
    /\ PriceOf \in [Visits -> Nat] /\ Receipts \in [Visits -> SUBSET (Nat \X Nat)]
    /\ \A v \in Visits : \A r \in Receipts[v] : r[2] <= r[1]
    /\ Unset \notin Nat

VARIABLES
    now,      \* the clock
    visit,    \* per booking, its row: status, when it was cancelled or missed,
              \* "live" or soft-deleted, the amounts on file, and those of them
              \* that have a method and so count as collected
    choice,   \* the report selected on the page
    asked,    \* per job, the request
    job,      \* per job, its row
    stage,    \* per job, where the request is
    paper,    \* per job, the document built for the click
    file,     \* per job, the name the page saved it under
    moved     \* history: jobs whose document would differ if built again

reportVars == <<now, visit, choice, asked, job, stage, paper, file, moved>>

Earning == {"confirmed", "checked_in", "completed"}
Ways    == [pending |-> {"confirmed", "cancelled"}, confirmed |-> {"checked_in", "cancelled", "no_show"},
            checked_in |-> {"completed"}, completed |-> {}, cancelled |-> {}, no_show |-> {}]
\* "sheet" is Excel and CSV.
Request == [type : Types, format : {"pdf", "sheet"}, from : Picked \cup {Unset}, to : Picked \cup {Unset}]

ReportsTypeOK ==
    /\ now \in FirstNow .. LastNow
    /\ visit \in [Visits -> [status : DOMAIN Ways, since : 0 .. LastNow \cup {Unset}, row : {"live", "deleted"},
                             filed : Nat, taken : Nat]]
    /\ choice \in Types
    /\ asked \in [Jobs -> Request \cup {Unset}]
    /\ file \in [Jobs -> Types \cup {Unset}]
    /\ job \in [Jobs -> {"none", "queued", "completed"}]
    /\ stage \in [Jobs -> {"idle", "building", "built", "answering", "over", "failed"}]
    /\ moved \subseteq Jobs

ReportsInit ==
    /\ now = FirstNow
    /\ visit = [v \in Visits |-> [status |-> "pending", since |-> Unset, row |-> "live", filed |-> 0, taken |-> 0]]
    /\ choice \in Types
    /\ asked = [j \in Jobs |-> Unset] /\ job = [j \in Jobs |-> "none"]
    /\ stage = [j \in Jobs |-> "idle"]
    /\ paper = asked /\ file = asked /\ moved = {}

-----------------------------------------------------------------------------
(* fetchReportData *)

\* From midnight, and from 06:00 to 05:59 of the club's clock.
CalendarDay(t)    == (t + Ahead) \div UnitsPerDay
OperationalDay(t) == (t + Ahead - SixAM) \div UnitsPerDay

Window(r) == [from |-> IF r.from = Unset THEN now - DaysPerMonth * UnitsPerDay ELSE r.from,
              to   |-> IF r.to = Unset THEN now ELSE r.to]
In(t, w)  == w.from <= t /\ t <= w.to

Revenue == {"daily_revenue", "weekly_revenue", "monthly_revenue"}

\* The WHERE and the ON of each query; none asks for deleted_at, which a
\* booking that is deleted before it is cancelled has without cancelled_at.
Concerns(type, v, w) ==
    CASE type \in Revenue \cup {"court_utilization"} -> visit[v].status \in Earning /\ In(StartOf[v], w)
      [] type = "cancellation_report" -> visit[v].status = "cancelled" /\ visit[v].since # Unset /\ In(visit[v].since, w)
      [] type = "noshow_report"       -> visit[v].status = "no_show" /\ visit[v].since # Unset /\ In(visit[v].since, w)
      [] OTHER                        -> In(StartOf[v], w)

\* The row a booking is counted in.
RowKey(type, v) ==
    CASE type = "daily_revenue"     -> OperationalDay(StartOf[v])
      [] type = "weekly_revenue"    -> OperationalDay(StartOf[v]) \div DaysPerWeek
      [] type = "monthly_revenue"   -> OperationalDay(StartOf[v]) \div DaysPerMonth
      [] type = "court_utilization" -> NumberOf[v]
      [] type = "customer_activity" -> MemberOf[v]
      [] OTHER                      -> v

\* Courts and customers have their row whatever happened.
Always(type) ==
    CASE type = "court_utilization" -> 1 .. CourtCount
      [] type = "customer_activity" -> 1 .. MemberCount
      [] OTHER                      -> {}

\* The row of key k with n bookings is listed by its period or number, the
\* busiest customer or the latest booking first, payments as they were made.
Place(type, k, n) ==
    CASE type \in Revenue \cup {"court_utilization"}           -> k
      [] type = "customer_activity"                            -> -n
      [] type \in {"cancellation_report", "noshow_report"}     -> -visit[k].since
      [] type = "booking_history"                              -> -StartOf[k]
      [] OTHER                                                 -> 0

ReportRows(type, w) ==
    LET of      == {v \in Visits : Concerns(type, v, w)}
        with(k) == {v \in of : RowKey(type, v) = k}
    IN  {[key |-> k, place |-> Place(type, k, Cardinality(with(k))), bookings |-> Cardinality(with(k)),
          revenue |-> IF type \in Revenue THEN Total(with(k), PriceOf) ELSE 0] :
            k \in {RowKey(type, v) : v \in of} \cup Always(type)}

\* The first n rows; rows in one place come in any order.
Cuts(rows, n) ==
    {S \in SUBSET rows : /\ Cardinality(S) = IF Cardinality(rows) <= n THEN Cardinality(rows) ELSE n
                         /\ \A x \in S, y \in rows \ S : x.place <= y.place}

\* A PDF is one page.
Pdf(rows) == Cuts(rows, PdfRows)

\* buildReport
Documents(r) ==
    LET capped == Cuts(ReportRows(r.type, Window(r)), RowCap)
    IN  IF r.format = "pdf" THEN UNION {Pdf(c) : c \in capped} ELSE capped

-----------------------------------------------------------------------------
(* The page and the controller *)

Select(t) ==
    /\ choice' = t
    /\ UNCHANGED <<now, visit, asked, job, stage, paper, file, moved>>

NoneWaits == \A j \in Jobs : stage[j] \in {"idle", "over", "failed"}

\* The click, and the job's row; the button waits for the answer.
GenerateReport(j, r) ==
    /\ stage[j] = "idle" /\ NoneWaits /\ r.type = choice
    /\ asked' = [asked EXCEPT ![j] = r]
    /\ job' = [job EXCEPT ![j] = "queued"] /\ stage' = [stage EXCEPT ![j] = "building"]
    /\ UNCHANGED <<now, visit, choice, paper, file, moved>>

BuildReport(j) ==
    /\ stage[j] = "building"
    /\ \E d \in Documents(asked[j]) : paper' = [paper EXCEPT ![j] = d]
    /\ stage' = [stage EXCEPT ![j] = "built"]
    /\ moved' = moved \ {j}
    /\ UNCHANGED <<now, visit, choice, asked, job, file>>

JobCompleted(j) ==
    /\ stage[j] = "built"
    /\ job' = [job EXCEPT ![j] = "completed"] /\ stage' = [stage EXCEPT ![j] = "answering"]
    /\ UNCHANGED <<now, visit, choice, asked, paper, file, moved>>

PresentChoice(j) == choice
NamedFor(j)      == asked[j].type

FileSaved(j) ==
    /\ stage[j] = "answering"
    /\ file' = [file EXCEPT ![j] = NamedFor(j)]
    /\ stage' = [stage EXCEPT ![j] = "over"]
    /\ UNCHANGED <<now, visit, choice, asked, job, paper, moved>>

\* The row is left as it is.
GenerationFails(j) ==
    /\ stage[j] \in {"building", "built", "answering"}
    /\ stage' = [stage EXCEPT ![j] = "failed"]
    /\ UNCHANGED <<now, visit, choice, asked, job, paper, file, moved>>

\* A download builds the document of a completed job anew, and stores nothing.
Downloads(j) == IF job[j] # "completed" THEN {} ELSE Documents(asked[j])

-----------------------------------------------------------------------------
(* The club *)

\* The jobs whose document is built, or never will be.
Built == {j \in Jobs : stage[j] \notin {"idle", "building"}}

VisitBecomes(v, r) ==
    /\ visit' = [visit EXCEPT ![v] = r] /\ moved' = moved \cup Built
    /\ UNCHANGED <<now, choice, asked, job, stage, paper, file>>

VisitMoves(v) ==
    \E s \in Ways[visit[v].status] :
        VisitBecomes(v, [visit[v] EXCEPT !.status = s, !.since = IF s \in {"cancelled", "no_show"} THEN now ELSE Unset])

\* What is collected is not the price: less until the rest is paid, and more
\* or less with a discount, which leaves payments.total_amount alone.
VisitSettled(v) ==
    /\ Ways[visit[v].status] # {}
    /\ \E r \in Receipts[v] : VisitBecomes(v, [visit[v] EXCEPT !.filed = r[1], !.taken = r[2]])

\* A soft delete, which leaves cancelled_at as it is.
VisitDeleted(v) ==
    /\ visit[v].row = "live"
    /\ VisitBecomes(v, [visit[v] EXCEPT !.status = "cancelled", !.row = "deleted",
                                       !.since = IF visit[v].status = "cancelled" THEN @ ELSE Unset])

\* Time moves the window of a request that left a date empty.
TimePasses ==
    /\ now < LastNow /\ now' = now + 1
    /\ moved' = moved \cup {j \in Built : Unset \in {asked[j].from, asked[j].to}}
    /\ UNCHANGED <<visit, choice, asked, job, stage, paper, file>>

ReportsNext ==
    \/ TimePasses \/ \E v \in Visits : VisitMoves(v) \/ VisitSettled(v) \/ VisitDeleted(v)
    \/ \E t \in Types : Select(t)
    \/ \E j \in Jobs :
          \/ \E r \in Request : GenerateReport(j, r)
          \/ BuildReport(j) \/ JobCompleted(j) \/ FileSaved(j) \/ GenerationFails(j)
-----------------------------------------------------------------------------
(* Properties *)

\* Of one window, every revenue report and the courts' count the bookings the
\* history lists as earning, each once, the customers' all it lists, deleted
\* ones too; every revenue report adds up what the earning ones cost, and the
\* daily one has each in the day whose six o'clock is the last before it
\* (report.controller.ts 137-205).
Tallied(type, w) ==
    LET rows == ReportRows(type, w)
    IN  Cardinality({x \in rows \X (1 .. Cardinality(Visits)) : x[2] <= x[1].bookings})
Summed(type, w) ==
    LET rows == ReportRows(type, w)
    IN  Total(rows, [x \in rows |-> x.revenue])
PeriodsAgree(w) ==
    LET earning == {v \in Visits : visit[v].status \in Earning /\ v \in {x.key : x \in ReportRows("booking_history", w)}}
        day(d)  == {v \in earning : LET since == StartOf[v] + Ahead - d * UnitsPerDay
                                    IN  SixAM <= since /\ since < SixAM + UnitsPerDay}
    IN  /\ \A t \in Revenue \cup {"court_utilization"} : Tallied(t, w) = Cardinality(earning)
        /\ \A t \in Revenue : Summed(t, w) = Total(earning, PriceOf)
        /\ Tallied("customer_activity", w) = Tallied("booking_history", w)
        /\ \A x \in ReportRows("daily_revenue", w) :
              x.bookings = Cardinality(day(x.key)) /\ x.revenue = Total(day(x.key), PriceOf)
ReportsAgree == \A w \in {Window(r) : r \in Request} : PeriodsAgree(w)

\* A file is named for the report it holds, whatever is selected when it
\* comes; a job is left queued only by a failure; and a download can give
\* what the click gave (and does, but for rows in one place) unless the
\* bookings or an open window have moved since (report.controller.ts 32-70,
\* 103-128, reports/page.tsx 32-55).
PapersAreTrue ==
    \A j \in Jobs :
        /\ file[j] # Unset => file[j] = asked[j].type /\ job[j] = "completed"
        /\ job[j] = "queued" /\ stage[j] \notin {"building", "built"} => stage[j] = "failed"
        /\ job[j] = "completed" /\ j \notin moved => paper[j] \in Downloads(j)
=============================================================================
