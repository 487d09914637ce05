------------------------------- MODULE CashBook -------------------------------
(***************************************************************************)
(* What the screens of the owner make of the bookings and the ledger: the  *)
(* income of a booking is recomputed on every request, by three queries,   *)
(* from rows that six handlers write.  RefundsOutAlways, which no          *)
(* definition uses, is a wrong version of RefundsOut.                      *)
(***************************************************************************)
EXTENDS BookingLifecycle

\* The statuses whose money counts as verified income.
VerifiedStatuses == {"confirmed", "checked_in", "completed", "no_show"}

\* What was collected on a booking that still counts: the analytics page (headline,
\* courts, customers) and the finance page's six months, refunds not taken off.
Gross(b) ==
    IF ~deleted[b] /\ status[b] \in VerifiedStatuses THEN Collected(b) ELSE 0

\* Refunds are netted only against bookings that are still counted in full.
RefundsOutAlways(b) == ledger[b].refund
RefundsOut(b) == IF status[b] \in VerifiedStatuses THEN ledger[b].refund ELSE 0

\* The finance page's court revenue, and its total: a forfeited deposit is added
\* back from the ledger.
FinanceRevenue(b) == Gross(b) - RefundsOut(b)
BookingIncome(b)  == FinanceRevenue(b) + ledger[b].forfeit

\* The day's summary leaves deletion out of its WHERE clause.
SummaryRevenue(b) == IF status[b] \in VerifiedStatuses THEN Collected(b) ELSE 0

\* The analytics page's split by method names the methods of the desk.
OfDesk(by, amount) == IF by = "DESK" THEN amount ELSE 0
SplitByMethod(b) ==
    IF ~deleted[b] /\ status[b] \in VerifiedStatuses
    THEN OfDesk(money[b].depBy, money[b].dep) + OfDesk(money[b].remBy, money[b].rem)
    ELSE 0

\* The finance screen counts every verified or cancelled booking's money once:
\* what was collected less what the ledger paid back, whichever way the booking
\* got there.  A deleted booking, one cancelled with its subscription, and one
\* cancelled around a manual refund are outside: the README tells why.
FinanceCountsMoneyKept ==
    \A b \in Bookings :
        \/ deleted[b]
        \/ refundStatus[b] # "NONE" /\ RowsOf(b, {"approved"}) # {}
        \/ status[b] \notin VerifiedStatuses /\ refundStatus[b] = "NONE"
        \/ BookingIncome(b) = Collected(b) - ledger[b].refund

\* The screens do not show one revenue, though comments say they do.  The day's
\* summary and the analytics page show the same gross sum, the split by method
\* what of it was not paid online.  The finance page shows less by exactly the
\* refunds approved on a booking that still counts, and in its total more by
\* exactly what a cancelled booking forfeited.
ScreensDifferAsNamed ==
    \A b \in Bookings :
        /\ SummaryRevenue(b) = Gross(b)
        /\ "ONLINE" \notin {money[b].depBy, money[b].remBy} => SplitByMethod(b) = Gross(b)
        /\ SummaryRevenue(b) - FinanceRevenue(b) =
               IF status[b] \in VerifiedStatuses THEN SumOfRows(b, {"approved"}) ELSE 0
        /\ BookingIncome(b) - FinanceRevenue(b) =
               IF refundStatus[b] = "FORFEITED" THEN Collected(b) ELSE 0

\* The owner can tell the money the club kept from what the screens show.
ScreensAccountForMoney == FinanceCountsMoneyKept /\ ScreensDifferAsNamed
=============================================================================
