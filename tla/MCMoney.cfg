\* One booking, full money detail: two refund requests, one gateway event.
\* Coaching: two sessions of a coach, whose terms are edited.
CONSTANTS
    Bookings = {b1}
    Weekly = {}
    RefundIds = {r1, r2}
    Events = {e1}
    Price = 2
    DepositPercent = 50
    Amounts = {1, 2}
    Quotes <- MoneyQuotes
    Trainers = {hana}
    Trainings = {g1, g2}
    Deals <- Rates
    Spans = {3}
    Prices = {4}
    ByRate = ByRate
SPECIFICATION MoneySpec
SYMMETRY Nameless
INVARIANTS
    MoneyTypeOK
    PaymentFollowsBooking
    RefundsStandOnVerified
    BooksBalance
    ScreensAccountForMoney
    CoachingIsSound
PROPERTY TerminalIsFinal
CHECK_DEADLOCK FALSE
