\* A cancellation after a partial refund.
CONSTANTS
    Bookings = {b1}
    Weekly = {}
    RefundIds = {r1}
    Events = {e1}
    Price = 2
    DepositPercent = 50
    Amounts = {1, 2}
    Quotes <- MoneyQuotes
SPECIFICATION Spec
INVARIANT RefundedIsReturned
CHECK_DEADLOCK FALSE
