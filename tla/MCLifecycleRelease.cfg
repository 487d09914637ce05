\* A booking and a subscription's occurrence, with the fairness of the cron ticks.
CONSTANTS
    Bookings = {b1, w1}
    Weekly = {w1}
    RefundIds = {}
    Events = {}
    Price = 2
    DepositPercent = 50
    Amounts = {1}
    Quotes <- DepositQuotes
SPECIFICATION FairSpec
PROPERTIES
    RevokedKeepsOnlyEarlyCheckIns
    UnpaidIsReleased
CHECK_DEADLOCK FALSE
