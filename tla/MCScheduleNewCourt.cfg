\* The second court is opened while requests wait for the locks of others.
CONSTANTS
    Requests = {r1, r2, r3}
    Courts = {1, 2}
    Founding = {1}
    Customers = {ann, bob}
    Coaches = {kim, lea}
    Demands <- CalendarDemands
    AllCourts = AllCourts
    NoCourt = NoCourt
    Nobody = Nobody
    Hours = {}
    ann = ann
    bob = bob
    kim = kim
    lea = lea
SPECIFICATION FairSpec
INVARIANTS
    NoDoubleBooking
    NoBookingOverBlock
PROPERTY AllAnswered
CHECK_DEADLOCK FALSE
