\* A booking on the court of a training session.
CONSTANTS
    Requests = {r1, r2}
    Courts = {1, 2}
    Founding = {1, 2}
    Customers = {ann, bob}
    Coaches = {kim, lea}
    Demands <- ClubDemands
    AllCourts = AllCourts
    NoCourt = NoCourt
    Nobody = Nobody
    Hours = {1, 2}
    ann = ann
    bob = bob
    kim = kim
    lea = lea
SPECIFICATION Spec
INVARIANT NoBookingOverSession
CHECK_DEADLOCK FALSE
