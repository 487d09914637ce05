\* Three requests of any kind for two courts, both there from the start.
CONSTANTS
    Requests = {r1, r2, r3}
    Courts = {1, 2}
    Founding = {1, 2}
    Customers = {ann, bob}
    Coaches = {kim, lea}
    Demands <- ClubDemands
    AllCourts = AllCourts
    NoCourt = NoCourt
    Nobody = Nobody
    Hours = {1, 2}
    ann = ann
    bob = bob
    kim = kim
    lea = lea
SPECIFICATION Spec
SYMMETRY Interchangeable
INVARIANTS
    TypeOK
    OneUnpaidPerCustomer
    SessionsApart
PROPERTIES
    HandsOutCourts
    SessionLandsFree
CHECK_DEADLOCK FALSE
