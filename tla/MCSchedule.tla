----------------------------- MODULE MCSchedule -----------------------------
(* Instances of CourtSchedule for TLC. *)
EXTENDS CourtSchedule, TLC

CONSTANTS ann, bob, kim, lea

Interchangeable == Permutations(Requests)

Demand(kind, court, party, spans) ==
    [kind |-> kind, court |-> court, party |-> party, spans |-> spans]

\* One customer on two courts, a walk-in over both slots, a subscription, a
\* maintenance window and a club-wide closure.
CalendarDemands ==
    {Demand("self", 1, ann, <<{1}>>), Demand("self", 2, ann, <<{1, 2}>>),
     Demand("desk", 1, bob, <<{1, 2}>>), Demand("weekly", 1, bob, <<{1}, {2}>>),
     Demand("block", 1, Nobody, <<{2}>>), Demand("block", AllCourts, Nobody, <<{1}>>)}

\* A coach with and without a court, and another who wants the same court.
CoachingDemands ==
    {Demand("session", 1, kim, <<{1}>>), Demand("session", 2, kim, <<{1, 2}>>),
     Demand("session", NoCourt, kim, <<{1}>>), Demand("session", 1, lea, <<{1}>>)}

ClubDemands == CalendarDemands \cup CoachingDemands
=============================================================================
