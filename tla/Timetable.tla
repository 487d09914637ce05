------------------------------ MODULE Timetable ------------------------------
(***************************************************************************)
(* What the booking desk promises: a timetable in which a court is handed  *)
(* out for a span of time only if it is free for all of it.  Handing out   *)
(* is one indivisible step.  Database, locks and checks are left to the    *)
(* module that implements it, CourtSchedule.                               *)
(***************************************************************************)
CONSTANT AllCourts   \* stands for every court of the club at once

VARIABLE taken       \* the entries: [owner, week, court, span]

\* Half-open intervals of time overlap when they share a slot.
Overlap(s, t) == s \cap t # {}

SameCourt(c, d) == c = d \/ c = AllCourts \/ d = AllCourts

Clash(e, f) == SameCourt(e.court, f.court) /\ Overlap(e.span, f.span)

PairwiseFree(E) == \A e, f \in E : e # f => ~Clash(e, f)

TInit == taken = {}

\* One or more entries are added, free of the ones there and of each other.
Claim ==
    /\ taken \subseteq taken'
    /\ PairwiseFree(taken' \ taken)
    /\ \A e \in taken' \ taken, f \in taken : ~Clash(e, f)

Release == taken' \subseteq taken

TNext == Claim \/ Release

TSpec == TInit /\ [][TNext]_taken
==============================================================================
