------------------------------- MODULE MCDesk -------------------------------
(* The booking desk for TLC: two courts share one ball machine and a racket. *)
EXTENDS BookingDesk, TLC

CONSTANTS ann, bob, c1, c2

MCItems == 1 .. 2
MCStock == 1 :> 1 @@ 2 :> 1
\* Each member lists the items in an order of their own; the desk books the
\* first court, also over a hold.
MCAsks ==
    {[court |-> c1, who |-> ann, desk |-> FALSE, want |-> <<1, 2>>],
     [court |-> c2, who |-> bob, desk |-> FALSE, want |-> <<2, 1>>],
     [court |-> c1, who |-> bob, desk |-> TRUE,  want |-> << >>]}
MCEdits == {[item |-> 1, stock |-> 0, active |-> TRUE]}
MCWishes == {[who |-> bob, court |-> c1], [who |-> ann, court |-> None]}
=============================================================================
