---------------------------- MODULE MCLifecycle ----------------------------
(* Instances of BookingLifecycle and CashBook for TLC. *)
EXTENDS CashBook, TLC

\* Refund requests and gateway events are interchangeable.
Interchangeable == Permutations(RefundIds) \cup Permutations(Events)

Quote(net, dep, depBy, rem, remBy) ==
    [net |-> net, dep |-> dep, depBy |-> depBy, rem |-> rem, remBy |-> remBy]

\* Nothing, a deposit and a full payment, each with and without a recorded
\* method, a remainder alone, both legs, and a discounted booking.
MoneyQuotes ==
    {Quote(2, 0, "NONE", 0, "NONE"), Quote(2, 1, "NONE", 0, "NONE"),
     Quote(2, 1, "DESK", 0, "NONE"), Quote(2, 2, "DESK", 0, "NONE"),
     Quote(2, 1, "DESK", 1, "DESK"), Quote(2, 0, "NONE", 1, "DESK"),
     Quote(1, 0, "DESK", 0, "NONE"), Quote(1, 1, "DESK", 0, "NONE")}

\* Unpaid, or a deposit taken at the desk.
DepositQuotes == {Quote(2, 0, "NONE", 0, "NONE"), Quote(2, 1, "DESK", 0, "NONE")}
=============================================================================
