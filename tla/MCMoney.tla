------------------------------ MODULE MCMoney ------------------------------
(* The club's money: a booking and the screens that count it, or the         *)
(* training sessions of a coach.  They share no row.                         *)
EXTENDS MCLifecycle, CoachingLedger

VARIABLE book   \* the book this behaviour is about

\* A third and a half, of which the halves of units show.
Rates == {[rate |-> 3, pct |-> 50], [rate |-> 5, pct |-> 33]}

MoneyInit ==
    /\ book \in {"bookings", "coaching"}
    /\ Init /\ LedgerInit
    /\ book # "coaching" => \A c \in Trainers : terms[c].of = CHOOSE of \in Deals : TRUE

MoneyNext ==
    /\ UNCHANGED book
    /\ \/ book = "bookings" /\ Next /\ UNCHANGED ledgerVars
       \/ book = "coaching" /\ LedgerNext /\ UNCHANGED vars

MoneySpec == MoneyInit /\ [][MoneyNext]_<<book, vars, ledgerVars>>

MoneyTypeOK == TypeOK /\ LedgerTypeOK

\* Requests, events and sessions are interchangeable.
Nameless == Interchangeable \cup Permutations(Trainings)
=============================================================================
