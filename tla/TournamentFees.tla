--------------------------- MODULE TournamentFees ---------------------------
(***************************************************************************)
(* The fee of each tournament team: recorded at the desk in two statements *)
(* with nothing locked between them, and credited by the gateway's events  *)
(* in one transaction under the team's row lock.                           *)
(*                                                                         *)
(* StoredOver, which no action uses, is a wrong version of Stored.         *)
(***************************************************************************)
EXTENDS Naturals, FiniteSets

CONSTANTS
    Payers,   \* teams
    Clerks,   \* desk payments under way at once
    Events,   \* gateway events
    Due,      \* amount_due, the fee when the team registered
    Amounts,  \* what a clerk may type and a customer may pay online
    NoTeam

ASSUME FeesAssumption == Due \in Nat /\ Amounts \subseteq Nat \ {0} /\ NoTeam \notin Payers

VARIABLES
    paid,      \* amount_paid
    credited,  \* what the clerks and the gateway credited (history)
    handed,    \* the money handed over for it (history)
    desk,      \* desk payments: the team, what it had paid when read, the amount
    seen,      \* events in payment_webhook_events
    crossed    \* teams with a payment stored while a desk payment was under way (history)

feeVars == <<paid, credited, handed, desk, seen, crossed>>

NoDesk == [team |-> NoTeam, read |-> 0, amount |-> 0]

FeesInit ==
    /\ paid = [t \in Payers |-> 0]
    /\ credited = [t \in Payers |-> 0]
    /\ handed = [t \in Payers |-> 0]
    /\ desk = [k \in Clerks |-> NoDesk]
    /\ seen = {}
    /\ crossed = {}

Remaining(t) == IF paid[t] < Due THEN Due - paid[t] ELSE 0

Amount(t, asked) == IF asked < Remaining(t) THEN asked ELSE Remaining(t)

PayReads(k, t, asked) ==
    /\ desk[k] = NoDesk /\ Remaining(t) > 0
    /\ desk' = [desk EXCEPT ![k] = [team |-> t, read |-> paid[t], amount |-> Amount(t, asked)]]
    /\ UNCHANGED <<paid, credited, handed, seen, crossed>>

Crosses(t, others) == crossed' = IF \E k \in others : desk[k].team = t THEN crossed \cup {t} ELSE crossed

\* amount_paid = amount_paid + $2, on whatever the row holds by then.
StoredOver(k) == desk[k].read + desk[k].amount
Stored(k) == paid[desk[k].team] + desk[k].amount

PayStores(k) ==
    LET t == desk[k].team IN
    /\ desk[k] # NoDesk
    /\ paid' = [paid EXCEPT ![t] = Stored(k)]
    /\ credited' = [credited EXCEPT ![t] = @ + desk[k].amount]
    /\ handed' = [handed EXCEPT ![t] = @ + desk[k].amount]
    /\ Crosses(t, Clerks \ {k})
    /\ desk' = [desk EXCEPT ![k] = NoDesk]
    /\ UNCHANGED seen

Enough(t, a) == Remaining(t) > 0 /\ a >= Remaining(t)

\* A redelivered event inserts no row and ends there; an amount that does not
\* cover what remains is recorded and not credited.
FeeEvent(e, t, a) ==
    /\ e \notin seen
    /\ seen' = seen \cup {e}
    /\ IF Enough(t, a)
       THEN /\ paid' = [paid EXCEPT ![t] = @ + Remaining(t)]
            /\ credited' = [credited EXCEPT ![t] = @ + Remaining(t)]
            /\ handed' = [handed EXCEPT ![t] = @ + a]
            /\ Crosses(t, Clerks)
       ELSE UNCHANGED <<paid, credited, handed, crossed>>
    /\ UNCHANGED desk

FeesNext ==
    \/ \E t \in Payers, a \in Amounts :
        \/ \E k \in Clerks : PayReads(k, t, a)
        \/ \E e \in Events : FeeEvent(e, t, a)
    \/ \E k \in Clerks : PayStores(k)

FeesTypeOK ==
    /\ paid \in [Payers -> Nat] /\ credited \in [Payers -> Nat] /\ handed \in [Payers -> Nat]
    /\ desk \in [Clerks -> [team : Payers \cup {NoTeam}, read : Nat, amount : Nat]]
    /\ \A k \in Clerks : desk[k].team # NoTeam => desk[k].amount \in 1 .. Due
    /\ seen \subseteq Events /\ crossed \subseteq Payers

\* What a team has paid is the sum of what was credited to it, however the desk
\* and the gateway interleave: no payment overwrites another.
FeesAddUp == \A t \in Payers : paid[t] = credited[t]

\* A team is charged more than its fee only if a payment was stored while a
\* desk payment was between its two statements.
NoOverpaymentAlone == \A t \in Payers : t \notin crossed => paid[t] <= Due

\* A team is never credited more than was handed over for it: the gateway
\* credits what remains only when the payment covers it.
CreditIsCovered == \A t \in Payers : credited[t] <= handed[t]

\* The money of a team's fee is right on both sides of the counter.
FeesAreSound == FeesAddUp /\ NoOverpaymentAlone /\ CreditIsCovered
=============================================================================
