----------------------------- MODULE CoachingLedger -----------------------------
(***************************************************************************)
(* The money of the training sessions.  A session takes its price and the  *)
(* split of it from the coach's terms when it is logged; the desk collects *)
(* it from a screen that may be out of date, and other desks, or the API,  *)
(* change the same rows meanwhile.  Every operation is one statement, or   *)
(* one transaction that holds the coach's row.  Money is in the smallest   *)
(* unit, a span in half hours.  Every session is recent enough for every   *)
(* page.  The calendar is CourtSchedule's.                                 *)
(*                                                                         *)
(* CollectibleAlways, which no action uses, is a wrong version of          *)
(* Collectible, and UpdateTermsRewrites of UpdateTerms.                    *)
(***************************************************************************)
EXTENDS Integers, FiniteSets, Totals

CONSTANTS
    Trainers,    \* coach profiles
    Trainings,   \* training sessions
    Deals,       \* rates and commissions: rate per hour, pct
    Spans,       \* lengths of a session the form offers, in half hours
    Prices,      \* prices a desk may type in
    ByRate       \* no price typed in

ASSUME DealsAssumption  == Deals \subseteq [rate : Nat, pct : 0 .. 100]
ASSUME RowsAssumption   == IsFiniteSet(Trainers) /\ IsFiniteSet(Trainings)
ASSUME PricesAssumption == Prices \subseteq Nat /\ Spans \subseteq Nat /\ ByRate \notin Nat

VARIABLES
    terms,      \* coaches: rate, commission, is_active
    training,   \* training_sessions
    collected,  \* what the desks were told they had collected, per session (history)
    till        \* one desk's screen: both lists as they were loaded

ledgerVars == <<terms, training, collected, till>>

NotLogged  == [status |-> "absent", coach |-> CHOOSE c \in Trainers : TRUE,
               price |-> 0, coachShare |-> 0, clubShare |-> 0, paid |-> FALSE]
NothingYet == [times |-> 0, price |-> 0, coachShare |-> 0, clubShare |-> 0]

LedgerInit ==
    /\ terms \in [Trainers -> [of : Deals, active : {TRUE}]]
    /\ training = [t \in Trainings |-> NotLogged]
    /\ collected = [t \in Trainings |-> NothingYet]
    /\ till = [terms |-> terms, rows |-> training, current |-> TRUE]

Logged == {t \in Trainings : training[t].status # "absent"}
Stale  == [till EXCEPT !.current = FALSE]

-----------------------------------------------------------------------------
(* The split *)

\* Math.round of a half-hourly price and of a percentage.
Charge(of, span) == (of.rate * span + 1) \div 2
CoachShare(price, pct) == (2 * price * pct + 100) \div 200

SessionRow(c, pct, price) ==
    [status |-> "scheduled", coach |-> c, price |-> price, coachShare |-> CoachShare(price, pct),
     clubShare |-> price - CoachShare(price, pct), paid |-> FALSE]

\* What the form announces before the session is logged, in half units.
EstPrice(of, span, typed) == IF typed = ByRate THEN of.rate * span ELSE 2 * typed
EstCoach(of, span, typed) == (2 * EstPrice(of, span, typed) * of.pct + 200) \div 400

-----------------------------------------------------------------------------
(* The handlers *)

\* An owner's edit; the sessions on file keep their split.
UpdateTermsRewrites(c, of) ==
    /\ terms' = [terms EXCEPT ![c].of = of]
    /\ training' = [t \in Trainings |->
           IF training[t].coach = c /\ t \in Logged
           THEN [training[t] EXCEPT !.coachShare = CoachShare(training[t].price, of.pct)] ELSE training[t]]
UpdateTerms(c, of) ==
    /\ terms' = [terms EXCEPT ![c].of = of]
    /\ UNCHANGED training

UpdateCoach(c, of) ==
    /\ terms[c].of # of
    /\ UpdateTerms(c, of)
    /\ till' = Stale /\ UNCHANGED collected

SetActive(c) ==
    /\ terms' = [terms EXCEPT ![c].active = ~@]
    /\ till' = Stale /\ UNCHANGED <<training, collected>>

\* A request may bring a price, and over the API a commission, of its own.
CreateSession(t, c, span, typed, pct) ==
    /\ t \notin Logged /\ terms[c].active
    /\ training' = [training EXCEPT ![t] =
           SessionRow(c, pct, IF typed = ByRate THEN Charge(terms[c].of, span) ELSE typed)]
    /\ till' = Stale /\ UNCHANGED <<terms, collected>>

\* Any status may follow any other, and a collected session may be cancelled.
UpdateSession(t, status) ==
    /\ t \in Logged
    /\ training' = [training EXCEPT ![t].status = status]
    /\ till' = Stale /\ UNCHANGED <<terms, collected>>

CollectibleAlways(t) == t \in Logged
Collectible(t)       == t \in Logged /\ ~training[t].paid

\* The row is marked by the handler; shown is the row the notice is made from.
MarkSessionPaid(t, shown) ==
    /\ Collectible(t)
    /\ training' = [training EXCEPT ![t].paid = TRUE]
    /\ collected' = [collected EXCEPT ![t] =
           [times |-> @.times + 1, price |-> @.price + shown.price,
            coachShare |-> @.coachShare + shown.coachShare, clubShare |-> @.clubShare + shown.clubShare]]
    /\ till' = Stale /\ UNCHANGED terms

-----------------------------------------------------------------------------
(* The desk's screen *)

LoadLedger ==
    /\ ~till.current
    /\ till' = [terms |-> terms, rows |-> training, current |-> TRUE]
    /\ UNCHANGED <<terms, training, collected>>

\* The buttons of a row: Collect and Cancel come and go together.
Owed(t) == till.rows[t].status \notin {"absent", "cancelled"} /\ ~till.rows[t].paid
Choosable(c) == till.terms[c].active

CollectPressed(t) == Owed(t) /\ MarkSessionPaid(t, till.rows[t])
CancelSessionPressed(t)  == Owed(t) /\ UpdateSession(t, "cancelled")

LogPressed(t, c, span, typed) == Choosable(c) /\ CreateSession(t, c, span, typed, terms[c].of.pct)

LedgerNext ==
    \/ \E c \in Trainers, of \in Deals : UpdateCoach(c, of)
    \/ \E c \in Trainers : SetActive(c)
    \/ \E t \in Trainings, c \in Trainers, span \in Spans, typed \in Prices \cup {ByRate} :
          \/ LogPressed(t, c, span, typed)
          \/ \E of \in Deals : CreateSession(t, c, span, typed, of.pct)
    \/ \E t \in Trainings :
          \/ CollectPressed(t) \/ CancelSessionPressed(t)
          \/ MarkSessionPaid(t, training[t])
          \/ \E status \in {"scheduled", "completed", "cancelled"} : UpdateSession(t, status)
    \/ LoadLedger

LedgerSpec == LedgerInit /\ [][LedgerNext]_ledgerVars

-----------------------------------------------------------------------------
(* The reports *)

Paid   == {t \in Logged : training[t].paid}
Owing == {t \in Logged : ~training[t].paid /\ training[t].status # "cancelled"}

\* The finance page and the ledger's headline.
CollectedTotal == Total(Paid, [t \in Trainings |-> training[t].price])
CoachPayouts   == Total(Paid, [t \in Trainings |-> training[t].coachShare])
ClubProfit     == Total(Paid, [t \in Trainings |-> training[t].clubShare])
Outstanding    == Total(Owing, [t \in Trainings |-> training[t].price])

\* The roster, active coaches or not, and a coach's own calendar.
Earned(c)       == Total({t \in Paid : training[t].coach = c}, [t \in Trainings |-> training[t].coachShare])
PendingShare(c) == Total({t \in Owing : training[t].coach = c}, [t \in Trainings |-> training[t].coachShare])

LedgerTypeOK ==
    /\ terms \in [Trainers -> [of : Deals, active : BOOLEAN]]
    /\ \A rows \in {training, till.rows} :
           rows \in [Trainings -> [status : {"absent", "scheduled", "completed", "cancelled"},
                                   coach : Trainers \cup {NotLogged.coach}, price : Nat, coachShare : Nat, clubShare : Nat, paid : BOOLEAN]]
    /\ collected \in [Trainings -> [times : Nat, price : Nat, coachShare : Nat, clubShare : Nat]]
    /\ till.terms \in [Trainers -> [of : Deals, active : BOOLEAN]] /\ till.current \in BOOLEAN

\* A session marked as paid was collected once, for the price and the split on
\* its row; one that is not was never collected.
EachTakenOnce ==
    \A t \in Trainings : collected[t] =
        IF t \in Paid
        THEN [times |-> 1, price |-> training[t].price,
              coachShare |-> training[t].coachShare, clubShare |-> training[t].clubShare]
        ELSE NothingYet

\* However terms are edited and from whichever screen a session is collected,
\* the reports add up what the desks took, once, and split it as they were told.
ReportsShowWhatWasTaken ==
    /\ EachTakenOnce
    /\ CollectedTotal = Total(Trainings, [t \in Trainings |-> collected[t].price])
    /\ CoachPayouts = Total(Trainings, [t \in Trainings |-> collected[t].coachShare])
    /\ ClubProfit = Total(Trainings, [t \in Trainings |-> collected[t].clubShare])
    /\ CollectedTotal = CoachPayouts + ClubProfit
    /\ CoachPayouts = Total(Trainers, [c \in Trainers |-> Earned(c)])

\* On an up-to-date screen the buttons are the sessions the headline counts as
\* outstanding, of which a coach is promised a part, and the server collects them.
ButtonsAreTrue ==
    till.current =>
        /\ Outstanding = Total({t \in Trainings : Owed(t)}, [t \in Trainings |-> till.rows[t].price])
        /\ Total(Trainers, [c \in Trainers |-> PendingShare(c)]) <= Outstanding
        /\ \A t \in Trainings : Owed(t) => Collectible(t)

\* On an up-to-date screen the form offers the coaches the server accepts, and
\* announces, but for the rounding, what will be charged and what the coach gets.
FormIsTrue ==
    till.current => \A c \in Trainers, span \in Spans, typed \in Prices \cup {ByRate} :
        LET of    == till.terms[c].of
            price == IF typed = ByRate THEN Charge(terms[c].of, span) ELSE typed
        IN /\ Choosable(c) => terms[c].active
           /\ 2 * price - EstPrice(of, span, typed) \in {0, 1}
           /\ CoachShare(price, terms[c].of.pct) - EstCoach(of, span, typed) \in {0, 1}

\* The money of the sessions is what the desks collected, as their screens said.
CoachingIsSound == ReportsShowWhatWasTaken /\ ButtonsAreTrue /\ FormIsTrue
=================================================================================
