----------------------------- MODULE Tournament -----------------------------
(***************************************************************************)
(* One tournament: the teams that register, the draw of a single           *)
(* elimination tree, and the results that move the winners up.             *)
(*                                                                         *)
(* Only the draw is a transaction; registering and recording a result are  *)
(* statements of their own, and others (or a crash of the process) come    *)
(* between them.  A team's id is its place in order of registration.       *)
(*                                                                         *)
(* SideSwapped, which no action uses, is a wrong version of Side.          *)
(***************************************************************************)
EXTENDS Integers, FiniteSets

CONSTANTS
    Entrants,    \* registrations, by different captains or by staff
    MaxTeams,    \* max_teams
    MaxRounds,   \* bound: rounds of the largest draw
    Founding,    \* teams registered before the model starts
    Recorders,   \* requests recording a result
    MaxResults,  \* bound: results recorded
    MaxChanges,  \* bound: changes of the status by hand, and draws
    None

\* 2 to the power of k: the slots of a tree of k rounds.
Pow2[k \in Nat] == IF k = 0 THEN 1 ELSE 2 * Pow2[k - 1]

Teams == 1 .. Pow2[MaxRounds]
Status == {"registration_open", "in_progress", "completed", "cancelled"}

ASSUME SizesAssumption ==
    /\ MaxRounds \in Nat \ {0} /\ MaxTeams \in Nat /\ Founding \in 0 .. MaxTeams
    /\ IsFiniteSet(Entrants) /\ MaxTeams + Cardinality(Entrants) <= Pow2[MaxRounds]
    /\ None \notin Teams

VARIABLES
    status,
    count,       \* rows of tournament_teams
    entry,       \* registrations: none, the tournament read, or the team inserted
    match,       \* tournament_matches by <<round, position>>: the two teams and the winner
    drawn,       \* how many teams the draw was made from; 0 before the first
    result,      \* results being recorded: the row read, the winner, whether stored
    redrawn,     \* a draw was made while a result was being recorded (history)
    raced,       \* a result was lost half way, or recorded for a decided match (history)
    results, changes

tournamentVars == <<status, count, entry, match, drawn, result, redrawn, raced, results, changes>>

-----------------------------------------------------------------------------
(* The draw.                                                               *)

Rounds(n) == CHOOSE k \in 0 .. MaxRounds : Pow2[k] >= n /\ \A j \in 0 .. k - 1 : Pow2[j] < n

Opposite(k) == Pow2[k] + 1

\* The seeds in the order they stand in round 1 of a tree of k rounds: each seed
\* of the tree half as large is followed by its opposite.
SeedOrder[k \in Nat] ==
    IF k = 0 THEN <<1>>
    ELSE [i \in 1 .. Pow2[k] |->
            LET s == SeedOrder[k - 1][(i + 1) \div 2] IN
            IF i % 2 = 1 THEN s ELSE Opposite(k) - s]

Places(n) == {m \in (1 .. Rounds(n)) \X (1 .. Pow2[MaxRounds]) : m[2] <= Pow2[Rounds(n) - m[1]]}

\* The team in slot i of round 1, None where the seed is beyond the teams.
Slot(n, i) == LET s == SeedOrder[Rounds(n)][i] IN IF s \in 1 .. n THEN s ELSE None

Above(p) == (p + 1) \div 2
SideSwapped(p) == IF p % 2 = 1 THEN 2 ELSE 1
Side(p) == IF p % 2 = 1 THEN 1 ELSE 2

Bye(n, p) == (Slot(n, 2 * p - 1) = None) # (Slot(n, 2 * p) = None)
Unopposed(n, p) == IF Slot(n, 2 * p - 1) = None THEN Slot(n, 2 * p) ELSE Slot(n, 2 * p - 1)

Advances(n, p) == Rounds(n) > 1 /\ Bye(n, p)

\* What round 2 knows at once, and what the rounds after it wait for.
Seat(n, r, p, side) ==
    IF r = 1 THEN Slot(n, 2 * p - (2 - side))
    ELSE LET from == {q \in {2 * p - 1, 2 * p} : r = 2 /\ Advances(n, q) /\ Side(q) = side} IN
         IF from = {} THEN None ELSE Unopposed(n, CHOOSE q \in from : TRUE)

Draw(n) ==
    [m \in Places(n) |->
        [team |-> [side \in {1, 2} |-> Seat(n, m[1], m[2], side)],
         winner |-> IF m[1] = 1 /\ Advances(n, m[2]) THEN Unopposed(n, m[2]) ELSE None]]

-----------------------------------------------------------------------------
NoResult == [stage |-> "none", at |-> <<0, 0>>, winner |-> None, live |-> FALSE]

TournamentInit ==
    /\ status = "registration_open"
    /\ count = Founding
    /\ entry = [c \in Entrants |-> "none"]
    /\ match = << >>
    /\ drawn = 0
    /\ result = [o \in Recorders |-> NoResult]
    /\ redrawn = FALSE
    /\ raced = FALSE
    /\ results = 0 /\ changes = 0

\* Status, room and the captain's earlier team are read, and the team inserted
\* by a later statement.
RegisterReads(c) ==
    /\ entry[c] = "none"
    /\ status = "registration_open" /\ count < MaxTeams
    /\ entry' = [entry EXCEPT ![c] = "read"]
    /\ UNCHANGED <<status, count, match, drawn, result, redrawn, raced, results, changes>>

RegisterInserts(c) ==
    /\ entry[c] = "read"
    /\ entry' = [entry EXCEPT ![c] = "in"]
    /\ count' = count + 1
    /\ UNCHANGED <<status, match, drawn, result, redrawn, raced, results, changes>>

UnderWay == {o \in Recorders : result[o].stage # "none"}

\* A draw replaces the one before; results under way were read from the old one.
GenerateBracket ==
    /\ changes < MaxChanges
    /\ status \in {"registration_open", "in_progress"} /\ count >= 2
    /\ match' = Draw(count)
    /\ drawn' = count
    /\ status' = "in_progress"
    /\ result' = [o \in Recorders |-> [result[o] EXCEPT !.live = FALSE]]
    /\ redrawn' = (redrawn \/ UnderWay # {})
    /\ changes' = changes + 1
    /\ UNCHANGED <<count, entry, raced, results>>

UpdateTournament(s) ==
    /\ changes < MaxChanges
    /\ status' = s
    /\ changes' = changes + 1
    /\ UNCHANGED <<count, entry, match, drawn, result, redrawn, raced, results>>

\* The match is read and checked; it may have been decided before.
ResultReads(o, m, w) ==
    /\ result[o].stage = "none" /\ results < MaxResults
    /\ match[m].team[1] # None /\ match[m].team[2] # None
    /\ w \in {match[m].team[1], match[m].team[2]}
    /\ result' = [result EXCEPT ![o] = [stage |-> "read", at |-> m, winner |-> w, live |-> TRUE]]
    /\ raced' = (raced \/ match[m].winner # None \/ \E x \in UnderWay : result[x].at = m)
    /\ results' = results + 1
    /\ UNCHANGED <<status, count, entry, match, drawn, redrawn, changes>>

\* The row is addressed by its id: a row of an earlier draw is gone.
ResultStores(o) ==
    /\ result[o].stage = "read"
    /\ match' = IF result[o].live THEN [match EXCEPT ![result[o].at].winner = result[o].winner] ELSE match
    /\ result' = [result EXCEPT ![o].stage = "stored"]
    /\ UNCHANGED <<status, count, entry, drawn, redrawn, raced, results, changes>>

\* The next match is looked for by round and position, in whatever draw stands.
ResultAdvances(o) ==
    LET m == result[o].at
        up == <<m[1] + 1, Above(m[2])>> IN
    /\ result[o].stage = "stored"
    /\ IF up \in DOMAIN match
       THEN /\ match' = [match EXCEPT ![up].team[Side(m[2])] = result[o].winner]
            /\ UNCHANGED status
       ELSE /\ status' = "completed"
            /\ UNCHANGED match
    /\ result' = [result EXCEPT ![o] = NoResult]
    /\ UNCHANGED <<count, entry, drawn, redrawn, raced, results, changes>>

\* The process dies, or a statement fails, before the winner moved up.
ResultLost(o) ==
    /\ result[o].stage # "none"
    /\ result' = [result EXCEPT ![o] = NoResult]
    /\ raced' = (raced \/ result[o].stage = "stored")
    /\ UNCHANGED <<status, count, entry, match, drawn, redrawn, results, changes>>

-----------------------------------------------------------------------------
TournamentNext ==
    \/ \E c \in Entrants : RegisterReads(c) \/ RegisterInserts(c)
    \/ GenerateBracket
    \/ \E s \in Status : UpdateTournament(s)
    \/ \E o \in Recorders : \/ \E m \in DOMAIN match : \E w \in {match[m].team[1], match[m].team[2]} : ResultReads(o, m, w)
                         \/ ResultStores(o) \/ ResultAdvances(o) \/ ResultLost(o)

TournamentSpec == TournamentInit /\ [][TournamentNext]_tournamentVars

-----------------------------------------------------------------------------
TournamentTypeOK ==
    /\ status \in Status
    /\ count \in 0 .. MaxTeams + Cardinality(Entrants)
    /\ entry \in [Entrants -> {"none", "read", "in"}]
    /\ drawn \in 0 .. count
    /\ DOMAIN match = IF drawn = 0 THEN {} ELSE Places(drawn)
    /\ \A m \in DOMAIN match : match[m].winner \in 1 .. count \cup {None}
                            /\ \A side \in {1, 2} : match[m].team[side] \in 1 .. count \cup {None}
    /\ redrawn \in BOOLEAN /\ raced \in BOOLEAN

InRound1(i) == match[<<1, (i + 1) \div 2>>].team[IF i % 2 = 1 THEN 1 ELSE 2]

\* The first round seats every team of the draw once, no match is left without
\* a team, and the byes fall to the strongest seeds.
DrawSeatsEveryTeam ==
    drawn > 0 =>
        LET size == Pow2[Rounds(drawn)] IN
        /\ \A t \in 1 .. drawn : Cardinality({i \in 1 .. size : InRound1(i) = t}) = 1
        /\ \A p \in 1 .. size \div 2 : InRound1(2 * p - 1) # None \/ InRound1(2 * p) # None
        /\ \A p \in 1 .. size \div 2 : \A side \in {1, 2} :
               match[<<1, p>>].team[3 - side] = None => match[<<1, p>>].team[side] <= size - drawn

\* The slots of round 1 that lead to one side of a match.
Branch(r, p, side) ==
    LET w == Pow2[r - 1] IN
    {i \in 1 .. Pow2[MaxRounds] : i > ((p - 1) * 2 + side - 1) * w /\ i <= ((p - 1) * 2 + side) * w}

\* A team stands in a later round only where its own branch of the tree leads,
\* whatever results were recorded again or lost, as long as no draw replaced
\* the one a result was read from.
BranchKept ==
    \A m \in DOMAIN match : \A side \in {1, 2} :
        LET t == match[m].team[side] IN
        t # None => redrawn \/ \E i \in Branch(m[1], m[2], side) : i <= Pow2[Rounds(drawn)] /\ InRound1(i) = t

\* While a drawn tournament goes on there is always a match to be played: both
\* its teams known, its winner not.
NeverStuck ==
    (status = "in_progress" /\ drawn > 0 /\ UnderWay = {} /\ ~raced /\ ~redrawn) =>
        \/ \E m \in DOMAIN match :
               match[m].winner = None /\ match[m].team[1] # None /\ match[m].team[2] # None
        \/ match[<<Rounds(drawn), 1>>].winner # None

\* A slot of a later round holds the winner of the match below it, decided or
\* not, unless a result was lost half way or recorded over another.
WinnersMoveUp ==
    (UnderWay = {} /\ ~raced /\ ~redrawn) =>
        \A m \in DOMAIN match : m[1] > 1 =>
            \A side \in {1, 2} : match[m].team[side] = match[<<m[1] - 1, 2 * m[2] - 2 + side>>].winner

\* A drawn tree seats every team once, each on its branch, fills from below and
\* never runs out of matches to play.
BracketIsSound == DrawSeatsEveryTeam /\ BranchKept /\ WinnersMoveUp /\ NeverStuck
=============================================================================
