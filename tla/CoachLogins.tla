------------------------------ MODULE CoachLogins ------------------------------
(***************************************************************************)
(* The logins of the coaches.  The owner links a member's account to a     *)
(* coach on the roster and the member becomes a coach.  The handler runs   *)
(* outside any transaction: it reads the account, writes the coach's row   *)
(* and then the account's role, and other links, unlinks, or the death of  *)
(* the process come between.                                               *)
(*                                                                         *)
(* PromotesFirst, which no action uses, is a wrong version of Resolved.    *)
(***************************************************************************)
EXTENDS FiniteSets, Naturals

CONSTANTS
    Coaches,    \* coach profiles
    Logins,     \* user accounts of the club
    Managers,   \* requests of the owner under way at once
    NoLogin

ASSUME NoLoginAssumption == NoLogin \notin Logins \cup Coaches

VARIABLES
    profile,   \* coaches.user_id; "absent" before the INSERT
    role,      \* users.role
    linking,   \* the link each request is making
    linked,    \* accounts a coach's row has named (history)
    cut        \* accounts whose link died half-way (history)

loginVars == <<profile, role, linking, linked, cut>>

NoLink == [step |-> "idle", coach |-> NoLogin, login |-> NoLogin]
Roster == {c \in Coaches : profile[c] # "absent"}

LoginsInit ==
    /\ profile \in {[c \in Coaches |-> "absent"], [c \in Coaches |-> NoLogin]}
    /\ role \in [Logins -> {"customer", "receptionist"}]
    /\ linking = [m \in Managers |-> NoLink]
    /\ linked = {} /\ cut = {}

Link(m, c, login) == linking' = [linking EXCEPT ![m] = [step |-> "asked", coach |-> c, login |-> login]]

\* The row is there, and stays, whatever becomes of the link.
CreateCoach(m, c, login) ==
    /\ linking[m] = NoLink /\ profile[c] = "absent"
    /\ profile' = [profile EXCEPT ![c] = NoLogin]
    /\ IF login = NoLogin THEN UNCHANGED linking ELSE Link(m, c, login)
    /\ UNCHANGED <<role, linked, cut>>

RelinkCoach(m, c, login) ==
    /\ linking[m] = NoLink /\ c \in Roster
    /\ Link(m, c, login)
    /\ UNCHANGED <<profile, role, linked, cut>>

Unlink(c) ==
    /\ c \in Roster
    /\ profile' = [profile EXCEPT ![c] = NoLogin]
    /\ UNCHANGED <<role, linking, linked, cut>>

\* The account and its role are read; an unknown or suspended account ends it.
PromotesFirst(m, login) == role' = [role EXCEPT ![login] = IF @ = "customer" THEN "coach" ELSE @]
Resolved(m, login)      == UNCHANGED role

ResolveCoachAccount(m) ==
    LET login == linking[m].login
    IN /\ linking[m].step = "asked"
       /\ linking' = [linking EXCEPT ![m].step = IF role[login] = "customer" THEN "member" ELSE "other"]
       /\ Resolved(m, login)
       /\ UNCHANGED <<profile, linked, cut>>

NoAccount(m) ==
    /\ linking[m].step = "asked"
    /\ linking' = [linking EXCEPT ![m] = NoLink]
    /\ UNCHANGED <<profile, role, linked, cut>>

\* coaches.user_id is unique: another coach's login is refused.
NamedElsewhere(c, login) == \E other \in Coaches \ {c} : profile[other] = login

LinkCoachAccount(m) ==
    LET c == linking[m].coach
        login == linking[m].login
    IN /\ linking[m].step \in {"member", "other"} /\ ~NamedElsewhere(c, login)
       /\ profile' = [profile EXCEPT ![c] = login]
       /\ linked' = linked \cup {login}
       /\ linking' = [linking EXCEPT ![m] = IF @.step = "member" THEN [@ EXCEPT !.step = "promoting"] ELSE NoLink]
       /\ UNCHANGED <<role, cut>>

LinkRefused(m) ==
    /\ linking[m].step \in {"member", "other"} /\ NamedElsewhere(linking[m].coach, linking[m].login)
    /\ linking' = [linking EXCEPT ![m] = NoLink]
    /\ UNCHANGED <<profile, role, linked, cut>>

Promote(m) ==
    /\ linking[m].step = "promoting"
    /\ role' = [role EXCEPT ![linking[m].login] = "coach"]
    /\ linking' = [linking EXCEPT ![m] = NoLink]
    /\ UNCHANGED <<profile, linked, cut>>

LinkCut(m) ==
    /\ linking[m] # NoLink
    /\ linking' = [linking EXCEPT ![m] = NoLink]
    /\ cut' = cut \cup {linking[m].login}
    /\ UNCHANGED <<profile, role, linked>>

LoginsNext ==
    \/ \E m \in Managers, c \in Coaches :
          \/ \E login \in Logins \cup {NoLogin} : CreateCoach(m, c, login)
          \/ \E login \in Logins : RelinkCoach(m, c, login)
    \/ \E c \in Coaches : Unlink(c)
    \/ \E m \in Managers :
          \/ ResolveCoachAccount(m) \/ NoAccount(m) \/ LinkCoachAccount(m)
          \/ LinkRefused(m) \/ Promote(m) \/ LinkCut(m)

LoginsSpec == LoginsInit /\ [][LoginsNext]_loginVars

LoginsTypeOK ==
    /\ profile \in [Coaches -> Logins \cup {NoLogin, "absent"}]
    /\ role \in [Logins -> {"customer", "receptionist", "coach"}]
    /\ linking \in [Managers -> [step : {"idle", "asked", "member", "other", "promoting"},
                                 coach : Coaches \cup {NoLogin}, login : Logins \cup {NoLogin}]]
    /\ linked \subseteq Logins /\ cut \subseteq Logins

\* No member is made a coach by a link that was refused, and a member whose
\* login a coach's row names is a coach, unless the link is still on its way
\* or died between its two statements.
LinksPromote ==
    /\ \A u \in Logins : role[u] = "coach" => u \in linked
    /\ \A c \in Roster : LET u == profile[c] IN
           u # NoLogin /\ role[u] = "customer" =>
               u \in cut \/ \E m \in Managers : linking[m].step = "promoting" /\ linking[m].login = u
=============================================================================
