------------------------------ MODULE Consoles ------------------------------
(***************************************************************************)
(* The desk's and the owner's pages: lists a page has loaded, and handlers *)
(* that ask the server for a change and then bring the lists up to date,   *)
(* each in its own way: by loading lists again, by patching the row from   *)
(* the answer, or by showing the change before it is made.  Some lists are *)
(* of what is chosen: a range of days, a tournament, the item whose claims *)
(* are open, whether retired courts count.  Changes, answers, choices and  *)
(* loads cross, and other people change the same rows.                     *)
(*                                                                         *)
(* ForgetsIncome and BeforeLater, which no other definition uses, are      *)
(* wrong versions of FinanceConsole and Before.                            *)
(***************************************************************************)
EXTENDS Integers, FiniteSets

CONSTANTS
    MaxVersions,  \* bound on the changes, the page's and others'
    Unread,       \* a load the server has not come to
    Stray         \* the rows of another choice

ASSUME VersionsAssumption ==
    /\ MaxVersions \in Nat \ {0} /\ Unread \notin 0 .. MaxVersions
    /\ Stray \notin (0 .. MaxVersions) \cup {Unread}

VARIABLES
    console,     \* the page: its handlers
    chosen,      \* the choice, numbered as the versions are
    actual,      \* per list, the version in the database of the rows chosen
    seen,        \* per list, the version the page shows
    fetches,     \* loads under way
    changes,     \* changes under way
    version,     \* the latest version of anything, and the latest choice
    excused,     \* history: lists on which something crossed, was lost, changed elsewhere
                 \* or was loaded again for a choice left behind
    overlooked   \* history: lists a change of the page moved and did not bring up to date

consoleVars == <<console, chosen, actual, seen, fetches, changes, version, excused, overlooked>>

-----------------------------------------------------------------------------
(* The handlers: the lists a change shows in, those loaded again after it,  *)
(* those loaded again when it fails, how the page follows it, and whether   *)
(* its button waits for the answer.                                         *)

Handler(moves, reloads, waits) ==
    [moves |-> moves, reloads |-> reloads, repairs |-> {}, follows |-> "by loading", waits |-> waits,
     turns |-> FALSE]
\* The page turns to what was made.
Turning(moves, reloads, waits) ==
    [moves |-> moves, reloads |-> reloads, repairs |-> {}, follows |-> "by loading", waits |-> waits,
     turns |-> TRUE]
Patching(list, repairs, how, waits) ==
    [moves |-> {list}, reloads |-> {}, repairs |-> repairs, follows |-> how, waits |-> waits,
     turns |-> FALSE]

InventoryConsole ==
    [patchEquipment |-> Patching("equipment", {"equipment"}, "from the answer", TRUE),
     addItem |-> Handler({"equipment"}, {"equipment"}, TRUE),
     revoke |-> Handler({"subs"}, {"subs"}, TRUE)]
ForgetsIncome ==
    [addExpense |-> Handler({"expenses", "financials"}, {"expenses"}, TRUE)]
FinanceConsole ==
    [addExpense |-> Handler({"expenses", "financials"}, {"expenses", "financials"}, TRUE),
     removeExpense |-> Handler({"expenses", "financials"}, {"expenses", "financials"}, TRUE)]
CourtsConsole ==
    [save |-> Handler({"courts"}, {"courts"}, TRUE),
     deleteCourt |-> Handler({"courts"}, {"courts"}, FALSE),
     reactivateCourt |-> Handler({"courts"}, {"courts"}, FALSE),
     toggleAvailability |-> Patching("courts", {}, "at once", FALSE)]
TournamentConsole ==
    [createTournament |-> Turning({"list"}, {"list", "detail"}, TRUE),
     addTeam |-> Handler({"list", "detail"}, {"list", "detail"}, TRUE),
     recordPayment |-> Handler({"list", "detail"}, {"list", "detail"}, TRUE),
     generateBracket |-> Handler({"list", "detail"}, {"list", "detail"}, TRUE),
     recordResult |-> Handler({"list", "detail"}, {"list", "detail"}, FALSE)]
\* A member's payment is always refused.
JoinConsole ==
    [registerTeam |-> Handler({"list", "detail"}, {"list", "detail"}, TRUE),
     payFee |-> Handler({}, {"detail"}, TRUE)]
FoundConsole ==
    [logItem |-> Handler({"items"}, {"items"}, TRUE),
     decide |-> Handler({"items", "claims"}, {"items", "claims"}, TRUE),
     setItemStatus |-> Handler({"items"}, {"items"}, FALSE)]
ClaimConsole == [submitClaim |-> Handler({"items"}, {"items"}, TRUE)]
\* The roster counts the sessions that are not cancelled.
CoachingConsole ==
    [addCoach |-> Handler({"coaches"}, {"coaches"}, TRUE),
     patchCoach |-> Handler({"coaches"}, {"coaches"}, FALSE),
     addSession |-> Handler({"sessions", "coaches"}, {"sessions", "coaches"}, TRUE),
     markPaid |-> Handler({"sessions", "coaches"}, {"sessions", "coaches"}, TRUE),
     setSessionStatus |-> Handler({"sessions", "coaches"}, {"sessions"}, FALSE)]
CheckinConsole == [handleCheckIn |-> Patching("bookings", {}, "from the answer", TRUE)]
VerifyConsole ==
    [handleApprove |-> Patching("bookings", {}, "from the answer", TRUE),
     handleReject |-> Patching("bookings", {}, "from the answer", TRUE)]

PageOf(c) == UNION {c[h].moves \cup c[h].reloads : h \in DOMAIN c}
Consoles  == {InventoryConsole, FinanceConsole, CourtsConsole, TournamentConsole, JoinConsole,
              FoundConsole, ClaimConsole, CoachingConsole, CheckinConsole, VerifyConsole}
Lists     == PageOf(console)
Versions  == 0 .. MaxVersions
Contents  == Versions \cup {Stray}

\* The lists of what is chosen; two tournaments, and two items, share no row.
ByChoice == {"expenses", "financials", "courts", "detail", "claims"}
Keyed    == Lists \cap ByChoice
Apart    == {"detail", "claims"}

ConsolesTypeOK ==
    /\ console \in Consoles /\ version \in Versions /\ chosen \in Versions
    /\ actual \in [Lists -> Versions] /\ seen \in [Lists -> Contents]
    /\ fetches \subseteq [nr : Versions, list : Lists, of : Contents, found : Contents \cup {Unread}]
    /\ changes \subseteq [nr : Versions, by : DOMAIN console, of : Contents, before : Contents, made : BOOLEAN]
    /\ excused \subseteq Lists /\ overlooked \subseteq Lists

\* A page opens with a load of each of its lists.
ConsolesInit ==
    /\ console \in Consoles
    /\ actual = [l \in Lists |-> 0] /\ seen = [l \in Lists |-> 0]
    /\ fetches = {[nr |-> 0, list |-> l, of |-> 0, found |-> Unread] : l \in Lists}
    /\ changes = {} /\ version = 0 /\ chosen = 0 /\ excused = {} /\ overlooked = {}

-----------------------------------------------------------------------------
(* Loads *)

Handling(c)  == console[c.by]
\* What is under way that will not load the list again.
Direct(l)    == {c \in changes : Handling(c).follows # "by loading" /\ l \in Handling(c).moves}
Fetching(l)  == {f \in fetches : f.list = l}

\* Lists that nothing else under way touches but by loading them again.
Clean(lists, done) == {l \in lists : Fetching(l) = {} /\ Direct(l) \subseteq done}

Fetches(nr, lists, of) == {[nr |-> nr, list |-> l, of |-> of, found |-> Unread] : l \in lists}

FetchServed(f) ==
    /\ f.found = Unread
    /\ fetches' = (fetches \ {f}) \cup {[f EXCEPT !.found =
                           IF f.list \in Keyed /\ f.of # chosen THEN Stray ELSE actual[f.list]]}
    /\ UNCHANGED <<console, chosen, actual, seen, changes, version, excused, overlooked>>

FetchLands(f) ==
    /\ f.found # Unread
    /\ seen' = [seen EXCEPT ![f.list] = f.found]
    /\ fetches' = fetches \ {f}
    /\ UNCHANGED <<console, chosen, actual, changes, version, excused, overlooked>>

FetchFails(f) ==
    /\ fetches' = fetches \ {f}
    /\ excused' = excused \cup {f.list}
    /\ UNCHANGED <<console, chosen, actual, seen, changes, version, overlooked>>

-----------------------------------------------------------------------------
(* Choices *)

\* Another range, tournament or item is chosen, and its rows are asked for; those
\* on their way to the page, and those a handler under way will ask for, are not
\* its own.
Choose ==
    /\ version < MaxVersions /\ Keyed # {}
    /\ version' = version + 1 /\ chosen' = version'
    /\ actual' = [l \in Lists |-> IF l \in Keyed THEN version' ELSE actual[l]]
    /\ seen' = [l \in Lists |-> IF l \in Keyed THEN Stray ELSE seen[l]]
    /\ fetches' = fetches \cup Fetches(version', Keyed, version')
    /\ excused' = (excused \ Keyed) \cup (Keyed \ Clean(Keyed, {}))
    /\ UNCHANGED <<console, changes, overlooked>>

-----------------------------------------------------------------------------
(* Changes *)

BeforeLater(h) == version + 1
\* The version a list showed when a button was pressed, to go back to.
Before(h) == IF console[h].follows = "at once" THEN seen[CHOOSE l \in console[h].moves : TRUE] ELSE 0

Shown(h, v) == seen' = [l \in Lists |-> IF l \in console[h].moves THEN v ELSE seen[l]]

\* A handler keeps the choice of the press; a tournament's is the one shown, which
\* may not be the one chosen.
Meant == IF "detail" \in Keyed THEN IF seen["detail"] = Stray THEN Stray ELSE chosen ELSE chosen

\* A claim is decided on under its own item.
Press(h) ==
    /\ version < MaxVersions
    /\ "claims" \in console[h].moves => seen["claims"] # Stray
    /\ console[h].waits => \A c \in changes : c.by # h
    /\ version' = version + 1
    /\ changes' = changes \cup {[nr |-> version', by |-> h, of |-> Meant, before |-> Before(h), made |-> FALSE]}
    /\ IF console[h].follows = "at once" THEN Shown(h, version') ELSE UNCHANGED seen
    /\ excused' = excused \cup {l \in console[h].moves :
                        /\ console[h].follows # "by loading"
                        /\ Fetching(l) # {} \/ Direct(l) # {}}
    /\ UNCHANGED <<console, chosen, actual, fetches, overlooked>>

ChangeServed(c) ==
    /\ ~c.made
    /\ changes' = (changes \ {c}) \cup {[c EXCEPT !.made = TRUE]}
    /\ actual' = [l \in Lists |-> IF l \in Handling(c).moves /\ (l \in Apart => c.of = chosen)
                                THEN c.nr ELSE actual[l]]
    /\ UNCHANGED <<console, chosen, seen, fetches, version, excused, overlooked>>

\* The choice that is loaded again.
Target(c) == IF Handling(c).turns THEN c.nr ELSE c.of

ChangeAnswered(c) ==
    /\ c.made
    /\ changes' = changes \ {c}
    /\ chosen' = IF Handling(c).turns THEN c.nr ELSE chosen
    /\ actual' = [l \in Lists |-> IF Handling(c).turns /\ l \in Keyed THEN c.nr ELSE actual[l]]
    /\ IF Handling(c).follows = "from the answer" THEN Shown(c.by, c.nr) ELSE UNCHANGED seen
    /\ LET fresh  == {l \in Clean(Handling(c).reloads, {c}) : l \in Keyed => Target(c) = chosen'}
           missed == IF Handling(c).follows = "by loading"
                     THEN Handling(c).moves \ Handling(c).reloads ELSE {}
       IN  /\ excused' = (excused \cup Handling(c).reloads) \ fresh
           /\ fetches' = fetches \cup Fetches(c.nr, Handling(c).reloads, Target(c))
           /\ overlooked' = (overlooked \ Handling(c).reloads) \cup missed
    /\ UNCHANGED <<console, version>>

\* Refused, or made and its answer lost: the page goes back, or loads again
\* what it patches.
ChangeFails(c) ==
    /\ changes' = changes \ {c}
    /\ IF Handling(c).follows = "at once" THEN Shown(c.by, c.before) ELSE UNCHANGED seen
    /\ fetches' = fetches \cup Fetches(c.nr, Handling(c).repairs, chosen)
    /\ overlooked' = overlooked \ Handling(c).repairs
    /\ excused' = (excused \cup (IF c.made THEN Handling(c).moves ELSE {})) \ Clean(Handling(c).repairs, {c})
    /\ UNCHANGED <<console, chosen, actual, version>>

\* Another page, or another person, changes a list.
ElsewhereChanged(l) ==
    /\ version < MaxVersions
    /\ version' = version + 1
    /\ actual' = [actual EXCEPT ![l] = version']
    /\ excused' = excused \cup {l}
    /\ UNCHANGED <<console, chosen, seen, fetches, changes, overlooked>>

ConsolesNext ==
    \/ \E f \in fetches : FetchServed(f) \/ FetchLands(f) \/ FetchFails(f)
    \/ Choose
    \/ \E h \in DOMAIN console : Press(h)
    \/ \E c \in changes : ChangeServed(c) \/ ChangeAnswered(c) \/ ChangeFails(c)
    \/ \E l \in Lists : ElsewhereChanged(l)

-----------------------------------------------------------------------------
(* Properties *)

AllSettled == fetches = {} /\ changes = {}

\* When nothing of a page is under way, each of its lists shows what the database
\* holds of the choice, unless somebody else changed it, a call failed, two were
\* under way on it at once, or the choice was changed while one was that would
\* still show, or load again, the choice left behind: each handler brings every
\* list its change shows in up to date.  The one that does not is a coaching
\* session's change of status, after which the roster still counts the session
\* (admin/coaching/page.tsx 193-202, coaching.controller.ts 35).
ConsolesShowTheTruth ==
    AllSettled => \A l \in Lists :
        \/ l \in excused
        \/ seen[l] = actual[l]
        \/ console = CoachingConsole /\ l = "coaches" /\ l \in overlooked
=============================================================================
