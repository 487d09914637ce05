-------------------------------- MODULE Pages --------------------------------
(***************************************************************************)
(* A page that shows the rows of what is selected: a day of the schedule, a *)
(* week of the calendar, a tournament, a range of the finances.  Selecting  *)
(* starts a load, and the answers come in any order.  The schedule drops    *)
(* the answer to a selection that has passed; the other pages show whatever *)
(* arrives.  A button that changes rows calls the server first and reloads  *)
(* after it, and what it reloads is the selection of the press, which the   *)
(* handler closed over: no page can drop that answer.                       *)
(*                                                                         *)
(* LiveStill and NewLoadShared (one flag for all loads), which no definition *)
(* uses, are wrong versions of the definitions below them.                  *)
(***************************************************************************)
EXTENDS Naturals, FiniteSets

CONSTANTS
    Selections, \* what can be selected
    Blank,      \* what a page shows that has no rows
    MaxLoads    \* bound on the loads of a page

ASSUME BlankAssumption == Blank \notin Selections
ASSUME LoadsAssumption == MaxLoads \in Nat \ {0}

VARIABLES
    guarded,   \* whether the page drops the answer to a passed selection
    spins,     \* whether selecting hides the rows behind a spinner: all but the expenses
    chosen,    \* the selection
    shown,     \* whose rows the page shows
    loading,   \* whether it shows a spinner instead
    banner,    \* whether it shows an error
    pressed,   \* the buttons pressed whose call is under way, with what they will reload
    loads,     \* the requests under way
    made,      \* how many requests and presses so far
    hasty      \* history: the selection was made while a load it cannot drop, or a
               \* change, was under way, or the error over another's rows was cleared

pageVars == <<guarded, spins, chosen, shown, loading, banner, pressed, loads, made, hasty>>

Load   == [nr : 1 .. MaxLoads, choice : Selections, reload : BOOLEAN, dropped : BOOLEAN]
Change == [nr : 1 .. MaxLoads, choice : Selections]

PageTypeOK ==
    /\ guarded \in BOOLEAN /\ spins \in BOOLEAN
    /\ loading \in BOOLEAN /\ banner \in BOOLEAN /\ hasty \in BOOLEAN
    /\ chosen \in Selections /\ shown \in Selections \cup {Blank}
    /\ loads \subseteq Load /\ pressed \subseteq Change /\ made \in 0 .. MaxLoads
    /\ \A l, k \in loads : l.nr = k.nr => l = k
    /\ \A p, q \in pressed : p.nr = q.nr => p = q
    /\ \A p \in pressed, l \in loads : p.nr # l.nr
    /\ loading => \E l \in loads : ~l.dropped   \* a spinner has an end

NewLoadShared(n, c, again) ==
    [nr |-> n, choice |-> c, reload |-> again, dropped |-> guarded /\ ~again]
NewLoad(n, c, again) == [nr |-> n, choice |-> c, reload |-> again, dropped |-> FALSE]

PageInit ==
    /\ guarded \in BOOLEAN /\ spins \in {TRUE, guarded}
    /\ chosen \in Selections
    /\ shown = Blank /\ loading = TRUE /\ banner = FALSE
    /\ made = 1 /\ hasty = FALSE /\ pressed = {}
    /\ loads = {[nr |-> 1, choice |-> chosen, reload |-> FALSE, dropped |-> FALSE]}

\* What is left of the loads under way when the selection moves on.
LiveStill(l) == l
Live(l) == [l EXCEPT !.dropped = @ \/ (guarded /\ ~l.reload)]

Undroppable == {l \in loads : ~l.dropped /\ (guarded => l.reload)}

\* The schedule, the analytics, the courts and the availability clear the
\* error with the selection; the calendar shows none, and the finances and the
\* tournaments keep it.
Choose(c) ==
    /\ made < MaxLoads /\ c # chosen
    /\ chosen' = c
    /\ hasty' = (Undroppable # {} \/ pressed # {})
    /\ loads' = {Live(l) : l \in loads} \cup {NewLoad(made + 1, c, FALSE)}
    /\ made' = made + 1
    /\ loading' = (spins \/ loading) /\ banner' \in {FALSE, banner}
    /\ UNCHANGED <<guarded, spins, shown, pressed>>

\* The rows are another selection's, under the error of the load that failed.
OldRows == ~loading /\ banner /\ shown \notin {chosen, Blank}

\* A form that opens clears the error.
Dismiss ==
    /\ banner /\ banner' = FALSE
    /\ hasty' = (hasty \/ OldRows)
    /\ UNCHANGED <<guarded, spins, chosen, shown, loading, pressed, loads, made>>

\* Pressing a button clears the error and calls the server.  What it will
\* reload is the selection, or the tournament whose rows are shown.
Press(c) ==
    /\ made < MaxLoads
    /\ c = chosen \/ (spins /\ ~loading /\ c = shown)
    /\ pressed' = pressed \cup {[nr |-> made + 1, choice |-> c]}
    /\ made' = made + 1
    /\ banner' = FALSE /\ hasty' = (hasty \/ OldRows)
    /\ UNCHANGED <<guarded, spins, chosen, shown, loading, loads>>

\* The call has succeeded: the handler reloads, on the schedule and the courts
\* behind a spinner.
Reload(p) ==
    /\ pressed' = pressed \ {p}
    /\ loads' = loads \cup {NewLoad(p.nr, p.choice, TRUE)}
    /\ \/ loading' = TRUE /\ banner' = FALSE
       \/ UNCHANGED <<loading, banner>>
    /\ UNCHANGED <<guarded, spins, chosen, shown, made, hasty>>

\* The call has failed: only the removal of a court says nothing.
ChangeFails(p) ==
    /\ pressed' = pressed \ {p}
    /\ banner' \in {banner, TRUE}
    /\ UNCHANGED <<guarded, spins, chosen, shown, loading, loads, made, hasty>>

\* An answer that is not dropped is shown, and ends the spinner, whichever
\* load it answers.
LoadAnswered(l) ==
    /\ loads' = loads \ {l}
    /\ IF l.dropped THEN UNCHANGED <<shown, loading>>
                    ELSE shown' = l.choice /\ loading' = FALSE
    /\ UNCHANGED <<guarded, spins, chosen, banner, pressed, made, hasty>>

\* A page that fails keeps its rows under an error, or empties itself.
LoadFails(l) ==
    /\ loads' = loads \ {l}
    /\ IF l.dropped THEN UNCHANGED <<shown, loading, banner>>
                    ELSE /\ loading' = FALSE
                         /\ \/ banner' = TRUE /\ shown' \in {shown, Blank}
                            \/ banner' = FALSE /\ shown' = Blank
    /\ UNCHANGED <<guarded, spins, chosen, pressed, made, hasty>>

PageNext ==
    \/ \E c \in Selections : Choose(c) \/ Press(c)
    \/ Dismiss
    \/ \E p \in pressed : Reload(p) \/ ChangeFails(p)
    \/ \E l \in loads : LoadAnswered(l) \/ LoadFails(l)

PageSpec == PageInit /\ [][PageNext]_pageVars

-----------------------------------------------------------------------------
Misleading == ~loading /\ ~banner /\ shown \notin {chosen, Blank}

\* The rows of the selection are on their way to a list that has no spinner.
Awaited == ~spins /\ \E l \in loads : ~l.dropped /\ l.choice = chosen

\* A page shows another selection's rows as if they were this one's, and not
\* only until this one's arrive, for no other reason than these: the selection
\* was changed while a load was under way that it cannot drop (any load on most
\* pages, on the schedule only the reload after a change), or while a button's
\* own call was, whose reload will be of the selection left behind; or the load
\* of the selection failed and its error was cleared from over the old rows.
MisleadingTakesHaste == Misleading => hasty \/ Awaited
=============================================================================
