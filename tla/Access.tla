------------------------------- MODULE Access -------------------------------
(***************************************************************************)
(* Who is offered what, and who is let through.  The menus and pages judge *)
(* by the profile a browser tab took at sign-in; the routes judge by the   *)
(* token a call carries and by the permission flags of the moment.  Tabs   *)
(* share one refresh cookie and one stored profile, and a role can change  *)
(* while its owner is signed in.                                           *)
(*                                                                         *)
(* RoleLive and ProfileOnly, which no other definition uses, are wrong     *)
(* versions of RoleKept and Stored.                                        *)
(***************************************************************************)
EXTENDS Integers

CONSTANTS
    People,    \* the accounts signed in with
    Tabs,     \* the tabs of one browser
    Grants,   \* the sets of permission flags an owner gives
    Nobody    \* no session

VARIABLES
    post,       \* the role on each users row
    grants,     \* the permission flags on it
    cookie,     \* the session the refresh cookie stands for
    kept,       \* the profile in the browser's storage
    shown,      \* per tab, the profile its shell shows
    token,      \* per tab, the session of its access token
    renewing,   \* per tab, the session a refresh has answered with
    crossed,    \* history: tabs since whose profile another tab has signed in
    tangled     \* history: a refresh was under way at the last sign-in

accessVars == <<post, grants, cookie, kept, shown, token, renewing, crossed, tangled>>

Roles   == {"customer", "coach", "receptionist", "owner"}
Session == [who : People, as : Roles]

AccessTypeOK ==
    /\ post \in [People -> Roles] /\ grants \in [People -> Grants]
    /\ cookie \in Session \cup {Nobody} /\ kept \in Session \cup {Nobody}
    /\ {shown, token, renewing} \subseteq [Tabs -> Session \cup {Nobody}]
    /\ crossed \subseteq Tabs /\ tangled \in BOOLEAN

-----------------------------------------------------------------------------
(* The routes: who may call, and the flag a receptionist needs besides. *)

Only(roles)       == [roles |-> roles, flag |-> "none"]
Flagged(flag)     == [roles |-> {"receptionist", "owner"}, flag |-> flag]
Desk              == {"receptionist", "owner"}
Players           == {"customer", "receptionist", "owner"}
Owner             == Only({"owner"})

UserRoutes ==
    [customers |-> Only(Desk), staff |-> Owner, addStaff |-> Owner, suspend |-> Owner,
     permit |-> Owner, removeStaff |-> Owner]
StoreRoutes ==
    [equipment |-> Only(Roles), addItem |-> Owner, editItem |-> Owner,
     subscriptions |-> Only(Roles), subscribe |-> Only(Desk), revoke |-> Owner]
MoneyRoutes ==
    [payments |-> Flagged("can_view_finance"), overview |-> Flagged("can_view_finance"),
     financials |-> Flagged("can_view_finance"),
     expenses |-> Owner, addExpense |-> Owner, dropExpense |-> Owner]
TournamentRoutes ==
    [tournaments |-> Only(Roles), tournament |-> Only(Roles), addTournament |-> Owner,
     registerTeam |-> Only(Players), payTeam |-> Only(Desk), draw |-> Owner, result |-> Owner]
CoachingRoutes ==
    [myCoaching |-> Only({"coach", "owner"}),
     coaches |-> Flagged("can_manage_coaches"), addCoach |-> Owner, editCoach |-> Owner,
     sessions |-> Flagged("can_manage_coaches"), addSession |-> Flagged("can_manage_coaches"),
     editSession |-> Flagged("can_manage_coaches"), paySession |-> Flagged("can_manage_coaches")]
BoardRoutes ==
    [items |-> Only(Roles), addFound |-> Only(Desk), photo |-> Only(Roles), editFound |-> Only(Desk),
     claim |-> Only({"customer"}), claims |-> Only(Desk), decide |-> Only(Desk)]
BookingRoutes ==
    [bookings |-> Only(Players), mine |-> Only(Players), summary |-> Flagged("can_view_finance"),
     book |-> Only(Players), booking |-> Only(Roles), upload |-> Only({"customer"}),
     receipt |-> Only(Roles), verify |-> Flagged("can_verify_deposits"), checkin |-> Only(Desk),
     cancel |-> Only(Roles), settle |-> Only(Desk), delete |-> Owner]
CourtRoutes ==
    [courts |-> Only(Roles), grid |-> Only(Roles), addCourt |-> Owner, editCourt |-> Owner,
     dropCourt |-> Owner, block |-> Owner]
OfficeRoutes ==
    [refund |-> Only(Desk), approve |-> Owner, report |-> Owner, audit |-> Owner,
     settings |-> Owner, saveSettings |-> Owner, hours |-> Only(Players), saveHours |-> Owner,
     schedule |-> Flagged("can_view_schedule")]

f ++ g == [x \in DOMAIN f \cup DOMAIN g |-> IF x \in DOMAIN f THEN f[x] ELSE g[x]]

Guards == UserRoutes ++ StoreRoutes ++ MoneyRoutes ++ TournamentRoutes ++ CoachingRoutes
          ++ BoardRoutes ++ BookingRoutes ++ CourtRoutes ++ OfficeRoutes

\* A receptionist's flag is read from the users row at every call.
Permitted(s, route) ==
    \/ Guards[route].flag = "none"
    \/ s.as = "owner"
    \/ Guards[route].flag \in grants[s.who]
Admitted(s, route) == s.as \in Guards[route].roles /\ Permitted(s, route)

-----------------------------------------------------------------------------
(* The pages: what each calls, of itself and at a press, by role. *)

Page(loads, presses) == [loads |-> loads, presses |-> [r \in Roles |-> presses]]
\* Some of the buttons are there for one role only.
Reserved(page, r, more) == [page EXCEPT !.presses[r] = @ \cup more]

PanelPresses == {"booking", "receipt", "cancel", "checkin", "refund"}
WithPanel(page) == Reserved([page EXCEPT !.presses = [r \in Roles |-> @[r] \cup PanelPresses]],
                            "owner", {"approve"})
NewBookingPresses == {"courts", "customers", "equipment", "subscribe", "book"}

DashboardPage    == WithPanel(Page({"schedule", "bookings", "summary"}, NewBookingPresses))
CalendarPage     == WithPanel(Page({"courts", "hours", "bookings"}, NewBookingPresses))
ScheduleSheet    == {"checkin"}
BlockForm        == {"block"}
SchedulePage     == Reserved(Page({"courts", "schedule", "hours"}, ScheduleSheet), "owner", BlockForm)
BookingsPage     == Page({"bookings"}, {"booking"})
CheckinPage      == Page({"schedule"}, {"checkin"})
VerifyPage       == Page({"bookings"}, {"verify", "receipt"})
PaymentsPage     == WithPanel(Page({"payments"}, {}))
CustomersPage    == Page({"customers"}, {})
CoachingPage     == Reserved(Page({"coaches", "sessions"}, {"addSession", "editSession", "paySession"}),
                             "owner", {"addCoach", "editCoach"})
FoundPage        == Page({"items", "courts"}, {"addFound", "photo", "editFound", "claims", "decide"})
MyCoachingPage   == Page({"myCoaching"}, {})
AvailabilityPage == Page({"grid"}, {})
MyBookingsPage   == Page({"mine"}, {"booking"})
BookPage         == Reserved(Page({"courts", "equipment"}, {"book"}), "customer", {"upload"})
JoinPage         == Page({"tournaments", "tournament"}, {"registerTeam", "payTeam"})
LostPage         == Page({"items"}, {"photo", "claim"})
AnalyticsPage    == Page({"overview"}, {})
FinancePage      == Page({"financials", "expenses"}, {"addExpense", "dropExpense"})
TournamentsPage  == Page({"tournaments", "tournament"},
                         {"addTournament", "registerTeam", "payTeam", "draw", "result"})
InventoryPage    == Page({"equipment", "subscriptions"}, {"addItem", "editItem", "revoke"})
StaffPage        == Page({"staff"}, {"addStaff", "suspend", "permit", "removeStaff"})
CourtsPage       == Page({"courts"}, {"addCourt", "editCourt", "dropCourt"})
ReportsPage      == Page({}, {"report"})
AuditPage        == Page({"audit"}, {})
SettingsPage     == Page({"settings", "hours"}, {"saveSettings", "saveHours"})
BookingPage ==
    LET common == Page({"booking"}, {"receipt", "cancel"})
    IN  [common EXCEPT !.presses["customer"] = @ \cup {"upload"},
                       !.presses["receptionist"] = @ \cup {"settle"},
                       !.presses["owner"] = @ \cup {"settle", "delete"}]

DeskPages == {DashboardPage, CalendarPage, SchedulePage, BookingsPage, VerifyPage, PaymentsPage,
              CustomersPage, CoachingPage, FoundPage, BookingPage}

\* The side bar's entries of each role, and what they lead to.
NavItems(r) ==
    CASE r = "owner" -> DeskPages \cup {AnalyticsPage, FinancePage, TournamentsPage, InventoryPage,
                                        StaffPage, CourtsPage, ReportsPage, AuditPage, SettingsPage}
      [] r = "receptionist" -> DeskPages \cup {CheckinPage}
      [] r = "coach" -> {MyCoachingPage}
      [] r = "customer" -> {AvailabilityPage, MyBookingsPage, BookPage, JoinPage, LostPage, BookingPage}

\* The command palette's.
AllCommands(r) ==
    CASE r = "owner" -> {SchedulePage, BookPage, BookingsPage, ReportsPage, CustomersPage,
                         CourtsPage, SettingsPage, AuditPage}
      [] r = "receptionist" -> {SchedulePage, CheckinPage, VerifyPage, BookPage, BookingsPage,
                                CustomersPage}
      [] OTHER -> {}

\* Where the sign-in's way to the dashboard ends.
HomeFor(r) ==
    CASE r = "coach" -> {MyCoachingPage}
      [] r = "customer" -> {AvailabilityPage}
      [] OTHER -> {DashboardPage}

Menu(r)    == NavItems(r) \cup AllCommands(r) \cup HomeFor(r)
Offered(r) == UNION {p.loads \cup p.presses[r] : p \in Menu(r)}

-----------------------------------------------------------------------------
(* The browser *)

AccessInit ==
    /\ post \in [People -> Roles] /\ grants \in [People -> Grants]
    /\ cookie = Nobody /\ kept = Nobody
    /\ shown = [t \in Tabs |-> Nobody] /\ token = shown /\ renewing = shown
    /\ crossed = {} /\ tangled = FALSE

Others(t) == Tabs \ {t}

\* The store of a tab after a sign-in: the profile, which is kept, and the
\* token, which is not.
ProfileOnly(t, s) == token
Stored(t, s)      == [token EXCEPT ![t] = s]

\* A sign-in takes the role of the moment into the token and the profile.
SignIn(t, u) ==
    /\ shown[t] = Nobody
    /\ LET s == [who |-> u, as |-> post[u]] IN
        /\ cookie' = s /\ kept' = s
        /\ shown' = [shown EXCEPT ![t] = s] /\ token' = Stored(t, s)
        /\ tangled' = \E o \in Tabs : renewing[o] \notin {Nobody, s}
    /\ crossed' = (crossed \ {t}) \cup Others(t)
    /\ UNCHANGED <<post, grants, renewing>>

Cleared(t) ==
    /\ kept' = Nobody
    /\ shown' = [shown EXCEPT ![t] = Nobody] /\ token' = [token EXCEPT ![t] = Nobody]

\* The side bar signs out at the server too, which a call without a valid
\* token does not reach; the palette only clears the tab.
HandleLogout(t) ==
    /\ shown[t] # Nobody
    /\ cookie' = IF token[t] = Nobody THEN cookie ELSE Nobody
    /\ Cleared(t)
    /\ UNCHANGED <<post, grants, renewing, crossed, tangled>>

PaletteLogout(t) ==
    /\ shown[t] # Nobody /\ shown[t].as # "coach"
    /\ Cleared(t)
    /\ UNCHANGED <<post, grants, cookie, renewing, crossed, tangled>>

\* A reloaded or new tab takes the kept profile and has no token; of a
\* refresh it leaves behind the cookie may still arrive.
ReloadTab(t) ==
    /\ shown' = [shown EXCEPT ![t] = kept]
    /\ token' = [token EXCEPT ![t] = Nobody] /\ renewing' = [renewing EXCEPT ![t] = Nobody]
    /\ cookie' \in {cookie} \cup ({renewing[t]} \ {Nobody})
    /\ crossed' = crossed \ {t}
    /\ UNCHANGED <<post, grants, kept, tangled>>

TokenLapses(t) ==
    /\ token[t] # Nobody
    /\ token' = [token EXCEPT ![t] = Nobody]
    /\ UNCHANGED <<post, grants, cookie, kept, shown, renewing, crossed, tangled>>

\* The role of a refreshed token is that of the one presented.
RoleLive(s) == [s EXCEPT !.as = post[s.who]]
RoleKept(s) == s

\* A call without a token that is let in asks for one, and the answer sets
\* the cookie when it lands.
RefreshServed(t) ==
    /\ shown[t] # Nobody /\ token[t] = Nobody /\ renewing[t] = Nobody /\ cookie # Nobody
    /\ renewing' = [renewing EXCEPT ![t] = RoleKept(cookie)]
    /\ UNCHANGED <<post, grants, cookie, kept, shown, token, crossed, tangled>>

RefreshLands(t) ==
    /\ renewing[t] # Nobody
    /\ cookie' = renewing[t]
    /\ token' = [token EXCEPT ![t] = renewing[t]]
    /\ renewing' = [renewing EXCEPT ![t] = Nobody]
    /\ UNCHANGED <<post, grants, kept, shown, crossed, tangled>>

RefreshRefused(t) ==
    /\ shown[t] # Nobody /\ token[t] = Nobody /\ renewing[t] = Nobody /\ cookie = Nobody
    /\ Cleared(t)
    /\ UNCHANGED <<post, grants, cookie, renewing, crossed, tangled>>

\* A member is made a coach while signed in.
Promote(u) ==
    /\ post[u] = "customer"
    /\ post' = [post EXCEPT ![u] = "coach"]
    /\ UNCHANGED <<grants, cookie, kept, shown, token, renewing, crossed, tangled>>

Permit(u, g) ==
    /\ post[u] = "receptionist" /\ g # grants[u]
    /\ grants' = [grants EXCEPT ![u] = g]
    /\ UNCHANGED <<post, cookie, kept, shown, token, renewing, crossed, tangled>>

AccessNext ==
    \/ \E t \in Tabs : \/ \E u \in People : SignIn(t, u)
                       \/ HandleLogout(t) \/ PaletteLogout(t) \/ ReloadTab(t)
                       \/ TokenLapses(t)
                       \/ RefreshServed(t) \/ RefreshLands(t) \/ RefreshRefused(t)
    \/ \E u \in People : Promote(u) \/ \E g \in Grants : Permit(u, g)

-----------------------------------------------------------------------------
(* Properties *)

InUse(t) == shown[t] # Nobody /\ token[t] # Nobody

\* A tab's calls are answered as somebody else than it shows, or in another
\* role, only if another tab has signed in since it took its profile, or a
\* refresh begun before the sign-in landed after it: the cookie is the
\* browser's, the profile the tab's (api.ts 89-109, auth.store.ts 33-58).
Untouched(t)       == t \notin crossed /\ ~tangled
TabsShowWhoTheyAre == \A t \in Tabs : InUse(t) /\ Untouched(t) => token[t] = shown[t]

\* Whatever a menu or page offers to the profile shown is let through,
\* unless the account lacks the flag of that route or another tab has
\* interfered; the button by which a member pays a team's fee is the one
\* exception (tournaments/page.tsx 223, tournament.controller.ts 303).
MenusAreHonoured ==
    \A t \in Tabs : InUse(t) /\ Untouched(t) =>
        \A route \in Offered(shown[t].as) :
            \/ Admitted(token[t], route)
            \/ ~Permitted(token[t], route)
            \/ route = "payTeam" /\ shown[t].as = "customer"

AccessIsSound == TabsShowWhoTheyAre /\ MenusAreHonoured
=============================================================================
