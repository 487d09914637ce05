------------------------------ MODULE MCScreens ------------------------------
(* What the browser shows, part by part: the screens of one booking, the     *)
(* menus of two tabs, the lists of one page of the desk or the office, the   *)
(* settings page in two hands, the pages by which accounts are opened, and   *)
(* the paged lists.  A behaviour runs one of them from its initial state.    *)
EXTENDS Screens, Access, Consoles, SettingsForm, Accounts, Listings

VARIABLE running   \* the part this behaviour is of

DeskQuote(net, dep, depBy, rem, remBy) ==
    [net |-> net, dep |-> dep, depBy |-> depBy, rem |-> rem, remBy |-> remBy]

\* Unpaid, with the deposit asked for: the desk settles it, the customer sends
\* a receipt, or the gateway takes the price.
DeskQuotes == {DeskQuote(2, 1, "NONE", 0, "NONE")}

\* No flags, or those of the dashboard.
FlagSets == {{}, {"can_view_finance", "can_view_schedule"}}

BookingVars == <<vars, screenVars>>

\* One registration types the first password, at the club there is unless
\* both found the other one; two at one club type different ones.
OneOf(S) == CHOOSE x \in S : TRUE
TypedApart ==
    /\ typed[OneOf(Applicants)].pass = OneOf(Passwords)
    /\ \A a, b \in Applicants : a # b => typed[a] # typed[b]
    /\ \/ typed[OneOf(Applicants)].club \in Founded
       \/ \A a \in Applicants : typed[a].club \notin Founded

\* What is typed matches every row.
OneTerm == [anything |-> 1 .. MaxEntries]

BrowserInit ==
    /\ running \in {"bookings", "access", "consoles", "settings", "accounts", "lists"}
    /\ ScreensInit /\ AccessInit /\ ConsolesInit /\ SettingsInit /\ AccountsInit
    /\ ListingsInit /\ (running # "lists" => ~paged /\ \A e \in Entry : ~Tied(e) \/ e > FirstRows)
    /\ \A u \in People : post[u] # "receptionist" => grants[u] = {}
    /\ running # "access" => \A u \in People : post[u] = "customer"
    /\ IF running = "accounts" THEN TypedApart ELSE typed = [a \in Applicants |-> OneOf(Form)]
    /\ running # "consoles" => console = CheckinConsole
    /\ running # "settings" => days = "written"

BrowserNext ==
    /\ UNCHANGED running
    /\ \/ running = "bookings" /\ ScreensNext /\ UNCHANGED <<accessVars, consoleVars, settingsVars, accountVars, listVars>>
       \/ running = "access" /\ AccessNext /\ UNCHANGED <<BookingVars, consoleVars, settingsVars, accountVars, listVars>>
       \/ running = "consoles" /\ ConsolesNext /\ UNCHANGED <<BookingVars, accessVars, settingsVars, accountVars, listVars>>
       \/ running = "settings" /\ SettingsNext /\ UNCHANGED <<BookingVars, accessVars, consoleVars, accountVars, listVars>>
       \/ running = "accounts" /\ AccountsNext /\ UNCHANGED <<BookingVars, accessVars, consoleVars, settingsVars, listVars>>
       \/ running = "lists" /\ ListingsNext /\ UNCHANGED <<BookingVars, accessVars, consoleVars, settingsVars, accountVars>>

BrowserSpec == BrowserInit /\ [][BrowserNext]_<<running, BookingVars, accessVars, consoleVars, settingsVars, accountVars, listVars>>

\* The part that runs keeps its types, and the others do not move.
BrowserTypeOK ==
    /\ running = "bookings" => ScreensTypeOK
    /\ running = "access" => AccessTypeOK
    /\ running = "consoles" => ConsolesTypeOK
    /\ running = "settings" => SettingsTypeOK
    /\ running = "accounts" => AccountsTypeOK
    /\ running = "lists" => ListingsTypeOK

\* A booking's screens keep their word, menus offer what the routes let
\* through, a page that has come to rest shows what is in the database, a
\* save stores what was typed, an address gets in where its password fits,
\* and going through the pages of a list shows every row of it (Screens,
\* Access, Consoles, SettingsForm, Accounts, Listings).
PagesKeepTheirWord ==
    /\ running = "bookings" => ScreensKeepTheirWord
    /\ running = "access" => AccessIsSound
    /\ running = "consoles" => ConsolesShowTheTruth
    /\ running = "settings" => SettingsAreSound
    /\ running = "accounts" => AccountsAreSound
    /\ running = "lists" => ListsAreTrue
=============================================================================
