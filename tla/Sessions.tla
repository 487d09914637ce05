------------------------------ MODULE Sessions ------------------------------
(***************************************************************************)
(* One account's sessions: the rows of refresh_tokens and what the auth    *)
(* controller does to them, and the browser that presents them, with its   *)
(* tabs, the cookie they share and the axios interceptor of each tab,      *)
(* which answers a 401 by one refresh for all the calls that met it.       *)
(*                                                                         *)
(* A refresh token and the access token signed with it have one name.      *)
(* Server transactions are READ COMMITTED: a rotation locks the row it     *)
(* read until it commits, and an UPDATE of all the account's rows sees     *)
(* those committed when it starts, then waits for the locked ones.         *)
(*                                                                         *)
(* A definition no action uses (ExchangeableUnlocked, LeadsEveryCall,      *)
(* FlagKept, PresentedBlindly, EndsNothing, RedeemableRead) is a wrong     *)
(* version of the one below it.                                            *)
(***************************************************************************)
EXTENDS Naturals, FiniteSets

CONSTANTS
    Tabs,
    Calls,        \* calls to the API a tab may have open
    MaxTokens,    \* bound: rows of refresh_tokens
    Attempts,     \* LOCKOUT_ATTEMPTS
    Clicks,       \* requests to redeem the account's password reset link
    MaxIncidents, \* bound: incidents, lost answers, logouts, wrong passwords, suspensions, resets
    None

Tokens == 1 .. MaxTokens
Reset == "reset"
Owner == "owner"
Sweepers == Calls \cup {Reset, Owner}

ASSUME BoundsAssumption == MaxTokens \in Nat \ {0} /\ Attempts \in Nat \ {0} /\ MaxIncidents \in Nat
ASSUME FiniteAssumption == IsFiniteSet(Tabs) /\ IsFiniteSet(Calls)
ASSUME NoneAssumption == None \notin Tabs \cup Tokens
ASSUME NamesAssumption == Calls \cap {Reset, Owner} = {}

VARIABLES
    row,       \* refresh_tokens: state, the login it descends from, the password it was won with
    account,   \* the users row: is_active, password version, failed attempts, locked_until in the future
    link,      \* the password_resets row
    click,     \* each redemption of the link: none, read or done
    lapsed,    \* access tokens past their 15 minutes or on the Redis list
    sweep,     \* what an UPDATE of every row of the account saw when it started
    cookie,    \* courtflow_refresh, one for the browser
    profile,   \* the signed-in user persisted in localStorage, one for the browser
    page,      \* of each tab: the login page or one of the application's
    memory,    \* the access token each tab holds
    refreshing,\* the interceptor's isRefreshing
    signing,   \* the login request of a tab: none or its password checked (and which)
    call,      \* calls: state, tab, the token attached, _retry
    post,      \* the refresh a call leads: its stage, the token presented, the token won
    alarm,     \* reuse detected (history)
    mishap,    \* something a browser with one quiet tab never meets (history)
    incidents

server  == <<row, account, link, click, lapsed, sweep>>
browser == <<cookie, profile, page, memory, refreshing, signing, call>>
vars == <<server, browser, post, alarm, mishap, incidents>>

Unborn == [st |-> "unborn", family |-> 0, pw |-> 0, late |-> FALSE]
NoCall == [st |-> "idle", tab |-> None, bearer |-> None, retry |-> FALSE]
NoPost == [st |-> "none", with |-> None, got |-> None]

Live == {t \in Tokens : row[t].st = "live"}
Free == {t \in Tokens : row[t].st = "unborn"}
Fresh == CHOOSE t \in Free : \A u \in Free : t <= u
\* Rows left for what is under way: every open call may come to a refresh, and
\* every login adds a row.
Open == {c \in Calls : call[c].st # "idle" \/ post[c].st # "none"}
Room == Cardinality(Free) > Cardinality(Open) + Cardinality({b \in Tabs : signing[b] # 0})

Mine(b) == {c \in Calls : call[c].tab = b}
Posting == {c \in Calls : post[c].st \in {"sent", "rotating", "sweeping", "answered"}}

Incident == incidents < MaxIncidents /\ incidents' = incidents + 1

Init ==
    /\ row = [t \in Tokens |-> Unborn]
    /\ account = [active |-> TRUE, pw |-> 1, failed |-> 0, locked |-> FALSE]
    /\ link = "none"
    /\ click = [k \in Clicks |-> "none"]
    /\ lapsed = {}
    /\ sweep = [s \in Sweepers |-> {}]
    /\ cookie = None
    /\ profile = FALSE
    /\ page = [b \in Tabs |-> "login"]
    /\ memory = [b \in Tabs |-> None]
    /\ refreshing = [b \in Tabs |-> FALSE]
    /\ signing = [b \in Tabs |-> 0]
    /\ call = [c \in Calls |-> NoCall]
    /\ post = [c \in Calls |-> NoPost]
    /\ alarm = FALSE
    /\ mishap = FALSE
    /\ incidents = 0

-----------------------------------------------------------------------------
(* Signing in.  The account's row is read, the password checked, and the   *)
(* session's row inserted by a later statement.                            *)

LoginReads(b) ==
    /\ page[b] = "login" /\ signing[b] = 0 /\ Room
    /\ account.active /\ ~account.locked
    /\ signing' = [signing EXCEPT ![b] = account.pw]
    /\ UNCHANGED <<server, cookie, profile, page, memory, refreshing, call, post, alarm, mishap, incidents>>

LoginInserts(b) ==
    /\ signing[b] # 0
    /\ LET t == Fresh IN
       /\ row' = [row EXCEPT ![t] = [st |-> "live", family |-> t, pw |-> signing[b],
                                     late |-> signing[b] # account.pw]]
       /\ cookie' = t
       /\ memory' = [memory EXCEPT ![b] = t]
    /\ account' = [account EXCEPT !.failed = 0, !.locked = FALSE]
    /\ profile' = TRUE
    /\ page' = [page EXCEPT ![b] = "app"]
    /\ signing' = [signing EXCEPT ![b] = 0]
    /\ UNCHANGED <<link, click, lapsed, sweep, refreshing, call, post, alarm, mishap, incidents>>

\* A wrong password; past the limit the count makes no further difference.
LoginRefused(b) ==
    /\ page[b] = "login" /\ signing[b] = 0
    /\ account.active /\ ~account.locked
    /\ LET failed == account.failed + 1 IN
       account' = [account EXCEPT !.failed = IF failed > Attempts THEN Attempts ELSE failed,
                                  !.locked = failed >= Attempts]
    /\ Incident
    /\ UNCHANGED <<row, link, click, lapsed, sweep, browser, post, alarm, mishap>>

\* locked_until passes; the count of failures stays.
LockoutEnds ==
    /\ account.locked
    /\ account' = [account EXCEPT !.locked = FALSE]
    /\ UNCHANGED <<row, link, click, lapsed, sweep, browser, post, alarm, mishap, incidents>>

-----------------------------------------------------------------------------
(* The interceptor of a tab.                                               *)

Send(c) ==
    /\ call[c].st = "idle" /\ post[c].st = "none" /\ Room
    /\ \E b \in Tabs :
        /\ page[b] = "app"
        /\ call' = [call EXCEPT ![c] = [st |-> "sent", tab |-> b, bearer |-> memory[b], retry |-> FALSE]]
    /\ UNCHANGED <<server, cookie, profile, page, memory, refreshing, signing, post, alarm, mishap, incidents>>

Accepted(c) == call[c].bearer # None /\ call[c].bearer \notin lapsed

\* The answer is the caller's: data, or an error to show.
Answered(c) ==
    /\ call[c].st = "sent"
    /\ Accepted(c) \/ call[c].retry
    /\ call' = [call EXCEPT ![c] = NoCall]
    /\ UNCHANGED <<server, cookie, profile, page, memory, refreshing, signing, post, alarm, mishap, incidents>>

Refused(c) == call[c].st = "sent" /\ ~Accepted(c) /\ ~call[c].retry

LeadsEveryCall(b) == TRUE
Leads(b) == ~refreshing[b]

\* A 401 met while the tab refreshes joins failedQueue.
Queue(c) ==
    /\ Refused(c) /\ ~Leads(call[c].tab)
    /\ call' = [call EXCEPT ![c].st = "queued"]
    /\ UNCHANGED <<server, cookie, profile, page, memory, refreshing, signing, post, alarm, mishap, incidents>>

PresentedBlindly == [NoPost EXCEPT !.st = "sent", !.with = cookie]
Presented ==
    IF cookie = None THEN [NoPost EXCEPT !.st = "refused"]
    ELSE [NoPost EXCEPT !.st = "sent", !.with = cookie]

\* The first one presents the browser's cookie; without a cookie the refresh
\* is refused outright.
Lead(c) ==
    /\ Refused(c) /\ Leads(call[c].tab)
    /\ refreshing' = [refreshing EXCEPT ![call[c].tab] = TRUE]
    /\ call' = [call EXCEPT ![c].st = "leading", ![c].retry = TRUE]
    /\ post' = [post EXCEPT ![c] = Presented]
    /\ mishap' = (mishap \/ \E o \in Posting : call[o].tab # call[c].tab)
    /\ UNCHANGED <<server, cookie, profile, page, memory, signing, alarm, incidents>>

FlagKept == TRUE
FlagAfter == FALSE

\* The answer with the new pair: the cookie is replaced, the token stored, and
\* the leader and the whole queue are sent again with it.
RefreshSucceeds(c) ==
    /\ post[c].st = "answered" /\ call[c].st = "leading"
    /\ LET b == call[c].tab
           t == post[c].got IN
       /\ cookie' = t
       /\ memory' = [memory EXCEPT ![b] = t]
       /\ call' = [o \in Calls |->
             IF o = c \/ (o \in Mine(b) /\ call[o].st = "queued")
             THEN [call[o] EXCEPT !.st = "sent", !.bearer = t, !.retry = TRUE]
             ELSE call[o]]
       /\ refreshing' = [refreshing EXCEPT ![b] = FlagAfter]
    /\ post' = [post EXCEPT ![c] = NoPost]
    /\ UNCHANGED <<server, profile, page, signing, alarm, mishap, incidents>>

\* The queue and the leader are rejected, the client's state is cleared, and
\* the navigation to /login takes every other call of the tab with it.
SignedOut(b) ==
    /\ profile' = FALSE
    /\ memory' = [memory EXCEPT ![b] = None]
    /\ page' = [page EXCEPT ![b] = "login"]
    /\ refreshing' = [refreshing EXCEPT ![b] = FALSE]
    /\ call' = [o \in Calls |-> IF o \in Mine(b) THEN NoCall ELSE call[o]]

RefreshFails(c) ==
    /\ post[c].st = "refused" /\ call[c].st = "leading"
    /\ SignedOut(call[c].tab)
    /\ post' = [post EXCEPT ![c] = NoPost]
    /\ UNCHANGED <<server, cookie, signing, alarm, mishap, incidents>>

\* No answer comes back; the server may not even know.
AnswerLost(c) ==
    /\ c \in Posting /\ call[c].st = "leading"
    /\ SignedOut(call[c].tab)
    /\ mishap' = TRUE /\ Incident
    /\ UNCHANGED <<server, cookie, signing, post, alarm>>

\* Reloading forgets the tab's memory, and the answer of a refresh under way.
Reload(b) ==
    /\ page[b] = "app"
    /\ memory' = [memory EXCEPT ![b] = None]
    /\ page' = [page EXCEPT ![b] = IF profile THEN "app" ELSE "login"]
    /\ refreshing' = [refreshing EXCEPT ![b] = FALSE]
    /\ call' = [o \in Calls |-> IF o \in Mine(b) THEN NoCall ELSE call[o]]
    /\ mishap' = (mishap \/ \E o \in Posting : call[o].tab = b)
    /\ Incident
    /\ UNCHANGED <<server, cookie, profile, signing, post, alarm>>

\* A second tab finds the profile and shows the application, without a token.
OpenTab(b) ==
    /\ page[b] = "login" /\ signing[b] = 0 /\ profile
    /\ page' = [page EXCEPT ![b] = "app"]
    /\ UNCHANGED <<server, cookie, profile, memory, refreshing, signing, call, post, alarm, mishap, incidents>>

\* An answer to a page that is gone.
AnswerDropped(c) ==
    /\ post[c].st \in {"answered", "refused"} /\ call[c].st = "idle"
    /\ post' = [post EXCEPT ![c] = NoPost]
    /\ UNCHANGED <<server, browser, alarm, mishap, incidents>>

-----------------------------------------------------------------------------
(* POST /api/auth/refresh, a transaction.                                  *)

Locked(t) == \E o \in Calls : post[o].st = "rotating" /\ post[o].with = t

ExchangeableUnlocked(t) == TRUE
Exchangeable(t) == ~Locked(t)

RefreshLocks(c) ==
    /\ post[c].st = "sent" /\ Exchangeable(post[c].with)
    /\ row[post[c].with].st = "live"
    /\ post' = [post EXCEPT ![c].st = "rotating"]
    /\ UNCHANGED <<server, browser, alarm, mishap, incidents>>

RefreshCommits(c) ==
    /\ post[c].st = "rotating"
    /\ LET old == post[c].with
           t == Fresh IN
       /\ row' = [row EXCEPT ![old].st = "revoked",
                             ![t] = [row[old] EXCEPT !.st = "live",
                                                     !.late = row[old].pw # account.pw]]
       /\ post' = [post EXCEPT ![c].st = "answered", ![c].got = t]
    /\ UNCHANGED <<account, link, click, lapsed, sweep, browser, alarm, mishap, incidents>>

RefreshInvalid(c) ==
    /\ post[c].st = "sent" /\ Exchangeable(post[c].with)
    /\ row[post[c].with].st = "expired"
    /\ post' = [post EXCEPT ![c].st = "refused"]
    /\ UNCHANGED <<server, browser, alarm, mishap, incidents>>

\* A token already exchanged is presented: every session of the account ends,
\* and the 401 is thrown only once that is committed.
RefreshReused(c) ==
    /\ post[c].st = "sent" /\ Exchangeable(post[c].with)
    /\ row[post[c].with].st = "revoked"
    /\ sweep' = [sweep EXCEPT ![c] = Live]
    /\ post' = [post EXCEPT ![c].st = "sweeping"]
    /\ alarm' = TRUE
    /\ UNCHANGED <<row, account, link, click, lapsed, browser, mishap, incidents>>

EndsNothing(s) == {}
Ends(s) == sweep[s]

\* The UPDATE ends when no row it saw is locked; a row another transaction
\* revoked meanwhile no longer matches.
Revoked(s) ==
    /\ \A t \in sweep[s] : ~Locked(t)
    /\ row' = [t \in Tokens |-> IF t \in Ends(s) /\ row[t].st \in {"live", "expired"}
                                THEN [row[t] EXCEPT !.st = "revoked"] ELSE row[t]]
    /\ sweep' = [sweep EXCEPT ![s] = {}]

ReuseAnswered(c) ==
    /\ post[c].st = "sweeping"
    /\ Revoked(c)
    /\ post' = [post EXCEPT ![c].st = "refused"]
    /\ UNCHANGED <<account, link, click, lapsed, browser, alarm, mishap, incidents>>

-----------------------------------------------------------------------------
(* What else touches the account.                                          *)

\* The tab's access token goes on the Redis list and its cookie is cleared; the
\* cookie's path keeps the refresh token from reaching the handler.  A token
\* that lapsed is refused, and only the client forgets.
Logout(b) ==
    /\ page[b] = "app" /\ memory[b] # None
    /\ lapsed' = lapsed \cup {memory[b]}
    /\ cookie' = IF memory[b] \in lapsed THEN cookie ELSE None
    /\ SignedOut(b)
    /\ mishap' = (mishap \/ \E o \in Posting : call[o].tab = b)
    /\ Incident
    /\ UNCHANGED <<row, account, link, click, sweep, signing, post, alarm>>

\* Suspension is two statements of their own: the account, then its sessions.
Suspend ==
    /\ account.active
    /\ account' = [account EXCEPT !.active = FALSE]
    /\ Incident
    /\ UNCHANGED <<row, link, click, lapsed, sweep, browser, post, alarm, mishap>>

SuspendSweeps ==
    /\ ~account.active /\ sweep[Owner] = {} /\ Live # {}
    /\ sweep' = [sweep EXCEPT ![Owner] = Live]
    /\ UNCHANGED <<row, account, link, click, lapsed, browser, post, alarm, mishap, incidents>>

SuspendEnds ==
    /\ sweep[Owner] # {}
    /\ Revoked(Owner)
    /\ mishap' = TRUE
    /\ UNCHANGED <<account, link, click, lapsed, browser, post, alarm, incidents>>

Reactivate ==
    /\ ~account.active /\ sweep[Owner] = {}
    /\ account' = [account EXCEPT !.active = TRUE]
    /\ UNCHANGED <<row, link, click, lapsed, sweep, browser, post, alarm, mishap, incidents>>

ForgotPassword ==
    /\ link = "none" /\ account.active
    /\ link' = "open"
    /\ Incident
    /\ UNCHANGED <<row, account, click, lapsed, sweep, browser, post, alarm, mishap>>

ResetReads(k) ==
    /\ click[k] = "none" /\ link = "open"
    /\ click' = [click EXCEPT ![k] = "read"]
    /\ UNCHANGED <<row, account, link, lapsed, sweep, browser, post, alarm, mishap, incidents>>

RedeemableRead == TRUE
Redeemable == link = "open"

\* One transaction: the link is used, the password set and the sessions ended;
\* the UPDATE of the sessions starts last.
ResetRedeems(k) ==
    /\ click[k] = "read" /\ sweep[Reset] = {}
    /\ click' = [click EXCEPT ![k] = "done"]
    /\ IF Redeemable
       THEN /\ link' = "used"
            /\ account' = [account EXCEPT !.pw = @ + 1, !.failed = 0, !.locked = FALSE]
            /\ sweep' = [sweep EXCEPT ![Reset] = Live]
       ELSE UNCHANGED <<link, account, sweep>>
    /\ UNCHANGED <<row, lapsed, browser, post, alarm, mishap, incidents>>

ResetCommits ==
    /\ sweep[Reset] # {}
    /\ Revoked(Reset)
    /\ mishap' = TRUE
    /\ UNCHANGED <<account, link, click, lapsed, browser, post, alarm, incidents>>

\* Fifteen minutes pass for an access token, seven days for a refresh token.
Lapse(t) ==
    /\ row[t].st # "unborn" /\ t \notin lapsed
    /\ lapsed' = lapsed \cup {t}
    /\ UNCHANGED <<row, account, link, click, sweep, browser, post, alarm, mishap, incidents>>

Expire(t) ==
    /\ row[t].st = "live" /\ t \in lapsed /\ ~Locked(t)
    /\ row' = [row EXCEPT ![t].st = "expired"]
    /\ UNCHANGED <<account, link, click, lapsed, sweep, browser, post, alarm, mishap, incidents>>

-----------------------------------------------------------------------------
Client(c) ==
    \/ Answered(c) \/ Queue(c) \/ Lead(c)
    \/ RefreshSucceeds(c) \/ RefreshFails(c) \/ AnswerDropped(c)
Server(c) ==
    \/ RefreshLocks(c) \/ RefreshCommits(c) \/ RefreshInvalid(c)
    \/ RefreshReused(c) \/ ReuseAnswered(c)

Next ==
    \/ \E b \in Tabs : \/ LoginReads(b) \/ LoginInserts(b) \/ LoginRefused(b)
                       \/ OpenTab(b) \/ Reload(b) \/ Logout(b)
    \/ LockoutEnds
    \/ \E c \in Calls : Send(c) \/ Client(c) \/ Server(c) \/ AnswerLost(c)
    \/ Suspend \/ SuspendSweeps \/ SuspendEnds \/ Reactivate
    \/ ForgotPassword \/ ResetCommits
    \/ \E k \in Clicks : ResetReads(k) \/ ResetRedeems(k)
    \/ \E t \in Tokens : Lapse(t) \/ Expire(t)

Spec == Init /\ [][Next]_vars

\* The server answers what reaches it and the event loop runs what it is
\* handed; nothing is assumed of the user or of the clock.
Fairness ==
    /\ \A c \in Calls : WF_vars(Client(c)) /\ WF_vars(Server(c))
    /\ WF_vars(SuspendEnds) /\ WF_vars(ResetCommits)

FairSpec == Spec /\ Fairness

-----------------------------------------------------------------------------
TypeOK ==
    /\ row \in [Tokens -> [st : {"unborn", "live", "revoked", "expired"}, family : 0 .. MaxTokens,
                           pw : Nat, late : BOOLEAN]]
    /\ account \in [active : BOOLEAN, pw : Nat \ {0}, failed : 0 .. Attempts, locked : BOOLEAN]
    /\ link \in {"none", "open", "used"}
    /\ click \in [Clicks -> {"none", "read", "done"}]
    /\ lapsed \subseteq Tokens
    /\ sweep \in [Sweepers -> SUBSET Tokens]
    /\ cookie \in Tokens \cup {None}
    /\ profile \in BOOLEAN
    /\ page \in [Tabs -> {"login", "app"}]
    /\ memory \in [Tabs -> Tokens \cup {None}]
    /\ refreshing \in [Tabs -> BOOLEAN]
    /\ signing \in [Tabs -> Nat]
    /\ call \in [Calls -> [st : {"idle", "sent", "queued", "leading"}, tab : Tabs \cup {None},
                           bearer : Tokens \cup {None}, retry : BOOLEAN]]
    /\ post \in [Calls -> [st : {"none", "sent", "rotating", "sweeping", "answered", "refused"},
                           with : Tokens \cup {None}, got : Tokens \cup {None}]]
    /\ \A c \in Posting : post[c].with \in Tokens
    /\ alarm \in BOOLEAN /\ mishap \in BOOLEAN /\ incidents \in 0 .. MaxIncidents

\* However many refreshes present a token at once, a login has one session:
\* of the rows descending from it at most one can still be exchanged.
OneSessionPerLogin ==
    \A t, u \in Live : row[t].family = row[u].family => t = u

\* The theft alarm needs a cause outside one quiet tab: two tabs refreshing at
\* once, an answer lost, a page left while its refresh was under way.
AlarmNeedsMishap == alarm => mishap

\* A rotation neither forks a session nor accuses a quiet tab.
RotationIsSound == OneSessionPerLogin /\ AlarmNeedsMishap

\* Every session won with an older password ended with the reset, except one
\* whose login or rotation was already under way when it committed.
ResetEndsSessions ==
    sweep[Reset] = {} => \A t \in Live : row[t].pw # account.pw => row[t].late

\* A reset link changes the password once, however often it is clicked.
LinkSetsOnePassword == account.pw <= 2

\* A reset takes effect once, and on every session there was.
ResetIsSound == ResetEndsSessions /\ LinkSetsOnePassword

\* Whatever a tab asks for is answered, refused or dropped with the page: no
\* call waits in the queue of a refresh that is over.
EveryCallSettles == \A c \in Calls : call[c].st # "idle" ~> call[c].st = "idle"

\* A refresh token presented again means it was stolen and the legitimate
\* client rotated past it: in a browser nothing was stolen from, never.
ReuseMeansTheft == ~alarm
=============================================================================
