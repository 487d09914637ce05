------------------------------ MODULE Accounts ------------------------------
(***************************************************************************)
(* How one e-mail address comes to accounts in several clubs and gets in:  *)
(* members and founders register, in a transaction that also sends the     *)
(* verification mail; links are followed, passwords reset club by club,    *)
(* and the sign-in finds the account by the password, or asks for the club.*)
(* Production's rule holds: nobody signs in unverified.                    *)
(*                                                                         *)
(* Unchecked, AnyMatch and LinkAfter, which no other definition uses, are  *)
(* wrong versions of Taken, Choice and Linked.                             *)
(***************************************************************************)
EXTENDS Integers, FiniteSets

CONSTANTS
    Workspaces,   \* the clubs' slugs
    Founded,      \* those of clubs there from the start
    Applicants,   \* registrations: the tabs they are typed in
    Visitors,     \* tabs with the sign-in page
    Passwords,
    Vacant, Nowhere

ASSUME FoundedAssumption == Founded \subseteq Workspaces /\ IsFiniteSet(Workspaces)
ASSUME NowhereAssumption == Vacant \notin Passwords /\ Nowhere \notin Workspaces

VARIABLES
    slugs,     \* the clubs
    holders,   \* per club, the account of the address
    typed,     \* per registration, the club and password typed
    step,      \* how far it is
    answer,    \* what its page was told
    link,      \* its row of email_verifications
    resets,    \* accounts with a reset link that works
    looked,    \* per sign-in page, the attempt under way or that succeeded
    inside,    \* per sign-in page, the club signed in to
    asks,      \* the pages that ask for the club
    replaced   \* history: clubs whose password was reset

accountVars == <<slugs, holders, typed, step, answer, link, resets, looked,
                 inside, asks, replaced>>

Account == [pass : Passwords, verified : BOOLEAN]
Form    == [club : Workspaces, pass : Passwords]
Attempt == [pass : Passwords, club : Workspaces \cup {Nowhere},
            found : UNION {[S -> Account] : S \in SUBSET Workspaces}]
NoAttempt == [pass |-> Vacant]

ASSUME VacantAssumption == Vacant \notin Account

AccountsTypeOK ==
    /\ slugs \subseteq Workspaces
    /\ holders \in [Workspaces -> Account \cup {Vacant}]
    /\ \A w \in Workspaces : holders[w] # Vacant => w \in slugs
    /\ typed \in [Applicants -> Form]
    /\ step \in [Applicants -> {"blank", "checked", "inserted", "mailed", "over"}]
    /\ answer \in [Applicants -> {"none", "done", "exists", "failed"}]
    /\ link \in [Applicants -> {"none", "live", "used", "expired"}]
    /\ resets \subseteq Workspaces
    /\ looked \in [Visitors -> Attempt \cup {NoAttempt}]
    /\ inside \in [Visitors -> Workspaces \cup {Nowhere}]
    /\ asks \subseteq Visitors /\ replaced \subseteq Workspaces

AccountsInit ==
    /\ slugs = Founded
    /\ holders = [w \in Workspaces |-> Vacant]
    /\ typed \in [Applicants -> Form]
    /\ step = [a \in Applicants |-> "blank"] /\ answer = [a \in Applicants |-> "none"]
    /\ link = answer
    /\ resets = {} /\ looked = [v \in Visitors |-> NoAttempt] /\ inside = [v \in Visitors |-> Nowhere]
    /\ asks = {} /\ replaced = {}

SignInPages == <<looked, inside, asks>>
Resetting   == <<resets, replaced>>

-----------------------------------------------------------------------------
(* Registration *)

ClubOf(a)  == typed[a].club
Moves(a, s) == step' = [step EXCEPT ![a] = s]
Told(a, s)  == step' = [step EXCEPT ![a] = "over"] /\ answer' = [answer EXCEPT ![a] = s]

Unchecked(w) == FALSE
\* The address has an account there; the club is there.
Taken(w) == holders[w] # Vacant

\* A row of the same name, not yet committed, makes the next insert wait, as
\* the lock on the slug does.
Inserting(w) == \E b \in Applicants : ClubOf(b) = w /\ step[b] \in {"inserted", "mailed"}

\* A member's page looks first, and the insert comes later.
RegisterLooks(a) ==
    /\ step[a] = "blank" /\ ClubOf(a) \in slugs
    /\ IF Taken(ClubOf(a)) THEN Told(a, "exists") ELSE Moves(a, "checked") /\ UNCHANGED answer
    /\ UNCHANGED <<slugs, holders, typed, link, Resetting, SignInPages>>

RegisterStores(a) ==
    /\ step[a] = "checked" /\ ~Inserting(ClubOf(a))
    /\ IF holders[ClubOf(a)] # Vacant THEN Told(a, "failed")
       ELSE Moves(a, "inserted") /\ UNCHANGED answer
    /\ UNCHANGED <<slugs, holders, typed, link, Resetting, SignInPages>>

\* A founder's looks under the lock, and inserts club, account and hours.
RegisterClub(a) ==
    /\ step[a] = "blank" /\ ClubOf(a) \notin Founded /\ ~Inserting(ClubOf(a))
    /\ IF ClubOf(a) \in slugs THEN Told(a, "exists") ELSE Moves(a, "inserted") /\ UNCHANGED answer
    /\ UNCHANGED <<slugs, holders, typed, link, Resetting, SignInPages>>

\* The mail leaves before the commit; one that fails is logged, and its link
\* is never followed.
VerificationMailed(a) ==
    /\ step[a] = "inserted"
    /\ Moves(a, "mailed")
    /\ UNCHANGED <<slugs, holders, typed, answer, link, Resetting, SignInPages>>

LinkAfter(a) == link
Linked(a)    == [link EXCEPT ![a] = "live"]

\* The answer may be lost after the commit.
RegisterCommits(a) ==
    /\ step[a] = "mailed"
    /\ \E s \in {"done", "failed"} : Told(a, s)
    /\ slugs' = slugs \cup {ClubOf(a)}
    /\ holders' = [holders EXCEPT ![ClubOf(a)] = [pass |-> typed[a].pass, verified |-> FALSE]]
    /\ link' = Linked(a)
    /\ UNCHANGED <<typed, Resetting, SignInPages>>

RegisterDies(a) ==
    /\ step[a] \in {"checked", "inserted", "mailed"}
    /\ Told(a, "failed")
    /\ UNCHANGED <<slugs, holders, typed, link, Resetting, SignInPages>>

VerifyEmail(a) ==
    /\ link[a] = "live"
    /\ link' = [link EXCEPT ![a] = "used"]
    /\ holders' = [holders EXCEPT ![ClubOf(a)].verified = TRUE]
    /\ UNCHANGED <<slugs, typed, step, answer, Resetting, SignInPages>>

LinkExpires(a) ==
    /\ link[a] = "live"
    /\ link' = [link EXCEPT ![a] = "expired"]
    /\ UNCHANGED <<slugs, holders, typed, step, answer, Resetting, SignInPages>>

-----------------------------------------------------------------------------
(* Password resets: a link for every account of the address *)

Registering == <<slugs, typed, step, answer, link>>

\* Each account's link is made on its own, after those there were are deleted.
ForgotPassword ==
    /\ \E w \in Workspaces : holders[w] # Vacant
    /\ \E made \in SUBSET {w \in Workspaces : holders[w] # Vacant} : resets' = made
    /\ UNCHANGED <<holders, replaced, Registering, SignInPages>>

ResetPassword(w, p) ==
    /\ w \in resets
    /\ resets' = resets \ {w}
    /\ holders' = [holders EXCEPT ![w].pass = p]
    /\ replaced' = replaced \cup {w}
    /\ UNCHANGED <<Registering, SignInPages>>

-----------------------------------------------------------------------------
(* Signing in *)

\* The rows are read once and the password compared with them for a while.
LoginLooksUp(v, p, w) ==
    /\ inside[v] = Nowhere /\ looked[v] = NoAttempt
    /\ v \notin asks => w = Nowhere
    /\ LET rows == {u \in Workspaces : holders[u] # Vacant /\ w \in {u, Nowhere}}
       IN  looked' = [looked EXCEPT ![v] = [pass |-> p, club |-> w, found |-> [u \in rows |-> holders[u]]]]
    /\ UNCHANGED <<holders, inside, asks, Registering, Resetting>>

Fits(t) == {u \in DOMAIN t.found : t.found[u].pass = t.pass}
AnyMatch(t) == IF Fits(t) = {} THEN {} ELSE {CHOOSE u \in Fits(t) : TRUE}
\* The one account the password fits.
Choice(t)   == IF Cardinality(Fits(t)) = 1 THEN Fits(t) ELSE {}

LoginConcludes(v) ==
    LET t == looked[v] IN
    /\ t # NoAttempt /\ inside[v] = Nowhere
    /\ IF \E u \in Choice(t) : t.found[u].verified
       THEN inside' = [inside EXCEPT ![v] = CHOOSE u \in Choice(t) : TRUE] /\ UNCHANGED looked
       ELSE looked' = [looked EXCEPT ![v] = NoAttempt] /\ UNCHANGED inside
    /\ asks' = IF Cardinality(Fits(t)) > 1 THEN asks \cup {v} ELSE asks
    /\ UNCHANGED <<holders, Registering, Resetting>>

AccountsNext ==
    \/ \E a \in Applicants : \/ RegisterLooks(a) \/ RegisterStores(a) \/ RegisterClub(a)
                             \/ VerificationMailed(a) \/ RegisterCommits(a) \/ RegisterDies(a)
                             \/ VerifyEmail(a) \/ LinkExpires(a)
    \/ ForgotPassword
    \/ \E w \in Workspaces, p \in Passwords : ResetPassword(w, p)
    \/ \E v \in Visitors : \/ \E p \in Passwords, w \in Workspaces \cup {Nowhere} : LoginLooksUp(v, p, w)
                           \/ LoginConcludes(v)

-----------------------------------------------------------------------------
(* Properties *)

\* Two registrations of one address at one club: never are both told that it
\* went through; who is told so has the account, with the password typed
\* unless it was reset; and who is told that it exists is told the truth
\* (auth.controller.ts 95-151, 159-245).
AnswersAreTrue ==
    \A a \in Applicants :
        /\ answer[a] = "done" =>
              /\ holders[ClubOf(a)] # Vacant
              /\ ClubOf(a) \notin replaced => holders[ClubOf(a)].pass = typed[a].pass
              /\ \A b \in Applicants : answer[b] = "done" /\ ClubOf(b) = ClubOf(a) => a = b
        /\ answer[a] = "exists" => Taken(ClubOf(a))

\* An account not yet verified has a link of its own that was not used: it is
\* stranded, for there is no second link, only if that mail was lost or the
\* link has expired (auth.controller.ts 101-151, 248-276).
NobodyIsStranded ==
    \A w \in Workspaces : holders[w] # Vacant /\ ~holders[w].verified =>
        \E a \in Applicants : ClubOf(a) = w /\ answer[a] # "none" /\ link[a] \in {"live", "expired"}

\* Who is inside a club has a verified account there, and it was the one
\* account the password fitted, of all or at the club asked for; and the page
\* asks for the club only of an address with several accounts
\* (auth.controller.ts 441-477, login/page.tsx 28-38).
SignInsFit ==
    /\ \A v \in Visitors : inside[v] # Nowhere =>
          /\ holders[inside[v]] # Vacant /\ holders[inside[v]].verified
          /\ Fits(looked[v]) = {inside[v]}
    /\ asks # {} => Cardinality({w \in Workspaces : holders[w] # Vacant}) > 1

AccountsAreSound == AnswersAreTrue /\ NobodyIsStranded /\ SignInsFit
=============================================================================
