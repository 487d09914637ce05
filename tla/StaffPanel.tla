------------------------------ MODULE StaffPanel ------------------------------
(***************************************************************************)
(* The staff page and the handlers behind it: owners add, suspend and      *)
(* remove one another, and switch a receptionist's permissions.  A removal *)
(* counts the remaining owners in one statement and deletes in another; a  *)
(* switch shows its new position at once and sends the whole row of flags. *)
(* After an account was created or removed the page reloads everything it  *)
(* shows, and does not wait for the answer.                                *)
(*                                                                         *)
(* FlippedLater, which no definition uses, is a wrong version of Flipped.  *)
(***************************************************************************)
EXTENDS Integers, FiniteSets

CONSTANTS
    Owners,       \* the accounts that are, or may become, owners
    FirstOwners,  \* those the club starts with
    Flags,        \* the permission flags
    MaxClicks,    \* bound on the clicks on a switch
    MaxReloads    \* bound on the reloads of the pages

ASSUME FirstOwnersAssumption == FirstOwners \subseteq Owners /\ FirstOwners # {}
ASSUME ClicksAssumption == MaxClicks \in Nat /\ MaxReloads \in Nat

VARIABLES
    accounts,  \* the owners' rows
    active,    \* those with is_active
    removing,  \* per owner, the removal under way: who has been counted out
    granted,   \* the receptionist's flags in the database
    panel,     \* per owner, the flags the page shows
    calls,     \* permission calls: on their way, or applied and unanswered
    clicks,    \* how many clicks so far
    reloads,   \* the reloads under way: on their way, or read and unanswered
    reloaded,  \* how many reloads so far
    muddled    \* history: the pages that were told less than what happened

staffVars == <<accounts, active, removing, granted, panel, calls, clicks, reloads, reloaded, muddled>>

Call == [nr : 1 .. MaxClicks, by : Owners, row : SUBSET Flags, flag : Flags, applied : BOOLEAN]
\* What a reload has read is late once a row was written after it.
Reread == [nr : 1 .. MaxReloads, by : Owners, read : BOOLEAN, seen : SUBSET Flags, late : BOOLEAN]

StaffTypeOK ==
    /\ accounts \subseteq Owners /\ active \subseteq accounts
    /\ removing \in [Owners -> SUBSET Owners]
    /\ granted \subseteq Flags /\ panel \in [Owners -> SUBSET Flags]
    /\ calls \subseteq Call /\ clicks \in 0 .. MaxClicks
    /\ reloads \subseteq Reread /\ reloaded \in 0 .. MaxReloads
    /\ muddled \subseteq Owners

StaffInit ==
    /\ accounts = FirstOwners /\ active = FirstOwners
    /\ removing = [o \in Owners |-> {}]
    /\ granted = {} /\ panel = [o \in Owners |-> {}]
    /\ calls = {} /\ clicks = 0 /\ muddled = {}
    /\ reloads = {} /\ reloaded = 0

-----------------------------------------------------------------------------
(* Accounts.  A removed or suspended owner's access token still works until *)
(* it lapses, so who calls is not asked.                                    *)

\* The page of o asks for everyone anew.
Reloads(o) ==
    /\ reloaded < MaxReloads
    /\ reloaded' = reloaded + 1
    /\ reloads' = reloads \cup {[nr |-> reloaded', by |-> o, read |-> FALSE, seen |-> {}, late |-> FALSE]}

CreateStaff(o, t) ==
    /\ t \notin accounts
    /\ accounts' = accounts \cup {t} /\ active' = active \cup {t}
    /\ Reloads(o)
    /\ UNCHANGED <<removing, granted, panel, calls, clicks, muddled>>

SetUserStatus(o, t) ==
    /\ t # o /\ t \in accounts
    /\ active' = IF t \in active THEN active \ {t} ELSE active \cup {t}
    /\ UNCHANGED <<accounts, removing, granted, panel, calls, clicks, reloads, reloaded, muddled>>

\* Never the last active owner.
Counted(t) == active \ {t} # {}

RemovalCounts(o, t) ==
    /\ t # o /\ t \in accounts /\ removing[o] = {}
    /\ Counted(t)
    /\ removing' = [removing EXCEPT ![o] = {t}]
    /\ UNCHANGED <<accounts, active, granted, panel, calls, clicks, reloads, reloaded, muddled>>

\* An account with a history is deactivated, another is deleted; the page of
\* who removed it reloads, unless the account was gone.
RemovalDeletes(o) ==
    /\ removing[o] # {}
    /\ active' = active \ removing[o]
    /\ accounts' \in {accounts, accounts \ removing[o]}
    /\ removing' = [removing EXCEPT ![o] = {}]
    /\ IF removing[o] \subseteq accounts THEN Reloads(o) ELSE UNCHANGED <<reloads, reloaded>>
    /\ UNCHANGED <<granted, panel, calls, clicks, muddled>>

-----------------------------------------------------------------------------
(* Permissions *)

OwnCalls(o) == {c \in calls : c.by = o}

Switched(row, f)  == IF f \in row THEN row \ {f} ELSE row \cup {f}
FlippedLater(o, f) == panel[o]
Flipped(o, f)      == Switched(panel[o], f)

\* The switch flips before the server is asked, and the call carries every
\* flag as the page shows it.
TogglePermission(o, f) ==
    /\ clicks < MaxClicks
    /\ clicks' = clicks + 1
    /\ calls' = calls \cup {[nr |-> clicks', by |-> o, row |-> Switched(panel[o], f),
                             flag |-> f, applied |-> FALSE]}
    /\ panel' = [panel EXCEPT ![o] = Flipped(o, f)]
    /\ UNCHANGED <<accounts, active, removing, granted, reloads, reloaded, muddled>>

Overtakes(c) == \E d \in OwnCalls(c.by) : ~d.applied /\ d.nr < c.nr

\* Calls arrive in any order; the last one writes the whole row.
UpdateStaffPermissions(c) ==
    /\ ~c.applied
    /\ granted' = c.row
    /\ calls' = (calls \ {c}) \cup {[c EXCEPT !.applied = TRUE]}
    /\ muddled' = muddled \cup (Owners \ {c.by}) \cup (IF Overtakes(c) THEN {c.by} ELSE {})
    /\ reloads' = {[q EXCEPT !.late = q.read] : q \in reloads}
    /\ UNCHANGED <<accounts, active, removing, panel, clicks, reloaded>>

ToggleAnswered(c) ==
    /\ c.applied
    /\ calls' = calls \ {c}
    /\ UNCHANGED <<accounts, active, removing, granted, panel, clicks, reloads, reloaded, muddled>>

\* The call or its answer is lost: the page takes the one flag back.
ToggleFails(c) ==
    /\ calls' = calls \ {c}
    /\ panel' = [panel EXCEPT ![c.by] = Switched(@, c.flag)]
    /\ muddled' = muddled \cup {c.by}
    /\ UNCHANGED <<accounts, active, removing, granted, clicks, reloads, reloaded>>

-----------------------------------------------------------------------------
(* The reload that nothing waits for *)

ReloadReads(q) ==
    /\ ~q.read
    /\ reloads' = (reloads \ {q}) \cup {[q EXCEPT !.read = TRUE, !.seen = granted]}
    /\ UNCHANGED <<accounts, active, removing, granted, panel, calls, clicks, reloaded, muddled>>

\* Its answer replaces every switch, those set meanwhile included.
ReloadLands(q) ==
    /\ q.read
    /\ reloads' = reloads \ {q}
    /\ panel' = [panel EXCEPT ![q.by] = q.seen]
    /\ muddled' = IF OwnCalls(q.by) = {} /\ ~q.late THEN muddled \ {q.by} ELSE muddled \cup {q.by}
    /\ UNCHANGED <<accounts, active, removing, granted, calls, clicks, reloaded>>

ReloadIsLost(q) ==
    /\ reloads' = reloads \ {q}
    /\ UNCHANGED <<accounts, active, removing, granted, panel, calls, clicks, reloaded, muddled>>

StaffNext ==
    \/ \E o \in Owners : RemovalDeletes(o)
    \/ \E o, t \in Owners : CreateStaff(o, t) \/ SetUserStatus(o, t) \/ RemovalCounts(o, t)
    \/ \E o \in Owners, f \in Flags : TogglePermission(o, f)
    \/ \E c \in calls : UpdateStaffPermissions(c) \/ ToggleAnswered(c) \/ ToggleFails(c)
    \/ \E q \in reloads : ReloadReads(q) \/ ReloadLands(q) \/ ReloadIsLost(q)

StaffSpec == StaffInit /\ [][StaffNext]_staffVars

-----------------------------------------------------------------------------
(* What the page and its handlers guarantee *)

\* When the calls of a page are all answered, the switches tell what the
\* receptionist may do, unless a call failed, one overtook an earlier one, another
\* owner switched something since, or a reload crossed a switch: it was answered
\* while a call of the page's was out, or had read before a switch was written.
\* Rapid clicks alone, each sending the whole row, lose nothing.
SwitchesTellTheTruth ==
    \A o \in Owners : OwnCalls(o) = {} /\ o \notin muddled => panel[o] = granted

-----------------------------------------------------------------------------
(* What a comment promises and the code does not keep *)

\* The removal's guards: never the last active owner.
NeverTheLastOwner ==
    [][\A o \in Owners : removing[o] # {} /\ removing'[o] = {} =>
          active = {} \/ active' # {}]_staffVars
=============================================================================
