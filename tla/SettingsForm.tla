----------------------------- MODULE SettingsForm -----------------------------
(***************************************************************************)
(* The settings page in several owners' hands.  It loads the club's record *)
(* and its week apart, each with a fallback, and saves both whole, in two  *)
(* calls of two transactions.  A value is the set of the edits it carries, *)
(* and Invented where it is the page's fallback and not the club's own.    *)
(*                                                                         *)
(* SavableAnyway and AnswerIgnored, which no other definition uses, are    *)
(* wrong versions of Savable and Reflected.                                *)
(***************************************************************************)
EXTENDS Naturals, FiniteSets

CONSTANTS
    Editors,     \* owners with the page open
    MaxEdits,    \* bound on the edits typed
    Invented     \* the placeholder's fields, the default week

ASSUME EditsAssumption == MaxEdits \in Nat /\ Invented \notin 1 .. MaxEdits

VARIABLES
    club,      \* the fields of the clubs row
    week,      \* the rows of working_hours
    days,      \* whether every day has a row: it has where the owner registered the
               \* club, and not in the club of the migrations until a save fills it
    form,      \* per page, the fields it shows
    hours,     \* per page, the week it shows
    loads,     \* per page, the loads it waits for
    barred,    \* pages whose settings did not load
    saving,    \* per page, where its save is
    sent,      \* per page, what the save under way carries
    told,      \* per page, what it says of the last save
    edits,     \* the edits typed so far
    behind,    \* history: pages, and the part of them that was saved elsewhere since
    guessing,  \* history: pages that show a week nobody saved
    hurried,   \* history: pages whose week was edited during the save
    misread,   \* history: some page's hours did not load
    vanished   \* history: saved edits that a page which knew them overwrote

settingsVars == <<club, week, days, form, hours, loads, barred, saving, sent, told, edits,
                  behind, guessing, hurried, misread, vanished>>

Parts == {"club", "week"}
Value == SUBSET ((1 .. MaxEdits) \cup {Invented})

SettingsTypeOK ==
    /\ club \in Value /\ week \in Value /\ days \in {"written", "missing", "filled"}
    /\ form \in [Editors -> Value] /\ hours \in [Editors -> Value]
    /\ loads \in [Editors -> SUBSET Parts] /\ barred \subseteq Editors
    /\ saving \in [Editors -> {"no", "patching", "patched", "put"}]
    /\ sent \in [Editors -> [club : Value, week : Value]]
    /\ told \in [Editors -> {"nothing", "saved", "failed"}]
    /\ edits \in 0 .. MaxEdits
    /\ behind \subseteq Editors \X Parts
    /\ guessing \subseteq Editors /\ hurried \subseteq Editors
    /\ misread \in BOOLEAN /\ vanished \in Value

Nil == [club |-> {}, week |-> {}]

SettingsInit ==
    /\ club = {} /\ week = {} /\ days \in {"written", "missing"}
    /\ form = [e \in Editors |-> {Invented}] /\ hours = form
    /\ loads = [e \in Editors |-> Parts] /\ barred = {}
    /\ saving = [e \in Editors |-> "no"] /\ sent = [e \in Editors |-> Nil]
    /\ told = [e \in Editors |-> "nothing"] /\ edits = 0
    /\ behind = {} /\ guessing = {} /\ hurried = {} /\ misread = FALSE /\ vanished = {}

ClubAndWeek  == <<club, week, days>>
Journal == <<behind, guessing, hurried, misread, vanished>>

-----------------------------------------------------------------------------
(* Loading *)

LoadEnds(e, part) == part \in loads[e] /\ loads' = [loads EXCEPT ![e] = @ \ {part}]

ClubLoaded(e) ==
    /\ LoadEnds(e, "club")
    /\ form' = [form EXCEPT ![e] = club]
    /\ behind' = behind \ {<<e, "club">>}
    /\ UNCHANGED <<ClubAndWeek, hours, barred, saving, sent, told, edits, guessing, hurried, misread, vanished>>

\* The placeholder stays on the page, which says so and saves nothing.
ClubNotLoaded(e) ==
    /\ LoadEnds(e, "club")
    /\ barred' = barred \cup {e}
    /\ UNCHANGED <<ClubAndWeek, form, hours, saving, sent, told, edits, Journal>>

\* A day without a row is shown with the default hours.
Filled == IF days = "missing" THEN week \cup {Invented} ELSE week

WeekLoaded(e) ==
    /\ LoadEnds(e, "week")
    /\ hours' = [hours EXCEPT ![e] = Filled]
    /\ behind' = behind \ {<<e, "week">>}
    /\ UNCHANGED <<ClubAndWeek, form, barred, saving, sent, told, edits, guessing, hurried, misread, vanished>>

\* The default week is shown, without a word.
WeekNotLoaded(e) ==
    /\ LoadEnds(e, "week")
    /\ hours' = [hours EXCEPT ![e] = {Invented}]
    /\ guessing' = guessing \cup {e} /\ misread' = TRUE
    /\ UNCHANGED <<ClubAndWeek, form, barred, saving, sent, told, edits, behind, hurried, vanished>>

OpenedAnew(e) ==
    /\ loads[e] = {} /\ saving[e] = "no"
    /\ form' = [form EXCEPT ![e] = {Invented}] /\ hours' = [hours EXCEPT ![e] = {Invented}]
    /\ loads' = [loads EXCEPT ![e] = Parts] /\ barred' = barred \ {e}
    /\ told' = [told EXCEPT ![e] = "nothing"]
    /\ guessing' = guessing \ {e} /\ hurried' = hurried \ {e}
    /\ UNCHANGED <<ClubAndWeek, saving, sent, edits, behind, misread, vanished>>

-----------------------------------------------------------------------------
(* Editing, which a save under way does not stop *)

Typed(e) ==
    /\ loads[e] = {} /\ edits < MaxEdits
    /\ edits' = edits + 1
    /\ told' = [told EXCEPT ![e] = IF @ = "saved" THEN "nothing" ELSE @]
    /\ UNCHANGED <<ClubAndWeek, loads, barred, saving, sent, behind, guessing, misread, vanished>>

Patch(e) ==
    /\ Typed(e)
    /\ form' = [form EXCEPT ![e] = @ \cup {edits'}]
    /\ UNCHANGED <<hours, hurried>>

EditHours(e) ==
    /\ Typed(e)
    /\ hours' = [hours EXCEPT ![e] = @ \cup {edits'}]
    /\ hurried' = IF saving[e] = "no" THEN hurried ELSE hurried \cup {e}
    /\ UNCHANGED form

-----------------------------------------------------------------------------
(* Saving *)

SavableAnyway(e) == TRUE
Savable(e)       == e \notin barred

HandleSave(e) ==
    /\ loads[e] = {} /\ saving[e] = "no" /\ Savable(e)
    /\ saving' = [saving EXCEPT ![e] = "patching"]
    /\ sent' = [sent EXCEPT ![e] = [club |-> form[e], week |-> hours[e]]]
    /\ told' = [told EXCEPT ![e] = IF @ = "failed" THEN "nothing" ELSE @]
    /\ hurried' = hurried \ {e}
    /\ UNCHANGED <<ClubAndWeek, form, hours, loads, barred, edits, behind, guessing, misread, vanished>>

\* Every other page is behind on the part written, and what this one knew of
\* and does not carry is gone.
Written(e, part, old, new) ==
    /\ behind' = (behind \ {<<e, part>>}) \cup ((Editors \ {e}) \X {part})
    /\ vanished' = IF <<e, part>> \in behind THEN vanished ELSE vanished \cup (old \ new)

UpdateClubSettings(e) ==
    /\ saving[e] = "patching"
    /\ club' = sent[e].club
    /\ Written(e, "club", club, sent[e].club)
    /\ saving' = [saving EXCEPT ![e] = "patched"]
    /\ UNCHANGED <<week, days, form, hours, loads, barred, sent, told, edits, guessing, hurried, misread>>

\* A page that guesses the week knows nothing of it.
UpsertWorkingHours(e) ==
    /\ saving[e] = "patched"
    /\ week' = sent[e].week
    /\ days' = IF days = "missing" THEN "filled" ELSE days
    /\ Written(e, "week", IF e \in guessing THEN {} ELSE week, sent[e].week)
    /\ saving' = [saving EXCEPT ![e] = "put"]
    /\ UNCHANGED <<club, form, hours, loads, barred, sent, told, edits, guessing, hurried, misread>>

AnswerIgnored(e) == form[e]
\* What the first call answered with.
Reflected(e)     == sent[e].club

Finished(e, word) ==
    /\ saving' = [saving EXCEPT ![e] = "no"] /\ sent' = [sent EXCEPT ![e] = Nil]
    /\ told' = [told EXCEPT ![e] = word]
    /\ UNCHANGED <<ClubAndWeek, hours, loads, barred, edits, Journal>>

Saved(e) ==
    /\ saving[e] = "put"
    /\ form' = [form EXCEPT ![e] = Reflected(e)]
    /\ Finished(e, "saved")

\* A call is refused, or made and its answer an error: lost on the way, or
\* the cache's key was not deleted.
SaveFails(e) ==
    /\ saving[e] # "no"
    /\ Finished(e, "failed")
    /\ UNCHANGED form

SettingsNext ==
    \E e \in Editors :
        \/ ClubLoaded(e) \/ ClubNotLoaded(e) \/ WeekLoaded(e) \/ WeekNotLoaded(e) \/ OpenedAnew(e)
        \/ Patch(e) \/ EditHours(e)
        \/ HandleSave(e) \/ UpdateClubSettings(e) \/ UpsertWorkingHours(e) \/ Saved(e) \/ SaveFails(e)

-----------------------------------------------------------------------------
(* Properties *)

\* The placeholder is never saved as the club's record (settings/page.tsx 45-54),
\* and default hours are saved, over or in the place of the club's own, only where
\* a page's hours did not load, or did and had days without a row (settings/page.tsx
\* 113-151).
NothingInvented ==
    /\ Invented \notin club
    /\ Invented \in week => misread \/ days = "filled"

\* A page at rest that says "Saved!" shows what is stored, of both parts, unless
\* another page saved since or its hours were edited while it was saving
\* (settings/page.tsx 158-182).
SavedIsStored ==
    \A e \in Editors : told[e] = "saved" /\ saving[e] = "no" =>
        /\ <<e, "club">> \in behind \/ form[e] = club
        /\ <<e, "week">> \in behind \/ e \in hurried \/ hours[e] = week

\* An edit that was saved is overwritten only by a page that was behind, or
\* that guessed the week.
NoEditVanishes == vanished = {}

SettingsAreSound == NothingInvented /\ SavedIsStored /\ NoEditVanishes
=============================================================================
