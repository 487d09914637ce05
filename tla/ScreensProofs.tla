----------------------------- MODULE ScreensProofs -----------------------------
(* Proofs about what the browser shows: each part of MCScreens has an inductive   *)
(* invariant of its own, over its own next-state relation, and the theorems about *)
(* all of them take from each part what it keeps while the others stand still.    *)
EXTENDS MCScreens, BookingLifecycleProofs, FiniteSetTheorems, TLAPS

-----------------------------------------------------------------------------
(* The settings page *)

\* What a page shows of the club and of the week, and what its save carries.
FormKnows(e) ==
    /\ "club" \notin loads[e] /\ e \notin barred => Invented \notin form[e]
    /\ "club" \notin loads[e] /\ e \notin barred /\ <<e, "club">> \notin behind => club \subseteq form[e]
    /\ "week" \notin loads[e] /\ Invented \in hours[e] => misread \/ days # "written"
    /\ "week" \notin loads[e] /\ e \notin guessing /\ <<e, "week">> \notin behind => week \subseteq hours[e]

SaveCarries(e) ==
    /\ saving[e] # "no" => loads[e] = {} /\ e \notin barred
    /\ Invented \notin sent[e].club /\ (Invented \in sent[e].week => misread \/ days # "written")
    /\ saving[e] = "patching" /\ <<e, "club">> \notin behind => club \subseteq sent[e].club
    /\ saving[e] \in {"patched", "put"} /\ <<e, "club">> \notin behind => club = sent[e].club
    /\ saving[e] \in {"patching", "patched"} /\ e \notin guessing /\ <<e, "week">> \notin behind =>
           week \subseteq sent[e].week
    /\ saving[e] = "put" /\ <<e, "week">> \notin behind => week = sent[e].week
    /\ saving[e] # "no" => /\ sent[e].club \subseteq form[e] /\ sent[e].week \subseteq hours[e]
                           /\ e \in hurried \/ hours[e] = sent[e].week

SaysSaved(e) ==
    /\ told[e] # "nothing" => loads[e] = {}
    /\ told[e] = "saved" /\ saving[e] = "no" =>
        /\ <<e, "club">> \in behind \/ form[e] = club
        /\ <<e, "week">> \in behind \/ e \in hurried \/ hours[e] = week

PageSound(e) == FormKnows(e) /\ SaveCarries(e) /\ SaysSaved(e)

SettingsInv == SettingsTypeOK /\ NothingInvented /\ NoEditVanishes /\ \A e \in Editors : PageSound(e)

LEMMA SettingsStart == SettingsInit => SettingsInv
<1> SUFFICES ASSUME SettingsInit PROVE SettingsInv
  OBVIOUS
<1>0. {} \in Value /\ {Invented} \in Value
  BY DEF Value
<1>1. SettingsTypeOK
  <2>1. form \in [Editors -> Value] /\ hours \in [Editors -> Value]
    BY <1>0 DEF SettingsInit
  <2>2. sent \in [Editors -> [club : Value, week : Value]]
    BY <1>0 DEF SettingsInit, Nil
  <2>3. club \in Value /\ week \in Value /\ days \in {"written", "missing", "filled"} /\ edits \in 0 .. MaxEdits /\ vanished \in Value
    BY <1>0, EditsAssumption DEF SettingsInit
  <2>4. loads \in [Editors -> SUBSET Parts] /\ saving \in [Editors -> {"no", "patching", "patched", "put"}]
        /\ told \in [Editors -> {"nothing", "saved", "failed"}]
    BY DEF SettingsInit
  <2>5. /\ barred \subseteq Editors /\ behind \subseteq Editors \X Parts
        /\ guessing \subseteq Editors /\ hurried \subseteq Editors /\ misread \in BOOLEAN
    BY DEF SettingsInit
  <2> QED BY <2>1, <2>2, <2>3, <2>4, <2>5 DEF SettingsTypeOK
<1>2. NothingInvented /\ NoEditVanishes
  BY DEF SettingsInit, NothingInvented, NoEditVanishes
<1>3. ASSUME NEW e \in Editors PROVE PageSound(e)
  BY DEF SettingsInit, PageSound, FormKnows, SaveCarries, SaysSaved, Nil, Parts
<1> QED BY <1>1, <1>2, <1>3 DEF SettingsInv

\* Every operation writes values of the variables' types.
LEMMA SettingsTypes == SettingsTypeOK /\ [SettingsNext]_settingsVars => SettingsTypeOK'
<1> SUFFICES ASSUME SettingsTypeOK, [SettingsNext]_settingsVars PROVE SettingsTypeOK'
  OBVIOUS
<1> USE EditsAssumption DEF SettingsTypeOK
<1>0. {} \in Value /\ {Invented} \in Value /\ \A S, T \in Value : S \cup T \in Value /\ S \ T \in Value
  BY DEF Value
<1>1. ASSUME NEW e \in Editors, ClubLoaded(e) PROVE SettingsTypeOK'
  BY <1>1 DEF ClubLoaded, LoadEnds, ClubAndWeek
<1>2. ASSUME NEW e \in Editors, ClubNotLoaded(e) PROVE SettingsTypeOK'
  BY <1>2 DEF ClubNotLoaded, LoadEnds, ClubAndWeek, Journal
<1>3. ASSUME NEW e \in Editors, WeekLoaded(e) PROVE SettingsTypeOK'
  BY <1>0, <1>3 DEF WeekLoaded, Filled, LoadEnds, ClubAndWeek
<1>4. ASSUME NEW e \in Editors, WeekNotLoaded(e) PROVE SettingsTypeOK'
  BY <1>0, <1>4 DEF WeekNotLoaded, LoadEnds, ClubAndWeek
<1>5. ASSUME NEW e \in Editors, OpenedAnew(e) PROVE SettingsTypeOK'
  BY <1>0, <1>5 DEF OpenedAnew, ClubAndWeek
<1>6. ASSUME NEW e \in Editors, Typed(e)
      PROVE  /\ edits' \in 0 .. MaxEdits /\ {edits'} \in Value
             /\ told' \in [Editors -> {"nothing", "saved", "failed"}]
  BY <1>6 DEF Typed, Value
<1>7. ASSUME NEW e \in Editors, Patch(e) PROVE SettingsTypeOK'
  BY <1>0, <1>6, <1>7 DEF Patch, Typed, ClubAndWeek
<1>8. ASSUME NEW e \in Editors, EditHours(e) PROVE SettingsTypeOK'
  BY <1>0, <1>6, <1>8 DEF EditHours, Typed, ClubAndWeek
<1>9. ASSUME NEW e \in Editors, HandleSave(e) PROVE SettingsTypeOK'
  BY <1>9 DEF HandleSave, ClubAndWeek
<1>10. ASSUME NEW e \in Editors, NEW part \in Parts, NEW old \in Value, NEW new \in Value, Written(e, part, old, new)
       PROVE  behind' \subseteq Editors \X Parts /\ vanished' \in Value
  BY <1>0, <1>10 DEF Written
<1>11. ASSUME NEW e \in Editors, UpdateClubSettings(e) PROVE SettingsTypeOK'
  <2>1. sent[e].club \in Value
    OBVIOUS
  <2> QED BY <1>10, <1>11, <2>1 DEF UpdateClubSettings, Parts
<1>12. ASSUME NEW e \in Editors, UpsertWorkingHours(e) PROVE SettingsTypeOK'
  <2>1. sent[e].week \in Value
    OBVIOUS
  <2> QED BY <1>0, <1>10, <1>12, <2>1 DEF UpsertWorkingHours, Parts
<1>13. ASSUME NEW e \in Editors, Saved(e) PROVE SettingsTypeOK'
  BY <1>0, <1>13 DEF Saved, Finished, Reflected, Nil, ClubAndWeek, Journal
<1>14. ASSUME NEW e \in Editors, SaveFails(e) PROVE SettingsTypeOK'
  BY <1>0, <1>14 DEF SaveFails, Finished, Nil, ClubAndWeek, Journal
<1>15. CASE UNCHANGED settingsVars
  BY <1>15 DEF settingsVars
<1> QED
  BY <1>1, <1>2, <1>3, <1>4, <1>5, <1>7, <1>8, <1>9, <1>11, <1>12, <1>13, <1>14, <1>15 DEF SettingsNext

LEMMA SettingsStep == SettingsInv /\ [SettingsNext]_settingsVars => SettingsInv'
<1> SUFFICES ASSUME SettingsInv, [SettingsNext]_settingsVars PROVE SettingsInv'
  OBVIOUS
<1>0. SettingsTypeOK'
  BY SettingsTypes DEF SettingsInv
<1> USE EditsAssumption DEF SettingsTypeOK, NothingInvented, NoEditVanishes
<1>1. ASSUME NEW e \in Editors, ClubLoaded(e) PROVE SettingsInv'
  <2>1. NothingInvented' /\ NoEditVanishes'
    BY <1>1 DEF SettingsInv, ClubLoaded, LoadEnds, ClubAndWeek, PageSound, FormKnows, SaveCarries
  <2>2. ASSUME NEW x \in Editors PROVE PageSound(x)'
    <3>1. FormKnows(x)'
      BY <1>1, <2>2 DEF SettingsInv, ClubLoaded, LoadEnds, ClubAndWeek, PageSound, FormKnows, SaveCarries
    <3>2. SaveCarries(x)'
      BY <1>1, <2>2 DEF SettingsInv, ClubLoaded, LoadEnds, ClubAndWeek, PageSound, FormKnows, SaveCarries
    <3>3. SaysSaved(x)'
      BY <1>1, <2>2 DEF SettingsInv, ClubLoaded, LoadEnds, ClubAndWeek, PageSound, SaysSaved, SaveCarries
    <3> QED BY <3>1, <3>2, <3>3 DEF PageSound
  <2> QED BY <1>0, <2>1, <2>2 DEF SettingsInv
<1>2. ASSUME NEW e \in Editors, ClubNotLoaded(e) PROVE SettingsInv'
  <2>1. NothingInvented' /\ NoEditVanishes'
    BY <1>2 DEF SettingsInv, ClubNotLoaded, LoadEnds, ClubAndWeek, Journal, PageSound, FormKnows, SaveCarries
  <2>2. ASSUME NEW x \in Editors PROVE PageSound(x)'
    <3>1. FormKnows(x)'
      BY <1>2, <2>2 DEF SettingsInv, ClubNotLoaded, LoadEnds, ClubAndWeek, Journal, PageSound, FormKnows, SaveCarries
    <3>2. SaveCarries(x)'
      BY <1>2, <2>2 DEF SettingsInv, ClubNotLoaded, LoadEnds, ClubAndWeek, Journal, PageSound, FormKnows, SaveCarries
    <3>3. SaysSaved(x)'
      BY <1>2, <2>2 DEF SettingsInv, ClubNotLoaded, LoadEnds, ClubAndWeek, Journal, PageSound, SaysSaved, SaveCarries
    <3> QED BY <3>1, <3>2, <3>3 DEF PageSound
  <2> QED BY <1>0, <2>1, <2>2 DEF SettingsInv
<1>3. ASSUME NEW e \in Editors, WeekLoaded(e) PROVE SettingsInv'
  <2>1. NothingInvented' /\ NoEditVanishes'
    BY <1>3 DEF SettingsInv, WeekLoaded, Filled, LoadEnds, ClubAndWeek, PageSound, FormKnows, SaveCarries
  <2>2. ASSUME NEW x \in Editors PROVE PageSound(x)'
    <3>1. FormKnows(x)'
      BY <1>3, <2>2 DEF SettingsInv, WeekLoaded, Filled, LoadEnds, ClubAndWeek, PageSound, FormKnows, SaveCarries
    <3>2. SaveCarries(x)'
      BY <1>3, <2>2 DEF SettingsInv, WeekLoaded, Filled, LoadEnds, ClubAndWeek, PageSound, FormKnows, SaveCarries
    <3>3. SaysSaved(x)'
      BY <1>3, <2>2 DEF SettingsInv, WeekLoaded, Filled, LoadEnds, ClubAndWeek, PageSound, SaysSaved, SaveCarries
    <3> QED BY <3>1, <3>2, <3>3 DEF PageSound
  <2> QED BY <1>0, <2>1, <2>2 DEF SettingsInv
<1>4. ASSUME NEW e \in Editors, WeekNotLoaded(e) PROVE SettingsInv'
  <2>1. NothingInvented' /\ NoEditVanishes'
    BY <1>4 DEF SettingsInv, WeekNotLoaded, LoadEnds, ClubAndWeek, PageSound, FormKnows, SaveCarries
  <2>2. ASSUME NEW x \in Editors PROVE PageSound(x)'
    <3>1. FormKnows(x)'
      BY <1>4, <2>2 DEF SettingsInv, WeekNotLoaded, LoadEnds, ClubAndWeek, PageSound, FormKnows, SaveCarries
    <3>2. SaveCarries(x)'
      BY <1>4, <2>2 DEF SettingsInv, WeekNotLoaded, LoadEnds, ClubAndWeek, PageSound, FormKnows, SaveCarries
    <3>3. SaysSaved(x)'
      BY <1>4, <2>2 DEF SettingsInv, WeekNotLoaded, LoadEnds, ClubAndWeek, PageSound, SaysSaved, SaveCarries
    <3> QED BY <3>1, <3>2, <3>3 DEF PageSound
  <2> QED BY <1>0, <2>1, <2>2 DEF SettingsInv
<1>5. ASSUME NEW e \in Editors, OpenedAnew(e) PROVE SettingsInv'
  <2>1. NothingInvented' /\ NoEditVanishes'
    BY <1>5 DEF SettingsInv, OpenedAnew, ClubAndWeek, Parts, PageSound, FormKnows, SaveCarries
  <2>2. ASSUME NEW x \in Editors PROVE PageSound(x)'
    <3>1. FormKnows(x)'
      BY <1>5, <2>2 DEF SettingsInv, OpenedAnew, ClubAndWeek, Parts, PageSound, FormKnows, SaveCarries
    <3>2. SaveCarries(x)'
      BY <1>5, <2>2 DEF SettingsInv, OpenedAnew, ClubAndWeek, Parts, PageSound, FormKnows, SaveCarries
    <3>3. SaysSaved(x)'
      BY <1>5, <2>2 DEF SettingsInv, OpenedAnew, ClubAndWeek, Parts, PageSound, SaysSaved, SaveCarries
    <3> QED BY <3>1, <3>2, <3>3 DEF PageSound
  <2> QED BY <1>0, <2>1, <2>2 DEF SettingsInv
<1>6. ASSUME NEW e \in Editors, Patch(e) PROVE SettingsInv'
  <2>1. NothingInvented' /\ NoEditVanishes'
    BY <1>6 DEF SettingsInv, Patch, Typed, ClubAndWeek, PageSound, FormKnows, SaveCarries
  <2>2. ASSUME NEW x \in Editors PROVE PageSound(x)'
    <3>1. FormKnows(x)'
      BY <1>6, <2>2 DEF SettingsInv, Patch, Typed, ClubAndWeek, PageSound, FormKnows, SaveCarries
    <3>2. SaveCarries(x)'
      BY <1>6, <2>2 DEF SettingsInv, Patch, Typed, ClubAndWeek, PageSound, FormKnows, SaveCarries
    <3>3. SaysSaved(x)'
      BY <1>6, <2>2 DEF SettingsInv, Patch, Typed, ClubAndWeek, PageSound, SaysSaved, SaveCarries
    <3> QED BY <3>1, <3>2, <3>3 DEF PageSound
  <2> QED BY <1>0, <2>1, <2>2 DEF SettingsInv
<1>7. ASSUME NEW e \in Editors, EditHours(e) PROVE SettingsInv'
  <2>1. NothingInvented' /\ NoEditVanishes'
    BY <1>7 DEF SettingsInv, EditHours, Typed, ClubAndWeek, PageSound, FormKnows, SaveCarries
  <2>2. ASSUME NEW x \in Editors PROVE PageSound(x)'
    <3>1. FormKnows(x)'
      BY <1>7, <2>2 DEF SettingsInv, EditHours, Typed, ClubAndWeek, PageSound, FormKnows, SaveCarries
    <3>2. SaveCarries(x)'
      BY <1>7, <2>2 DEF SettingsInv, EditHours, Typed, ClubAndWeek, PageSound, FormKnows, SaveCarries
    <3>3. SaysSaved(x)'
      BY <1>7, <2>2 DEF SettingsInv, EditHours, Typed, ClubAndWeek, PageSound, SaysSaved, SaveCarries
    <3> QED BY <3>1, <3>2, <3>3 DEF PageSound
  <2> QED BY <1>0, <2>1, <2>2 DEF SettingsInv
<1>8. ASSUME NEW e \in Editors, HandleSave(e) PROVE SettingsInv'
  <2>1. NothingInvented' /\ NoEditVanishes'
    BY <1>8 DEF SettingsInv, HandleSave, Savable, ClubAndWeek, PageSound, FormKnows, SaveCarries
  <2>2. ASSUME NEW x \in Editors PROVE PageSound(x)'
    <3>1. FormKnows(x)'
      BY <1>8, <2>2 DEF SettingsInv, HandleSave, Savable, ClubAndWeek, PageSound, FormKnows, SaveCarries
    <3>2. SaveCarries(x)'
      BY <1>8, <2>2 DEF SettingsInv, HandleSave, Savable, ClubAndWeek, PageSound, FormKnows, SaveCarries
    <3>3. SaysSaved(x)'
      BY <1>8, <2>2 DEF SettingsInv, HandleSave, Savable, ClubAndWeek, PageSound, SaysSaved, SaveCarries
    <3> QED BY <3>1, <3>2, <3>3 DEF PageSound
  <2> QED BY <1>0, <2>1, <2>2 DEF SettingsInv
<1>9. ASSUME NEW e \in Editors, UpdateClubSettings(e) PROVE SettingsInv'
  <2>1. NothingInvented' /\ NoEditVanishes'
    BY <1>9 DEF SettingsInv, UpdateClubSettings, Written, PageSound, FormKnows, SaveCarries
  <2>2. ASSUME NEW x \in Editors PROVE PageSound(x)'
    <3>1. FormKnows(x)'
      BY <1>9, <2>2 DEF SettingsInv, UpdateClubSettings, Written, PageSound, FormKnows, SaveCarries
    <3>2. SaveCarries(x)'
      BY <1>9, <2>2 DEF SettingsInv, UpdateClubSettings, Written, PageSound, FormKnows, SaveCarries
    <3>3. SaysSaved(x)'
      BY <1>9, <2>2 DEF SettingsInv, UpdateClubSettings, Written, PageSound, SaysSaved, SaveCarries
    <3> QED BY <3>1, <3>2, <3>3 DEF PageSound
  <2> QED BY <1>0, <2>1, <2>2 DEF SettingsInv
<1>10. ASSUME NEW e \in Editors, UpsertWorkingHours(e) PROVE SettingsInv'
  <2>1. NothingInvented' /\ NoEditVanishes'
    BY <1>10 DEF SettingsInv, UpsertWorkingHours, Written, PageSound, FormKnows, SaveCarries
  <2>2. ASSUME NEW x \in Editors PROVE PageSound(x)'
    <3>1. FormKnows(x)'
      BY <1>10, <2>2 DEF SettingsInv, UpsertWorkingHours, Written, PageSound, FormKnows, SaveCarries
    <3>2. SaveCarries(x)'
      BY <1>10, <2>2 DEF SettingsInv, UpsertWorkingHours, Written, PageSound, FormKnows, SaveCarries
    <3>3. SaysSaved(x)'
      BY <1>10, <2>2 DEF SettingsInv, UpsertWorkingHours, Written, PageSound, SaysSaved, SaveCarries
    <3> QED BY <3>1, <3>2, <3>3 DEF PageSound
  <2> QED BY <1>0, <2>1, <2>2 DEF SettingsInv
<1>11. ASSUME NEW e \in Editors, Saved(e) PROVE SettingsInv'
  <2>1. NothingInvented' /\ NoEditVanishes'
    BY <1>11 DEF SettingsInv, Saved, Finished, Reflected, Nil, ClubAndWeek, Journal, PageSound, FormKnows, SaveCarries
  <2>2. ASSUME NEW x \in Editors PROVE PageSound(x)'
    <3>1. FormKnows(x)'
      BY <1>11, <2>2 DEF SettingsInv, Saved, Finished, Reflected, Nil, ClubAndWeek, Journal, PageSound, FormKnows, SaveCarries
    <3>2. SaveCarries(x)'
      BY <1>11, <2>2 DEF SettingsInv, Saved, Finished, Reflected, Nil, ClubAndWeek, Journal, PageSound, FormKnows, SaveCarries
    <3>3. SaysSaved(x)'
      BY <1>11, <2>2 DEF SettingsInv, Saved, Finished, Reflected, Nil, ClubAndWeek, Journal, PageSound, SaysSaved, SaveCarries
    <3> QED BY <3>1, <3>2, <3>3 DEF PageSound
  <2> QED BY <1>0, <2>1, <2>2 DEF SettingsInv
<1>12. ASSUME NEW e \in Editors, SaveFails(e) PROVE SettingsInv'
  <2>1. NothingInvented' /\ NoEditVanishes'
    BY <1>12 DEF SettingsInv, SaveFails, Finished, Nil, ClubAndWeek, Journal, PageSound, FormKnows, SaveCarries
  <2>2. ASSUME NEW x \in Editors PROVE PageSound(x)'
    <3>1. FormKnows(x)'
      BY <1>12, <2>2 DEF SettingsInv, SaveFails, Finished, Nil, ClubAndWeek, Journal, PageSound, FormKnows, SaveCarries
    <3>2. SaveCarries(x)'
      BY <1>12, <2>2 DEF SettingsInv, SaveFails, Finished, Nil, ClubAndWeek, Journal, PageSound, FormKnows, SaveCarries
    <3>3. SaysSaved(x)'
      BY <1>12, <2>2 DEF SettingsInv, SaveFails, Finished, Nil, ClubAndWeek, Journal, PageSound, SaysSaved, SaveCarries
    <3> QED BY <3>1, <3>2, <3>3 DEF PageSound
  <2> QED BY <1>0, <2>1, <2>2 DEF SettingsInv
<1>13. CASE UNCHANGED settingsVars
  BY <1>13 DEF settingsVars, SettingsInv, PageSound, FormKnows, SaveCarries, SaysSaved
<1> HIDE DEF SettingsTypeOK, NothingInvented, NoEditVanishes
<1> QED
  BY <1>1, <1>2, <1>3, <1>4, <1>5, <1>6, <1>7, <1>8, <1>9, <1>10, <1>11, <1>12, <1>13 DEF SettingsNext

-----------------------------------------------------------------------------
(* The accounts of an address *)

Held(w)    == holders[w] # Vacant
Entered(a) == step[a] \in {"inserted", "mailed"}

\* A registration before its commit has the club's place to itself; one after it
\* has the account, with its password until a reset and verified by its own link.
RegistrationSound(a) ==
    /\ answer[a] # "none" <=> step[a] = "over"
    /\ Entered(a) => /\ ~Held(ClubOf(a))
                     /\ \A b \in Applicants : ClubOf(b) = ClubOf(a) /\ Entered(b) => a = b
    /\ answer[a] = "done" => link[a] # "none"
    /\ answer[a] = "exists" => Held(ClubOf(a))
    /\ link[a] # "none" =>
          /\ step[a] = "over" /\ Held(ClubOf(a))
          /\ ClubOf(a) \notin replaced => holders[ClubOf(a)].pass = typed[a].pass
          /\ holders[ClubOf(a)].verified <=> link[a] = "used"
          /\ \A b \in Applicants : ClubOf(b) = ClubOf(a) /\ link[b] # "none" => a = b

\* Every account comes of a registration, and every club but the founded ones.
PlacesSound ==
    /\ \A w \in Workspaces : Held(w) => \E a \in Applicants : ClubOf(a) = w /\ link[a] # "none"
    /\ slugs \ Founded \subseteq {w \in Workspaces : Held(w)}
    /\ resets \subseteq {w \in Workspaces : Held(w)}

\* What a sign-in read of the accounts stays true of them but for the passwords.
SignInSound(v) ==
    /\ looked[v] # NoAttempt => \A u \in DOMAIN looked[v].found :
           u \in Workspaces /\ Held(u) /\ (looked[v].found[u].verified => holders[u].verified)
    /\ inside[v] # Nowhere => /\ looked[v] # NoAttempt /\ Fits(looked[v]) = {inside[v]}
                              /\ looked[v].found[inside[v]].verified

AsksFit == asks # {} => Cardinality({w \in Workspaces : Held(w)}) > 1

AccountsInv == /\ AccountsTypeOK /\ PlacesSound /\ AsksFit
               /\ \A a \in Applicants : RegistrationSound(a)
               /\ \A v \in Visitors : SignInSound(v)

LEMMA AccountsStart == AccountsInit => AccountsInv
<1> SUFFICES ASSUME AccountsInit PROVE AccountsInv
  OBVIOUS
<1>1. AccountsTypeOK
  BY FoundedAssumption DEF AccountsInit, AccountsTypeOK
<1>2. PlacesSound /\ AsksFit
  BY DEF AccountsInit, PlacesSound, AsksFit, Held
<1>3. ASSUME NEW a \in Applicants PROVE RegistrationSound(a)
  BY DEF AccountsInit, RegistrationSound, Entered
<1>4. ASSUME NEW v \in Visitors PROVE SignInSound(v)
  BY DEF AccountsInit, SignInSound
<1> QED BY <1>1, <1>2, <1>3, <1>4 DEF AccountsInv

\* A registration's step that leaves the accounts and the sign-ins alone.
LEMMA RegisteringStep ==
    ASSUME AccountsInv, UNCHANGED <<slugs, holders, typed, Resetting, SignInPages>>,
           NEW a \in Applicants,
           \A b \in Applicants \ {a} : step'[b] = step[b] /\ answer'[b] = answer[b] /\ link'[b] = link[b],
           step' \in [Applicants -> {"blank", "checked", "inserted", "mailed", "over"}],
           answer' \in [Applicants -> {"none", "done", "exists", "failed"}],
           link' = link, link[a] = "none", answer'[a] # "done",
           answer'[a] # "none" <=> step'[a] = "over",
           answer'[a] = "exists" => Held(ClubOf(a)),
           step'[a] \in {"inserted", "mailed"} =>
               Entered(a) \/ (~Held(ClubOf(a)) /\ ~Inserting(ClubOf(a)))
    PROVE  AccountsInv'
<1>1. AccountsTypeOK'
  BY DEF AccountsInv, AccountsTypeOK, Resetting, SignInPages
<1>2. PlacesSound'
  BY DEF AccountsInv, PlacesSound, Held, ClubOf, Resetting
<1>3. AsksFit'
  BY DEF AccountsInv, AsksFit, Held, SignInPages
<1>4. ASSUME NEW b \in Applicants PROVE RegistrationSound(b)'
  BY <1>4 DEF AccountsInv, RegistrationSound, Held, Entered, ClubOf, Inserting, Resetting
<1>5. ASSUME NEW v \in Visitors PROVE SignInSound(v)'
  BY <1>5 DEF AccountsInv, SignInSound, Held, Fits, SignInPages
<1> QED BY <1>1, <1>2, <1>3, <1>4, <1>5 DEF AccountsInv

\* Accounts are added, verified and given passwords, and never taken away.
LEMMA SignInsStay ==
    ASSUME AccountsInv, UNCHANGED SignInPages,
           \A w \in Workspaces : Held(w) => Held(w)' /\ (holders[w].verified => holders'[w].verified)
    PROVE  AsksFit' /\ \A v \in Visitors : SignInSound(v)'
<1>1. AsksFit'
  <2> DEFINE S == {w \in Workspaces : Held(w)}
             T == {w \in Workspaces : Held(w)'}
  <2>1. S \subseteq T /\ IsFiniteSet(T)
    BY FS_Subset, FoundedAssumption
  <2>2. Cardinality(S) <= Cardinality(T) /\ Cardinality(S) \in Nat /\ Cardinality(T) \in Nat
    BY <2>1, FS_Subset, FS_CardinalityType
  <2> HIDE DEF S, T
  <2>3. asks # {} => Cardinality(T) > 1
    <3>1. asks # {} => Cardinality(S) > 1
      BY DEF AccountsInv, AsksFit, S
    <3> QED BY <2>2, <3>1
  <2>4. AsksFit' = (asks # {} => Cardinality(T) > 1)
    BY DEF AsksFit, T, SignInPages
  <2> QED BY <2>3, <2>4
<1>2. ASSUME NEW v \in Visitors PROVE SignInSound(v)'
  BY <1>2 DEF AccountsInv, SignInSound, Fits, SignInPages
<1> QED BY <1>1, <1>2

LEMMA CommitStep ==
    ASSUME AccountsInv, NEW a \in Applicants, RegisterCommits(a)
    PROVE  AccountsInv'
<1> DEFINE row == [pass |-> typed[a].pass, verified |-> FALSE]
<1>1. row \in Account /\ row # Vacant /\ row.verified = FALSE /\ row.pass = typed[a].pass
  <2>1. typed[a].pass \in Passwords
    <3>1. typed[a] \in Form
      BY DEF AccountsInv, AccountsTypeOK
    <3> QED BY <3>1 DEF Form
  <2>2. row \in Account
    BY <2>1 DEF Account
  <2> QED BY <2>2, VacantAssumption
<1>2. ClubOf(a) \in Workspaces
  BY DEF AccountsInv, AccountsTypeOK, Form, ClubOf
<1>3. holders' = [holders EXCEPT ![ClubOf(a)] = row]
  BY DEF RegisterCommits
<1>4. Entered(a) /\ ~Held(ClubOf(a)) /\ link[a] = "none"
  BY DEF RegisterCommits, AccountsInv, RegistrationSound, Entered
<1> HIDE DEF row
<1>5. AccountsTypeOK'
  <2>1. holders' \in [Workspaces -> Account \cup {Vacant}]
    BY <1>1, <1>2, <1>3 DEF AccountsInv, AccountsTypeOK
  <2>2. slugs' \subseteq Workspaces /\ \A w \in Workspaces : holders'[w] # Vacant => w \in slugs'
    BY <1>2, <1>3 DEF RegisterCommits, AccountsInv, AccountsTypeOK
  <2>3. /\ step' \in [Applicants -> {"blank", "checked", "inserted", "mailed", "over"}]
        /\ answer' \in [Applicants -> {"none", "done", "exists", "failed"}]
        /\ link' \in [Applicants -> {"none", "live", "used", "expired"}]
    BY DEF RegisterCommits, Told, Linked, AccountsInv, AccountsTypeOK
  <2> QED
    BY <2>1, <2>2, <2>3 DEF RegisterCommits, Resetting, SignInPages, AccountsInv, AccountsTypeOK
<1>6. \A w \in Workspaces : Held(w) => Held(w)' /\ holders'[w] = holders[w]
  BY <1>1, <1>2, <1>3, <1>4 DEF Held, AccountsInv, AccountsTypeOK
<1>7. Held(ClubOf(a))' /\ holders'[ClubOf(a)] = row /\ ClubOf(a)' = ClubOf(a)
  BY <1>1, <1>2, <1>3 DEF Held, AccountsInv, AccountsTypeOK, RegisterCommits, ClubOf
<1>8. PlacesSound'
  <2>1. link'[a] = "live" /\ \A b \in Applicants \ {a} : link'[b] = link[b]
    BY DEF RegisterCommits, Linked, AccountsInv, AccountsTypeOK
  <2>2. \A b \in Applicants : ClubOf(b)' = ClubOf(b)
    BY DEF RegisterCommits, ClubOf
  <2>3. \A w \in Workspaces : Held(w)' => Held(w) \/ w = ClubOf(a)
    BY <1>2, <1>3 DEF Held, AccountsInv, AccountsTypeOK
  <2> QED BY <1>2, <1>4, <1>6, <1>7, <2>1, <2>2, <2>3 DEF AccountsInv, PlacesSound, RegisterCommits, Resetting
<1>9. AsksFit' /\ \A v \in Visitors : SignInSound(v)'
  BY <1>6, SignInsStay DEF RegisterCommits
<1>10. ASSUME NEW b \in Applicants PROVE RegistrationSound(b)'
  <2>1. \A c \in Applicants : ClubOf(c)' = ClubOf(c) /\ ClubOf(c) \in Workspaces
    BY DEF RegisterCommits, ClubOf, AccountsInv, AccountsTypeOK, Form
  <2>2. /\ link'[a] = "live" /\ step'[a] = "over" /\ answer'[a] \in {"done", "failed"}
        /\ \A c \in Applicants \ {a} : link'[c] = link[c] /\ step'[c] = step[c] /\ answer'[c] = answer[c]
    BY DEF RegisterCommits, Told, Linked, AccountsInv, AccountsTypeOK
  <2>3. \A c \in Applicants \ {a} : ClubOf(c) = ClubOf(a) => ~Entered(c) /\ link[c] = "none"
    BY <1>4 DEF AccountsInv, RegistrationSound
  <2>4. replaced' = replaced /\ typed' = typed
    BY DEF RegisterCommits, Resetting
  <2>5. CASE b = a
    BY <1>1, <1>7, <2>1, <2>2, <2>3, <2>4, <2>5 DEF RegistrationSound, Entered, ClubOf
  <2>6. CASE b # a
    <3>1. RegistrationSound(b)
      BY DEF AccountsInv
    <3>2. Entered(b)' <=> Entered(b)
      BY <2>2, <2>6 DEF Entered
    <3>3. Entered(b) => ClubOf(b) # ClubOf(a) /\ ~Held(ClubOf(b))'
      <4>1. \A w \in Workspaces : Held(w)' => Held(w) \/ w = ClubOf(a)
        BY <1>2, <1>3 DEF Held, AccountsInv, AccountsTypeOK
      <4> QED BY <2>1, <2>3, <2>6, <3>1, <4>1 DEF RegistrationSound
    <3>4. Held(ClubOf(b)) => Held(ClubOf(b))' /\ holders'[ClubOf(b)] = holders[ClubOf(b)]
      BY <1>6, <2>1
    <3> QED BY <1>4, <2>1, <2>2, <2>3, <2>4, <2>6, <3>1, <3>2, <3>3, <3>4 DEF RegistrationSound, Entered
  <2> QED BY <2>5, <2>6
<1> QED BY <1>5, <1>8, <1>9, <1>10 DEF AccountsInv

LEMMA LinkStep ==
    ASSUME AccountsInv, NEW a \in Applicants, VerifyEmail(a) \/ LinkExpires(a)
    PROVE  AccountsInv'
<1>1. \A c \in Applicants : ClubOf(c)' = ClubOf(c) /\ ClubOf(c) \in Workspaces
  BY DEF VerifyEmail, LinkExpires, ClubOf, AccountsInv, AccountsTypeOK, Form
<1>2. /\ link[a] = "live" /\ link'[a] = (IF VerifyEmail(a) THEN "used" ELSE "expired")
      /\ \A c \in Applicants \ {a} : link'[c] = link[c]
  BY DEF VerifyEmail, LinkExpires, AccountsInv, AccountsTypeOK
<1>3. /\ UNCHANGED <<slugs, typed, step, answer>> /\ UNCHANGED Resetting /\ UNCHANGED SignInPages
      /\ replaced' = replaced /\ resets' = resets
  BY DEF VerifyEmail, LinkExpires, Resetting
<1>4. Held(ClubOf(a)) /\ holders[ClubOf(a)] \in Account /\ ~holders[ClubOf(a)].verified
  <2>1. Held(ClubOf(a))
    BY <1>2 DEF AccountsInv, RegistrationSound
  <2>2. ~holders[ClubOf(a)].verified
    BY <1>2 DEF AccountsInv, RegistrationSound
  <2> QED BY <1>1, <2>1, <2>2 DEF AccountsInv, AccountsTypeOK, Held
<1>5. /\ \A w \in Workspaces \ {ClubOf(a)} : holders'[w] = holders[w]
      /\ holders'[ClubOf(a)] \in Account /\ holders'[ClubOf(a)].pass = holders[ClubOf(a)].pass
      /\ holders'[ClubOf(a)].verified <=> VerifyEmail(a)
      /\ holders' \in [Workspaces -> Account \cup {Vacant}]
  <2>1. CASE VerifyEmail(a)
    <3>1. holders' = [holders EXCEPT ![ClubOf(a)] = [@ EXCEPT !.verified = TRUE]]
      BY <2>1 DEF VerifyEmail
    <3> QED BY <1>1, <1>4, <2>1, <3>1 DEF AccountsInv, AccountsTypeOK, Account
  <2>2. CASE ~VerifyEmail(a)
    <3>1. holders' = holders
      BY <2>2 DEF LinkExpires
    <3> QED BY <1>4, <2>2, <3>1 DEF AccountsInv, AccountsTypeOK
  <2> QED BY <2>1, <2>2
<1>6. \A w \in Workspaces : (Held(w) <=> Held(w)') /\ (Held(w) /\ holders[w].verified => holders'[w].verified)
  BY <1>4, <1>5, VacantAssumption DEF Held
<1>7. AccountsTypeOK'
  BY <1>2, <1>3, <1>5, <1>6 DEF AccountsInv, AccountsTypeOK, SignInPages, Resetting, Held, VerifyEmail, LinkExpires
<1>8. PlacesSound'
  <2>1. \A c \in Applicants : link[c] # "none" => link'[c] # "none"
    BY <1>2
  <2> QED BY <1>1, <1>3, <1>6, <2>1 DEF AccountsInv, PlacesSound
<1>9. AsksFit' /\ \A v \in Visitors : SignInSound(v)'
  BY <1>3, <1>6, SignInsStay
<1>10. ASSUME NEW b \in Applicants PROVE RegistrationSound(b)'
  <2>1. RegistrationSound(b) /\ RegistrationSound(a)
    BY DEF AccountsInv
  <2>2. \A c \in Applicants : (link[c] # "none" <=> link'[c] # "none") /\ (Entered(c) <=> Entered(c)')
    BY <1>2, <1>3 DEF Entered
  <2>3. Held(ClubOf(b)) <=> Held(ClubOf(b))'
    BY <1>1, <1>6
  <2>4. CASE b = a
    BY <1>1, <1>2, <1>3, <1>4, <1>5, <2>1, <2>2, <2>3, <2>4 DEF RegistrationSound
  <2>5. CASE b # a
    <3>1. link[b] # "none" => ClubOf(b) # ClubOf(a)
      BY <1>2, <2>1, <2>5 DEF RegistrationSound
    <3> QED BY <1>1, <1>2, <1>3, <1>5, <2>1, <2>2, <2>3, <2>5, <3>1 DEF RegistrationSound
  <2> QED BY <2>4, <2>5
<1> QED BY <1>7, <1>8, <1>9, <1>10 DEF AccountsInv

\* Links to choose a new password go to accounts there are, and a reset gives one
\* a password of its own.
LEMMA ResettingStep ==
    ASSUME AccountsInv, ForgotPassword \/ \E w \in Workspaces, p \in Passwords : ResetPassword(w, p)
    PROVE  AccountsInv'
<1>1. UNCHANGED <<slugs, typed, step, answer, link>> /\ UNCHANGED SignInPages
  BY DEF ForgotPassword, ResetPassword, Registering
<1>2. \A c \in Applicants : ClubOf(c)' = ClubOf(c) /\ ClubOf(c) \in Workspaces /\ (Entered(c)' <=> Entered(c))
  BY <1>1 DEF ClubOf, Entered, AccountsInv, AccountsTypeOK, Form
<1>3. /\ holders' \in [Workspaces -> Account \cup {Vacant}]
      /\ \A w \in Workspaces : (Held(w)' <=> Held(w)) /\ (Held(w) => holders'[w].verified = holders[w].verified)
      /\ \A w \in Workspaces \ replaced' : holders'[w] = holders[w]
      /\ replaced \subseteq replaced' /\ replaced' \subseteq Workspaces
      /\ resets' \subseteq {w \in Workspaces : Held(w)}
  <2>1. CASE ForgotPassword
    BY <2>1 DEF ForgotPassword, Held, AccountsInv, AccountsTypeOK
  <2>2. ASSUME NEW w \in Workspaces, NEW p \in Passwords, ResetPassword(w, p) PROVE <1>3!:
    <3>1. Held(w) /\ holders[w] \in Account
      BY <2>2 DEF ResetPassword, AccountsInv, PlacesSound, AccountsTypeOK, Held
    <3>2. [holders[w] EXCEPT !.pass = p] \in Account /\ [holders[w] EXCEPT !.pass = p] # Vacant
          /\ [holders[w] EXCEPT !.pass = p].verified = holders[w].verified
      BY <3>1, VacantAssumption DEF Account
    <3>3. holders' = [holders EXCEPT ![w] = [holders[w] EXCEPT !.pass = p]]
      BY <2>2 DEF ResetPassword
    <3>4. replaced' = replaced \cup {w} /\ resets' \subseteq resets
      BY <2>2 DEF ResetPassword
    <3> QED BY <3>1, <3>2, <3>3, <3>4 DEF Held, AccountsInv, AccountsTypeOK, PlacesSound
  <2> QED BY <2>1, <2>2
<1>4. AccountsTypeOK'
  BY <1>1, <1>3 DEF AccountsInv, AccountsTypeOK, SignInPages, Held
<1>5. PlacesSound'
  BY <1>1, <1>2, <1>3 DEF AccountsInv, PlacesSound
<1>6. AsksFit' /\ \A v \in Visitors : SignInSound(v)'
  BY <1>1, <1>3, SignInsStay
<1>7. ASSUME NEW b \in Applicants PROVE RegistrationSound(b)'
  <2>1. RegistrationSound(b)
    BY DEF AccountsInv
  <2> QED BY <1>1, <1>2, <1>3, <2>1 DEF RegistrationSound
<1> QED BY <1>4, <1>5, <1>6, <1>7 DEF AccountsInv

\* The sign-in reads the accounts there are, and concludes on what it read.
LEMMA SigningInStep ==
    ASSUME AccountsInv, NEW v \in Visitors,
           LoginConcludes(v) \/ \E p \in Passwords, w \in Workspaces \cup {Nowhere} : LoginLooksUp(v, p, w)
    PROVE  AccountsInv'
<1>1. UNCHANGED <<slugs, holders, typed, step, answer, link, resets, replaced>>
  BY DEF LoginConcludes, LoginLooksUp, Registering, Resetting
<1>2. PlacesSound' /\ \A a \in Applicants : RegistrationSound(a)'
  BY <1>1 DEF AccountsInv, PlacesSound, RegistrationSound, Held, Entered, ClubOf
<1>3. \A w \in Workspaces : Held(w)' = Held(w)
  BY <1>1 DEF Held
<1>4. ASSUME NEW p \in Passwords, NEW w \in Workspaces \cup {Nowhere}, LoginLooksUp(v, p, w) PROVE AccountsInv'
  <2> DEFINE rows == {u \in Workspaces : holders[u] # Vacant /\ w \in {u, Nowhere}}
             t == [pass |-> p, club |-> w, found |-> [u \in rows |-> holders[u]]]
  <2>1. looked' = [looked EXCEPT ![v] = t] /\ inside[v] = Nowhere /\ UNCHANGED <<inside, asks>>
    BY <1>4 DEF LoginLooksUp
  <2>2. t \in Attempt
    <3>1. t.found \in [rows -> Account] /\ rows \in SUBSET Workspaces
      BY DEF AccountsInv, AccountsTypeOK
    <3> QED BY <3>1 DEF Attempt
  <2>3. t # NoAttempt /\ \A u \in DOMAIN t.found : u \in Workspaces /\ Held(u) /\ t.found[u] = holders[u]
    <3>1. t.pass = p /\ NoAttempt.pass = Vacant
      BY DEF NoAttempt
    <3> QED BY <3>1, NowhereAssumption DEF Held
  <2> HIDE DEF t
  <2>4. AccountsTypeOK'
    BY <1>1, <2>1, <2>2 DEF AccountsInv, AccountsTypeOK
  <2>5. ASSUME NEW x \in Visitors PROVE SignInSound(x)'
    BY <1>1, <2>1, <2>3 DEF AccountsInv, AccountsTypeOK, SignInSound, Held, Fits
  <2>6. AsksFit'
    BY <1>1, <2>1 DEF AccountsInv, AsksFit, Held
  <2> QED BY <1>2, <2>4, <2>5, <2>6 DEF AccountsInv
<1>5. CASE LoginConcludes(v)
  <2> DEFINE t == looked[v]
  <2>1. t # NoAttempt /\ t \in Attempt /\ inside[v] = Nowhere
    BY <1>5 DEF LoginConcludes, AccountsInv, AccountsTypeOK
  <2>2. Fits(t) \subseteq {w \in Workspaces : Held(w)}
    BY <2>1 DEF AccountsInv, SignInSound, Fits
  <2>3. IsFiniteSet({w \in Workspaces : Held(w)}) /\ IsFiniteSet(Fits(t))
    BY <2>2, FoundedAssumption, FS_Subset
  <2>4. AsksFit'
    <3>1. Cardinality(Fits(t)) <= Cardinality({w \in Workspaces : Held(w)})
      BY <2>2, <2>3, FS_Subset
    <3>2. Cardinality(Fits(t)) \in Nat /\ Cardinality({w \in Workspaces : Held(w)}) \in Nat
      BY <2>3, FS_CardinalityType
    <3>3. asks' = IF Cardinality(Fits(t)) > 1 THEN asks \cup {v} ELSE asks
      BY <1>5 DEF LoginConcludes
    <3>4. {w \in Workspaces : Held(w)}' = {w \in Workspaces : Held(w)}
      BY <1>3
    <3> DEFINE m == Cardinality({w \in Workspaces : Held(w)})
               k == Cardinality(Fits(t))
    <3>5. AsksFit = (asks # {} => m > 1) /\ AsksFit' = (asks' # {} => m > 1)
      BY <3>4 DEF AsksFit
    <3> HIDE DEF m, k
    <3>6. k <= m /\ k \in Nat /\ m \in Nat /\ asks' = IF k > 1 THEN asks \cup {v} ELSE asks
      BY <3>1, <3>2, <3>3 DEF m, k
    <3> QED BY <3>5, <3>6 DEF AccountsInv
  <2>5. \A u \in Choice(t) : Fits(t) = {u} /\ Choice(t) = {u} /\ u \in Workspaces
    <3>1. CASE Cardinality(Fits(t)) = 1
      <4>1. PICK u \in Fits(t) : Fits(t) = {u}
        BY <2>3, <3>1, FS_Singleton
      <4> QED BY <2>2, <3>1, <4>1 DEF Choice
    <3>2. CASE Cardinality(Fits(t)) # 1
      BY <3>2 DEF Choice
    <3> QED BY <3>1, <3>2
  <2>6. \/ /\ looked' = looked
           /\ \E u \in Choice(t) : t.found[u].verified /\ inside' = [inside EXCEPT ![v] = u]
        \/ inside' = inside /\ looked' = [looked EXCEPT ![v] = NoAttempt]
    <3>1. CASE \E u \in Choice(t) : t.found[u].verified
      <4>1. PICK u \in Choice(t) : t.found[u].verified
        BY <3>1
      <4>2. Choice(t) = {u}
        BY <2>5
      <4>3. (CHOOSE z \in Choice(t) : TRUE) = u
        BY <4>2
      <4>4. inside' = [inside EXCEPT ![v] = CHOOSE z \in Choice(t) : TRUE] /\ looked' = looked
        BY <1>5, <3>1 DEF LoginConcludes
      <4> QED BY <4>1, <4>3, <4>4
    <3>2. CASE ~\E u \in Choice(t) : t.found[u].verified
      BY <1>5, <3>2 DEF LoginConcludes
    <3> QED BY <3>1, <3>2
  <2>7. AccountsTypeOK'
    <3>1. asks' \subseteq Visitors
      BY <1>5 DEF LoginConcludes, AccountsInv, AccountsTypeOK
    <3> QED BY <1>1, <2>5, <2>6, <3>1 DEF AccountsInv, AccountsTypeOK
  <2>8. ASSUME NEW x \in Visitors PROVE SignInSound(x)'
    <3>1. SignInSound(x)
      BY DEF AccountsInv
    <3>2. \A u \in Workspaces : holders'[u] = holders[u] /\ (Held(u)' <=> Held(u))
      BY <1>1 DEF Held
    <3>3. CASE x # v
      <4>1. looked'[x] = looked[x] /\ inside'[x] = inside[x]
        BY <2>6, <3>3 DEF AccountsInv, AccountsTypeOK
      <4> QED BY <3>1, <3>2, <4>1 DEF SignInSound, Fits
    <3>4. CASE x = v
      <4>1. CASE inside' = inside
        BY <2>1, <2>6, <3>1, <3>2, <3>4, <4>1 DEF SignInSound, Fits, AccountsInv, AccountsTypeOK
      <4>2. CASE inside' # inside
        <5>1. PICK u \in Choice(t) : t.found[u].verified /\ inside' = [inside EXCEPT ![v] = u]
          BY <2>6, <4>2
        <5>2. looked' = looked /\ inside'[v] = u
          BY <2>6, <4>2, <5>1 DEF AccountsInv, AccountsTypeOK
        <5> QED BY <2>1, <2>5, <3>1, <3>2, <3>4, <5>1, <5>2 DEF SignInSound, Fits
      <4> QED BY <4>1, <4>2
    <3> QED BY <3>3, <3>4
  <2> QED BY <1>2, <2>4, <2>7, <2>8 DEF AccountsInv
<1> QED BY <1>4, <1>5

LEMMA AccountsStep == AccountsInv /\ [AccountsNext]_accountVars => AccountsInv'
<1> SUFFICES ASSUME AccountsInv, [AccountsNext]_accountVars PROVE AccountsInv'
  OBVIOUS
<1>1. ASSUME NEW a \in Applicants,
             \/ RegisterLooks(a) \/ RegisterStores(a) \/ RegisterClub(a)
             \/ VerificationMailed(a) \/ RegisterDies(a)
      PROVE AccountsInv'
  <2>1. UNCHANGED <<slugs, holders, typed, link, Resetting, SignInPages>>
    BY <1>1 DEF RegisterLooks, RegisterStores, RegisterClub, VerificationMailed, RegisterDies
  <2>2. step[a] \in {"blank", "checked", "inserted", "mailed"}
    BY <1>1 DEF RegisterLooks, RegisterStores, RegisterClub, VerificationMailed, RegisterDies
  <2>3. \/ Told(a, "exists") /\ Held(ClubOf(a))
        \/ Told(a, "failed")
        \/ Moves(a, "checked") /\ answer' = answer
        \/ Moves(a, "inserted") /\ answer' = answer /\ ~Held(ClubOf(a)) /\ ~Inserting(ClubOf(a))
        \/ Moves(a, "mailed") /\ answer' = answer /\ step[a] = "inserted"
    <3>1. ClubOf(a) \in Workspaces
      BY DEF AccountsInv, AccountsTypeOK, Form, ClubOf
    <3>2. CASE RegisterLooks(a)
      BY <3>2 DEF RegisterLooks, Taken, Held
    <3>3. CASE RegisterStores(a)
      BY <3>3 DEF RegisterStores, Held
    <3>4. CASE RegisterClub(a)
      BY <3>1, <3>4 DEF RegisterClub, AccountsInv, PlacesSound, AccountsTypeOK, Held
    <3>5. CASE VerificationMailed(a) \/ RegisterDies(a)
      BY <3>5 DEF VerificationMailed, RegisterDies
    <3> QED BY <1>1, <3>2, <3>3, <3>4, <3>5
  <2>4. answer[a] = "none" /\ link[a] = "none"
    BY <2>2 DEF AccountsInv, RegistrationSound, AccountsTypeOK
  <2>5. /\ step' \in [Applicants -> {"blank", "checked", "inserted", "mailed", "over"}]
        /\ answer' \in [Applicants -> {"none", "done", "exists", "failed"}]
        /\ \A b \in Applicants \ {a} : step'[b] = step[b] /\ answer'[b] = answer[b] /\ link'[b] = link[b]
    BY <2>1, <2>3 DEF Told, Moves, AccountsInv, AccountsTypeOK
  <2>6. /\ link' = link /\ answer'[a] # "done"
        /\ answer'[a] # "none" <=> step'[a] = "over"
        /\ answer'[a] = "exists" => Held(ClubOf(a))
        /\ step'[a] \in {"inserted", "mailed"} => Entered(a) \/ (~Held(ClubOf(a)) /\ ~Inserting(ClubOf(a)))
    BY <2>1, <2>3, <2>4 DEF Told, Moves, Entered, AccountsInv, AccountsTypeOK
  <2> QED BY <2>1, <2>4, <2>5, <2>6, RegisteringStep
<1>2. CASE UNCHANGED accountVars
  BY <1>2 DEF accountVars, AccountsInv, AccountsTypeOK, PlacesSound, AsksFit, RegistrationSound, SignInSound,
              Held, Entered, ClubOf, Fits
<1> QED
  BY <1>1, <1>2, CommitStep, LinkStep, ResettingStep, SigningInStep DEF AccountsNext

LEMMA AccountsConclude == AccountsInv => AccountsAreSound
<1> SUFFICES ASSUME AccountsInv PROVE AccountsAreSound
  OBVIOUS
<1>0. \A a \in Applicants : RegistrationSound(a) /\ link[a] \in {"none", "live", "used", "expired"}
  BY DEF AccountsInv, AccountsTypeOK
<1>1. AnswersAreTrue
  BY <1>0 DEF AnswersAreTrue, RegistrationSound, Held, Taken
<1>2. NobodyIsStranded
  BY <1>0 DEF AccountsInv, PlacesSound, NobodyIsStranded, RegistrationSound, Held
<1>3. SignInsFit
  BY DEF AccountsInv, AccountsTypeOK, SignInsFit, SignInSound, AsksFit, Held, Fits
<1> QED BY <1>1, <1>2, <1>3 DEF AccountsAreSound

-----------------------------------------------------------------------------
(* The screens of one booking *)

\* The row is there as long as a screen is open, and a deleted one is cancelled.
RowStands ==
    /\ deleted[Row] => status[Row] = "cancelled"
    /\ \A u \in Users : screen[u].at # "closed" => status[Row] # "absent"

\* A form holds methods that can be saved, and is the row's while no one else
\* has touched it, also during a refund, which ends on the form it began from.
Standing(at) == at \in {"open", "saved", "asking", "approving"}
FormsSound ==
    /\ \A u \in Users : screen[u].at # "closed" =>
           screen[u].money.depBy # "NONE" /\ screen[u].money.remBy # "NONE"
    /\ \A u \in fresh : Standing(screen[u].at) =>
           screen[u].status = status[Row] /\ screen[u].money = Prefilled(money[Row])

Carried == \A u \in Users : screen[u].at \in {"asking", "approving"} => screen[u].refund \in RefundIds

ScreensInv == ScreensTypeOK /\ RowStands /\ FormsSound /\ Carried /\ OwnersLeaveNothingPending

LEMMA RowIsBooking == Row \in Bookings
BY BookingAssumption DEF Row, AnyBooking

LEMMA ScreensStart == ScreensInit => ScreensInv
<1> SUFFICES ASSUME ScreensInit PROVE ScreensInv
  OBVIOUS
<1> USE RowIsBooking
<1>1. RowTypes /\ SumTypes
  BY RowsInit DEF ScreensInit, RowsInv, Init, SumTypes
<1>2. Closed \in Screen
  BY MoneyTypes DEF Closed, Screen
<1>3. ScreensTypeOK
  BY <1>1, <1>2 DEF ScreensInit, ScreensTypeOK, TypeOK
<1>4. RowStands /\ FormsSound /\ Carried
  BY DEF ScreensInit, Init, RowStands, FormsSound, Carried, Closed
<1>5. OwnersLeaveNothingPending
  BY DEF ScreensInit, Init, OwnersLeaveNothingPending
<1> QED BY <1>3, <1>4, <1>5 DEF ScreensInv

\* What is loaded into a screen, and what is saved from it, is money.
LEMMA FormTypes ==
    /\ \A m \in Money : Prefilled(m) \in Money /\ Prefilled(m).depBy # "NONE" /\ Prefilled(m).remBy # "NONE"
    /\ \A m \in Money : m.depBy # "NONE" /\ m.remBy # "NONE" => Prefilled(m) = m
    /\ \A s \in Money : \A m \in Edits(s) :
           m \in Money /\ (s.depBy # "NONE" => m.depBy # "NONE") /\ (s.remBy # "NONE" => m.remBy # "NONE")
<1>1. \A m \in Money : Prefilled(m) \in Money /\ Prefilled(m).depBy # "NONE" /\ Prefilled(m).remBy # "NONE"
  BY DEF Prefilled, Money, Methods
<1>2. ASSUME NEW m \in Money, m.depBy # "NONE", m.remBy # "NONE" PROVE Prefilled(m) = m
  BY <1>2 DEF Prefilled, Money
<1>3. ASSUME NEW s \in Money, NEW m \in Edits(s)
      PROVE  m \in Money /\ (s.depBy # "NONE" => m.depBy # "NONE") /\ (s.remBy # "NONE" => m.remBy # "NONE")
  <2>1. CASE \E x \in Amounts : m = [s EXCEPT !.dep = x]
    BY <2>1, AmountsAssumption DEF Money
  <2>2. CASE \E x \in Amounts : m = [s EXCEPT !.rem = x]
    BY <2>2, AmountsAssumption DEF Money
  <2>3. CASE m = [s EXCEPT !.dep = s.net, !.depBy = "DESK", !.rem = 0]
    BY <2>3 DEF Money, Methods
  <2> QED BY <1>3, <2>1, <2>2, <2>3 DEF Edits
<1> QED BY <1>1, <1>2, <1>3

\* A ledger takes a refund or a forfeit of any amount.
LEMMA LedgerRows ==
    ASSUME SumTypes, NEW b \in Bookings, NEW x \in Nat
    PROVE  /\ [ledger[b] EXCEPT !.refund = @ + x] \in [refund : Nat, forfeit : Nat]
           /\ [ledger[b] EXCEPT !.forfeit = @ + x] \in [refund : Nat, forfeit : Nat]
<1>1. ledger[b] \in [refund : Nat, forfeit : Nat]
  BY DEF SumTypes
<1>2. ledger[b].refund + x \in Nat /\ ledger[b].forfeit + x \in Nat
  BY <1>1
<1> QED BY <1>1, <1>2

\* What the screens' operations, and the others', write into the row.
LEMMA BookedTypes ==
    ASSUME TypeOK,
           \/ UNCHANGED vars
           \/ \E override \in {"auto", "refund", "forfeit"}, actor \in {"staff", "customer"} :
                  CancelBooking(Row, actor, override)
           \/ CheckIn(Row) \/ VerifyApprove(Row) \/ VerifyReject(Row) \/ UploadReceipt(Row) \/ DeleteBooking(Row)
           \/ \E m \in Money : Settle(Row, m, {"deposit", "remainder"})
           \/ \E r \in RefundIds : \/ AskRefund(r, Row) \/ RefuseRefund(r) \/ ApproveRefund(r)
                                   \/ \E amount \in Amounts : CreateRefund(r, amount)
           \/ \E role \in {"customer", "receptionist", "owner"}, m \in Quotes : CreateBooking(Row, role, m, {})
           \/ \E e \in Events : WebhookConfirm(e, Row, Price)
           \/ ExpirePending \/ ExpireDrafts \/ MarkNoShows \/ Clock
    PROVE  TypeOK'
<1> USE RowIsBooking, MoneyTypes, RefundTypes, AmountsAssumption, PriceAssumption
    DEF TypeOK, RowTypes, BookingStatus, PaymentStatus, Deadlines
<1>1. ASSUME NEW override \in {"auto", "refund", "forfeit"}, NEW actor \in {"staff", "customer"},
             CancelBooking(Row, actor, override)
      PROVE  TypeOK'
  <2>1. Collected(Row) \in Nat
    BY CollectedIsNumber
  <2>2. refunded' \in [Bookings -> Nat]
    BY <1>1, <2>1 DEF CancelBooking, SumTypes
  <2>3. ledger' \in [Bookings -> [refund : Nat, forfeit : Nat]]
    <3>2. /\ [ledger[Row] EXCEPT !.refund = @ + Collected(Row)] \in [refund : Nat, forfeit : Nat]
          /\ [ledger[Row] EXCEPT !.forfeit = @ + Collected(Row)] \in [refund : Nat, forfeit : Nat]
      BY <2>1, LedgerRows
    <3>3. \/ ledger' = [ledger EXCEPT ![Row] = [ledger[Row] EXCEPT !.refund = @ + Collected(Row)]]
          \/ ledger' = [ledger EXCEPT ![Row] = [ledger[Row] EXCEPT !.forfeit = @ + Collected(Row)]]
          \/ ledger' = ledger
      BY <1>1 DEF CancelBooking, Outcome
    <3> HIDE DEF TypeOK, RowTypes
    <3> QED BY <3>2, <3>3 DEF SumTypes, TypeOK
  <2>4. RowTypes'
    BY <1>1 DEF CancelBooking, Outcome
  <2> QED BY <2>2, <2>3, <2>4 DEF SumTypes
<1>2. ASSUME CheckIn(Row) \/ VerifyApprove(Row) \/ VerifyReject(Row) \/ UploadReceipt(Row) \/ DeleteBooking(Row)
      PROVE  TypeOK'
  <2>1. CASE CheckIn(Row)
    BY <2>1 DEF CheckIn, SumTypes
  <2>4. CASE VerifyApprove(Row)
    BY <2>4 DEF VerifyApprove, SumTypes
  <2>5. CASE VerifyReject(Row)
    BY <2>5 DEF VerifyReject, SumTypes
  <2>2. CASE UploadReceipt(Row)
    BY <2>2 DEF UploadReceipt, SumTypes
  <2>3. CASE DeleteBooking(Row)
    BY <2>3 DEF DeleteBooking, SumTypes
  <2> QED BY <1>2, <2>1, <2>2, <2>3, <2>4, <2>5
<1>3. ASSUME NEW m \in Money, Settle(Row, m, {"deposit", "remainder"}) PROVE TypeOK'
  <2>1. Settled(m, {"deposit", "remainder"}, money[Row]) = m
    BY DEF Settled, Money
  <2> QED BY <1>3, <2>1 DEF Settle, SumTypes
<1>4. ASSUME NEW r \in RefundIds, AskRefund(r, Row) \/ RefuseRefund(r) PROVE TypeOK'
  <2>1. CASE AskRefund(r, Row)
    BY <2>1, ZenonT(30) DEF AskRefund, Refund, SumTypes
  <2>2. CASE RefuseRefund(r)
    BY <2>2 DEF RefuseRefund, SumTypes
  <2> QED BY <1>4, <2>1, <2>2
<1>5. ASSUME NEW r \in RefundIds, ApproveRefund(r) PROVE TypeOK'
  <2>1. refunds[r].booking \in Bookings /\ refunds[r].amount \in Nat
    BY DEF Refund
  <2>2. RefundedAfter(r) \in Nat
    BY <2>1, SumIsNumber DEF RefundedAfter, Approved
  <2>3. SumTypes'
    <3> DEFINE b == refunds[r].booking
               row == [ledger[b] EXCEPT !.refund = @ + refunds[r].amount]
    <3>2. row \in [refund : Nat, forfeit : Nat]
      BY <2>1, LedgerRows
    <3>3. ledger' = [ledger EXCEPT ![b] = row] /\ refunded' = [refunded EXCEPT ![b] = RefundedAfter(r)]
      BY <1>5 DEF ApproveRefund
    <3> HIDE DEF TypeOK, RowTypes, row
    <3> QED BY <2>1, <2>2, <3>2, <3>3 DEF SumTypes, TypeOK
  <2>4. RowTypes'
    BY <1>5, <2>1 DEF ApproveRefund, PaymentAfter
  <2> QED BY <2>3, <2>4
<1>6. ASSUME NEW r \in RefundIds, NEW amount \in Amounts, CreateRefund(r, amount) PROVE TypeOK'
  BY <1>6 DEF CreateRefund, Refund, SumTypes
<1>7. ASSUME NEW role \in {"customer", "receptionist", "owner"}, NEW m \in Quotes, CreateBooking(Row, role, m, {})
      PROVE  TypeOK'
  BY <1>7 DEF CreateBooking, SumTypes
<1>8. ASSUME NEW e \in Events, WebhookConfirm(e, Row, Price) PROVE TypeOK'
  BY <1>8, ZenonT(30) DEF WebhookConfirm, RecordEvent, SumTypes
<1>9. CASE ExpirePending \/ ExpireDrafts \/ MarkNoShows
  <2>1. ASSUME NEW from, NEW deadline, NEW to \in BookingStatus, BulkClose(from, deadline, to) PROVE TypeOK'
    BY <2>1 DEF BulkClose, SumTypes
  <2> QED BY <1>9, <2>1 DEF ExpirePending, ExpireDrafts, MarkNoShows
<1>10. CASE Clock
  BY <1>10 DEF Clock, SumTypes
<1>11. CASE UNCHANGED vars
  BY <1>11 DEF vars, SumTypes
<1> HIDE DEF TypeOK
<1> QED BY <1>1, <1>2, <1>3, <1>4, <1>5, <1>6, <1>7, <1>8, <1>9, <1>10, <1>11

\* Every step of a screen, and every one behind its back, keeps what the screens know.
LEMMA ScreensStep == ScreensInv /\ [ScreensNext]_<<vars, screenVars>> => ScreensInv'
<1> SUFFICES ASSUME ScreensInv, [ScreensNext]_<<vars, screenVars>> PROVE ScreensInv'
  OBVIOUS
<1> USE RowIsBooking
<1>0. /\ TypeOK /\ screen \in [Users -> Screen] /\ fresh \subseteq Users /\ left \subseteq RefundIds
      /\ status \in [Bookings -> BookingStatus \cup {"absent"}] /\ money \in [Bookings -> Money]
      /\ status[Row] \in BookingStatus \cup {"absent"} /\ money[Row] \in Money
      /\ deleted \in [Bookings -> BOOLEAN] /\ refunds \in [RefundIds -> Refund]
      /\ NoRefund \in RefundIds \cup {NoRefund}
  BY DEF ScreensInv, ScreensTypeOK, TypeOK, RowTypes
<1>01. Loaded \in Screen /\ Closed \in Screen /\ Closed.at = "closed"
       /\ Loaded.at = "open" /\ Loaded.status = status[Row] /\ Loaded.money = Prefilled(money[Row])
  <2>1. NoMoney \in Money /\ Prefilled(money[Row]) \in Money
    BY <1>0, MoneyTypes, FormTypes
  <2> QED BY <1>0, <2>1 DEF Loaded, Closed, Screen
\* Screens are opened, loaded again and left.
<1>1. ASSUME NEW u \in Users, Open(u) PROVE ScreensInv'
  <2>1. UNCHANGED vars /\ screen' = [screen EXCEPT ![u] = Loaded] /\ fresh' = fresh \cup {u} /\ left' = left
        /\ screen[u].at = "closed" /\ status[Row] # "absent"
    BY <1>1 DEF Open
  <2>2. TypeOK'
    BY <1>0, <2>1, BookedTypes
  <2>3. ScreensTypeOK'
    BY <1>0, <1>01, <2>1, <2>2 DEF ScreensTypeOK
  <2>4. RowStands'
    BY <1>0, <2>1 DEF ScreensInv, RowStands, vars
  <2>5. FormsSound'
    BY <1>0, <1>01, <2>1, FormTypes DEF ScreensInv, FormsSound, vars
  <2>6. Carried' /\ OwnersLeaveNothingPending'
    BY <1>0, <1>01, <2>1 DEF ScreensInv, Carried, OwnersLeaveNothingPending, Users, Staff, vars
  <2> QED BY <2>3, <2>4, <2>5, <2>6 DEF ScreensInv
<1>2. ASSUME NEW u \in Users, Reload(u) PROVE ScreensInv'
  <2>1. UNCHANGED vars /\ fresh' = fresh \cup {u} /\ left' = left /\ screen[u].at \in {"saved", "reloading"}
        /\ (screen' = [screen EXCEPT ![u] = Closed] \/ screen' = [screen EXCEPT ![u] = Loaded])
    BY <1>2 DEF Reload, Refreshed
  <2>2. TypeOK'
    BY <1>0, <2>1, BookedTypes
  <2>3. ScreensTypeOK'
    BY <1>0, <1>01, <2>1, <2>2 DEF ScreensTypeOK
  <2>4. RowStands'
    BY <1>0, <1>01, <2>1 DEF ScreensInv, RowStands, vars
  <2>5. FormsSound'
    BY <1>0, <1>01, <2>1, FormTypes DEF ScreensInv, FormsSound, Standing, vars
  <2>6. Carried' /\ OwnersLeaveNothingPending'
    BY <1>0, <1>01, <2>1 DEF ScreensInv, Carried, OwnersLeaveNothingPending, Users, Staff, vars
  <2> QED BY <2>3, <2>4, <2>5, <2>6 DEF ScreensInv
<1>3. ASSUME NEW u \in Users, Leave(u) PROVE ScreensInv'
  <2>1. UNCHANGED vars /\ fresh' = fresh \ {u} /\ left' = left /\ screen[u].at \in {"open", "saved"}
        /\ screen' = [screen EXCEPT ![u] = Closed]
    BY <1>3 DEF Leave
  <2>2. TypeOK'
    BY <1>0, <2>1, BookedTypes
  <2>3. ScreensTypeOK'
    BY <1>0, <1>01, <2>1, <2>2 DEF ScreensTypeOK
  <2>4. RowStands'
    BY <1>0, <1>01, <2>1 DEF ScreensInv, RowStands, vars
  <2>5. FormsSound'
    BY <1>0, <1>01, <2>1 DEF ScreensInv, FormsSound, Standing, vars
  <2>6. Carried' /\ OwnersLeaveNothingPending'
    BY <1>0, <1>01, <2>1 DEF ScreensInv, Carried, OwnersLeaveNothingPending, Users, Staff, vars
  <2> QED BY <2>3, <2>4, <2>5, <2>6 DEF ScreensInv
\* A change of the booking makes every other screen outdated.
<1>4. ASSUME TypeOK', fresh' = {}, left' \subseteq RefundIds, screen' \in [Users -> Screen],
             deleted'[Row] => status'[Row] = "cancelled",
             status[Row] # "absent" => status'[Row] # "absent",
             \A u \in Users : \/ screen'[u] = screen[u]
                              \/ /\ screen'[u].at # "closed" => screen[u].at # "closed"
                                                                /\ screen'[u].money = screen[u].money
                                 /\ screen'[u].at \notin {"asking", "approving"},
             OwnersLeaveNothingPending'
      PROVE  ScreensInv'
  <2>1. ScreensTypeOK'
    BY <1>4 DEF ScreensTypeOK
  <2>2. RowStands'
    BY <1>4 DEF ScreensInv, RowStands
  <2>3. FormsSound' /\ Carried'
    BY <1>4 DEF ScreensInv, FormsSound, Carried
  <2> QED BY <1>4, <2>1, <2>2, <2>3 DEF ScreensInv
<1>5. ASSUME NEW u \in Users, Free(u), Answered(u, "reloading"), refunds' = refunds, TypeOK', deleted' = deleted,
             deleted[Row] => status'[Row] = "cancelled", status'[Row] # "absent"
      PROVE  ScreensInv'
  <2>1. screen' = [screen EXCEPT ![u].at = "reloading"] /\ fresh' = {} /\ left' = left /\ screen[u].at = "open"
    BY <1>5 DEF Answered, Free
  <2>2. screen' \in [Users -> Screen] /\ screen'[u].at = "reloading" /\ screen'[u].money = screen[u].money
        /\ \A v \in Users \ {u} : screen'[v] = screen[v]
    BY <1>0, <2>1 DEF Screen
  <2>3. OwnersLeaveNothingPending'
    BY <1>5, <2>1, <2>2 DEF ScreensInv, OwnersLeaveNothingPending, Users, Staff
  <2>4. status[Row] # "absent"
    BY <2>1 DEF ScreensInv, RowStands
  <2> QED BY <1>0, <1>4, <1>5, <2>1, <2>2, <2>3, <2>4
<1>6. \A u \in Users : CancelPressed(u) \/ CheckInPressed(u) \/ VerifyPressed(u) \/ ReceiptSent(u) => ScreensInv'
  <2>1. deleted[Row] => status[Row] = "cancelled"
    BY DEF ScreensInv, RowStands
  <2>2. ASSUME NEW u \in Users, CancelPressed(u) PROVE ScreensInv'
    <3>1. PICK actor \in {"staff", "customer"}, override \in {"auto", "refund", "forfeit"} : CancelBooking(Row, actor, override)
      BY <2>2 DEF CancelPressed
    <3>2. TypeOK'
      BY <1>0, <3>1, BookedTypes
    <3>3. UNCHANGED <<refunds, deleted>> /\ status'[Row] = "cancelled"
      BY <1>0, <3>1 DEF CancelBooking
    <3> QED BY <1>5, <2>2, <3>2, <3>3 DEF CancelPressed
  <2>3. ASSUME NEW u \in Users, CheckInPressed(u) PROVE ScreensInv'
    <3>1. TypeOK'
      BY <1>0, <2>3, BookedTypes DEF CheckInPressed
    <3>2. UNCHANGED <<refunds, deleted>> /\ status'[Row] = "checked_in" /\ status[Row] = "confirmed"
      BY <1>0, <2>3 DEF CheckInPressed, CheckIn
    <3> QED BY <1>5, <2>1, <2>3, <3>1, <3>2 DEF CheckInPressed
  <2>4. ASSUME NEW u \in Users, VerifyPressed(u) PROVE ScreensInv'
    <3>1. TypeOK'
      BY <1>0, <2>4, BookedTypes DEF VerifyPressed
    <3>2. UNCHANGED <<refunds, deleted>> /\ status'[Row] \in {"confirmed", "pending_verification"}
          /\ status[Row] = "pending_verification"
      BY <1>0, <2>4 DEF VerifyPressed, VerifyApprove, VerifyReject, AwaitingVerification
    <3> QED BY <1>5, <2>1, <2>4, <3>1, <3>2 DEF VerifyPressed
  <2>5. ASSUME NEW u \in Users, ReceiptSent(u) PROVE ScreensInv'
    <3>1. TypeOK'
      BY <1>0, <2>5, BookedTypes DEF ReceiptSent
    <3>2. UNCHANGED <<refunds, deleted>> /\ status'[Row] = "pending_verification" /\ status[Row] # "cancelled"
      BY <1>0, <2>5 DEF ReceiptSent, UploadReceipt
    <3> QED BY <1>5, <2>1, <2>5, <3>1, <3>2 DEF ReceiptSent
  <2> QED BY <2>2, <2>3, <2>4, <2>5
<1>7. ASSUME NEW u \in Users, DeletePressed(u) PROVE ScreensInv'
  <2>1. DeleteBooking(Row) /\ screen' = [screen EXCEPT ![u] = Closed] /\ fresh' = {} /\ left' = left
        /\ screen[u].at = "open"
    BY <1>7 DEF DeletePressed, Free
  <2>2. TypeOK'
    BY <1>0, <2>1, BookedTypes
  <2>3. refunds' = refunds /\ status'[Row] = "cancelled"
    BY <1>0, <2>1 DEF DeleteBooking
  <2>4. OwnersLeaveNothingPending'
    BY <1>0, <1>01, <2>1, <2>3 DEF ScreensInv, OwnersLeaveNothingPending, Users, Staff
  <2>5. screen' \in [Users -> Screen] /\ screen'[u] = Closed /\ \A v \in Users \ {u} : screen'[v] = screen[v]
    BY <1>0, <1>01, <2>1
  <2> QED BY <1>0, <1>01, <1>4, <2>1, <2>2, <2>3, <2>4, <2>5
<1>8. ASSUME NEW u \in Users, SettlePressed(u) PROVE ScreensInv'
  <2>1. PICK m \in Edits(screen[u].money) :
            /\ Settle(Row, m, {"deposit", "remainder"})
            /\ screen' = [screen EXCEPT ![u].at = "saved", ![u].money = m]
            /\ fresh' = IF m = money[Row] THEN fresh ELSE fresh \cap {u}
    BY <1>8 DEF SettlePressed
  <2>2. screen[u].at \in {"open", "saved"} /\ left' = left /\ screen[u] \in Screen /\ screen[u].money \in Money
    BY <1>0, <1>8 DEF SettlePressed, Screen
  <2>3. m \in Money /\ m.depBy # "NONE" /\ m.remBy # "NONE"
    BY <2>2, FormTypes DEF ScreensInv, FormsSound
  <2>4. TypeOK'
    BY <1>0, <2>1, <2>3, BookedTypes
  <2>5. Settled(m, {"deposit", "remainder"}, money[Row]) = m /\ Prefilled(m) = m
    BY <2>3, FormTypes DEF Settled, Money
  <2>6. UNCHANGED <<status, deleted, refunds>> /\ money'[Row] = m
    BY <1>0, <2>1, <2>5 DEF Settle
  <2>7. /\ screen' \in [Users -> Screen] /\ \A v \in Users \ {u} : screen'[v] = screen[v]
        /\ screen'[u].at = "saved" /\ screen'[u].money = m /\ screen'[u].status = screen[u].status
    BY <1>0, <2>1, <2>2, <2>3 DEF Screen
  <2>8. ScreensTypeOK'
    BY <1>0, <2>1, <2>2, <2>4, <2>7 DEF ScreensTypeOK
  <2>9. RowStands' /\ Carried'
    BY <2>2, <2>6, <2>7 DEF ScreensInv, RowStands, Carried
  <2>10. FormsSound'
    <3>1. \A v \in Users : screen'[v].at # "closed" =>
              screen'[v].money.depBy # "NONE" /\ screen'[v].money.remBy # "NONE"
      BY <2>3, <2>7 DEF ScreensInv, FormsSound
    <3>2. ASSUME NEW v \in fresh', Standing(screen'[v].at)
          PROVE  screen'[v].status = status'[Row] /\ screen'[v].money = Prefilled(money'[Row])
      <4>1. CASE v = u
        <5>1. u \in fresh
          BY <2>1, <4>1
        <5> QED BY <2>2, <2>5, <2>6, <2>7, <4>1, <5>1 DEF ScreensInv, FormsSound, Standing
      <4>2. CASE v # u
        <5>1. v \in fresh /\ m = money[Row] /\ v \in Users
          BY <1>0, <2>1, <4>2
        <5> QED BY <2>6, <2>7, <3>2, <4>2, <5>1 DEF ScreensInv, FormsSound
      <4> QED BY <4>1, <4>2
    <3> QED BY <3>1, <3>2 DEF FormsSound
  <2>11. OwnersLeaveNothingPending'
    BY <2>2, <2>6, <2>7 DEF ScreensInv, OwnersLeaveNothingPending, Users, Staff
  <2> QED BY <2>8, <2>9, <2>10, <2>11 DEF ScreensInv
\* The steps of a refund, which leave the booking's money and status alone.
<1>9. ASSUME UNCHANGED <<status, deleted, money>>, TypeOK', fresh' \subseteq fresh, left' \subseteq RefundIds, NEW u \in Users,
             screen' \in [Users -> Screen], screen[u].at # "closed",
             \A v \in Users \ {u} : screen'[v] = screen[v],
             screen'[u].money = screen[u].money, screen'[u].status = screen[u].status,
             Standing(screen'[u].at) => Standing(screen[u].at),
             screen'[u].at \in {"asking", "approving"} => screen'[u].refund \in RefundIds,
             OwnersLeaveNothingPending'
      PROVE  ScreensInv'
  <2>1. ScreensTypeOK'
    BY <1>0, <1>9 DEF ScreensTypeOK
  <2>2. RowStands' /\ Carried'
    BY <1>9 DEF ScreensInv, RowStands, Carried
  <2>3. FormsSound'
    BY <1>0, <1>9 DEF ScreensInv, FormsSound
  <2> QED BY <1>9, <2>1, <2>2, <2>3 DEF ScreensInv
<1>10. ASSUME NEW u \in Users, RefundPressed(u) PROVE ScreensInv'
  <2>1. PICK r \in RefundIds : AskRefund(r, Row) /\ screen' = [screen EXCEPT ![u].at = "asking", ![u].refund = r]
    BY <1>10 DEF RefundPressed
  <2>2. screen[u].at = "open" /\ UNCHANGED <<fresh, left>>
    BY <1>10 DEF RefundPressed, Free
  <2>3. /\ screen' \in [Users -> Screen] /\ \A v \in Users \ {u} : screen'[v] = screen[v]
        /\ screen'[u].at = "asking" /\ screen'[u].refund = r
        /\ screen'[u].money = screen[u].money /\ screen'[u].status = screen[u].status
    BY <1>0, <2>1 DEF Screen
  <2>4. TypeOK' /\ UNCHANGED <<status, deleted, money>>
    BY <1>0, <2>1, BookedTypes DEF AskRefund
  <2>5. OwnersLeaveNothingPending'
    <3>1. \A i \in RefundIds : refunds'[i].state = "pending" => refunds[i].state = "pending"
      BY <1>0, <2>1 DEF AskRefund
    <3> QED BY <2>2, <2>3, <3>1 DEF ScreensInv, OwnersLeaveNothingPending, Users, Staff
  <2> QED BY <1>0, <1>9, <2>2, <2>3, <2>4, <2>5 DEF Standing
<1>11. ASSUME NEW u \in Users, RefundFiled(u) PROVE ScreensInv'
  <2>1. PICK amount \in Amounts : CreateRefund(screen[u].refund, amount)
    BY <1>11 DEF RefundFiled
  <2> DEFINE r == screen[u].refund
  <2>2. screen[u].at = "asking" /\ fresh' = fresh /\ r \in RefundIds
    BY <1>11 DEF RefundFiled, ScreensInv, Carried
  <2>3. /\ screen' = [screen EXCEPT ![u].at = IF u \in Owners THEN "approving" ELSE "reloading",
                                   ![u].refund = IF u \in Owners THEN @ ELSE NoRefund]
        /\ left' = IF u \in Owners THEN left ELSE left \cup {r}
    BY <1>11 DEF RefundFiled
  <2>4. /\ screen' \in [Users -> Screen] /\ \A v \in Users \ {u} : screen'[v] = screen[v]
        /\ screen'[u].at = (IF u \in Owners THEN "approving" ELSE "reloading")
        /\ u \in Owners => screen'[u].refund = r
        /\ screen'[u].money = screen[u].money /\ screen'[u].status = screen[u].status
    BY <1>0, <2>2, <2>3, ZenonT(30) DEF Screen
  <2>5. TypeOK' /\ UNCHANGED <<status, deleted, money>>
    BY <1>0, <2>1, <2>2, BookedTypes DEF CreateRefund
  <2>6. OwnersLeaveNothingPending'
    <3>1. \A i \in RefundIds : i # r => refunds'[i] = refunds[i]
      BY <1>0, <2>1 DEF CreateRefund
    <3>2. r \in left' \/ (u \in Owners /\ screen'[u].at = "approving" /\ screen'[u].refund = r)
      BY <2>3, <2>4
    <3>3. ASSUME NEW i \in RefundIds, i # r, refunds'[i].state = "pending"
          PROVE  i \in left' \/ \E v \in Owners : screen'[v].at = "approving" /\ screen'[v].refund = i
      <4>1. i \in left \/ \E v \in Owners : screen[v].at = "approving" /\ screen[v].refund = i
        BY <3>1, <3>3 DEF ScreensInv, OwnersLeaveNothingPending, Users, Staff
      <4> QED BY <2>2, <2>3, <2>4, <4>1 DEF Users, Staff
    <3> QED BY <3>2, <3>3 DEF OwnersLeaveNothingPending
  <2> QED BY <1>0, <1>9, <2>2, <2>3, <2>4, <2>5, <2>6 DEF Standing
<1>12. ASSUME NEW u \in Users, RefundRefused(u) PROVE ScreensInv'
  <2> DEFINE r == screen[u].refund
  <2>1. screen[u].at = "asking" /\ UNCHANGED <<fresh, left>> /\ r \in RefundIds /\ RefuseRefund(r)
    BY <1>12 DEF RefundRefused, ScreensInv, Carried
  <2>2. screen' = [screen EXCEPT ![u].at = "open", ![u].refund = NoRefund]
    BY <1>12 DEF RefundRefused
  <2>3. /\ screen' \in [Users -> Screen] /\ \A v \in Users \ {u} : screen'[v] = screen[v]
        /\ screen'[u].at = "open"
        /\ screen'[u].money = screen[u].money /\ screen'[u].status = screen[u].status
    BY <1>0, <2>2, ZenonT(30) DEF Screen
  <2>4. TypeOK' /\ UNCHANGED <<status, deleted, money>>
    BY <1>0, <2>1, BookedTypes DEF RefuseRefund
  <2>5. OwnersLeaveNothingPending'
    <3>1. \A i \in RefundIds : refunds'[i].state = "pending" => refunds[i].state = "pending"
      BY <1>0, <2>1, RefundTypes DEF RefuseRefund
    <3> QED BY <2>1, <2>3, <3>1 DEF ScreensInv, OwnersLeaveNothingPending, Users, Staff
  <2> QED BY <1>0, <1>9, <2>1, <2>3, <2>4, <2>5 DEF Standing
<1>13. ASSUME NEW u \in Users, RefundApproved(u) PROVE ScreensInv'
  <2> DEFINE r == screen[u].refund
  <2>1. screen[u].at = "approving" /\ fresh' = {} /\ left' = left /\ r \in RefundIds /\ ApproveRefund(r)
    BY <1>13 DEF RefundApproved, ScreensInv, Carried
  <2>2. screen' = [screen EXCEPT ![u].at = "reloading", ![u].refund = NoRefund]
    BY <1>13 DEF RefundApproved
  <2>3. /\ screen' \in [Users -> Screen] /\ \A v \in Users \ {u} : screen'[v] = screen[v]
        /\ screen'[u].at = "reloading"
        /\ screen'[u].money = screen[u].money /\ screen'[u].status = screen[u].status
    BY <1>0, <2>2, ZenonT(30) DEF Screen
  <2>4. TypeOK' /\ UNCHANGED <<status, deleted, money>>
    BY <1>0, <2>1, BookedTypes DEF ApproveRefund
  <2>5. OwnersLeaveNothingPending'
    <3>1. refunds'[r].state = "approved" /\ \A i \in RefundIds : i # r => refunds'[i] = refunds[i]
      BY <1>0, <2>1, RefundTypes DEF ApproveRefund
    <3> QED BY <2>1, <2>3, <3>1 DEF ScreensInv, OwnersLeaveNothingPending, Users, Staff
  <2> QED BY <1>0, <1>9, <2>1, <2>3, <2>4, <2>5 DEF Standing
<1>14. ASSUME NEW u \in Users, ApprovalFails(u) PROVE ScreensInv'
  <2> DEFINE r == screen[u].refund
  <2>1. screen[u].at = "approving" /\ fresh' = fresh /\ left' = left \cup {r} /\ r \in RefundIds /\ UNCHANGED vars
    BY <1>14 DEF ApprovalFails, ScreensInv, Carried
  <2>2. screen' = [screen EXCEPT ![u].at = "open", ![u].refund = NoRefund]
    BY <1>14 DEF ApprovalFails
  <2>3. /\ screen' \in [Users -> Screen] /\ \A v \in Users \ {u} : screen'[v] = screen[v]
        /\ screen'[u].at = "open"
        /\ screen'[u].money = screen[u].money /\ screen'[u].status = screen[u].status
    BY <1>0, <2>2, ZenonT(30) DEF Screen
  <2>4. TypeOK' /\ UNCHANGED <<status, deleted, money>>
    BY <1>0, <2>1, BookedTypes DEF vars
  <2>5. OwnersLeaveNothingPending'
    BY <2>1, <2>3 DEF ScreensInv, OwnersLeaveNothingPending, Users, Staff, vars
  <2> QED BY <1>0, <1>9, <2>1, <2>3, <2>4, <2>5 DEF Standing
<1>15. CASE Elsewhere
  <2>1. fresh' = {} /\ UNCHANGED <<screen, left>>
    BY <1>15 DEF Elsewhere
  <2>2. TypeOK'
    BY <1>0, <1>15, BookedTypes DEF Elsewhere
  <2>3. /\ UNCHANGED <<deleted, refunds>>
        /\ status[Row] # "absent" => status'[Row] # "absent"
        /\ status[Row] = "cancelled" => status'[Row] = "cancelled"
    BY <1>0, <1>15 DEF Elsewhere, CreateBooking, WebhookConfirm, Unpaid, ExpirePending, ExpireDrafts, MarkNoShows, BulkClose
  <2>4. OwnersLeaveNothingPending'
    BY <2>1, <2>3 DEF ScreensInv, OwnersLeaveNothingPending, Users, Staff
  <2> QED BY <1>0, <1>4, <2>1, <2>2, <2>3, <2>4 DEF ScreensInv, RowStands
<1>16. CASE Clock \/ UNCHANGED <<vars, screenVars>>
  <2>1. TypeOK'
    BY <1>0, <1>16, BookedTypes
  <2>2. UNCHANGED <<status, deleted, money, refunds, screen, fresh, left>>
    BY <1>16 DEF Clock, screenVars, vars
  <2> QED BY <2>1, <2>2 DEF ScreensInv, ScreensTypeOK, RowStands, FormsSound, Carried, OwnersLeaveNothingPending
<1> QED
  BY <1>1, <1>2, <1>3, <1>6, <1>7, <1>8, <1>10, <1>11, <1>12, <1>13, <1>14, <1>15, <1>16 DEF ScreensNext

LEMMA ScreensConclude == ScreensInv => FreshFormsAreTrue /\ ScreensKeepTheirWord
<1> SUFFICES ASSUME ScreensInv PROVE FreshFormsAreTrue /\ ScreensKeepTheirWord
  OBVIOUS
<1>1. FreshFormsAreTrue
  BY DEF ScreensInv, FormsSound, FreshFormsAreTrue, Standing
<1>2. ASSUME NEW u \in fresh, Free(u)
      PROVE  /\ screen[u].status = status[Row] /\ status[Row] # "absent"
             /\ deleted[Row] => status[Row] = "cancelled"
  BY <1>2 DEF Free, ScreensInv, ScreensTypeOK, FormsSound, Standing, RowStands
<1>3. OffersAreHonoured
  BY <1>2 DEF OffersAreHonoured, Cancellable, Settleable, Verifiable, AwaitingVerification, Arrivable, Receivable, Terminal
<1> QED BY <1>1, <1>3 DEF ScreensInv, ScreensKeepTheirWord

-----------------------------------------------------------------------------
(* The menus of two tabs *)

\* Every route has the guard of its own group.
LEMMA GuardsAre ==
    /\ \A x \in DOMAIN UserRoutes : Guards[x] = UserRoutes[x]
    /\ \A x \in DOMAIN StoreRoutes : Guards[x] = StoreRoutes[x]
    /\ \A x \in DOMAIN MoneyRoutes : Guards[x] = MoneyRoutes[x]
    /\ \A x \in DOMAIN TournamentRoutes : Guards[x] = TournamentRoutes[x]
    /\ \A x \in DOMAIN CoachingRoutes : Guards[x] = CoachingRoutes[x]
    /\ \A x \in DOMAIN BoardRoutes : Guards[x] = BoardRoutes[x]
    /\ \A x \in DOMAIN BookingRoutes : Guards[x] = BookingRoutes[x]
    /\ \A x \in DOMAIN CourtRoutes : Guards[x] = CourtRoutes[x]
    /\ \A x \in DOMAIN OfficeRoutes : Guards[x] = OfficeRoutes[x]
<1> DEFINE C1 == UserRoutes ++ StoreRoutes
           C2 == C1 ++ MoneyRoutes
           C3 == C2 ++ TournamentRoutes
           C4 == C3 ++ CoachingRoutes
           C5 == C4 ++ BoardRoutes
           C6 == C5 ++ BookingRoutes
           C7 == C6 ++ CourtRoutes
           C8 == C7 ++ OfficeRoutes
<1>1. DOMAIN UserRoutes =
        {"customers", "staff", "addStaff", "suspend", "permit", "removeStaff"}
  BY DEF UserRoutes
<1>2. DOMAIN StoreRoutes =
        {"equipment", "addItem", "editItem", "subscriptions", "subscribe", "revoke"}
  BY DEF StoreRoutes
<1>3. DOMAIN MoneyRoutes =
        {"payments", "overview", "financials", "expenses", "addExpense", "dropExpense"}
  BY DEF MoneyRoutes
<1>4. DOMAIN TournamentRoutes =
        {"tournaments", "tournament", "addTournament", "registerTeam", "payTeam", "draw",
         "result"}
  BY DEF TournamentRoutes
<1>5. DOMAIN CoachingRoutes =
        {"myCoaching", "coaches", "addCoach", "editCoach", "sessions", "addSession",
         "editSession", "paySession"}
  BY DEF CoachingRoutes
<1>6. DOMAIN BoardRoutes =
        {"items", "addFound", "photo", "editFound", "claim", "claims", "decide"}
  BY DEF BoardRoutes
<1>7. DOMAIN BookingRoutes =
        {"bookings", "mine", "summary", "book", "booking", "upload", "receipt", "verify",
         "checkin", "cancel", "settle", "delete"}
  BY DEF BookingRoutes
<1>8. DOMAIN CourtRoutes =
        {"courts", "grid", "addCourt", "editCourt", "dropCourt", "block"}
  BY DEF CourtRoutes
<1>9. DOMAIN OfficeRoutes =
        {"refund", "approve", "report", "audit", "settings", "saveSettings", "hours",
         "saveHours", "schedule"}
  BY DEF OfficeRoutes
<1>10. /\ DOMAIN C1 = DOMAIN UserRoutes \cup DOMAIN StoreRoutes
       /\ \A x \in DOMAIN UserRoutes : C1[x] = UserRoutes[x]
       /\ \A x \in DOMAIN StoreRoutes : C1[x] = StoreRoutes[x]
  <2>1. \A x \in DOMAIN StoreRoutes : x \notin DOMAIN UserRoutes
    BY <1>1, <1>2
  <2>2. C1 = UserRoutes ++ StoreRoutes
    OBVIOUS
  <2> HIDE DEF C1
  <2> QED BY <2>1, <2>2 DEF ++
<1>11. /\ DOMAIN C2 = DOMAIN C1 \cup DOMAIN MoneyRoutes
       /\ \A x \in DOMAIN C1 : C2[x] = C1[x]
       /\ \A x \in DOMAIN MoneyRoutes : C2[x] = MoneyRoutes[x]
  <2>1. \A x \in DOMAIN MoneyRoutes : x \notin DOMAIN C1
    BY <1>1, <1>2, <1>3, <1>10
  <2>2. C2 = C1 ++ MoneyRoutes
    OBVIOUS
  <2> HIDE DEF C1, C2
  <2> QED BY <2>1, <2>2 DEF ++
<1>12. /\ DOMAIN C3 = DOMAIN C2 \cup DOMAIN TournamentRoutes
       /\ \A x \in DOMAIN C2 : C3[x] = C2[x]
       /\ \A x \in DOMAIN TournamentRoutes : C3[x] = TournamentRoutes[x]
  <2>1. \A x \in DOMAIN TournamentRoutes : x \notin DOMAIN C2
    BY <1>1, <1>2, <1>3, <1>4, <1>10, <1>11
  <2>2. C3 = C2 ++ TournamentRoutes
    OBVIOUS
  <2> HIDE DEF C2, C3
  <2> QED BY <2>1, <2>2 DEF ++
<1>13. /\ DOMAIN C4 = DOMAIN C3 \cup DOMAIN CoachingRoutes
       /\ \A x \in DOMAIN C3 : C4[x] = C3[x]
       /\ \A x \in DOMAIN CoachingRoutes : C4[x] = CoachingRoutes[x]
  <2>1. \A x \in DOMAIN CoachingRoutes : x \notin DOMAIN C3
    BY <1>1, <1>2, <1>3, <1>4, <1>5, <1>10, <1>11, <1>12
  <2>2. C4 = C3 ++ CoachingRoutes
    OBVIOUS
  <2> HIDE DEF C3, C4
  <2> QED BY <2>1, <2>2 DEF ++
<1>14. /\ DOMAIN C5 = DOMAIN C4 \cup DOMAIN BoardRoutes
       /\ \A x \in DOMAIN C4 : C5[x] = C4[x]
       /\ \A x \in DOMAIN BoardRoutes : C5[x] = BoardRoutes[x]
  <2>1. \A x \in DOMAIN BoardRoutes : x \notin DOMAIN C4
    BY <1>1, <1>2, <1>3, <1>4, <1>5, <1>6, <1>10, <1>11, <1>12, <1>13
  <2>2. C5 = C4 ++ BoardRoutes
    OBVIOUS
  <2> HIDE DEF C4, C5
  <2> QED BY <2>1, <2>2 DEF ++
<1>15. /\ DOMAIN C6 = DOMAIN C5 \cup DOMAIN BookingRoutes
       /\ \A x \in DOMAIN C5 : C6[x] = C5[x]
       /\ \A x \in DOMAIN BookingRoutes : C6[x] = BookingRoutes[x]
  <2>1. \A x \in DOMAIN BookingRoutes : x \notin DOMAIN C5
    BY <1>1, <1>2, <1>3, <1>4, <1>5, <1>6, <1>7, <1>10, <1>11, <1>12, <1>13, <1>14
  <2>2. C6 = C5 ++ BookingRoutes
    OBVIOUS
  <2> HIDE DEF C5, C6
  <2> QED BY <2>1, <2>2 DEF ++
<1>16. /\ DOMAIN C7 = DOMAIN C6 \cup DOMAIN CourtRoutes
       /\ \A x \in DOMAIN C6 : C7[x] = C6[x]
       /\ \A x \in DOMAIN CourtRoutes : C7[x] = CourtRoutes[x]
  <2>1. \A x \in DOMAIN CourtRoutes : x \notin DOMAIN C6
    BY <1>1, <1>2, <1>3, <1>4, <1>5, <1>6, <1>7, <1>8, <1>10, <1>11, <1>12, <1>13, <1>14, <1>15
  <2>2. C7 = C6 ++ CourtRoutes
    OBVIOUS
  <2> HIDE DEF C6, C7
  <2> QED BY <2>1, <2>2 DEF ++
<1>17. /\ DOMAIN C8 = DOMAIN C7 \cup DOMAIN OfficeRoutes
       /\ \A x \in DOMAIN C7 : C8[x] = C7[x]
       /\ \A x \in DOMAIN OfficeRoutes : C8[x] = OfficeRoutes[x]
  <2>1. \A x \in DOMAIN OfficeRoutes : x \notin DOMAIN C7
    BY <1>1, <1>2, <1>3, <1>4, <1>5, <1>6, <1>7, <1>8, <1>9, <1>10, <1>11, <1>12, <1>13, <1>14, <1>15, <1>16
  <2>2. C8 = C7 ++ OfficeRoutes
    OBVIOUS
  <2> HIDE DEF C7, C8
  <2> QED BY <2>1, <2>2 DEF ++
<1>18. Guards = C8
  BY DEF Guards
<1> HIDE DEF C1, C2, C3, C4, C5, C6, C7, C8
<1> QED BY <1>10, <1>11, <1>12, <1>13, <1>14, <1>15, <1>16, <1>17, <1>18

\* Routes of everybody, of the players and the staff, of the staff, and of the owner.
ForAll ==
    {"equipment", "subscriptions", "tournaments", "tournament", "items", "photo", "booking",
     "receipt", "cancel", "courts", "grid"}
LEMMA ForAllLet == \A route \in ForAll : Roles \subseteq Guards[route].roles
<1>1. \A route \in {"equipment", "subscriptions"} : Roles \subseteq Guards[route].roles
  BY GuardsAre DEF StoreRoutes, Only, Flagged, Owner, Desk, Players, Roles
<1>2. \A route \in {"tournaments", "tournament"} : Roles \subseteq Guards[route].roles
  BY GuardsAre DEF TournamentRoutes, Only, Flagged, Owner, Desk, Players, Roles
<1>3. \A route \in {"items", "photo"} : Roles \subseteq Guards[route].roles
  BY GuardsAre DEF BoardRoutes, Only, Flagged, Owner, Desk, Players, Roles
<1>4. \A route \in {"booking", "receipt", "cancel"} : Roles \subseteq Guards[route].roles
  BY GuardsAre DEF BookingRoutes, Only, Flagged, Owner, Desk, Players, Roles
<1>5. \A route \in {"courts", "grid"} : Roles \subseteq Guards[route].roles
  BY GuardsAre DEF CourtRoutes, Only, Flagged, Owner, Desk, Players, Roles
<1> QED BY <1>1, <1>2, <1>3, <1>4, <1>5 DEF ForAll

\* Those of the players and the staff.
ForPlayers ==
    {"registerTeam", "bookings", "mine", "book", "hours"}
LEMMA ForPlayersLet == \A route \in ForPlayers : Players \subseteq Guards[route].roles
<1>1. \A route \in {"registerTeam"} : Players \subseteq Guards[route].roles
  BY GuardsAre DEF TournamentRoutes, Only, Flagged, Owner, Desk, Players, Roles
<1>2. \A route \in {"bookings", "mine", "book"} : Players \subseteq Guards[route].roles
  BY GuardsAre DEF BookingRoutes, Only, Flagged, Owner, Desk, Players, Roles
<1>3. \A route \in {"hours"} : Players \subseteq Guards[route].roles
  BY GuardsAre DEF OfficeRoutes, Only, Flagged, Owner, Desk, Players, Roles
<1> QED BY <1>1, <1>2, <1>3 DEF ForPlayers

\* Those of the staff, with a flag for a receptionist or without.
ForDesk ==
    {"customers", "subscribe", "payTeam", "addFound", "editFound", "claims", "decide",
     "checkin", "settle", "refund", "payments", "overview", "financials", "coaches",
     "sessions", "addSession", "editSession", "paySession", "summary", "verify", "schedule"}
LEMMA ForDeskLet == \A route \in ForDesk : Desk \subseteq Guards[route].roles
<1>1. \A route \in {"customers"} : Desk \subseteq Guards[route].roles
  BY GuardsAre DEF UserRoutes, Only, Flagged, Owner, Desk, Players, Roles
<1>2. \A route \in {"subscribe"} : Desk \subseteq Guards[route].roles
  BY GuardsAre DEF StoreRoutes, Only, Flagged, Owner, Desk, Players, Roles
<1>3. \A route \in {"payments", "overview", "financials"} : Desk \subseteq Guards[route].roles
  BY GuardsAre DEF MoneyRoutes, Only, Flagged, Owner, Desk, Players, Roles
<1>4. \A route \in {"payTeam"} : Desk \subseteq Guards[route].roles
  BY GuardsAre DEF TournamentRoutes, Only, Flagged, Owner, Desk, Players, Roles
<1>5. \A route \in {"coaches", "sessions", "addSession", "editSession", "paySession"} : Desk \subseteq Guards[route].roles
  BY GuardsAre DEF CoachingRoutes, Only, Flagged, Owner, Desk, Players, Roles
<1>6. \A route \in {"addFound", "editFound", "claims", "decide"} : Desk \subseteq Guards[route].roles
  BY GuardsAre DEF BoardRoutes, Only, Flagged, Owner, Desk, Players, Roles
<1>7. \A route \in {"checkin", "settle", "summary", "verify"} : Desk \subseteq Guards[route].roles
  BY GuardsAre DEF BookingRoutes, Only, Flagged, Owner, Desk, Players, Roles
<1>8. \A route \in {"refund", "schedule"} : Desk \subseteq Guards[route].roles
  BY GuardsAre DEF OfficeRoutes, Only, Flagged, Owner, Desk, Players, Roles
<1> QED BY <1>1, <1>2, <1>3, <1>4, <1>5, <1>6, <1>7, <1>8 DEF ForDesk

\* Those of the owner alone.
ForOwner ==
    {"staff", "addStaff", "suspend", "permit", "removeStaff", "addItem", "editItem",
     "revoke", "expenses", "addExpense", "dropExpense", "addTournament", "draw", "result",
     "addCoach", "editCoach", "delete", "addCourt", "editCourt", "dropCourt", "block",
     "approve", "report", "audit", "settings", "saveSettings", "saveHours"}
LEMMA ForOwnerLet == \A route \in ForOwner : {"owner"} \subseteq Guards[route].roles
<1>1. \A route \in {"staff", "addStaff", "suspend", "permit", "removeStaff"} : {"owner"} \subseteq Guards[route].roles
  BY GuardsAre DEF UserRoutes, Only, Flagged, Owner, Desk, Players, Roles
<1>2. \A route \in {"addItem", "editItem", "revoke"} : {"owner"} \subseteq Guards[route].roles
  BY GuardsAre DEF StoreRoutes, Only, Flagged, Owner, Desk, Players, Roles
<1>3. \A route \in {"expenses", "addExpense", "dropExpense"} : {"owner"} \subseteq Guards[route].roles
  BY GuardsAre DEF MoneyRoutes, Only, Flagged, Owner, Desk, Players, Roles
<1>4. \A route \in {"addTournament", "draw", "result"} : {"owner"} \subseteq Guards[route].roles
  BY GuardsAre DEF TournamentRoutes, Only, Flagged, Owner, Desk, Players, Roles
<1>5. \A route \in {"addCoach", "editCoach"} : {"owner"} \subseteq Guards[route].roles
  BY GuardsAre DEF CoachingRoutes, Only, Flagged, Owner, Desk, Players, Roles
<1>6. \A route \in {"delete"} : {"owner"} \subseteq Guards[route].roles
  BY GuardsAre DEF BookingRoutes, Only, Flagged, Owner, Desk, Players, Roles
<1>7. \A route \in {"addCourt", "editCourt", "dropCourt", "block"} : {"owner"} \subseteq Guards[route].roles
  BY GuardsAre DEF CourtRoutes, Only, Flagged, Owner, Desk, Players, Roles
<1>8. \A route \in {"approve", "report", "audit", "settings", "saveSettings", "saveHours"} : {"owner"} \subseteq Guards[route].roles
  BY GuardsAre DEF OfficeRoutes, Only, Flagged, Owner, Desk, Players, Roles
<1> QED BY <1>1, <1>2, <1>3, <1>4, <1>5, <1>6, <1>7, <1>8 DEF ForOwner

\* A page offers what the routes let through, but for a member's payment.
Honest(offered, r) ==
    \A route \in offered.loads \cup offered.presses[r] :
        r \in Guards[route].roles \/ (route = "payTeam" /\ r = "customer")

LEMMA Lets ==
    /\ \A route \in ForAll, r \in Roles : r \in Guards[route].roles
    /\ \A route \in ForPlayers, r \in Players : r \in Guards[route].roles
    /\ \A route \in ForDesk, r \in Desk : r \in Guards[route].roles
    /\ \A route \in ForOwner : "owner" \in Guards[route].roles
    /\ "coach" \in Guards["myCoaching"].roles
    /\ "customer" \in Guards["claim"].roles /\ "customer" \in Guards["upload"].roles
<1>1. "coach" \in Guards["myCoaching"].roles
  BY GuardsAre DEF CoachingRoutes, Only
<1>2. "customer" \in Guards["claim"].roles
  BY GuardsAre DEF BoardRoutes, Only
<1>3. "customer" \in Guards["upload"].roles
  BY GuardsAre DEF BookingRoutes, Only
<1> QED BY <1>1, <1>2, <1>3, ForAllLet, ForPlayersLet, ForDeskLet, ForOwnerLet

LEMMA DeskPagesHonest == \A offered \in DeskPages : Honest(offered, "owner") /\ Honest(offered, "receptionist")
<1> USE Lets DEF ForAll, ForPlayers, ForDesk, ForOwner, Honest, Page, Roles, Players, Desk
<1>1. Honest(DashboardPage, "owner") /\ Honest(DashboardPage, "receptionist")
  BY DEF DashboardPage, WithPanel, Reserved, PanelPresses, NewBookingPresses
<1>2. Honest(CalendarPage, "owner") /\ Honest(CalendarPage, "receptionist")
  BY DEF CalendarPage, WithPanel, Reserved, PanelPresses, NewBookingPresses
<1>3. Honest(SchedulePage, "owner") /\ Honest(SchedulePage, "receptionist")
  BY DEF SchedulePage, Reserved, ScheduleSheet, BlockForm
<1>4. Honest(BookingsPage, "owner") /\ Honest(BookingsPage, "receptionist")
  BY DEF BookingsPage
<1>5. Honest(VerifyPage, "owner") /\ Honest(VerifyPage, "receptionist")
  BY DEF VerifyPage
<1>6. Honest(PaymentsPage, "owner") /\ Honest(PaymentsPage, "receptionist")
  BY DEF PaymentsPage, WithPanel, Reserved, PanelPresses
<1>7. Honest(CustomersPage, "owner") /\ Honest(CustomersPage, "receptionist")
  BY DEF CustomersPage
<1>8. Honest(CoachingPage, "owner") /\ Honest(CoachingPage, "receptionist")
  BY DEF CoachingPage, Reserved
<1>9. Honest(FoundPage, "owner") /\ Honest(FoundPage, "receptionist")
  BY DEF FoundPage
<1>10. Honest(BookingPage, "owner") /\ Honest(BookingPage, "receptionist")
  BY DEF BookingPage
<1> QED BY <1>1, <1>2, <1>3, <1>4, <1>5, <1>6, <1>7, <1>8, <1>9, <1>10 DEF DeskPages

LEMMA MenusHonest == \A r \in Roles : \A offered \in Menu(r) : Honest(offered, r)
<1>0. \A offered \in DeskPages : Honest(offered, "owner") /\ Honest(offered, "receptionist")
  BY DeskPagesHonest
<1> USE Lets DEF ForAll, ForPlayers, ForDesk, ForOwner, Honest, Page, Roles, Players, Desk
<1>1. Honest(AnalyticsPage, "owner")
  BY DEF AnalyticsPage
<1>2. Honest(FinancePage, "owner")
  BY DEF FinancePage
<1>3. Honest(TournamentsPage, "owner")
  BY DEF TournamentsPage
<1>4. Honest(InventoryPage, "owner")
  BY DEF InventoryPage
<1>5. Honest(StaffPage, "owner")
  BY DEF StaffPage
<1>6. Honest(CourtsPage, "owner")
  BY DEF CourtsPage
<1>7. Honest(ReportsPage, "owner")
  BY DEF ReportsPage
<1>8. Honest(AuditPage, "owner")
  BY DEF AuditPage
<1>9. Honest(SettingsPage, "owner")
  BY DEF SettingsPage
<1>10. Honest(CheckinPage, "receptionist")
  BY DEF CheckinPage
<1>11. Honest(BookPage, "owner") /\ Honest(BookPage, "receptionist") /\ Honest(BookPage, "customer")
  BY DEF BookPage, Reserved
<1>12. Honest(MyCoachingPage, "coach")
  BY DEF MyCoachingPage
<1>13. Honest(AvailabilityPage, "customer")
  BY DEF AvailabilityPage
<1>14. Honest(MyBookingsPage, "customer")
  BY DEF MyBookingsPage
<1>15. Honest(JoinPage, "customer")
  BY DEF JoinPage
<1>16. Honest(LostPage, "customer")
  BY DEF LostPage
<1>17. Honest(BookingPage, "customer")
  BY DEF BookingPage
<1> HIDE DEF Honest
<1>20. SchedulePage \in DeskPages /\ BookingsPage \in DeskPages /\ CustomersPage \in DeskPages
       /\ VerifyPage \in DeskPages /\ DashboardPage \in DeskPages
  BY DEF DeskPages
<1>21. \A offered \in Menu("owner") : Honest(offered, "owner")
  BY <1>0, <1>1, <1>2, <1>3, <1>4, <1>5, <1>6, <1>7, <1>8, <1>9, <1>11, <1>20 DEF Menu, NavItems, AllCommands, HomeFor
<1>22. \A offered \in Menu("receptionist") : Honest(offered, "receptionist")
  BY <1>0, <1>10, <1>11, <1>20 DEF Menu, NavItems, AllCommands, HomeFor
<1>23. \A offered \in Menu("coach") : Honest(offered, "coach")
  BY <1>12 DEF Menu, NavItems, AllCommands, HomeFor
<1>24. \A offered \in Menu("customer") : Honest(offered, "customer")
  BY <1>11, <1>13, <1>14, <1>15, <1>16, <1>17 DEF Menu, NavItems, AllCommands, HomeFor
<1> QED BY <1>21, <1>22, <1>23, <1>24

\* Since the last sign-in one session is behind the cookie, what is kept, every
\* refresh under way and every tab that took its profile after it.
OneSession(s) ==
    /\ cookie \in {Nobody, s} /\ kept \in {Nobody, s}
    /\ \A t \in Tabs : renewing[t] \in {Nobody, s}
    /\ \A t \in Tabs \ crossed : shown[t] \in {Nobody, s} /\ token[t] \in {Nobody, s}

AccessInv == AccessTypeOK /\ (~tangled => \E s \in Session \cup {Nobody} : OneSession(s))

LEMMA AccessStart == AccessInit => AccessInv
<1> SUFFICES ASSUME AccessInit PROVE AccessInv
  OBVIOUS
<1>1. AccessTypeOK
  BY DEF AccessInit, AccessTypeOK
<1>2. OneSession(Nobody)
  BY DEF AccessInit, OneSession
<1> QED BY <1>1, <1>2 DEF AccessInv

LEMMA AccessTypes == AccessTypeOK /\ [AccessNext]_accessVars => AccessTypeOK'
<1> SUFFICES ASSUME AccessTypeOK, [AccessNext]_accessVars PROVE AccessTypeOK'
  OBVIOUS
<1> USE DEF AccessTypeOK
<1>1. ASSUME NEW t \in Tabs, NEW u \in People, SignIn(t, u) PROVE AccessTypeOK'
  <2>1. [who |-> u, as |-> post[u]] \in Session
    BY DEF Session
  <2> QED BY <1>1, <2>1 DEF SignIn, Stored, Others
<1>2. ASSUME NEW t \in Tabs, HandleLogout(t) \/ PaletteLogout(t) \/ RefreshRefused(t) PROVE AccessTypeOK'
  BY <1>2 DEF HandleLogout, PaletteLogout, RefreshRefused, Cleared
<1>3. ASSUME NEW t \in Tabs, ReloadTab(t) PROVE AccessTypeOK'
  BY <1>3 DEF ReloadTab
<1>4. ASSUME NEW t \in Tabs, TokenLapses(t) PROVE AccessTypeOK'
  BY <1>4 DEF TokenLapses
<1>5. ASSUME NEW t \in Tabs, RefreshServed(t) PROVE AccessTypeOK'
  BY <1>5 DEF RefreshServed, RoleKept
<1>6. ASSUME NEW t \in Tabs, RefreshLands(t) PROVE AccessTypeOK'
  BY <1>6 DEF RefreshLands
<1>7. ASSUME NEW u \in People, Promote(u) PROVE AccessTypeOK'
  BY <1>7 DEF Promote, Roles
<1>8. ASSUME NEW u \in People, NEW g \in Grants, Permit(u, g) PROVE AccessTypeOK'
  BY <1>8 DEF Permit
<1>9. CASE UNCHANGED accessVars
  BY <1>9 DEF accessVars
<1> QED BY <1>1, <1>2, <1>3, <1>4, <1>5, <1>6, <1>7, <1>8, <1>9 DEF AccessNext

LEMMA AccessStep == AccessInv /\ [AccessNext]_accessVars => AccessInv'
<1> SUFFICES ASSUME AccessInv, [AccessNext]_accessVars PROVE AccessInv'
  OBVIOUS
<1>0. AccessTypeOK /\ AccessTypeOK'
  BY AccessTypes DEF AccessInv
<1> SUFFICES ASSUME ~tangled' PROVE \E s \in Session \cup {Nobody} : OneSession(s)'
  BY <1>0 DEF AccessInv
<1>1. ASSUME NEW t \in Tabs, NEW u \in People, SignIn(t, u) PROVE \E s \in Session \cup {Nobody} : OneSession(s)'
  <2>1. [who |-> u, as |-> post[u]] \in Session
    BY <1>0 DEF AccessTypeOK, Session
  <2>2. PICK s \in Session :
            /\ cookie' = s /\ kept' = s /\ renewing' = renewing
            /\ shown' = [shown EXCEPT ![t] = s] /\ token' = [token EXCEPT ![t] = s]
            /\ tangled' = \E o \in Tabs : renewing[o] \notin {Nobody, s}
            /\ Tabs \ crossed' \subseteq {t}
    BY <1>1, <2>1 DEF SignIn, Stored, Others
  <2>3. OneSession(s)'
    BY <1>0, <2>2 DEF OneSession, AccessTypeOK
  <2> QED BY <2>3
<1>2. ASSUME tangled' = tangled,
             \A s \in Session \cup {Nobody} : OneSession(s) => OneSession(s)'
      PROVE  \E s \in Session \cup {Nobody} : OneSession(s)'
  BY <1>2 DEF AccessInv
<1> SUFFICES ASSUME NEW s \in Session \cup {Nobody}, OneSession(s), AccessNext \/ UNCHANGED accessVars,
                    \A t \in Tabs, u \in People : ~SignIn(t, u)
             PROVE  OneSession(s)' /\ tangled' = tangled
  <2>1. CASE \E t \in Tabs, u \in People : SignIn(t, u)
    BY <1>1, <2>1
  <2>2. CASE (\A t \in Tabs, u \in People : ~SignIn(t, u)) /\ ~tangled
    BY <1>2, <2>2 DEF AccessInv
  <2>3. tangled' = tangled \/ \E t \in Tabs, u \in People : SignIn(t, u)
    BY DEF AccessNext, accessVars, HandleLogout, PaletteLogout, RefreshRefused, ReloadTab, TokenLapses,
           RefreshServed, RefreshLands, Promote, Permit
  <2> QED BY <2>1, <2>2, <2>3
<1> USE <1>0 DEF AccessTypeOK, OneSession
<1>3. ASSUME NEW t \in Tabs, HandleLogout(t) \/ PaletteLogout(t) \/ RefreshRefused(t)
      PROVE  OneSession(s)' /\ tangled' = tangled
  BY <1>3 DEF HandleLogout, PaletteLogout, RefreshRefused, Cleared
<1>4. ASSUME NEW t \in Tabs, ReloadTab(t) PROVE OneSession(s)' /\ tangled' = tangled
  BY <1>4 DEF ReloadTab
<1>5. ASSUME NEW t \in Tabs, TokenLapses(t) PROVE OneSession(s)' /\ tangled' = tangled
  BY <1>5 DEF TokenLapses
<1>6. ASSUME NEW t \in Tabs, RefreshServed(t) PROVE OneSession(s)' /\ tangled' = tangled
  BY <1>6 DEF RefreshServed, RoleKept
<1>7. ASSUME NEW t \in Tabs, RefreshLands(t) PROVE OneSession(s)' /\ tangled' = tangled
  BY <1>7 DEF RefreshLands
<1>8. ASSUME NEW u \in People, Promote(u) \/ \E g \in Grants : Permit(u, g)
      PROVE  OneSession(s)' /\ tangled' = tangled
  BY <1>8 DEF Promote, Permit
<1>9. CASE UNCHANGED accessVars
  BY <1>9 DEF accessVars
<1> HIDE DEF AccessTypeOK, OneSession
<1> QED BY <1>3, <1>4, <1>5, <1>6, <1>7, <1>8, <1>9 DEF AccessNext

LEMMA AccessConcludes == AccessInv => AccessIsSound
<1> SUFFICES ASSUME AccessInv PROVE AccessIsSound
  OBVIOUS
<1>1. ASSUME NEW t \in Tabs, InUse(t), Untouched(t)
      PROVE  token[t] = shown[t] /\ shown[t] \in Session
  BY <1>1 DEF AccessInv, AccessTypeOK, OneSession, InUse, Untouched
<1>2. TabsShowWhoTheyAre
  BY <1>1 DEF TabsShowWhoTheyAre
<1>3. ASSUME NEW t \in Tabs, InUse(t), Untouched(t), NEW route \in Offered(shown[t].as)
      PROVE  \/ Admitted(token[t], route)
             \/ ~Permitted(token[t], route)
             \/ route = "payTeam" /\ shown[t].as = "customer"
  <2>1. shown[t].as \in Roles /\ token[t] = shown[t]
    BY <1>1, <1>3 DEF Session
  <2>2. PICK offered \in Menu(shown[t].as) : route \in offered.loads \cup offered.presses[shown[t].as]
    BY <1>3 DEF Offered
  <2>3. Honest(offered, shown[t].as)
    BY <2>1, MenusHonest
  <2> QED BY <2>1, <2>2, <2>3 DEF Honest, Admitted
<1> QED BY <1>2, <1>3 DEF AccessIsSound, MenusAreHonoured

-----------------------------------------------------------------------------
(* The lists of one page *)

\* What the handlers of every page have in common.  One that does not load lists
\* again has one list to follow; one that does brings up to date all that its
\* change shows in, but for the roster after a session's change of status; one that
\* turns to what was made loads all that is of the choice.
Follows(r) == r.follows # "by loading"
HandlerSound(c, r) ==
    /\ r.follows \in {"by loading", "from the answer", "at once"}
    /\ Follows(r) => /\ (\E l : r.moves = {l}) /\ r.moves \cap Apart = {}
                     /\ r.reloads = {} /\ r.repairs \subseteq r.moves
    /\ ~Follows(r) => /\ r.repairs = {}
                      /\ \A l \in r.moves \ r.reloads : c = CoachingConsole /\ l = "coaches"
    /\ r.turns => ~Follows(r) /\ PageOf(c) \cap ByChoice \subseteq r.reloads

LEMMA LoadingSound ==
    ASSUME NEW c, NEW moves, NEW reloads, NEW waits, moves \subseteq reloads
    PROVE  HandlerSound(c, Handler(moves, reloads, waits))
BY DEF HandlerSound, Handler, Follows

LEMMA TurningSound ==
    ASSUME NEW c, NEW moves, NEW reloads, NEW waits, moves \subseteq reloads, PageOf(c) \subseteq reloads
    PROVE  HandlerSound(c, Turning(moves, reloads, waits))
BY DEF HandlerSound, Turning, Follows

LEMMA PatchingSound ==
    ASSUME NEW c, NEW l, l \notin Apart, NEW repairs, repairs \subseteq {l},
           NEW how \in {"from the answer", "at once"}, NEW waits
    PROVE  HandlerSound(c, Patching(l, repairs, how, waits))
BY DEF HandlerSound, Patching, Follows

LEMMA HandlersSound == \A c \in Consoles : \A h \in DOMAIN c : HandlerSound(c, c[h])
<1>1. \A h \in DOMAIN InventoryConsole : HandlerSound(InventoryConsole, InventoryConsole[h])
  <2>1. DOMAIN InventoryConsole = {"patchEquipment", "addItem", "revoke"}
    BY DEF InventoryConsole
  <2>2. HandlerSound(InventoryConsole, InventoryConsole["patchEquipment"])
    <3>1. InventoryConsole["patchEquipment"] = Patching("equipment", {"equipment"}, "from the answer", TRUE)
      BY DEF InventoryConsole
    <3> QED BY <3>1, PatchingSound DEF Apart
  <2>3. HandlerSound(InventoryConsole, InventoryConsole["addItem"])
    <3>1. InventoryConsole["addItem"] = Handler({"equipment"}, {"equipment"}, TRUE)
      BY DEF InventoryConsole
    <3> QED BY <3>1, LoadingSound
  <2>4. HandlerSound(InventoryConsole, InventoryConsole["revoke"])
    <3>1. InventoryConsole["revoke"] = Handler({"subs"}, {"subs"}, TRUE)
      BY DEF InventoryConsole
    <3> QED BY <3>1, LoadingSound
  <2> QED BY <2>1, <2>2, <2>3, <2>4
<1>2. \A h \in DOMAIN FinanceConsole : HandlerSound(FinanceConsole, FinanceConsole[h])
  <2>1. DOMAIN FinanceConsole = {"addExpense", "removeExpense"}
    BY DEF FinanceConsole
  <2>2. HandlerSound(FinanceConsole, FinanceConsole["addExpense"])
    <3>1. FinanceConsole["addExpense"] = Handler({"expenses", "financials"}, {"expenses", "financials"}, TRUE)
      BY DEF FinanceConsole
    <3> QED BY <3>1, LoadingSound
  <2>3. HandlerSound(FinanceConsole, FinanceConsole["removeExpense"])
    <3>1. FinanceConsole["removeExpense"] = Handler({"expenses", "financials"}, {"expenses", "financials"}, TRUE)
      BY DEF FinanceConsole
    <3> QED BY <3>1, LoadingSound
  <2> QED BY <2>1, <2>2, <2>3
<1>3. \A h \in DOMAIN CourtsConsole : HandlerSound(CourtsConsole, CourtsConsole[h])
  <2>1. DOMAIN CourtsConsole = {"save", "deleteCourt", "reactivateCourt", "toggleAvailability"}
    BY DEF CourtsConsole
  <2>2. HandlerSound(CourtsConsole, CourtsConsole["save"])
    <3>1. CourtsConsole["save"] = Handler({"courts"}, {"courts"}, TRUE)
      BY DEF CourtsConsole
    <3> QED BY <3>1, LoadingSound
  <2>3. HandlerSound(CourtsConsole, CourtsConsole["deleteCourt"])
    <3>1. CourtsConsole["deleteCourt"] = Handler({"courts"}, {"courts"}, FALSE)
      BY DEF CourtsConsole
    <3> QED BY <3>1, LoadingSound
  <2>4. HandlerSound(CourtsConsole, CourtsConsole["reactivateCourt"])
    <3>1. CourtsConsole["reactivateCourt"] = Handler({"courts"}, {"courts"}, FALSE)
      BY DEF CourtsConsole
    <3> QED BY <3>1, LoadingSound
  <2>5. HandlerSound(CourtsConsole, CourtsConsole["toggleAvailability"])
    <3>1. CourtsConsole["toggleAvailability"] = Patching("courts", {}, "at once", FALSE)
      BY DEF CourtsConsole
    <3> QED BY <3>1, PatchingSound DEF Apart
  <2> QED BY <2>1, <2>2, <2>3, <2>4, <2>5
<1>4. \A h \in DOMAIN TournamentConsole : HandlerSound(TournamentConsole, TournamentConsole[h])
  <2>1. DOMAIN TournamentConsole = {"createTournament", "addTeam", "recordPayment", "generateBracket", "recordResult"}
    BY DEF TournamentConsole
  <2>2. HandlerSound(TournamentConsole, TournamentConsole["createTournament"])
    <3>1. TournamentConsole["createTournament"] = Turning({"list"}, {"list", "detail"}, TRUE)
      BY DEF TournamentConsole
    <3>2. ASSUME NEW h \in DOMAIN TournamentConsole
          PROVE  TournamentConsole[h].moves \cup TournamentConsole[h].reloads \subseteq {"list", "detail"}
      <4>1. /\ TournamentConsole["createTournament"] = Turning({"list"}, {"list", "detail"}, TRUE)
            /\ TournamentConsole["addTeam"] = Handler({"list", "detail"}, {"list", "detail"}, TRUE)
            /\ TournamentConsole["recordPayment"] = Handler({"list", "detail"}, {"list", "detail"}, TRUE)
            /\ TournamentConsole["generateBracket"] = Handler({"list", "detail"}, {"list", "detail"}, TRUE)
            /\ TournamentConsole["recordResult"] = Handler({"list", "detail"}, {"list", "detail"}, FALSE)
        BY DEF TournamentConsole
      <4> DEFINE Both == {"list", "detail"}
      <4>3. TournamentConsole[h] \in {Turning({"list"}, Both, TRUE), Handler(Both, Both, TRUE), Handler(Both, Both, FALSE)}
        <5>1. h \in {"createTournament", "addTeam", "recordPayment", "generateBracket", "recordResult"}
          BY <2>1
        <5> QED BY <4>1, <5>1
      <4>4. {"list"} \subseteq Both
        OBVIOUS
      <4> HIDE DEF Both
      <4>5. \A m, r, w : /\ Turning(m, r, w).moves = m /\ Turning(m, r, w).reloads = r
                         /\ Handler(m, r, w).moves = m /\ Handler(m, r, w).reloads = r
        BY DEF Turning, Handler
      <4>6. PICK m, r, w : /\ m \subseteq Both /\ r \subseteq Both
                           /\ \/ TournamentConsole[h] = Turning(m, r, w)
                              \/ TournamentConsole[h] = Handler(m, r, w)
        BY <4>3, <4>4, Zenon
      <4>7. TournamentConsole[h].moves = m /\ TournamentConsole[h].reloads = r
        BY <4>5, <4>6
      <4> QED BY <4>6, <4>7 DEF Both
    <3>3. PageOf(TournamentConsole) \subseteq {"list", "detail"}
      BY <3>2 DEF PageOf
    <3> QED BY <3>1, <3>3, TurningSound
  <2>3. HandlerSound(TournamentConsole, TournamentConsole["addTeam"])
    <3>1. TournamentConsole["addTeam"] = Handler({"list", "detail"}, {"list", "detail"}, TRUE)
      BY DEF TournamentConsole
    <3> QED BY <3>1, LoadingSound
  <2>4. HandlerSound(TournamentConsole, TournamentConsole["recordPayment"])
    <3>1. TournamentConsole["recordPayment"] = Handler({"list", "detail"}, {"list", "detail"}, TRUE)
      BY DEF TournamentConsole
    <3> QED BY <3>1, LoadingSound
  <2>5. HandlerSound(TournamentConsole, TournamentConsole["generateBracket"])
    <3>1. TournamentConsole["generateBracket"] = Handler({"list", "detail"}, {"list", "detail"}, TRUE)
      BY DEF TournamentConsole
    <3> QED BY <3>1, LoadingSound
  <2>6. HandlerSound(TournamentConsole, TournamentConsole["recordResult"])
    <3>1. TournamentConsole["recordResult"] = Handler({"list", "detail"}, {"list", "detail"}, FALSE)
      BY DEF TournamentConsole
    <3> QED BY <3>1, LoadingSound
  <2> QED BY <2>1, <2>2, <2>3, <2>4, <2>5, <2>6
<1>5. \A h \in DOMAIN JoinConsole : HandlerSound(JoinConsole, JoinConsole[h])
  <2>1. DOMAIN JoinConsole = {"registerTeam", "payFee"}
    BY DEF JoinConsole
  <2>2. HandlerSound(JoinConsole, JoinConsole["registerTeam"])
    <3>1. JoinConsole["registerTeam"] = Handler({"list", "detail"}, {"list", "detail"}, TRUE)
      BY DEF JoinConsole
    <3> QED BY <3>1, LoadingSound
  <2>3. HandlerSound(JoinConsole, JoinConsole["payFee"])
    <3>1. JoinConsole["payFee"] = Handler({}, {"detail"}, TRUE)
      BY DEF JoinConsole
    <3> QED BY <3>1, LoadingSound
  <2> QED BY <2>1, <2>2, <2>3
<1>6. \A h \in DOMAIN FoundConsole : HandlerSound(FoundConsole, FoundConsole[h])
  <2>1. DOMAIN FoundConsole = {"logItem", "decide", "setItemStatus"}
    BY DEF FoundConsole
  <2>2. HandlerSound(FoundConsole, FoundConsole["logItem"])
    <3>1. FoundConsole["logItem"] = Handler({"items"}, {"items"}, TRUE)
      BY DEF FoundConsole
    <3> QED BY <3>1, LoadingSound
  <2>3. HandlerSound(FoundConsole, FoundConsole["decide"])
    <3>1. FoundConsole["decide"] = Handler({"items", "claims"}, {"items", "claims"}, TRUE)
      BY DEF FoundConsole
    <3> QED BY <3>1, LoadingSound
  <2>4. HandlerSound(FoundConsole, FoundConsole["setItemStatus"])
    <3>1. FoundConsole["setItemStatus"] = Handler({"items"}, {"items"}, FALSE)
      BY DEF FoundConsole
    <3> QED BY <3>1, LoadingSound
  <2> QED BY <2>1, <2>2, <2>3, <2>4
<1>7. \A h \in DOMAIN ClaimConsole : HandlerSound(ClaimConsole, ClaimConsole[h])
  <2>1. DOMAIN ClaimConsole = {"submitClaim"}
    BY DEF ClaimConsole
  <2>2. HandlerSound(ClaimConsole, ClaimConsole["submitClaim"])
    <3>1. ClaimConsole["submitClaim"] = Handler({"items"}, {"items"}, TRUE)
      BY DEF ClaimConsole
    <3> QED BY <3>1, LoadingSound
  <2> QED BY <2>1, <2>2
<1>8. \A h \in DOMAIN CoachingConsole : HandlerSound(CoachingConsole, CoachingConsole[h])
  <2>1. DOMAIN CoachingConsole = {"addCoach", "patchCoach", "addSession", "markPaid", "setSessionStatus"}
    BY DEF CoachingConsole
  <2>2. HandlerSound(CoachingConsole, CoachingConsole["addCoach"])
    <3>1. CoachingConsole["addCoach"] = Handler({"coaches"}, {"coaches"}, TRUE)
      BY DEF CoachingConsole
    <3> QED BY <3>1, LoadingSound
  <2>3. HandlerSound(CoachingConsole, CoachingConsole["patchCoach"])
    <3>1. CoachingConsole["patchCoach"] = Handler({"coaches"}, {"coaches"}, FALSE)
      BY DEF CoachingConsole
    <3> QED BY <3>1, LoadingSound
  <2>4. HandlerSound(CoachingConsole, CoachingConsole["addSession"])
    <3>1. CoachingConsole["addSession"] = Handler({"sessions", "coaches"}, {"sessions", "coaches"}, TRUE)
      BY DEF CoachingConsole
    <3> QED BY <3>1, LoadingSound
  <2>5. HandlerSound(CoachingConsole, CoachingConsole["markPaid"])
    <3>1. CoachingConsole["markPaid"] = Handler({"sessions", "coaches"}, {"sessions", "coaches"}, TRUE)
      BY DEF CoachingConsole
    <3> QED BY <3>1, LoadingSound
  <2>6. HandlerSound(CoachingConsole, CoachingConsole["setSessionStatus"])
    BY DEF CoachingConsole, HandlerSound, Handler, Follows
  <2> QED BY <2>1, <2>2, <2>3, <2>4, <2>5, <2>6
<1>9. \A h \in DOMAIN CheckinConsole : HandlerSound(CheckinConsole, CheckinConsole[h])
  <2>1. DOMAIN CheckinConsole = {"handleCheckIn"}
    BY DEF CheckinConsole
  <2>2. HandlerSound(CheckinConsole, CheckinConsole["handleCheckIn"])
    <3>1. CheckinConsole["handleCheckIn"] = Patching("bookings", {}, "from the answer", TRUE)
      BY DEF CheckinConsole
    <3> QED BY <3>1, PatchingSound DEF Apart
  <2> QED BY <2>1, <2>2
<1>10. \A h \in DOMAIN VerifyConsole : HandlerSound(VerifyConsole, VerifyConsole[h])
  <2>1. DOMAIN VerifyConsole = {"handleApprove", "handleReject"}
    BY DEF VerifyConsole
  <2>2. HandlerSound(VerifyConsole, VerifyConsole["handleApprove"])
    <3>1. VerifyConsole["handleApprove"] = Patching("bookings", {}, "from the answer", TRUE)
      BY DEF VerifyConsole
    <3> QED BY <3>1, PatchingSound DEF Apart
  <2>3. HandlerSound(VerifyConsole, VerifyConsole["handleReject"])
    <3>1. VerifyConsole["handleReject"] = Patching("bookings", {}, "from the answer", TRUE)
      BY DEF VerifyConsole
    <3> QED BY <3>1, PatchingSound DEF Apart
  <2> QED BY <2>1, <2>2, <2>3
<1> QED BY <1>1, <1>2, <1>3, <1>4, <1>5, <1>6, <1>7, <1>8, <1>9, <1>10 DEF Consoles

\* A change made that will load the list again, or leave it behind.
Mending(l) == \E c \in changes : c.made /\ ~Follows(Handling(c)) /\ l \in Handling(c).moves

\* What a change that the page follows itself has left in the list so far.
Following(l, c) ==
    /\ c.made => actual[l] = c.nr
    /\ Handling(c).follows = "at once" => seen[l] = c.nr /\ (~c.made => c.before = actual[l])
    /\ Handling(c).follows = "from the answer" /\ ~c.made => seen[l] = actual[l]

\* A list on which nothing crossed has one load or one such change under way,
\* and ends on what is in the database when that has landed.
InStep(l) ==
    /\ \A f \in Fetching(l) : f.found \in {Unread, actual[l]}
    /\ \A c \in Direct(l) : Following(l, c)
    /\ Fetching(l) = {} /\ Direct(l) = {} => seen[l] = actual[l]
ListSound(l) ==
    /\ \A f, g \in Fetching(l) : f = g
    /\ l \in Keyed => \A f \in Fetching(l) : f.of = chosen
    /\ \A c, d \in Direct(l) : c = d
    /\ Direct(l) # {} => Fetching(l) = {}
    /\ Mending(l) \/ l \in overlooked \/ InStep(l)

ConsolesInv ==
    /\ ConsolesTypeOK
    /\ \A c, d \in changes : c.nr = d.nr => c = d
    /\ \A c \in changes : c.nr <= version
    /\ \A l \in overlooked : console = CoachingConsole /\ l = "coaches"
    /\ \A l \in Lists \ excused : ListSound(l)

LEMMA ConsolesStart == ConsolesInit => ConsolesInv
<1> SUFFICES ASSUME ConsolesInit PROVE ConsolesInv
  OBVIOUS
<1>1. ConsolesTypeOK
  BY VersionsAssumption DEF ConsolesInit, ConsolesTypeOK, Versions, Contents
<1>2. ASSUME NEW l \in Lists PROVE ListSound(l)
  <2>1. Fetching(l) = {[nr |-> 0, list |-> l, of |-> 0, found |-> Unread]}
    BY DEF ConsolesInit, Fetching
  <2>2. Direct(l) = {}
    BY DEF ConsolesInit, Direct
  <2>3. Fetching(l) # {} /\ \A f \in Fetching(l) : f.found = Unread /\ f.of = chosen
    BY <2>1 DEF ConsolesInit
  <2>4. \A f, g \in Fetching(l) : f = g
    BY <2>1
  <2> QED BY <2>2, <2>3, <2>4 DEF ListSound, InStep
<1> QED BY <1>1, <1>2 DEF ConsolesInit, ConsolesInv

\* What is under way is of the page.
LEMMA UnderWay ==
    ASSUME ConsolesTypeOK
    PROVE  /\ \A c \in changes : /\ c.nr \in Versions /\ c.of \in Contents /\ c.by \in DOMAIN console /\ c.before \in Contents
                                 /\ HandlerSound(console, Handling(c))
                                 /\ Handling(c).moves \subseteq Lists /\ Handling(c).reloads \subseteq Lists
                                 /\ Handling(c).repairs \subseteq Lists
           /\ \A h \in DOMAIN console : HandlerSound(console, console[h]) /\ console[h].moves \subseteq Lists
           /\ \A f \in fetches : f.list \in Lists /\ (f.found = Unread \/ f.found \in Contents)
<1>1. \A h \in DOMAIN console : HandlerSound(console, console[h])
  BY HandlersSound DEF ConsolesTypeOK
<1>2. \A h \in DOMAIN console : console[h].moves \subseteq Lists /\ console[h].reloads \subseteq Lists
  BY DEF Lists, PageOf
<1>3. \A h \in DOMAIN console : console[h].repairs \subseteq Lists
  BY <1>1, <1>2 DEF HandlerSound
<1>4. \A c \in changes : c.nr \in Versions /\ c.of \in Contents /\ c.by \in DOMAIN console /\ c.before \in Contents
  BY DEF ConsolesTypeOK
<1>5. \A f \in fetches : f.list \in Lists /\ (f.found = Unread \/ f.found \in Contents)
  BY DEF ConsolesTypeOK
<1> QED BY <1>1, <1>2, <1>3, <1>4, <1>5 DEF Handling

\* A step that leaves a list alone.
LEMMA ListKept ==
    ASSUME NEW l, ListSound(l), console' = console, l \in Keyed => chosen' = chosen,
           Fetching(l)' = Fetching(l), Direct(l)' = Direct(l), seen'[l] = seen[l], actual'[l] = actual[l],
           Mending(l) => Mending(l)', l \in overlooked => l \in overlooked'
    PROVE  ListSound(l)'
BY DEF ListSound, InStep, Following, Handling, Keyed, Lists

LEMMA ConsolesTypes == ConsolesTypeOK /\ [ConsolesNext]_consoleVars => ConsolesTypeOK'
<1> SUFFICES ASSUME ConsolesTypeOK, [ConsolesNext]_consoleVars PROVE ConsolesTypeOK'
  OBVIOUS
<1>0. /\ console \in Consoles /\ version \in Versions /\ Lists' = Lists /\ console' = console
      /\ chosen \in Versions /\ actual \in [Lists -> Versions] /\ seen \in [Lists -> Contents]
      /\ excused \subseteq Lists /\ overlooked \subseteq Lists
      /\ 0 \in Versions /\ \A v \in Versions : v < MaxVersions => v + 1 \in Versions
  <2>1. console' = console
    BY DEF ConsolesNext, consoleVars, FetchServed, FetchLands, FetchFails, Press, ChangeServed, ChangeAnswered,
           ChangeFails, ElsewhereChanged, Choose
  <2> QED BY <2>1, VersionsAssumption DEF ConsolesTypeOK, Versions, Lists
<1>00a. Versions \subseteq Contents /\ Stray \in Contents /\ Keyed \subseteq Lists
  BY DEF Contents, Keyed
<1> DEFINE Fetch == [nr : Versions, list : Lists, of : Contents, found : Contents \cup {Unread}]
           Update == [nr : Versions, by : DOMAIN console, of : Contents, before : Contents, made : BOOLEAN]
<1>00. fetches \subseteq Fetch /\ changes \subseteq Update
  BY DEF ConsolesTypeOK
<1>01. SUFFICES /\ version' \in Versions /\ chosen' \in Versions /\ actual' \in [Lists -> Versions] /\ seen' \in [Lists -> Contents]
                /\ fetches' \subseteq Fetch /\ changes' \subseteq Update
                /\ excused' \subseteq Lists /\ overlooked' \subseteq Lists
  BY <1>0 DEF ConsolesTypeOK
<1> DEFINE Goal == /\ version' \in Versions /\ chosen' \in Versions /\ actual' \in [Lists -> Versions] /\ seen' \in [Lists -> Contents]
                   /\ fetches' \subseteq Fetch /\ changes' \subseteq Update
                   /\ excused' \subseteq Lists /\ overlooked' \subseteq Lists
<1>1. ASSUME NEW f \in fetches, FetchServed(f) PROVE Goal
  <2> DEFINE got == IF f.list \in Keyed /\ f.of # chosen THEN Stray ELSE actual[f.list]
  <2>1. f \in Fetch /\ got \in Contents
    BY <1>0, <1>00, <1>00a
  <2>2. [f EXCEPT !.found = got] \in Fetch
    BY <2>1
  <2>3. fetches' = (fetches \ {f}) \cup {[f EXCEPT !.found = got]}
    BY <1>1 DEF FetchServed
  <2> HIDE DEF got
  <2> QED BY <1>0, <1>00, <1>1, <2>2, <2>3 DEF FetchServed
<1>2. ASSUME NEW f \in fetches, FetchLands(f) PROVE Goal
  <2>1. f.found \in Contents
    BY <1>00, <1>2 DEF FetchLands
  <2> QED BY <1>0, <1>00, <1>2, <2>1 DEF FetchLands
<1>3. ASSUME NEW f \in fetches, FetchFails(f) PROVE Goal
  BY <1>0, <1>00, <1>3 DEF FetchFails
<1>4. ASSUME NEW h \in DOMAIN console, Press(h) PROVE Goal
  <2>1. version' = version + 1 /\ version' \in Versions
    BY <1>0, <1>4 DEF Press
  <2>2. Before(h) \in Contents
    <3>1. CASE console[h].follows = "at once"
      <4>1. PICK l : console[h].moves = {l}
        BY <3>1, UnderWay DEF HandlerSound, Follows
      <4>2. (CHOOSE x \in console[h].moves : TRUE) = l /\ l \in Lists
        BY <4>1, UnderWay
      <4> QED BY <1>0, <3>1, <4>2 DEF Before
    <3>2. CASE console[h].follows # "at once"
      BY <1>0, <1>00a, <3>2 DEF Before
    <3> QED BY <3>1, <3>2
  <2>3. seen' \in [Lists -> Contents] /\ Meant \in Contents
    BY <1>0, <1>00a, <1>4, <2>1 DEF Press, Shown, Meant
  <2>4. excused' \subseteq Lists
    BY <1>0, <1>4, UnderWay DEF Press
  <2>5. [nr |-> version', by |-> h, of |-> Meant, before |-> Before(h), made |-> FALSE] \in Update
    BY <2>1, <2>2, <2>3
  <2> QED BY <1>0, <1>00, <1>4, <2>1, <2>3, <2>4, <2>5 DEF Press
<1>5. ASSUME NEW c \in changes, ChangeServed(c) PROVE Goal
  <2>1. [c EXCEPT !.made = TRUE] \in Update /\ c.nr \in Versions
    BY <1>00
  <2> QED BY <1>0, <1>00, <1>5, <2>1 DEF ChangeServed
<1>6. ASSUME NEW c \in changes, ChangeAnswered(c) PROVE Goal
  <2>1. c.nr \in Versions /\ Handling(c).reloads \subseteq Lists /\ Handling(c).moves \subseteq Lists
    BY UnderWay
  <2>2. seen' \in [Lists -> Contents]
    BY <1>0, <1>00a, <1>6, <2>1 DEF ChangeAnswered, Shown
  <2>3. Target(c) \in Contents
    BY <1>00a, <2>1, UnderWay DEF Target
  <2>4. fetches' \subseteq Fetch
    <3>1. \A l \in Handling(c).reloads : [nr |-> c.nr, list |-> l, of |-> Target(c), found |-> Unread] \in Fetch
      BY <2>1, <2>3
    <3> QED BY <1>00, <1>6, <3>1 DEF ChangeAnswered, Fetches
  <2>5. excused' \subseteq Lists /\ overlooked' \subseteq Lists
    BY <1>0, <1>6, <2>1 DEF ChangeAnswered
  <2>6. changes' \subseteq Update /\ version' = version /\ chosen' \in Versions
    BY <1>0, <1>00, <1>6, <2>1 DEF ChangeAnswered
  <2>7. actual' \in [Lists -> Versions]
    BY <1>0, <1>6, <2>1 DEF ChangeAnswered
  <2> QED BY <1>0, <2>2, <2>4, <2>5, <2>6, <2>7
<1>7. ASSUME NEW c \in changes, ChangeFails(c) PROVE Goal
  <2>1. /\ c.nr \in Versions /\ c.before \in Contents
        /\ Handling(c).repairs \subseteq Lists /\ Handling(c).moves \subseteq Lists
    BY UnderWay
  <2>2. seen' \in [Lists -> Contents]
    BY <1>0, <1>7, <2>1 DEF ChangeFails, Shown
  <2>3. \A l \in Handling(c).repairs : [nr |-> c.nr, list |-> l, of |-> chosen, found |-> Unread] \in Fetch
    BY <1>0, <1>00a, <2>1
  <2>4. fetches' \subseteq Fetch
    BY <1>00, <1>7, <2>3 DEF ChangeFails, Fetches
  <2>5. excused' \subseteq Lists /\ overlooked' \subseteq Lists
    BY <1>0, <1>7, <2>1 DEF ChangeFails
  <2>6. changes' \subseteq Update /\ UNCHANGED <<chosen, actual, version>>
    BY <1>00, <1>7 DEF ChangeFails
  <2> QED BY <1>0, <2>2, <2>4, <2>5, <2>6
<1>8. ASSUME NEW l \in Lists, ElsewhereChanged(l) PROVE Goal
  BY <1>0, <1>00, <1>8 DEF ElsewhereChanged
<1>8a. ASSUME Choose PROVE Goal
  <2>1. version' = version + 1 /\ version' \in Versions /\ chosen' = version'
    BY <1>0, <1>8a DEF Choose
  <2>2. actual' \in [Lists -> Versions] /\ seen' \in [Lists -> Contents]
    BY <1>0, <1>00a, <1>8a, <2>1 DEF Choose
  <2>3. \A l \in Keyed : [nr |-> version', list |-> l, of |-> version', found |-> Unread] \in Fetch
    BY <1>00a, <2>1
  <2>4. fetches' \subseteq Fetch /\ changes' \subseteq Update
    BY <1>00, <1>8a, <2>3 DEF Choose, Fetches
  <2>5. excused' \subseteq Lists /\ overlooked' \subseteq Lists
    BY <1>0, <1>00a, <1>8a DEF Choose
  <2> QED BY <1>0, <2>1, <2>2, <2>4, <2>5
<1>9. ASSUME UNCHANGED consoleVars PROVE Goal
  BY <1>0, <1>00, <1>9 DEF consoleVars
<1> HIDE DEF Goal, Fetch, Update
<1>10. ASSUME ConsolesNext PROVE Goal
  BY ONLY <1>10, <1>1, <1>2, <1>3, <1>4, <1>5, <1>6, <1>7, <1>8, <1>8a DEF ConsolesNext
<1>11. Goal
  BY <1>9, <1>10
<1> QED BY <1>11 DEF Goal

\* Of the new changes and loads of a step only these can touch a list.
LEMMA FetchStep ==
    ASSUME ConsolesInv, NEW f \in fetches, FetchServed(f) \/ FetchLands(f) \/ FetchFails(f),
           NEW l \in Lists, l \notin excused'
    PROVE  ListSound(l)'
<1>1. /\ ListSound(l) /\ console' = console /\ changes' = changes /\ actual' = actual /\ overlooked' = overlooked
      /\ chosen' = chosen /\ Keyed' = Keyed
  BY DEF ConsolesInv, FetchServed, FetchLands, FetchFails, Keyed, Lists
<1>2. Direct(l)' = Direct(l) /\ (Mending(l)' <=> Mending(l))
  BY <1>1 DEF Direct, Mending, Handling
<1>3. /\ f \in [nr : Versions, list : Lists, of : Contents, found : Contents \cup {Unread}]
      /\ seen \in [Lists -> Contents]
  BY DEF ConsolesInv, ConsolesTypeOK
<1>4. CASE FetchServed(f)
  <2> DEFINE got == IF f.list \in Keyed /\ f.of # chosen THEN Stray ELSE actual[f.list]
             g == [f EXCEPT !.found = got]
  <2>1. g.list = f.list /\ g.of = f.of /\ g.found = got
    BY <1>3
  <2>2. fetches' = (fetches \ {f}) \cup {g} /\ seen' = seen
    BY <1>4 DEF FetchServed
  <2> HIDE DEF g
  <2>3. CASE f.list = l
    <3>0. (l \in Keyed => f.of = chosen) /\ g.found = actual[l]
      BY <1>1, <2>1, <2>3 DEF ListSound, Fetching
    <3>1. Fetching(l)' = {g}
      BY <1>1, <2>1, <2>2, <2>3 DEF Fetching, ListSound
    <3>2. Direct(l) = {}
      BY <1>1, <2>3 DEF ListSound, Fetching
    <3> QED BY <1>1, <1>2, <2>1, <2>3, <3>0, <3>1, <3>2 DEF ListSound, InStep
  <2>4. CASE f.list # l
    <3>1. Fetching(l)' = Fetching(l)
      BY <2>1, <2>2, <2>4 DEF Fetching
    <3> QED BY <1>1, <1>2, <2>2, <3>1, ListKept
  <2> QED BY <2>3, <2>4
<1>5. CASE FetchLands(f)
  <2>1. seen' = [seen EXCEPT ![f.list] = f.found] /\ fetches' = fetches \ {f} /\ f.found # Unread
    BY <1>5 DEF FetchLands
  <2>2. CASE f.list = l
    <3>1. Fetching(l)' = {} /\ f \in Fetching(l)
      BY <1>1, <2>1, <2>2 DEF Fetching, ListSound
    <3>2. Direct(l) = {} /\ seen'[l] = f.found
      BY <1>1, <1>3, <2>1, <2>2, <3>1 DEF ListSound
    <3>3. InStep(l) => seen'[l] = actual'[l]
      BY <1>1, <2>1, <3>1, <3>2 DEF InStep
    <3> QED BY <1>1, <1>2, <3>1, <3>2, <3>3 DEF ListSound, InStep
  <2>3. CASE f.list # l
    <3>1. Fetching(l)' = Fetching(l) /\ seen'[l] = seen[l]
      BY <1>3, <2>1, <2>3 DEF Fetching
    <3> QED BY <1>1, <1>2, <3>1, ListKept
  <2> QED BY <2>2, <2>3
<1>6. CASE FetchFails(f)
  <2>1. f.list # l /\ fetches' = fetches \ {f} /\ seen' = seen
    BY <1>6 DEF FetchFails
  <2>2. Fetching(l)' = Fetching(l)
    BY <2>1 DEF Fetching
  <2> QED BY <1>1, <1>2, <2>1, <2>2, ListKept
<1> QED BY <1>4, <1>5, <1>6

LEMMA PressStep ==
    ASSUME ConsolesInv, NEW h \in DOMAIN console, Press(h),
           NEW l \in Lists, l \notin excused'
    PROVE  ListSound(l)'
<1>0. PICK x : x = [nr |-> version', by |-> h, of |-> Meant, before |-> Before(h), made |-> FALSE]
  OBVIOUS
<1>1. /\ ListSound(l) /\ console' = console /\ fetches' = fetches /\ actual' = actual /\ overlooked' = overlooked
      /\ changes' = changes \cup {x} /\ version' = version + 1 /\ chosen' = chosen
  BY <1>0 DEF ConsolesInv, Press
<1>2. x.nr = version' /\ x.by = h /\ x.before = Before(h) /\ x.made = FALSE
  BY <1>0
<1>3. HandlerSound(console, console[h]) /\ seen \in [Lists -> Contents] /\ Lists' = Lists /\ Keyed' = Keyed
  BY <1>1, UnderWay DEF ConsolesInv, ConsolesTypeOK, Lists, Keyed
<1>4. IF console[h].follows = "at once" THEN Shown(h, version') ELSE seen' = seen
  BY DEF Press
<1>5. Follows(console[h]) /\ l \in console[h].moves => Fetching(l) = {} /\ Direct(l) = {}
  BY DEF Press, Follows
<1>6. Handling(x) = console[h] /\ Handling(x)' = console[h]
      /\ \A c \in changes : Handling(c)' = Handling(c)
  BY <1>1, <1>2 DEF Handling
<1>7. Fetching(l)' = Fetching(l) /\ (Mending(l) => Mending(l)')
  BY <1>1, <1>6 DEF Fetching, Mending
<1>8. Direct(l)' = Direct(l) \cup (IF Follows(console[h]) /\ l \in console[h].moves THEN {x} ELSE {})
  BY <1>1, <1>6 DEF Direct, Follows
<1>9. CASE Follows(console[h]) /\ l \in console[h].moves
  <2>1. Direct(l)' = {x} /\ Fetching(l)' = {}
    BY <1>5, <1>7, <1>8, <1>9
  <2>2. console[h].moves = {l}
    BY <1>3, <1>9 DEF HandlerSound
  <2>3. InStep(l) => InStep(l)'
    <3> SUFFICES ASSUME InStep(l) PROVE Following(l, x)'
      BY <2>1 DEF InStep
    <3>1. seen[l] = actual[l]
      BY <1>5, <1>9 DEF InStep
    <3>2. console[h].follows = "at once" => seen'[l] = version' /\ x.before = seen[l]
      <4>1. (CHOOSE y \in console[h].moves : TRUE) = l
        BY <2>2
      <4> QED BY <1>2, <1>3, <1>4, <2>2, <4>1 DEF Shown, Before
    <3>3. console[h].follows = "from the answer" => seen' = seen
      BY <1>4
    <3> QED BY <1>1, <1>2, <1>6, <3>1, <3>2, <3>3 DEF Following
  <2> QED BY <1>1, <1>7, <2>1, <2>3 DEF ListSound
<1>10. CASE ~(Follows(console[h]) /\ l \in console[h].moves)
  <2>1. seen'[l] = seen[l]
    BY <1>3, <1>4, <1>10 DEF Shown, Follows
  <2>2. Direct(l)' = Direct(l)
    BY <1>8, <1>10
  <2> QED BY <1>1, <1>7, <2>1, <2>2, ListKept
<1> QED BY <1>9, <1>10

LEMMA ServedStep ==
    ASSUME ConsolesInv, NEW c \in changes, ChangeServed(c),
           NEW l \in Lists, l \notin excused'
    PROVE  ListSound(l)'
<1>0. PICK x : x = [c EXCEPT !.made = TRUE]
  OBVIOUS
<1>1. /\ ListSound(l) /\ console' = console /\ fetches' = fetches /\ seen' = seen /\ overlooked' = overlooked
      /\ changes' = (changes \ {c}) \cup {x} /\ ~c.made /\ Lists' = Lists /\ chosen' = chosen /\ Keyed' = Keyed
  BY <1>0 DEF ConsolesInv, ChangeServed, Lists, Keyed
<1>2. x.nr = c.nr /\ x.by = c.by /\ x.before = c.before /\ x.made = TRUE
  BY <1>0 DEF ConsolesInv, ConsolesTypeOK
<1>3. actual' = [m \in Lists |-> IF m \in Handling(c).moves /\ (m \in Apart => c.of = chosen)
                                THEN c.nr ELSE actual[m]]
  BY DEF ChangeServed
<1>4. Handling(x) = Handling(c) /\ \A d : Handling(d)' = Handling(d)
  BY <1>1, <1>2 DEF Handling
<1>5. Fetching(l)' = Fetching(l)
  BY <1>1 DEF Fetching
<1>6. Mending(l) => Mending(l)'
  BY <1>1, <1>4 DEF Mending
<1>7. CASE l \notin Handling(c).moves
  <2>1. Direct(l)' = Direct(l) /\ actual'[l] = actual[l]
    BY <1>1, <1>3, <1>4, <1>7 DEF Direct
  <2> QED BY <1>1, <1>5, <1>6, <2>1, ListKept
<1>8. CASE l \in Handling(c).moves /\ ~Follows(Handling(c))
  <2>1. Direct(l)' = Direct(l)
    BY <1>1, <1>4, <1>8 DEF Direct, Follows
  <2>2. Mending(l)'
    BY <1>1, <1>2, <1>4, <1>8 DEF Mending
  <2> QED BY <1>1, <1>5, <2>1, <2>2 DEF ListSound
<1>9. CASE l \in Handling(c).moves /\ Follows(Handling(c))
  <2>1. c \in Direct(l)
    BY <1>9 DEF Direct, Follows
  <2>2. Direct(l)' = {x} /\ Fetching(l) = {}
    BY <1>1, <1>4, <1>9, <2>1 DEF Direct, Follows, ListSound
  <2>3. actual'[l] = c.nr
    <3>1. l \notin Apart
      BY <1>9, UnderWay DEF ConsolesInv, HandlerSound
    <3> QED BY <1>3, <1>9, <3>1
  <2>4. InStep(l) => InStep(l)'
    <3> SUFFICES ASSUME InStep(l) PROVE Following(l, x)'
      BY <1>5, <2>2 DEF InStep
    <3>1. Following(l, c)
      BY <2>1 DEF InStep
    <3> QED BY <1>1, <1>2, <1>4, <2>3, <3>1 DEF Following
  <2> QED BY <1>1, <1>5, <1>6, <2>2, <2>4 DEF ListSound
<1> QED BY <1>7, <1>8, <1>9

LEMMA AnsweredStep ==
    ASSUME ConsolesInv, NEW c \in changes, ChangeAnswered(c),
           NEW l \in Lists, l \notin excused'
    PROVE  ListSound(l)'
<1> DEFINE new(m) == [nr |-> c.nr, list |-> m, of |-> Target(c), found |-> Unread]
           renewed == {m \in Clean(Handling(c).reloads, {c}) : m \in Keyed => Target(c) = chosen'}
<1>1. /\ console' = console /\ changes' = changes \ {c} /\ c.made /\ Lists' = Lists /\ Keyed' = Keyed
      /\ fetches' = fetches \cup {new(m) : m \in Handling(c).reloads}
  BY DEF ChangeAnswered, Fetches, Lists, Keyed
<1>2. /\ overlooked' = (overlooked \ Handling(c).reloads)
                       \cup (IF ~Follows(Handling(c)) THEN Handling(c).moves \ Handling(c).reloads ELSE {})
      /\ excused' = (excused \cup Handling(c).reloads) \ renewed
      /\ IF Handling(c).follows = "from the answer" THEN Shown(c.by, c.nr) ELSE seen' = seen
  BY DEF ChangeAnswered, Follows
<1>3. HandlerSound(console, Handling(c)) /\ seen \in [Lists -> Contents] /\ actual \in [Lists -> Versions]
  BY UnderWay DEF ConsolesInv, ConsolesTypeOK
<1>4. \A d : Handling(d)' = Handling(d)
  BY <1>1 DEF Handling
<1>5. Direct(l)' = Direct(l) \ {c}
  BY <1>1, <1>4 DEF Direct
<1>5a. l \notin Handling(c).reloads => actual'[l] = actual[l] /\ (l \in Keyed => chosen' = chosen)
  <2>1. ~Handling(c).turns => chosen' = chosen /\ actual' = [m \in Lists |-> actual[m]]
    BY DEF ChangeAnswered
  <2>2. ASSUME Handling(c).turns, l \notin Handling(c).reloads PROVE l \notin Keyed /\ actual'[l] = actual[l]
    <3>1. l \notin Keyed
      BY <1>3, <2>2 DEF HandlerSound, Keyed, Lists
    <3> QED BY <3>1 DEF ChangeAnswered
  <2> QED BY <2>1, <2>2
<1>6. CASE l \in Handling(c).reloads
  <2>1. ~Follows(Handling(c)) /\ seen' = seen
    BY <1>2, <1>3, <1>6 DEF HandlerSound, Follows
  <2>2. l \in renewed
    BY <1>2, <1>6
  <2>3. Fetching(l) = {} /\ Direct(l)' = {} /\ (l \in Keyed => Target(c) = chosen')
    BY <1>5, <2>2 DEF Clean
  <2>4. Fetching(l)' = {new(l)}
    BY <1>1, <1>6, <2>3 DEF Fetching
  <2>5. /\ Fetching(l)' # {} /\ \A f \in Fetching(l)' : f.found = Unread /\ f.of = Target(c)
        /\ \A f, g \in Fetching(l)' : f = g
    BY <2>4
  <2> HIDE DEF Fetching, Direct
  <2>6. InStep(l)'
    BY <2>3, <2>5 DEF InStep
  <2> QED BY <1>1, <2>3, <2>5, <2>6 DEF ListSound
<1>7. CASE l \notin Handling(c).reloads
  <2>1. l \notin excused /\ ListSound(l)
    BY <1>2, <1>7 DEF Clean, ConsolesInv
  <2>1a. actual'[l] = actual[l] /\ (l \in Keyed => chosen' = chosen)
    BY <1>5a, <1>7
  <2>2. Fetching(l)' = Fetching(l)
    <3>1. \A m \in Handling(c).reloads : new(m).list # l
      BY <1>7
    <3> QED BY <1>1, <3>1 DEF Fetching
  <2>3. l \in overlooked => l \in overlooked'
    BY <1>2, <1>7
  <2>4. CASE l \notin Handling(c).moves
    <3>1. Direct(l)' = Direct(l)
      BY <1>5, <2>4 DEF Direct
    <3>2. seen'[l] = seen[l]
      BY <1>2, <1>3, <2>4 DEF Shown, Handling
    <3>3. Mending(l) => Mending(l)'
      BY <1>1, <1>4, <2>4 DEF Mending
    <3> QED BY <1>1, <2>1, <2>1a, <2>2, <2>3, <3>1, <3>2, <3>3, ListKept
  <2>5. CASE l \in Handling(c).moves /\ ~Follows(Handling(c))
    <3>1. l \in overlooked'
      BY <1>2, <1>7, <2>5
    <3> QED BY <1>1, <1>5, <2>1, <2>1a, <2>2, <3>1 DEF ListSound
  <2>6. CASE l \in Handling(c).moves /\ Follows(Handling(c))
    <3>1. c \in Direct(l)
      BY <2>6 DEF Direct, Follows
    <3>2. Direct(l)' = {} /\ Fetching(l)' = {}
      BY <1>5, <2>1, <2>2, <3>1 DEF ListSound
    <3>3. Mending(l) => Mending(l)'
      BY <1>1, <1>4, <2>6 DEF Mending
    <3>4. InStep(l) => seen'[l] = actual'[l]
      <4> SUFFICES ASSUME InStep(l) PROVE seen'[l] = actual[l]
        BY <2>1a
      <4>1. Following(l, c)
        BY <3>1 DEF InStep
      <4>2. Handling(c).follows \in {"from the answer", "at once"}
        BY <1>3, <2>6 DEF HandlerSound, Follows
      <4>3. Handling(c).follows = "from the answer" => seen'[l] = c.nr
        BY <1>2, <1>3, <2>6 DEF Shown, Handling
      <4> QED BY <1>1, <1>2, <4>1, <4>2, <4>3 DEF Following
    <3>5. InStep(l) => InStep(l)'
      BY <3>2, <3>4 DEF InStep
    <3> QED BY <2>1, <2>3, <3>2, <3>3, <3>5 DEF ListSound
  <2> QED BY <2>4, <2>5, <2>6
<1> QED BY <1>6, <1>7

LEMMA FailsStep ==
    ASSUME ConsolesInv, NEW c \in changes, ChangeFails(c),
           NEW l \in Lists, l \notin excused'
    PROVE  ListSound(l)'
<1> DEFINE new(m) == [nr |-> c.nr, list |-> m, of |-> chosen, found |-> Unread]
<1>1. /\ console' = console /\ actual' = actual /\ changes' = changes \ {c} /\ Lists' = Lists
      /\ fetches' = fetches \cup {new(m) : m \in Handling(c).repairs}
      /\ overlooked' = overlooked \ Handling(c).repairs /\ chosen' = chosen /\ Keyed' = Keyed
  BY DEF ChangeFails, Fetches, Lists, Keyed
<1>2. /\ excused' = (excused \cup (IF c.made THEN Handling(c).moves ELSE {})) \ Clean(Handling(c).repairs, {c})
      /\ IF Handling(c).follows = "at once" THEN Shown(c.by, c.before) ELSE seen' = seen
  BY DEF ChangeFails
<1>3. HandlerSound(console, Handling(c)) /\ seen \in [Lists -> Contents]
  BY UnderWay DEF ConsolesInv, ConsolesTypeOK
<1>4. \A d : Handling(d)' = Handling(d)
  BY <1>1 DEF Handling
<1>5. Direct(l)' = Direct(l) \ {c}
  BY <1>1, <1>4 DEF Direct
<1>6. CASE l \in Handling(c).repairs
  <2>1. Follows(Handling(c)) /\ l \in Handling(c).moves
    BY <1>3, <1>6 DEF HandlerSound
  <2>2. Fetching(l) = {} /\ Direct(l) \subseteq {c}
    <3>1. CASE l \in Clean(Handling(c).repairs, {c})
      BY <3>1 DEF Clean
    <3>2. CASE l \notin Clean(Handling(c).repairs, {c})
      <4>1. ListSound(l)
        BY <1>2, <3>2 DEF ConsolesInv
      <4>2. c \in Direct(l)
        BY <2>1 DEF Direct, Follows
      <4> QED BY <4>1, <4>2 DEF ListSound
    <3> QED BY <3>1, <3>2
  <2>3. Direct(l)' = {}
    BY <1>5, <2>2
  <2>4. Fetching(l)' = {new(l)}
    BY <1>1, <1>6, <2>2 DEF Fetching
  <2>5. /\ Fetching(l)' # {} /\ \A f \in Fetching(l)' : f.found = Unread /\ f.of = chosen'
        /\ \A f, g \in Fetching(l)' : f = g
    BY <1>1, <2>4
  <2>6. InStep(l)'
    BY <2>3, <2>5 DEF InStep
  <2> QED BY <2>3, <2>5, <2>6 DEF ListSound
<1>7. CASE l \notin Handling(c).repairs
  <2>1. l \notin excused /\ ListSound(l) /\ (c.made => l \notin Handling(c).moves)
    BY <1>2, <1>7 DEF Clean, ConsolesInv
  <2>2. Fetching(l)' = Fetching(l)
    <3>1. \A m \in Handling(c).repairs : new(m).list # l
      BY <1>7
    <3> QED BY <1>1, <3>1 DEF Fetching
  <2>3. (l \in overlooked => l \in overlooked') /\ (Mending(l) => Mending(l)')
    BY <1>1, <1>4, <1>7, <2>1 DEF Mending
  <2>4. CASE l \notin Handling(c).moves
    <3>1. Direct(l)' = Direct(l)
      BY <1>5, <2>4 DEF Direct
    <3>2. seen'[l] = seen[l]
      BY <1>2, <1>3, <2>4 DEF Shown, Handling
    <3> QED BY <1>1, <2>1, <2>2, <2>3, <3>1, <3>2, ListKept
  <2>5. CASE l \in Handling(c).moves /\ ~Follows(Handling(c))
    <3>1. Direct(l)' = Direct(l)
      BY <1>5, <2>5 DEF Direct, Follows
    <3>2. seen'[l] = seen[l]
      BY <1>2, <2>5 DEF Follows
    <3> QED BY <1>1, <2>1, <2>2, <2>3, <3>1, <3>2, ListKept
  <2>6. CASE l \in Handling(c).moves /\ Follows(Handling(c))
    <3>1. c \in Direct(l) /\ ~c.made
      BY <2>1, <2>6 DEF Direct, Follows
    <3>2. Direct(l)' = {} /\ Fetching(l)' = {}
      BY <1>5, <2>1, <2>2, <3>1 DEF ListSound
    <3>3. InStep(l) => seen'[l] = actual'[l]
      <4> SUFFICES ASSUME InStep(l) PROVE seen'[l] = actual[l]
        BY <1>1
      <4>1. Following(l, c)
        BY <3>1 DEF InStep
      <4>2. Handling(c).follows \in {"from the answer", "at once"}
        BY <1>3, <2>6 DEF HandlerSound, Follows
      <4>3. Handling(c).follows = "at once" => seen'[l] = c.before
        BY <1>2, <1>3, <2>6 DEF Shown, Handling
      <4> QED BY <1>1, <1>2, <3>1, <4>1, <4>2, <4>3 DEF Following
    <3>4. InStep(l) => InStep(l)'
      BY <3>2, <3>3 DEF InStep
    <3> QED BY <1>1, <2>1, <2>3, <3>2, <3>4 DEF ListSound
  <2> QED BY <2>4, <2>5, <2>6
<1> QED BY <1>6, <1>7

\* The rows of a choice are asked for; a list that is of none stays.
LEMMA ChooseStep ==
    ASSUME ConsolesInv, Choose, NEW l \in Lists, l \notin excused'
    PROVE  ListSound(l)'
<1> DEFINE new(m) == [nr |-> version', list |-> m, of |-> version', found |-> Unread]
<1>1. /\ console' = console /\ changes' = changes /\ overlooked' = overlooked /\ Lists' = Lists /\ Keyed' = Keyed
      /\ fetches' = fetches \cup {new(m) : m \in Keyed} /\ chosen' = version'
      /\ excused' = (excused \ Keyed) \cup (Keyed \ Clean(Keyed, {}))
  BY DEF Choose, Fetches, Lists, Keyed
<1>2. Direct(l)' = Direct(l) /\ (Mending(l) => Mending(l)')
  BY <1>1 DEF Direct, Mending, Handling
<1>3. CASE l \in Keyed
  <2>1. Fetching(l) = {} /\ Direct(l) = {}
    BY <1>1, <1>3 DEF Clean
  <2>2. Fetching(l)' = {new(l)}
    BY <1>1, <1>3, <2>1 DEF Fetching
  <2>3. /\ Fetching(l)' # {} /\ \A f \in Fetching(l)' : f.found = Unread /\ f.of = chosen'
        /\ \A f, g \in Fetching(l)' : f = g
    BY <1>1, <2>2
  <2> HIDE DEF Fetching, Direct
  <2>4. InStep(l)'
    BY <1>2, <2>1, <2>3 DEF InStep
  <2> QED BY <1>1, <1>2, <2>1, <2>3, <2>4 DEF ListSound
<1>4. CASE l \notin Keyed
  <2>1. ListSound(l) /\ seen'[l] = seen[l] /\ actual'[l] = actual[l]
    BY <1>1, <1>4 DEF ConsolesInv, Choose
  <2>2. Fetching(l)' = Fetching(l)
    <3>1. \A m \in Keyed : new(m).list # l
      BY <1>4
    <3> QED BY <1>1, <3>1 DEF Fetching
  <2> QED BY <1>1, <1>2, <1>4, <2>1, <2>2, ListKept
<1> QED BY <1>3, <1>4

LEMMA ConsolesStep == ConsolesInv /\ [ConsolesNext]_consoleVars => ConsolesInv'
<1> SUFFICES ASSUME ConsolesInv, [ConsolesNext]_consoleVars PROVE ConsolesInv'
  OBVIOUS
<1>0. ConsolesTypeOK'
  BY ConsolesTypes DEF ConsolesInv
<1>1. Lists' = Lists /\ console' = console
  BY DEF ConsolesNext, consoleVars, FetchServed, FetchLands, FetchFails, Press, ChangeServed, ChangeAnswered,
         ChangeFails, ElsewhereChanged, Choose, Lists
<1>2. (\A c, d \in changes' : c.nr = d.nr => c = d) /\ \A c \in changes' : c.nr <= version'
  <2>0. version \in Int /\ \A c \in changes : c.nr \in Int /\ c.nr <= version
    BY UnderWay, VersionsAssumption DEF ConsolesInv, ConsolesTypeOK, Versions
  <2>1. CASE changes' \subseteq changes /\ version' >= version /\ version' \in Int
    BY <2>0, <2>1 DEF ConsolesInv
  <2>2. ASSUME NEW h \in DOMAIN console, Press(h)
        PROVE  (\A c, d \in changes' : c.nr = d.nr => c = d) /\ \A c \in changes' : c.nr <= version'
    <3>1. PICK x : x = [nr |-> version', by |-> h, of |-> Meant, before |-> Before(h), made |-> FALSE]
      OBVIOUS
    <3>2. x.nr = version' /\ changes' = changes \cup {x} /\ version' = version + 1
      BY <2>2, <3>1 DEF Press
    <3> QED BY <2>0, <3>2 DEF ConsolesInv
  <2>3. ASSUME NEW c \in changes, ChangeServed(c)
        PROVE  (\A b, d \in changes' : b.nr = d.nr => b = d) /\ \A d \in changes' : d.nr <= version'
    <3> DEFINE x == [c EXCEPT !.made = TRUE]
    <3>1. x.nr = c.nr /\ changes' = (changes \ {c}) \cup {x} /\ version' = version
      BY <2>3 DEF ConsolesInv, ConsolesTypeOK, ChangeServed
    <3> HIDE DEF x
    <3> QED BY <2>0, <3>1 DEF ConsolesInv
  <2>4. CASE ~(\E h \in DOMAIN console : Press(h)) /\ ~(\E c \in changes : ChangeServed(c))
    <3>1. changes' \subseteq changes /\ (version' = version \/ version' = version + 1)
      BY <2>4 DEF ConsolesNext, consoleVars, FetchServed, FetchLands, FetchFails, ChangeAnswered, ChangeFails,
                  ElsewhereChanged, Choose
    <3> QED BY <2>0, <2>1, <3>1
  <2> QED BY <2>2, <2>3, <2>4
<1>3. \A l \in overlooked' : console' = CoachingConsole /\ l = "coaches"
  <2>1. CASE overlooked' \subseteq overlooked
    BY <1>1, <2>1 DEF ConsolesInv
  <2>2. ASSUME NEW c \in changes, ChangeAnswered(c) PROVE \A l \in overlooked' : console' = CoachingConsole /\ l = "coaches"
    <3>1. HandlerSound(console, Handling(c))
      BY UnderWay DEF ConsolesInv
    <3>2. overlooked' = (overlooked \ Handling(c).reloads)
                       \cup (IF ~Follows(Handling(c)) THEN Handling(c).moves \ Handling(c).reloads ELSE {})
      BY <2>2 DEF ChangeAnswered, Follows
    <3> QED BY <1>1, <3>1, <3>2 DEF HandlerSound, ConsolesInv
  <2>3. overlooked' \subseteq overlooked \/ \E c \in changes : ChangeAnswered(c)
    BY DEF ConsolesNext, consoleVars, FetchServed, FetchLands, FetchFails, Press, ChangeServed, ChangeFails,
           ElsewhereChanged, Choose
  <2> QED BY <2>1, <2>2, <2>3
<1>4. ASSUME NEW l \in Lists, l \notin excused' PROVE ListSound(l)'
  <2>1. ASSUME NEW k \in Lists, ElsewhereChanged(k) PROVE ListSound(l)'
    <3>1. l # k /\ l \notin excused /\ actual' = [actual EXCEPT ![k] = version']
          /\ UNCHANGED <<console, chosen, seen, fetches, changes, overlooked>>
      BY <1>4, <2>1 DEF ElsewhereChanged
    <3>2. actual'[l] = actual[l]
      BY <3>1 DEF ConsolesInv, ConsolesTypeOK
    <3>3. Fetching(l)' = Fetching(l) /\ Direct(l)' = Direct(l) /\ (Mending(l) => Mending(l)') /\ ListSound(l)
      BY <3>1 DEF Fetching, Direct, Mending, Handling, ConsolesInv
    <3> QED BY <3>1, <3>2, <3>3, ListKept
  <2>2. CASE UNCHANGED consoleVars
    <3>1. ListSound(l) /\ UNCHANGED <<console, chosen, actual, seen, fetches, changes, overlooked>>
      BY <1>4, <2>2 DEF consoleVars, ConsolesInv
    <3>2. Fetching(l)' = Fetching(l) /\ Direct(l)' = Direct(l) /\ (Mending(l) => Mending(l)')
      BY <3>1 DEF Fetching, Direct, Mending, Handling
    <3> QED BY <3>1, <3>2, ListKept
  <2> QED BY <1>4, <2>1, <2>2, FetchStep, PressStep, ServedStep, AnsweredStep, FailsStep, ChooseStep DEF ConsolesNext
<1> QED BY <1>0, <1>1, <1>2, <1>3, <1>4 DEF ConsolesInv

LEMMA ConsolesConclude == ConsolesInv => ConsolesShowTheTruth
<1> SUFFICES ASSUME ConsolesInv, AllSettled, NEW l \in Lists, l \notin excused
             PROVE  seen[l] = actual[l] \/ (console = CoachingConsole /\ l = "coaches" /\ l \in overlooked)
  BY DEF ConsolesShowTheTruth
<1>1. Fetching(l) = {} /\ Direct(l) = {} /\ ~Mending(l) /\ ListSound(l)
  BY DEF AllSettled, Fetching, Direct, Mending, ConsolesInv
<1> QED BY <1>1 DEF ListSound, InStep, ConsolesInv

-----------------------------------------------------------------------------
(* The paged lists *)

Chosen == [filter |-> filter, query |-> query, page |-> page]
Newer(e, rows) == {d \in rows : bornAt[d] > bornAt[e]}

\* Rows are born in their order, and one that is not yet born is in no list.
TableSound ==
    \A e \in Entry : IF e <= made THEN bornAt[e] \in 1 .. made /\ standing[e] # "none"
                                  ELSE bornAt[e] = 0 /\ standing[e] = "none"

\* An answer has the rows of its choice as long as the table has not changed; a
\* full one shows that there is a next page to go to; a headline counts.
Rightly(x) == x.rowsAt = rowEdits => x.rows \in Slices(Matches(x.of.filter, x.of.query), OffsetOf(x.of.page))
Onward(x)  == Cardinality(x.rows) >= PageSize => page * PageSize <= Cardinality(Matches(filter, query))
Counts(x)  == x.totalAt = x.rowsAt /\ x.rows # {} =>
                 LET last == (x.of.page - 1) * PageSize + Cardinality(x.rows)
                 IN  x.total >= last /\ (Cardinality(x.rows) < PageSize => x.total = last)

ListLoad == [stage : {"asked", "read", "answering"}, answer : Answer]
LoadSound(a) ==
    /\ a \in ListLoad /\ a.answer.rowsAt <= rowEdits
    /\ IF a.stage = "asked" THEN a.answer.rows = {} ELSE Rightly(a.answer)
    /\ a.stage = "answering" /\ paged => Counts(a.answer)

\* Without haste one load is under way at most, and it is of what the page asks for.
RestSound ==
    /\ listed.rowsAt <= rowEdits /\ (paged => Counts(listed)) /\ page <= askedSo
    /\ "haste" \notin mishaps =>
          /\ \A a, b \in listLoads : a = b
          /\ \A a \in listLoads : a.answer.of = Chosen
          /\ listLoads = {} => listed.of = Chosen /\ Rightly(listed)
    /\ mishaps = {} =>
          /\ OffsetOf(page) <= Cardinality(Matches(filter, query))
          /\ \A a \in listLoads : Onward(a.answer)
          /\ listLoads = {} => Onward(listed)

\* What has been read is before the next page, what has not is on it or after.
WalkSound ==
    LET rows == Matches(walk.of.filter, walk.of.query)
    IN  \/ walk \in [at : {0}, seen : SUBSET Entry, twice : SUBSET Entry, steady : SUBSET Entry,
                     came : BOOLEAN, left : BOOLEAN, done : BOOLEAN]
        \/ /\ walk \in [at : Nat \ {0}, of : ListChoice, seen : SUBSET (1 .. made), twice : SUBSET Entry,
                        steady : SUBSET rows, came : BOOLEAN, left : BOOLEAN, done : BOOLEAN]
           /\ ~walk.came => \A e \in walk.twice : Tied(e)
           /\ ~walk.came => \A e \in walk.seen : Tied(e) \/ Cardinality(Newer(e, rows)) < walk.at * PageSize
           /\ ~walk.left => \A e \in walk.steady \ walk.seen :
                 Tied(e) \/ (~walk.done /\ walk.at * PageSize <= Cardinality(Newer(e, rows)))

ListsInv ==
    ListingsTypeOK /\ TableSound /\ (\A a \in listLoads : LoadSound(a)) /\ RestSound /\ WalkSound

\* Sets of rows are finite, and so counted.
LEMMA RowsCounted ==
    /\ Cardinality({}) = 0
    /\ \A S \in SUBSET Entry : IsFiniteSet(S) /\ Cardinality(S) \in 0 .. MaxEntries /\ (S # {} => Cardinality(S) > 0)
    /\ \A S \in SUBSET Entry : \A T \in SUBSET S :
          /\ Cardinality(T) <= Cardinality(S) /\ Cardinality(S \ T) = Cardinality(S) - Cardinality(T)
          /\ Cardinality(S) = Cardinality(T) => S = T
<1>1. IsFiniteSet(Entry) /\ Cardinality(Entry) = MaxEntries /\ MaxEntries \in Nat
  BY FS_Interval, ListingsAssumption DEF Entry
<1>2. \A S \in SUBSET Entry : IsFiniteSet(S) /\ Cardinality(S) \in Nat /\ Cardinality(S) <= MaxEntries
  BY <1>1, FS_Subset, FS_CardinalityType
<1>3. \A S \in SUBSET Entry : S # {} => Cardinality(S) # 0
  BY <1>2, FS_EmptySet
<1>4. ASSUME NEW S \in SUBSET Entry, NEW T \in SUBSET S
      PROVE  /\ Cardinality(T) <= Cardinality(S) /\ Cardinality(S \ T) = Cardinality(S) - Cardinality(T)
             /\ Cardinality(S) = Cardinality(T) => S = T
  <2>1. S \cap T = T /\ IsFiniteSet(S)
    BY <1>2
  <2>2. Cardinality(S \ T) = Cardinality(S) - Cardinality(S \cap T)
    BY <2>1, FS_Difference
  <2>3. Cardinality(T) <= Cardinality(S) /\ (Cardinality(S) = Cardinality(T) => S = T)
    BY <2>1, FS_Subset
  <2> QED BY <2>1, <2>2, <2>3
<1>5. \A S \in SUBSET Entry : Cardinality(S) \in 0 .. MaxEntries /\ (S # {} => Cardinality(S) > 0)
  BY <1>1, <1>2, <1>3
<1> QED BY <1>2, <1>4, <1>5, FS_EmptySet

LEMMA Matching ==
    ASSUME ListingsTypeOK
    PROVE  \A f, q : q \in Terms => Matches(f, q) \in SUBSET Entry
BY ListingsAssumption DEF Matches, MatchesOf, Terms

\* A slice by LIMIT and OFFSET: how many rows it has, and which.
LEMMA SliceCut ==
    ASSUME NEW M \in SUBSET Entry, bornAt \in [Entry -> Nat], NEW p \in Nat \ {0},
           NEW rows \in Slices(M, OffsetOf(p))
    PROVE  /\ rows \subseteq M /\ Cardinality(rows) <= PageSize
           /\ OffsetOf(p) \in Nat /\ OffsetOf(p) = (p - 1) * PageSize /\ OffsetOf(p) + PageSize = p * PageSize
           /\ rows # {} => /\ OffsetOf(p) + Cardinality(rows) <= Cardinality(M)
                           /\ Cardinality(rows) < PageSize => Cardinality(M) = OffsetOf(p) + Cardinality(rows)
           /\ \A e \in rows : \/ Tied(e)
                              \/ /\ OffsetOf(p) <= Cardinality(Newer(e, M))
                                 /\ Cardinality(Newer(e, M)) < p * PageSize
           /\ \A e \in M \ rows : \/ Tied(e) \/ Cardinality(Newer(e, M)) < OffsetOf(p)
                                  \/ (p * PageSize <= Cardinality(Newer(e, M)) /\ Cardinality(rows) = PageSize)
<1> DEFINE off == OffsetOf(p)
<1>1. off \in Nat /\ off = (p - 1) * PageSize /\ off + PageSize = p * PageSize /\ PageSize \in Nat \ {0}
  <2>1. PageSize \in Nat \ {0}
    BY ListingsAssumption
  <2>2. PICK k \in Nat : p = k + 1
    <3>1. p - 1 \in Nat /\ p = (p - 1) + 1
      OBVIOUS
    <3> QED BY <3>1
  <2>3. off = k * PageSize /\ p * PageSize = k * PageSize + PageSize
    BY <2>1, <2>2 DEF OffsetOf
  <2> QED BY <2>1, <2>2, <2>3
<1> HIDE DEF off
<1>2. PICK skipped \in Firsts(M, off) : rows \in Firsts(M \ skipped, PageSize)
  BY DEF Slices, off
<1> DEFINE rest == M \ skipped
<1>3. /\ skipped \subseteq M /\ rows \subseteq rest /\ rest \subseteq M
      /\ Cardinality(skipped) = IF Cardinality(M) <= off THEN Cardinality(M) ELSE off
      /\ Cardinality(rows) = IF Cardinality(rest) <= PageSize THEN Cardinality(rest) ELSE PageSize
      /\ \A x \in skipped, y \in rest : bornAt[x] >= bornAt[y]
      /\ \A x \in rows, y \in rest \ rows : bornAt[x] >= bornAt[y]
  BY <1>2 DEF Firsts
<1>4. /\ Cardinality(rest) = Cardinality(M) - Cardinality(skipped)
      /\ Cardinality(M) \in Nat /\ Cardinality(rest) \in Nat /\ Cardinality(rows) \in Nat /\ Cardinality(skipped) \in Nat
  BY <1>3, RowsCounted
<1>5. rest # {} => Cardinality(skipped) = off
  BY <1>1, <1>3, <1>4, RowsCounted
<1>6. rows # {} => /\ off + Cardinality(rows) <= Cardinality(M)
                   /\ Cardinality(rows) < PageSize => Cardinality(M) = off + Cardinality(rows)
  BY <1>1, <1>3, <1>4, <1>5
<1>7. \A e : Newer(e, M) \subseteq M /\ Cardinality(Newer(e, M)) \in Nat
  BY RowsCounted DEF Newer
<1> DEFINE ahead == skipped \cup rows
<1>8. ahead \subseteq M /\ Cardinality(ahead) = Cardinality(skipped) + Cardinality(rows)
  <2>1. ahead \ skipped = rows /\ ahead \in SUBSET Entry /\ skipped \in SUBSET ahead
    BY <1>3
  <2> HIDE DEF ahead
  <2>2. Cardinality(ahead) \in Nat /\ Cardinality(ahead \ skipped) = Cardinality(ahead) - Cardinality(skipped)
    BY <2>1, RowsCounted
  <2>3. Cardinality(rows) = Cardinality(ahead) - Cardinality(skipped)
    BY <2>1, <2>2
  <2> QED BY <1>3, <1>4, <2>2, <2>3 DEF ahead
<1>9. ASSUME NEW e \in M, ~Tied(e) PROVE \A d \in M \ {e} : bornAt[d] # bornAt[e] /\ bornAt[d] \in Nat /\ bornAt[e] \in Nat
  BY <1>9 DEF Tied
<1>10. ASSUME NEW e \in skipped, ~Tied(e) PROVE Cardinality(Newer(e, M)) < off
  <2>1. Newer(e, M) \subseteq skipped \ {e}
    BY <1>3, <1>9, <1>10 DEF Newer
  <2>2. Cardinality(skipped \ {e}) = Cardinality(skipped) - 1
    <3>1. {e} \in SUBSET skipped /\ skipped \in SUBSET Entry /\ Cardinality({e}) = 1
      BY <1>3, FS_Singleton
    <3> QED BY <3>1, RowsCounted
  <2>3. Cardinality(Newer(e, M)) <= Cardinality(skipped \ {e})
    <3>1. skipped \ {e} \in SUBSET Entry
      BY <1>3
    <3> QED BY <2>1, <3>1, RowsCounted
  <2> QED BY <1>1, <1>3, <1>4, <1>7, <2>2, <2>3
<1>11. ASSUME NEW e \in rows, ~Tied(e)
       PROVE  off <= Cardinality(Newer(e, M)) /\ Cardinality(Newer(e, M)) < off + PageSize
  <2>1. skipped \subseteq Newer(e, M) /\ Newer(e, M) \subseteq ahead \ {e}
    BY <1>3, <1>9, <1>11 DEF Newer
  <2>2. Cardinality(skipped) = off
    BY <1>3, <1>5
  <2>3. Cardinality(ahead \ {e}) = Cardinality(ahead) - 1
    <3>1. {e} \in SUBSET ahead /\ ahead \in SUBSET Entry /\ Cardinality({e}) = 1
      BY <1>8, FS_Singleton
    <3> QED BY <3>1, RowsCounted
  <2>4. Cardinality(skipped) <= Cardinality(Newer(e, M)) /\ Cardinality(Newer(e, M)) <= Cardinality(ahead \ {e})
    <3>1. ahead \ {e} \in SUBSET Entry /\ Newer(e, M) \in SUBSET Entry
      BY <1>7, <1>8
    <3> QED BY <2>1, <3>1, RowsCounted
  <2> QED BY <1>1, <1>3, <1>4, <1>7, <1>8, <2>2, <2>3, <2>4
<1>12. ASSUME NEW e \in rest \ rows, ~Tied(e)
       PROVE  off + PageSize <= Cardinality(Newer(e, M)) /\ Cardinality(rows) = PageSize
  <2>1. ahead \subseteq Newer(e, M)
    BY <1>3, <1>9, <1>12 DEF Newer
  <2>2. Cardinality(skipped) = off
    BY <1>5
  <2>3. Cardinality(rows) = PageSize
    <3>1. rest \in SUBSET Entry /\ rows \in SUBSET rest /\ rows # rest
      BY <1>3
    <3>2. Cardinality(rest) # Cardinality(rows)
      BY <3>1, RowsCounted
    <3> QED BY <1>3, <3>2
  <2>4. Cardinality(ahead) <= Cardinality(Newer(e, M))
    <3>1. Newer(e, M) \in SUBSET Entry
      BY <1>7
    <3> QED BY <2>1, <3>1, RowsCounted
  <2> QED BY <1>8, <2>2, <2>3, <2>4
<1>13. Cardinality(rows) <= PageSize
  BY <1>1, <1>3, <1>4
<1>14. \A e \in rows : \/ Tied(e)
                       \/ off <= Cardinality(Newer(e, M)) /\ Cardinality(Newer(e, M)) < p * PageSize
  BY <1>1, <1>11
<1>15. \A e \in M \ rows : \/ Tied(e) \/ Cardinality(Newer(e, M)) < off
                           \/ p * PageSize <= Cardinality(Newer(e, M)) /\ Cardinality(rows) = PageSize
  BY <1>1, <1>10, <1>12
<1> QED BY <1>1, <1>3, <1>6, <1>13, <1>14, <1>15 DEF off

LEMMA ListsStart == ListingsInit => ListsInv
<1> SUFFICES ASSUME ListingsInit PROVE ListsInv
  OBVIOUS
<1>1. /\ FirstRows \in Nat /\ MaxEntries \in Nat /\ FirstRows <= MaxEntries /\ PageSize \in Nat \ {0}
      /\ MaxAsks \in Nat \ {0} /\ MaxRowEdits \in Nat /\ "all" \in Filters
      /\ Entry = 1 .. MaxEntries /\ 0 \in 0 .. MaxAsks /\ 1 \in 0 .. MaxAsks /\ 1 \in 1 .. MaxAsks + 1
      /\ 0 \in 0 .. MaxEntries /\ 0 \in 0 .. MaxRowEdits
  BY ListingsAssumption DEF Entry
<1>2. NoAnswer.of.query \in Terms /\ NoAnswer \in Answer /\ NoAnswer.of \in ListChoice
      /\ NoAnswer = [of |-> [filter |-> "all", query |-> NoAnswer.of.query, page |-> 1], nr |-> 0, rows |-> {},
                     total |-> 0, rowsAt |-> 0, totalAt |-> 0]
  <2>1. PICK t : t = (CHOOSE x \in Terms : Finds[x] = Entry)
    OBVIOUS
  <2>2. t \in Terms
    BY <2>1, ListingsAssumption
  <2>3. NoAnswer = [of |-> [filter |-> "all", query |-> t, page |-> 1], nr |-> 0, rows |-> {},
                    total |-> 0, rowsAt |-> 0, totalAt |-> 0]
    BY <2>1 DEF NoAnswer
  <2> QED BY <1>1, <2>2, <2>3 DEF Answer, ListChoice
<1>3. \A e \in Entry : IF e <= made THEN bornAt[e] \in 1 .. made /\ bornAt[e] \in 0 .. MaxEntries ELSE bornAt[e] = 0
  <2>1. PICK batch \in {{}, Subscribed} :
            bornAt = [e \in Entry |-> IF e > FirstRows THEN 0 ELSE IF e \in batch THEN Cardinality(batch) ELSE e]
    BY DEF ListingsInit
  <2>2. made = FirstRows
    BY DEF ListingsInit
  <2>3. \A e \in batch : e \in Entry => Cardinality(batch) \in 1 .. made
    <3> SUFFICES ASSUME NEW e \in batch, e \in Entry PROVE Cardinality(batch) \in 1 .. made
      OBVIOUS
    <3>1. PICK last \in Entry : Subscribed = {d \in Entry : d <= last /\ last <= FirstRows}
      BY ListingsAssumption
    <3>2. batch = Subscribed /\ last <= FirstRows
      BY <3>1
    <3>3. batch = 1 .. last /\ last \in Nat \ {0}
      BY <1>1, <3>1, <3>2
    <3> QED BY <1>1, <2>2, <3>2, <3>3, FS_Interval
  <2> QED BY <1>1, <2>1, <2>2, <2>3
<1>4. \A e \in Entry : IF e <= made THEN standing[e] \in DOMAIN LedgerStatus /\ standing[e] # "none"
                                    ELSE standing[e] = "none"
  <2> TAKE e \in Entry
  <2>1. /\ made = FirstRows
        /\ standing[e] = IF e > FirstRows THEN "none"
                         ELSE CASE e = 1 -> "paid_in_full" [] e = 2 -> "deposit_approved" [] OTHER -> "deposit_pending"
    BY DEF ListingsInit
  <2>2. "paid_in_full" \in DOMAIN LedgerStatus /\ "deposit_approved" \in DOMAIN LedgerStatus
        /\ "deposit_pending" \in DOMAIN LedgerStatus
    BY DEF LedgerStatus
  <2>3. CASE e > FirstRows
    BY <1>1, <2>1, <2>3
  <2>4. CASE ~(e > FirstRows)
    <3>1. standing[e] \in {"paid_in_full", "deposit_approved", "deposit_pending"}
      BY <2>1, <2>4
    <3> QED BY <1>1, <2>1, <2>2, <2>4, <3>1
  <2> QED BY <2>3, <2>4
<1>5. bornAt \in [Entry -> 0 .. MaxEntries] /\ standing \in [Entry -> DOMAIN LedgerStatus \cup {"deleted", "none"}]
  <2>1. bornAt = [e \in Entry |-> bornAt[e]] /\ standing = [e \in Entry |-> standing[e]]
    BY DEF ListingsInit
  <2>2. \A e \in Entry : bornAt[e] \in 0 .. MaxEntries
    BY <1>1, <1>3
  <2>3. \A e \in Entry : standing[e] \in DOMAIN LedgerStatus \cup {"deleted", "none"}
    BY <1>4
  <2> QED BY <2>1, <2>2, <2>3
<1>6. PICK x : x = [NoAnswer EXCEPT !.nr = 1]
  OBVIOUS
<1>7. x = [of |-> NoAnswer.of, nr |-> 1, rows |-> {}, total |-> 0, rowsAt |-> 0, totalAt |-> 0] /\ x \in Answer
  <2>1. PICK c \in ListChoice : c = NoAnswer.of
    BY <1>2
  <2>2. x = [of |-> c, nr |-> 1, rows |-> {}, total |-> 0, rowsAt |-> 0, totalAt |-> 0]
    BY <1>2, <1>6, <2>1
  <2> QED BY <1>1, <2>1, <2>2 DEF Answer
<1>8. /\ listLoads = {[stage |-> "asked", answer |-> x]} /\ listed = NoAnswer /\ rowEdits = 0 /\ page = 1 /\ askedSo = 1
      /\ filter = "all" /\ query = NoAnswer.of.query /\ made = FirstRows /\ spinner = TRUE /\ mishaps = {}
      /\ sought = query /\ timer = paged /\ paged \in BOOLEAN /\ alarm = FALSE /\ walk = NoWalk
  BY <1>6 DEF ListingsInit
<1>80. NoAnswer.of = Chosen /\ Chosen = [filter |-> filter, query |-> query, page |-> page]
  BY <1>2, <1>8 DEF Chosen
<1>81. ListingsTypeOK
  <2>1. \A a \in listLoads : a.answer \in Answer /\ a.stage \in {"asked", "read", "answering"}
    BY <1>7, <1>8
  <2>2. [filter |-> filter, query |-> query, page |-> page] \in ListChoice /\ sought \in Terms
    BY <1>2, <1>8, <1>80
  <2>30. timer \in BOOLEAN /\ spinner \in BOOLEAN /\ alarm \in BOOLEAN
    BY <1>8, Zenon
  <2>3. /\ made \in 0 .. MaxEntries
        /\ rowEdits \in 0 .. MaxRowEdits /\ askedSo \in 0 .. MaxAsks /\ listed \in Answer
        /\ mishaps \subseteq {"haste", "departure"} /\ listLoads # {}
    BY <1>1, <1>2, <1>8
  <2>4. walk.seen \subseteq Entry /\ walk.twice \subseteq walk.seen /\ walk.steady \subseteq Entry
    BY <1>8 DEF NoWalk
  <2> QED BY <1>5, <1>8, <2>1, <2>2, <2>3, <2>30, <2>4 DEF ListingsTypeOK
<1>9. \A a \in listLoads : LoadSound(a)
  <2>1. [stage |-> "asked", answer |-> x] \in ListLoad
    BY <1>7 DEF ListLoad
  <2>2. \A a \in listLoads : a \in ListLoad /\ a.stage = "asked" /\ a.answer.rows = {} /\ a.answer.rowsAt = 0
    BY <1>7, <1>8, <2>1
  <2> QED BY <1>8, <2>2 DEF LoadSound
<1>10. RestSound
  <2>1. OffsetOf(page) = 0 /\ Cardinality(Matches(filter, query)) \in Nat
    <3>1. Matches(filter, query) \in SUBSET Entry
      BY <1>2, <1>8, <1>81, Matching
    <3> QED BY <1>1, <1>8, <3>1, RowsCounted DEF OffsetOf
  <2>2. Onward(x) /\ Counts(listed)
    BY <1>1, <1>2, <1>7, <1>8, RowsCounted DEF Onward, Counts
  <2>3. \A a \in listLoads : a.answer = x /\ a = [stage |-> "asked", answer |-> x]
    BY <1>8
  <2>4. listed.rowsAt = 0 /\ x.of = Chosen /\ listLoads # {}
    BY <1>2, <1>7, <1>8, <1>80
  <2>5. listed.rowsAt <= rowEdits /\ page <= askedSo /\ OffsetOf(page) <= Cardinality(Matches(filter, query))
    BY <1>8, <2>1, <2>4
  <2>6. \A a, b \in listLoads : a = b /\ a.answer.of = Chosen /\ Onward(a.answer)
    BY <2>2, <2>3, <2>4
  <2> QED BY <2>2, <2>4, <2>5, <2>6 DEF RestSound
<1>11. TableSound
  BY <1>3, <1>4 DEF TableSound
<1>12. WalkSound
  BY DEF WalkSound, ListingsInit, NoWalk
<1> QED BY <1>81, <1>9, <1>10, <1>11, <1>12 DEF ListsInv

\* What a step that leaves the table alone keeps.
LEMMA TableKept ==
    ASSUME ListsInv, UNCHANGED <<tableVars, paged>>
    PROVE  /\ TableSound' /\ (walk' = walk => WalkSound')
           /\ \A f, q : MatchesOf(standing', f, q) = Matches(f, q)
           /\ \A rows, off : Slices(rows, off)' = Slices(rows, off)
           /\ \A x : (Rightly(x)' <=> Rightly(x)) /\ (Counts(x)' <=> Counts(x))
           /\ \A a : LoadSound(a) => LoadSound(a)'
<1>1. UNCHANGED <<made, bornAt, standing, rowEdits, paged>>
  BY DEF tableVars
<1>2. TableSound'
  BY <1>1 DEF ListsInv, TableSound
<1>3. \A f, q : MatchesOf(standing', f, q) = Matches(f, q) /\ Matches(f, q)' = Matches(f, q)
  BY <1>1 DEF Matches, MatchesOf
<1>4. \A rows, off : Slices(rows, off)' = Slices(rows, off)
  BY <1>1 DEF Slices, Firsts
<1>5. \A x : (Rightly(x)' <=> Rightly(x)) /\ (Counts(x)' <=> Counts(x))
  <2> TAKE x
  <2>1. Matches(x.of.filter, x.of.query)' = Matches(x.of.filter, x.of.query)
    BY <1>3
  <2>2. Slices(Matches(x.of.filter, x.of.query), OffsetOf(x.of.page))'
            = Slices(Matches(x.of.filter, x.of.query), OffsetOf(x.of.page))
    BY <1>1 DEF Slices, Firsts, Matches, MatchesOf
  <2> QED BY <1>1, <2>2 DEF Rightly, Counts
<1>6. \A a : LoadSound(a) => LoadSound(a)'
  BY <1>1, <1>5 DEF LoadSound
<1>7. walk' = walk => WalkSound'
  <2> SUFFICES ASSUME walk' = walk PROVE WalkSound'
    OBVIOUS
  <2>1. Matches(walk.of.filter, walk.of.query)' = Matches(walk.of.filter, walk.of.query)
    BY <1>1 DEF Matches, MatchesOf
  <2>2. \A e : Newer(e, Matches(walk.of.filter, walk.of.query))' = Newer(e, Matches(walk.of.filter, walk.of.query))
    BY <1>1 DEF Newer, Matches, MatchesOf
  <2>3. \A e : Tied(e)' <=> Tied(e)
    BY <1>1 DEF Tied
  <2> QED BY <1>1, <2>1, <2>2, <2>3 DEF ListsInv, WalkSound
<1> QED BY <1>2, <1>3, <1>4, <1>5, <1>6, <1>7

\* What the page asks for: nothing new, or the first page, or the same list at
\* the page shown, the one before it, or the one after a full one.
Asks(c) ==
    /\ Loads(c) /\ c.filter = filter' /\ c.query = query' /\ c.page = page' /\ c \in ListChoice
    /\ page' \in Nat \ {0} /\ page' <= askedSo + 1
    /\ \/ page' = 1
       \/ /\ filter' = filter /\ query' = query
          /\ \/ page' <= page
             \/ page' = page + 1 /\ Cardinality(listed.rows) >= PageSize
Quiet == UNCHANGED <<filter, query, page, listLoads, askedSo, mishaps>>
ByThePage ==
    /\ UNCHANGED <<tableVars, paged, listed, walk>>
    /\ sought' \in Terms /\ timer' \in BOOLEAN /\ alarm' \in BOOLEAN
    /\ \/ Quiet /\ spinner' = spinner
       \/ spinner' \in BOOLEAN /\ \E c \in ListChoice : Asks(c)

LEMMA ListFacts ==
    ASSUME ListsInv
    PROVE  /\ filter \in Filters /\ query \in Terms /\ sought \in Terms /\ page \in Nat \ {0} /\ page <= askedSo
           /\ askedSo \in Nat /\ askedSo <= MaxAsks /\ PageSize \in Nat \ {0} /\ MaxAsks \in Nat /\ "all" \in Filters
           /\ rowEdits \in Nat /\ made \in Nat /\ MaxRowEdits \in Nat /\ rowEdits <= MaxRowEdits
           /\ MaxEntries \in Nat /\ made <= MaxEntries /\ bornAt \in [Entry -> Nat] /\ Entry = 1 .. MaxEntries
           /\ paged \in BOOLEAN /\ timer \in BOOLEAN /\ spinner \in BOOLEAN /\ alarm \in BOOLEAN
           /\ listed \in Answer /\ listed.of \in ListChoice /\ listed.rows \in SUBSET Entry
           /\ Matches(filter, query) \in SUBSET Entry /\ Cardinality(Matches(filter, query)) \in Nat
           /\ \A a \in listLoads : LoadSound(a) /\ a \in ListLoad /\ a.answer \in Answer /\ a.answer.of \in ListChoice
           /\ \A c : c \in ListChoice <=> c = [filter |-> c.filter, query |-> c.query, page |-> c.page]
                                          /\ c.filter \in Filters /\ c.query \in Terms /\ c.page \in 1 .. MaxAsks + 1
<1>1. ListingsTypeOK
  BY DEF ListsInv
<1>2. filter \in Filters /\ query \in Terms /\ page \in 1 .. MaxAsks + 1 /\ sought \in Terms
  BY <1>1 DEF ListingsTypeOK, ListChoice
<1>3. /\ PageSize \in Nat \ {0} /\ MaxAsks \in Nat /\ "all" \in Filters /\ MaxRowEdits \in Nat /\ MaxEntries \in Nat
      /\ Entry = 1 .. MaxEntries
  BY ListingsAssumption DEF Entry
<1>4. askedSo \in Nat /\ askedSo <= MaxAsks /\ rowEdits \in Nat /\ rowEdits <= MaxRowEdits /\ made \in Nat /\ made <= MaxEntries
  BY <1>1, <1>3 DEF ListingsTypeOK
<1>5. bornAt \in [Entry -> Nat]
  BY <1>1, <1>3 DEF ListingsTypeOK
<1>6. paged \in BOOLEAN /\ timer \in BOOLEAN /\ spinner \in BOOLEAN /\ alarm \in BOOLEAN
  BY <1>1 DEF ListingsTypeOK
<1>7. listed \in Answer /\ listed.of \in ListChoice /\ listed.rows \in SUBSET Entry
  BY <1>1 DEF ListingsTypeOK, Answer
<1>8. Matches(filter, query) \in SUBSET Entry /\ Cardinality(Matches(filter, query)) \in Nat
  BY <1>1, <1>2, <1>3, Matching, RowsCounted
<1>9. \A a \in listLoads : LoadSound(a) /\ a \in ListLoad /\ a.answer \in Answer /\ a.answer.of \in ListChoice
  BY DEF ListsInv, LoadSound, ListLoad, Answer
<1>10. \A c : c \in ListChoice <=> c = [filter |-> c.filter, query |-> c.query, page |-> c.page]
                                   /\ c.filter \in Filters /\ c.query \in Terms /\ c.page \in 1 .. MaxAsks + 1
  BY DEF ListChoice
<1>11. page <= askedSo
  BY DEF ListsInv, RestSound
<1> QED BY <1>2, <1>3, <1>4, <1>5, <1>6, <1>7, <1>8, <1>9, <1>10, <1>11

LEMMA Choosing ==
    ASSUME ListsInv, NEW f \in Filters, NEW q \in Terms, NEW p \in Nat \ {0}, Chooses(f, q, p),
           p <= askedSo + 1,
           p = 1 \/ (f = filter /\ q = query
                     /\ (p <= page \/ (p = page + 1 /\ Cardinality(listed.rows) >= PageSize)))
    PROVE  \/ Quiet /\ spinner' = spinner /\ alarm' = alarm
           \/ spinner' = TRUE /\ alarm' = FALSE /\ \E c \in ListChoice : Asks(c)
<1>1. PICK c : c = [filter |-> f, query |-> q, page |-> p]
  OBVIOUS
<1>2. filter' = f /\ query' = q /\ page' = p
  BY DEF Chooses
<1>3. CASE c = [filter |-> filter, query |-> query, page |-> page]
  <2>1. f = filter /\ q = query /\ p = page
    BY <1>1, <1>3
  <2> QED BY <1>1, <1>2, <1>3, <2>1 DEF Chooses, Quiet
<1>4. CASE c # [filter |-> filter, query |-> query, page |-> page]
  <2>1. Loads(c) /\ spinner' = TRUE /\ alarm' = FALSE
    BY <1>1, <1>4 DEF Chooses
  <2>2. c \in ListChoice
    <3>1. p \in 1 .. MaxAsks + 1
      BY ListFacts
    <3> QED BY <1>1, <3>1 DEF ListChoice
  <2>3. c.filter = filter' /\ c.query = query' /\ c.page = page'
    BY <1>1, <1>2
  <2>4. /\ p = 1 \/ (f = filter /\ q = query /\ (p <= page \/ (p = page + 1 /\ Cardinality(listed.rows) >= PageSize)))
        /\ p \in Nat \ {0} /\ p <= askedSo + 1
    OBVIOUS
  <2>5. Asks(c)
    BY <1>2, <2>1, <2>2, <2>3, <2>4 DEF Asks
  <2> QED BY <2>1, <2>2, <2>5
<1> QED BY <1>3, <1>4

LEMMA PageActs ==
    ASSUME ListsInv,
           \/ \E f \in Filters : SetFilter(f)
           \/ NextPage \/ PrevPage \/ TimerFires \/ ReloadList
           \/ \E t \in Terms : TypeSearch(t)
    PROVE  ByThePage
<1>1. ASSUME NEW f \in Filters, SetFilter(f) PROVE ByThePage
  <2>1. Chooses(f, query, 1) /\ UNCHANGED <<tableVars, paged, sought, timer, listed, walk>>
    BY <1>1 DEF SetFilter, PageAfterFilter
  <2>2. \/ Quiet /\ spinner' = spinner /\ alarm' = alarm
        \/ spinner' = TRUE /\ alarm' = FALSE /\ \E c \in ListChoice : Asks(c)
    <3>1. 1 \in Nat \ {0} /\ 1 <= askedSo + 1
      BY ListFacts
    <3> QED BY <2>1, <3>1, Choosing, ListFacts
  <2> QED BY <2>1, <2>2, ListFacts, Zenon DEF ByThePage
<1>2. ASSUME NextPage PROVE ByThePage
  <2>1. /\ Chooses(filter, query, page + 1) /\ UNCHANGED <<tableVars, paged, sought, timer, listed, walk>>
        /\ Cardinality(listed.rows) >= PageSize
    BY <1>2 DEF NextPage
  <2>2. page + 1 \in Nat \ {0} /\ page + 1 <= askedSo + 1
    BY ListFacts
  <2>3. \/ Quiet /\ spinner' = spinner /\ alarm' = alarm
        \/ spinner' = TRUE /\ alarm' = FALSE /\ \E c \in ListChoice : Asks(c)
    BY <2>1, <2>2, Choosing, ListFacts
  <2> QED BY <2>1, <2>3, ListFacts, Zenon DEF ByThePage
<1>3. ASSUME PrevPage PROVE ByThePage
  <2>1. /\ Chooses(filter, query, page - 1) /\ UNCHANGED <<tableVars, paged, sought, timer, listed, walk>>
        /\ page > 1
    BY <1>3 DEF PrevPage
  <2>2. page - 1 \in Nat \ {0} /\ page - 1 <= askedSo + 1 /\ page - 1 <= page
    BY <2>1, ListFacts
  <2>3. \/ Quiet /\ spinner' = spinner /\ alarm' = alarm
        \/ spinner' = TRUE /\ alarm' = FALSE /\ \E c \in ListChoice : Asks(c)
    BY <2>1, <2>2, Choosing, ListFacts
  <2> QED BY <2>1, <2>3, ListFacts, Zenon DEF ByThePage
<1>4. ASSUME TimerFires PROVE ByThePage
  <2>1. Chooses(filter, sought, 1) /\ UNCHANGED <<tableVars, paged, sought, listed, walk>> /\ timer' = FALSE
    BY <1>4 DEF TimerFires
  <2>2. \/ Quiet /\ spinner' = spinner /\ alarm' = alarm
        \/ spinner' = TRUE /\ alarm' = FALSE /\ \E c \in ListChoice : Asks(c)
    <3>1. 1 \in Nat \ {0} /\ 1 <= askedSo + 1
      BY ListFacts
    <3> QED BY <2>1, <3>1, Choosing, ListFacts
  <2> QED BY <2>1, <2>2, ListFacts, Zenon DEF ByThePage
<1>5. ASSUME ReloadList PROVE ByThePage
  <2>1. PICK c : c = [filter |-> filter, query |-> query, page |-> page]
    OBVIOUS
  <2>2. /\ Loads(c) /\ UNCHANGED <<tableVars, paged, filter, query, page, sought, timer, listed, spinner, alarm, walk>>
    BY <1>5, <2>1 DEF ReloadList
  <2>3. c \in ListChoice
    BY <2>1 DEF ListsInv, ListingsTypeOK
  <2>30. c.filter = filter' /\ c.query = query' /\ c.page = page' /\ filter' = filter /\ query' = query /\ page' = page
    BY <2>1, <2>2
  <2>31. page' \in Nat \ {0} /\ page' <= askedSo + 1 /\ page' <= page
    BY <2>30, ListFacts
  <2>4. Asks(c)
    BY <2>2, <2>3, <2>30, <2>31 DEF Asks
  <2> QED BY <2>2, <2>3, <2>4, ListFacts, Zenon DEF ByThePage
<1>6. ASSUME NEW t \in Terms, TypeSearch(t) PROVE ByThePage
  BY <1>6, ListFacts, Zenon DEF TypeSearch, ByThePage, Quiet
<1> QED BY <1>1, <1>2, <1>3, <1>4, <1>5, <1>6

\* A load that has just been asked for.
LEMMA Asked ==
    ASSUME ListsInv, NEW c \in ListChoice, Loads(c)
    PROVE  \E a : /\ listLoads' = listLoads \cup {a} /\ a.answer.of = c /\ a.answer.rows = {} /\ a.stage = "asked"
                  /\ a \in ListLoad /\ a.answer.rowsAt = 0 /\ a.answer \in Answer
<1>1. PICK a : a = AskFor(c)
  OBVIOUS
<1>2. PICK x : x = [of |-> c, nr |-> askedSo + 1, rows |-> {}, total |-> 0, rowsAt |-> 0, totalAt |-> 0]
  OBVIOUS
<1>3. a = [stage |-> "asked", answer |-> x]
  BY <1>1, <1>2 DEF AskFor, NoAnswer
<1>4. x \in Answer
  <2>1. askedSo + 1 \in 0 .. MaxAsks /\ 0 \in 0 .. MaxEntries /\ 0 \in 0 .. MaxRowEdits
    BY ListFacts DEF Loads
  <2> QED BY <1>2, <2>1 DEF Answer
<1>5. a \in ListLoad
  BY <1>3, <1>4 DEF ListLoad
<1>6. listLoads' = listLoads \cup {a}
  BY <1>1 DEF Loads
<1>7. a.answer = x /\ a.stage = "asked" /\ x.of = c /\ x.rows = {} /\ x.rowsAt = 0
  BY <1>2, <1>3
<1> QED BY <1>4, <1>5, <1>6, <1>7

LEMMA PageActsStep == ListsInv /\ ByThePage => ListsInv'
<1> SUFFICES ASSUME ListsInv, ByThePage PROVE ListsInv'
  OBVIOUS
<1>1. /\ UNCHANGED <<made, bornAt, standing, rowEdits, paged, listed, walk>> /\ UNCHANGED <<tableVars, paged>>
      /\ sought' \in Terms /\ timer' \in BOOLEAN /\ alarm' \in BOOLEAN
  BY DEF ByThePage, tableVars
<1>2. /\ TableSound' /\ WalkSound' /\ \A x : (Rightly(x)' <=> Rightly(x)) /\ (Counts(x)' <=> Counts(x))
      /\ \A a : LoadSound(a) => LoadSound(a)'
  BY <1>1, TableKept
<1>3. CASE Quiet /\ spinner' = spinner
  <2>1. UNCHANGED <<filter, query, page, listLoads, askedSo, mishaps, spinner>>
    BY <1>3 DEF Quiet
  <2>2. ListingsTypeOK'
    BY <1>1, <2>1 DEF ListsInv, ListingsTypeOK
  <2>3. Matches(filter, query)' = Matches(filter, query) /\ Chosen' = Chosen
    BY <1>1, <2>1 DEF Matches, MatchesOf, Chosen
  <2>4. \A x : Onward(x)' <=> Onward(x)
    BY <2>1, <2>3 DEF Onward
  <2>5. OffsetOf(page)' = OffsetOf(page)
    BY <2>1 DEF OffsetOf
  <2>6. (paged => Counts(listed)) /\ (Rightly(listed)' <=> Rightly(listed)) /\ (Counts(listed)' <=> Counts(listed))
        /\ (Onward(listed)' <=> Onward(listed))
    BY <1>1, <2>1, <2>3 DEF ListsInv, RestSound, Rightly, Counts, Onward, Slices, Firsts, Matches, MatchesOf
  <2>7. RestSound'
    BY <1>1, <2>1, <2>3, <2>4, <2>5, <2>6 DEF ListsInv, RestSound
  <2>8. \A a \in listLoads' : LoadSound(a)'
    BY <1>2, <2>1 DEF ListsInv
  <2> QED BY <1>2, <2>2, <2>7, <2>8 DEF ListsInv
<1>4. ASSUME spinner' \in BOOLEAN, NEW c \in ListChoice, Asks(c) PROVE ListsInv'
  <2>1. /\ Loads(c) /\ c.filter = filter' /\ c.query = query' /\ c.page = page'
        /\ page' \in Nat \ {0} /\ page' <= askedSo + 1 /\ askedSo' = askedSo + 1 /\ askedSo < MaxAsks
        /\ mishaps' = IF listLoads # {} THEN mishaps \cup {"haste"} ELSE IF c.page = 1 THEN {} ELSE mishaps
    BY <1>4 DEF Asks, Loads
  <2>2. PICK a : /\ listLoads' = listLoads \cup {a} /\ a.answer.of = c /\ a.answer.rows = {} /\ a.stage = "asked"
                 /\ a \in ListLoad /\ a.answer.rowsAt = 0 /\ a.answer \in Answer
    BY <2>1, Asked
  <2>3. c = [filter |-> filter', query |-> query', page |-> page'] /\ Chosen' = c
    BY <2>1, ListFacts DEF Chosen
  <2>4. ListingsTypeOK'
    <3>1. \A b \in listLoads' : b.answer \in Answer /\ b.stage \in {"asked", "read", "answering"}
      BY <2>2 DEF ListsInv, ListingsTypeOK
    <3>2. mishaps' \subseteq {"haste", "departure"} /\ askedSo' \in 0 .. MaxAsks /\ (spinner' => listLoads' # {})
      BY <2>1, <2>2, ListFacts DEF ListsInv, ListingsTypeOK
    <3> QED BY <1>1, <1>4, <2>3, <3>1, <3>2 DEF ListsInv, ListingsTypeOK
  <2>5. \A b \in listLoads' : LoadSound(b)'
    <3>1. LoadSound(a)'
      BY <1>1, <2>2, ListFacts DEF LoadSound
    <3> QED BY <1>2, <2>2, <3>1 DEF ListsInv
  <2>6. \A x : x.rows = {} => Onward(x)'
    <3>1. PageSize \in Nat \ {0} /\ Cardinality({}) = 0
      BY ListFacts, RowsCounted
    <3> QED BY <3>1 DEF Onward
  <2>7. mishaps' = {} => OffsetOf(page)' <= Cardinality(Matches(filter, query)')
    <3>0. PageSize \in Nat \ {0}
      BY ListFacts
    <3>1. CASE page' = 1
      <4>1. filter' \in Filters /\ query' \in Terms
        BY <2>1, ListFacts
      <4>2. Matches(filter, query)' \in SUBSET Entry
        BY <4>1, ListingsAssumption DEF Matches, MatchesOf, Terms
      <4>3. Cardinality(Matches(filter, query)') \in Nat
        BY <4>2, ListFacts, RowsCounted
      <4> QED BY <3>0, <3>1, <4>3 DEF OffsetOf
    <3>2. CASE page' # 1 /\ mishaps' = {}
      <4>1. mishaps = {} /\ listLoads = {} /\ filter' = filter /\ query' = query
            /\ (page' <= page \/ (page' = page + 1 /\ Cardinality(listed.rows) >= PageSize))
        BY <1>4, <2>1, <3>2 DEF Asks
      <4>2. OffsetOf(page) <= Cardinality(Matches(filter, query)) /\ Onward(listed)
        BY <4>1 DEF ListsInv, RestSound
      <4>3. Matches(filter, query)' = Matches(filter, query) /\ Cardinality(Matches(filter, query)) \in Nat
        BY <1>1, <4>1, ListFacts DEF Matches, MatchesOf
      <4>4. CASE page' <= page
        <5>1. PICK d \in Nat : page = page' + d
          <6>1. page - page' \in Nat /\ page = page' + (page - page')
            BY <2>1, <4>4, ListFacts
          <6> QED BY <6>1
        <5>2. PICK k \in Nat : page' = k + 1
          <6>1. PICK n \in Nat \ {0} : n = page'
            BY <2>1
          <6>2. n - 1 \in Nat /\ n = (n - 1) + 1
            OBVIOUS
          <6> QED BY <6>1, <6>2
        <5>3. OffsetOf(page)' = k * PageSize /\ OffsetOf(page) = k * PageSize + d * PageSize
              /\ d * PageSize \in Nat /\ k * PageSize \in Nat
          BY <3>0, <5>1, <5>2 DEF OffsetOf
        <5> QED BY <4>2, <4>3, <5>3
      <4>5. CASE page' = page + 1 /\ Cardinality(listed.rows) >= PageSize
        <5>1. OffsetOf(page)' = page * PageSize
          BY <4>5, ListFacts DEF OffsetOf
        <5> QED BY <4>2, <4>3, <4>5, <5>1 DEF Onward
      <4> QED BY <4>1, <4>4, <4>5
    <3> QED BY <3>1, <3>2
  <2>8. RestSound'
    <3>1. listLoads # {} => "haste" \in mishaps'
      BY <2>1
    <3>2. listed'.rowsAt <= rowEdits' /\ (paged' => Counts(listed)') /\ page' <= askedSo'
      BY <1>1, <1>2, <2>1 DEF ListsInv, RestSound, Counts
    <3>3. listLoads = {} => listLoads' = {a}
      BY <2>2
    <3> QED BY <2>2, <2>3, <2>6, <2>7, <3>1, <3>2, <3>3 DEF RestSound
  <2> QED BY <1>2, <2>4, <2>5, <2>8 DEF ListsInv
<1> QED BY <1>3, <1>4 DEF ByThePage

\* The next page of a walk, or its first.
LEMMA WalkStep ==
    ASSUME ListsInv, UNCHANGED tableVars, NEW x \in Answer, x.of \in ListChoice,
           NEW rows \in Slices(Matches(x.of.filter, x.of.query), OffsetOf(x.of.page)),
           walk' = Walked(x, rows)
    PROVE  WalkSound' /\ walk'.seen \subseteq Entry /\ walk'.twice \subseteq walk'.seen /\ walk'.steady \subseteq Entry
<1>1. UNCHANGED <<made, bornAt, standing, rowEdits>>
  BY DEF tableVars
<1>2. PICK c \in ListChoice : c = x.of
  OBVIOUS
<1>3. c.filter \in Filters /\ c.query \in Terms /\ c.page \in Nat \ {0}
  BY ListFacts
<1>4. PICK M \in SUBSET Entry : M = Matches(c.filter, c.query)
  BY <1>3, Matching DEF ListsInv
<1>5. M \subseteq 1 .. made
  BY <1>4, ListFacts, SMTT(30) DEF Matches, MatchesOf, ListsInv, TableSound
<1>6. /\ rows \subseteq M /\ Cardinality(rows) <= PageSize /\ Cardinality(rows) \in Nat
      /\ OffsetOf(c.page) = (c.page - 1) * PageSize
      /\ \A e \in rows : \/ Tied(e)
                         \/ /\ OffsetOf(c.page) <= Cardinality(Newer(e, M))
                            /\ Cardinality(Newer(e, M)) < c.page * PageSize
      /\ \A e \in M \ rows : \/ Tied(e) \/ Cardinality(Newer(e, M)) < OffsetOf(c.page)
                             \/ (c.page * PageSize <= Cardinality(Newer(e, M)) /\ Cardinality(rows) = PageSize)
  <2>1. rows \in Slices(M, OffsetOf(c.page)) /\ bornAt \in [Entry -> Nat]
    BY <1>2, <1>4, ListFacts
  <2>2. rows \in SUBSET Entry => Cardinality(rows) \in Nat
    BY RowsCounted
  <2> QED BY <1>3, <2>1, <2>2, SliceCut
<1>7. \A e : Cardinality(Newer(e, M)) \in Nat
  <2>1. \A e : Newer(e, M) \in SUBSET Entry
    BY DEF Newer
  <2> QED BY <2>1, RowsCounted
<1>8. PageSize \in Nat \ {0} /\ (1 .. made) \subseteq Entry
  BY ListFacts
<1>9. \A e : (Tied(e)' <=> Tied(e)) /\ Newer(e, M)' = Newer(e, M)
  BY <1>1 DEF Tied, Newer
<1>0. PICK b \in BOOLEAN : (b = TRUE) <=> Cardinality(rows) < PageSize
  <2>1. CASE Cardinality(rows) < PageSize
    BY <2>1
  <2>2. CASE ~(Cardinality(rows) < PageSize)
    BY <2>2
  <2> QED BY <2>1, <2>2
<1>00. b = (Cardinality(rows) < PageSize)
  BY <1>0
<1>10. CASE c.page = 1
  <2>1. walk' = [at |-> 1, of |-> c, seen |-> rows, twice |-> {}, came |-> FALSE, left |-> FALSE,
                 steady |-> M, done |-> b]
    <3>1. walk' = [at |-> 1, of |-> c, seen |-> rows, twice |-> {}, came |-> FALSE, left |-> FALSE,
                   steady |-> M, done |-> Cardinality(rows) < PageSize]
      BY <1>2, <1>4, <1>10 DEF Walked
    <3> QED BY <1>00, <3>1, Zenon
  <2>2. Matches(walk.of.filter, walk.of.query)' = M
    BY <1>1, <1>4, <2>1 DEF Matches, MatchesOf
  <2>3. walk' \in [at : Nat \ {0}, of : ListChoice, seen : SUBSET (1 .. made), twice : SUBSET Entry,
                   steady : SUBSET M, came : BOOLEAN, left : BOOLEAN, done : BOOLEAN]
    BY <1>5, <1>6, <2>1
  <2>4. \A e \in rows : Tied(e) \/ Cardinality(Newer(e, M)) < 1 * PageSize
    BY <1>6, <1>10
  <2>5. \A e \in M \ rows : Tied(e) \/ (~(Cardinality(rows) < PageSize) /\ 1 * PageSize <= Cardinality(Newer(e, M)))
    BY <1>6, <1>7, <1>8, <1>10
  <2>6. /\ walk'.at = 1 /\ walk'.seen = rows /\ walk'.twice = {} /\ walk'.steady = M
        /\ walk'.done = b
    BY <2>1
  <2>7. WalkSound'
    BY <1>0, <1>1, <1>9, <2>2, <2>3, <2>4, <2>5, <2>6 DEF WalkSound
  <2> QED BY <1>5, <1>6, <1>8, <2>6, <2>7
<1>11. CASE c.page # 1 /\ walk.at > 0 /\ c = [walk.of EXCEPT !.page = walk.at + 1] /\ ~walk.done
  <2>1. walk' = [walk EXCEPT !.at = @ + 1, !.seen = @ \cup rows, !.twice = @ \cup (walk.seen \cap rows),
                             !.done = b]
    <3>1. walk' = [walk EXCEPT !.at = @ + 1, !.seen = @ \cup rows, !.twice = @ \cup (walk.seen \cap rows),
                               !.done = Cardinality(rows) < PageSize]
      BY <1>2, <1>11 DEF Walked
    <3> QED BY <1>00, <3>1, Zenon
  <2>2. PICK W : W = Matches(walk.of.filter, walk.of.query)
    OBVIOUS
  <2>3. /\ walk \in [at : Nat \ {0}, of : ListChoice, seen : SUBSET (1 .. made), twice : SUBSET Entry,
                     steady : SUBSET W, came : BOOLEAN, left : BOOLEAN, done : BOOLEAN]
        /\ ~walk.came => \A e \in walk.twice : Tied(e)
        /\ ~walk.came => \A e \in walk.seen : Tied(e) \/ Cardinality(Newer(e, W)) < walk.at * PageSize
        /\ ~walk.left => \A e \in walk.steady \ walk.seen :
              Tied(e) \/ (~walk.done /\ walk.at * PageSize <= Cardinality(Newer(e, W)))
    BY <1>11, <2>2 DEF ListsInv, WalkSound
  <2>4. c.filter = walk.of.filter /\ c.query = walk.of.query /\ c.page = walk.at + 1
    BY <1>11, <2>3 DEF ListChoice
  <2>5. W = M
    BY <1>4, <2>2, <2>4
  <2>6. OffsetOf(c.page) = walk.at * PageSize /\ walk.at * PageSize \in Nat
        /\ c.page * PageSize = walk.at * PageSize + PageSize
    BY <1>6, <1>8, <2>3, <2>4
  <2>7. /\ walk'.at = walk.at + 1 /\ walk'.of = walk.of /\ walk'.seen = walk.seen \cup rows
        /\ walk'.twice = walk.twice \cup (walk.seen \cap rows) /\ walk'.steady = walk.steady
        /\ walk'.came = walk.came /\ walk'.left = walk.left
        /\ walk'.done = b
    BY <2>1, <2>3
  <2>8. Matches(walk.of.filter, walk.of.query)' = M
    BY <1>1, <2>2, <2>5, <2>7 DEF Matches, MatchesOf
  <2>9. walk' \in [at : Nat \ {0}, of : ListChoice, seen : SUBSET (1 .. made), twice : SUBSET Entry,
                   steady : SUBSET M, came : BOOLEAN, left : BOOLEAN, done : BOOLEAN]
    <3>1. walk.twice \cup (walk.seen \cap rows) \subseteq Entry /\ walk.seen \cup rows \subseteq 1 .. made
      BY <1>5, <1>6, <2>3
    <3>2. walk' = [at |-> walk.at + 1, of |-> walk.of, seen |-> walk.seen \cup rows,
                   twice |-> walk.twice \cup (walk.seen \cap rows), steady |-> walk.steady,
                   came |-> walk.came, left |-> walk.left, done |-> b]
      BY <2>1, <2>3
    <3> QED BY <2>3, <2>5, <3>1, <3>2
  <2>10. ~walk.came => \A e \in walk.twice \cup (walk.seen \cap rows) : Tied(e)
    BY <1>6, <1>7, <2>3, <2>5, <2>6
  <2>11. ~walk.came => \A e \in walk.seen \cup rows : Tied(e) \/ Cardinality(Newer(e, M)) < (walk.at + 1) * PageSize
    BY <1>6, <1>7, <1>8, <2>3, <2>4, <2>5, <2>6
  <2>12. ~walk.left => \A e \in walk.steady \ (walk.seen \cup rows) :
            Tied(e) \/ (~(Cardinality(rows) < PageSize) /\ (walk.at + 1) * PageSize <= Cardinality(Newer(e, M)))
    BY <1>6, <1>7, <1>8, <2>3, <2>4, <2>5, <2>6
  <2>13. WalkSound'
    BY <1>0, <1>1, <1>9, <2>7, <2>8, <2>9, <2>10, <2>11, <2>12 DEF WalkSound
  <2>14. walk.twice \subseteq walk.seen /\ walk.seen \subseteq Entry /\ walk.steady \subseteq Entry
    BY DEF ListsInv, ListingsTypeOK
  <2> QED BY <1>6, <2>7, <2>13, <2>14
<1>12. CASE c.page # 1 /\ ~(walk.at > 0 /\ c = [walk.of EXCEPT !.page = walk.at + 1] /\ ~walk.done)
  <2>1. walk' = NoWalk
    BY <1>2, <1>12 DEF Walked
  <2>2. /\ walk' \in [at : {0}, seen : SUBSET Entry, twice : SUBSET Entry, steady : SUBSET Entry,
                      came : BOOLEAN, left : BOOLEAN, done : BOOLEAN]
        /\ walk'.seen = {} /\ walk'.twice = {} /\ walk'.steady = {}
    BY <2>1 DEF NoWalk
  <2> QED BY <2>2 DEF WalkSound, Entry
<1> QED BY <1>10, <1>11, <1>12

\* What a step keeps that leaves the table and what the page asks for alone.
LEMMA ChoiceKept ==
    ASSUME UNCHANGED <<tableVars, paged, filter, query, page>>
    PROVE  /\ Chosen' = Chosen /\ Matches(filter, query)' = Matches(filter, query) /\ OffsetOf(page)' = OffsetOf(page)
           /\ \A x : Onward(x)' <=> Onward(x)
<1>1. UNCHANGED <<made, bornAt, standing, rowEdits, filter, query, page>>
  BY DEF tableVars
<1>2. Matches(filter, query)' = Matches(filter, query)
  BY <1>1 DEF Matches, MatchesOf
<1> QED BY <1>1, <1>2 DEF Onward, OffsetOf, Chosen

\* A load moves on: b takes the place of a.
LEMMA LoadMoves ==
    ASSUME ListsInv, NEW a \in listLoads, NEW b, b.answer.of = a.answer.of, LoadSound(b)',
           listLoads' = (listLoads \ {a}) \cup {b}, b \in ListLoad,
           UNCHANGED <<tableVars, paged, filter, query, page, sought, timer, listed, spinner, alarm, askedSo, mishaps>>,
           mishaps = {} => Onward(b.answer),
           walk'.seen \subseteq Entry, walk'.twice \subseteq walk'.seen, walk'.steady \subseteq Entry, WalkSound'
    PROVE  ListsInv'
<1>1. UNCHANGED <<made, bornAt, standing, rowEdits>> /\ UNCHANGED <<tableVars, paged>>
      /\ UNCHANGED <<tableVars, paged, filter, query, page>>
  BY DEF tableVars
<1>2. TableSound' /\ \A d : LoadSound(d) => LoadSound(d)'
  BY <1>1, TableKept
<1>3. ListingsTypeOK'
  <2>1. \A d \in listLoads' : d.answer \in Answer /\ d.stage \in {"asked", "read", "answering"}
    BY DEF ListsInv, ListingsTypeOK, ListLoad
  <2> QED BY <1>1, <2>1 DEF ListsInv, ListingsTypeOK
<1>4. \A d \in listLoads' : LoadSound(d)'
  BY <1>2 DEF ListsInv
<1>5. RestSound'
  <2>1. \A d : Onward(d)' <=> Onward(d)
    BY <1>1, ChoiceKept
  <2>2. Chosen' = Chosen /\ Matches(filter, query)' = Matches(filter, query) /\ OffsetOf(page)' = OffsetOf(page)
    BY <1>1, ChoiceKept
  <2>3. Counts(listed)' <=> Counts(listed)
    BY DEF Counts
  <2>4. listLoads' # {} /\ b \in listLoads'
    OBVIOUS
  <2>5. "haste" \notin mishaps => listLoads = {a} /\ listLoads' = {b} /\ b.answer.of = Chosen
    BY DEF ListsInv, RestSound
  <2>6. mishaps = {} => OffsetOf(page) <= Cardinality(Matches(filter, query)) /\ Onward(b.answer) /\ listLoads' = {b}
    BY <2>5 DEF ListsInv, RestSound
  <2>7. listed.rowsAt <= rowEdits /\ (paged => Counts(listed)) /\ page <= askedSo
    BY DEF ListsInv, RestSound
  <2> QED BY <1>1, <2>1, <2>2, <2>3, <2>4, <2>5, <2>6, <2>7 DEF RestSound
<1> QED BY <1>2, <1>3, <1>4, <1>5 DEF ListsInv

LEMMA ReadRowsStep == \A a \in listLoads : ListsInv /\ ReadRows(a) => ListsInv'
<1> SUFFICES ASSUME NEW a \in listLoads, ListsInv, ReadRows(a) PROVE ListsInv'
  OBVIOUS
<1>1. PICK c \in ListChoice : c = a.answer.of
  BY ListFacts
<1>2. PICK rows \in Slices(Matches(c.filter, c.query), OffsetOf(c.page)) :
          /\ listLoads' = (listLoads \ {a}) \cup {[stage |-> IF paged THEN "read" ELSE "answering",
                                         answer |-> [a.answer EXCEPT !.rows = rows, !.rowsAt = rowEdits]]}
          /\ walk' = Walked(a.answer, rows)
  BY <1>1 DEF ReadRows
<1>3. /\ UNCHANGED <<tableVars, paged, filter, query, page, sought, timer, listed, spinner, alarm, askedSo, mishaps>>
      /\ a.stage = "asked" /\ UNCHANGED <<made, bornAt, standing, rowEdits>> /\ UNCHANGED <<tableVars, paged>>
      /\ UNCHANGED tableVars
  BY DEF ReadRows, tableVars
<1>4. /\ a.answer \in Answer /\ c.filter \in Filters /\ c.query \in Terms /\ c.page \in Nat \ {0} /\ rowEdits \in 0 .. MaxRowEdits
      /\ bornAt \in [Entry -> Nat] /\ PageSize \in Nat \ {0} /\ rowEdits \in Nat
  BY ListFacts
<1>5. PICK M \in SUBSET Entry : M = Matches(c.filter, c.query)
  BY <1>4, Matching DEF ListsInv
<1>6. /\ rows \subseteq M /\ OffsetOf(c.page) + PageSize = c.page * PageSize /\ OffsetOf(c.page) \in Nat
      /\ rows # {} => OffsetOf(c.page) + Cardinality(rows) <= Cardinality(M)
      /\ Cardinality(rows) \in Nat /\ Cardinality(M) \in Nat
  <2>1. rows \in Slices(M, OffsetOf(c.page))
    BY <1>5
  <2>2. rows \subseteq M
    BY <1>4, <2>1, SliceCut
  <2>3. Cardinality(rows) \in Nat /\ Cardinality(M) \in Nat
    BY <2>2, ListFacts, RowsCounted
  <2> QED BY <1>4, <2>1, <2>2, <2>3, SliceCut
<1>7. WalkSound' /\ walk'.seen \subseteq Entry /\ walk'.twice \subseteq walk'.seen /\ walk'.steady \subseteq Entry
  BY <1>1, <1>2, <1>3, <1>4, WalkStep
<1>8. PICK y : y = [a.answer EXCEPT !.rows = rows, !.rowsAt = rowEdits]
  OBVIOUS
<1>9. y.of = c /\ y.rows = rows /\ y.rowsAt = rowEdits /\ y.totalAt = a.answer.totalAt /\ y \in Answer
  BY <1>1, <1>4, <1>6, <1>8 DEF Answer
<1>10. PICK b : b = [stage |-> IF paged THEN "read" ELSE "answering", answer |-> y]
  OBVIOUS
<1>11. b.answer = y /\ b.stage # "asked" /\ (b.stage = "answering" => ~paged) /\ b \in ListLoad
       /\ listLoads' = (listLoads \ {a}) \cup {b} /\ b.answer.of = a.answer.of
  BY <1>1, <1>2, <1>8, <1>9, <1>10 DEF ListLoad
<1>12. LoadSound(b)'
  <2>1. Rightly(y)
    BY <1>5, <1>9 DEF Rightly
  <2>2. Rightly(y)'
    BY <1>3, <2>1, TableKept
  <2> QED BY <1>3, <1>4, <1>9, <1>11, <2>2 DEF LoadSound
<1>13. mishaps = {} => Onward(y)
  <2> SUFFICES ASSUME mishaps = {}, Cardinality(rows) >= PageSize PROVE page * PageSize <= Cardinality(Matches(filter, query))
    BY <1>9 DEF Onward
  <2>1. c = Chosen
    BY <1>1 DEF ListsInv, RestSound
  <2>2. c.filter = filter /\ c.query = query /\ c.page = page
    BY <2>1 DEF Chosen
  <2>3. rows # {}
    BY <1>4, RowsCounted
  <2> QED BY <1>4, <1>5, <1>6, <2>2, <2>3
<1> QED BY <1>3, <1>7, <1>11, <1>12, <1>13, LoadMoves

LEMMA SummaryStep == \A a \in listLoads : ListsInv /\ ReadSummary(a) => ListsInv'
<1> SUFFICES ASSUME NEW a \in listLoads, ListsInv, ReadSummary(a) PROVE ListsInv'
  OBVIOUS
<1>1. PICK c \in ListChoice : c = a.answer.of
  BY ListFacts
<1>2. PICK M : M = Matches(c.filter, c.query)
  OBVIOUS
<1>3. /\ UNCHANGED <<tableVars, paged, filter, query, page, sought, timer, listed, spinner, alarm, askedSo, mishaps>>
      /\ a.stage = "read" /\ walk' = walk /\ UNCHANGED <<made, bornAt, standing, rowEdits>> /\ UNCHANGED <<tableVars, paged>>
      /\ listLoads' = (listLoads \ {a}) \cup {[stage |-> "answering",
                  answer |-> [a.answer EXCEPT !.totalAt = rowEdits, !.total = Cardinality(M)]]}
  BY <1>1, <1>2 DEF ReadSummary, tableVars
<1>4. /\ a.answer \in Answer /\ c.filter \in Filters /\ c.query \in Terms /\ c.page \in Nat \ {0} /\ rowEdits \in 0 .. MaxRowEdits
      /\ bornAt \in [Entry -> Nat] /\ PageSize \in Nat \ {0} /\ rowEdits \in Nat /\ LoadSound(a)
  BY ListFacts
<1>5. M \in SUBSET Entry /\ Cardinality(M) \in 0 .. MaxEntries
  BY <1>2, <1>4, Matching, RowsCounted DEF ListsInv
<1>6. PICK y : y = [a.answer EXCEPT !.totalAt = rowEdits, !.total = Cardinality(M)]
  OBVIOUS
<1>7. /\ y.of = c /\ y.rows = a.answer.rows /\ y.rowsAt = a.answer.rowsAt /\ y.totalAt = rowEdits
      /\ y.total = Cardinality(M) /\ y \in Answer
  BY <1>1, <1>4, <1>5, <1>6 DEF Answer
<1>8. PICK b : b = [stage |-> "answering", answer |-> y]
  OBVIOUS
<1>9. b.answer = y /\ b.stage = "answering" /\ b \in ListLoad
      /\ listLoads' = (listLoads \ {a}) \cup {b} /\ b.answer.of = a.answer.of
  BY <1>1, <1>3, <1>6, <1>7, <1>8 DEF ListLoad
<1>10. Rightly(y)
  BY <1>1, <1>3, <1>4, <1>7 DEF LoadSound, Rightly
<1>11. Counts(y)
  <2> SUFFICES ASSUME y.rowsAt = rowEdits, y.rows # {}
               PROVE  LET last == (c.page - 1) * PageSize + Cardinality(y.rows)
                      IN  Cardinality(M) >= last /\ (Cardinality(y.rows) < PageSize => Cardinality(M) = last)
    BY <1>7 DEF Counts
  <2>1. PICK rows : rows = y.rows
    OBVIOUS
  <2>2. rows \in Slices(M, OffsetOf(c.page))
    BY <1>2, <1>7, <1>10, <2>1 DEF Rightly
  <2>3. rows \subseteq M
    BY <1>4, <1>5, <2>2, SliceCut
  <2>4. Cardinality(rows) \in Nat /\ Cardinality(M) \in Nat
    BY <1>5, <2>3, ListFacts, RowsCounted
  <2> QED BY <1>4, <1>5, <2>1, <2>2, <2>4, SliceCut
<1>12. LoadSound(b)'
  <2>1. Rightly(y)' /\ Counts(y)'
    BY <1>3, <1>10, <1>11, TableKept
  <2> QED BY <1>3, <1>4, <1>7, <1>9, <2>1 DEF LoadSound
<1>13. mishaps = {} => Onward(y)
  BY <1>7 DEF ListsInv, RestSound, Onward
<1>14. WalkSound' /\ walk'.seen \subseteq Entry /\ walk'.twice \subseteq walk'.seen /\ walk'.steady \subseteq Entry
  BY <1>3, TableKept DEF ListsInv, ListingsTypeOK
<1> QED BY <1>3, <1>9, <1>12, <1>13, <1>14, LoadMoves

LEMMA LandsStep == \A a \in listLoads : ListsInv /\ ListLoaded(a) => ListsInv'
<1> SUFFICES ASSUME NEW a \in listLoads, ListsInv, ListLoaded(a) PROVE ListsInv'
  OBVIOUS
<1>1. /\ UNCHANGED <<filter, query, page, sought, timer, alarm, askedSo, mishaps, walk>> /\ UNCHANGED <<tableVars, paged>>
      /\ UNCHANGED <<made, bornAt, standing, rowEdits, paged>> /\ UNCHANGED <<tableVars, paged, filter, query, page>>
      /\ listLoads' = listLoads \ {a} /\ spinner' = FALSE /\ a.stage = "answering"
      /\ listed' = [a.answer EXCEPT !.nr = 0]
  BY DEF ListLoaded, tableVars
<1>2. a.answer \in Answer /\ LoadSound(a) /\ 0 \in 0 .. MaxAsks
  BY ListFacts
<1>3. PICK y : y = listed'
  OBVIOUS
<1>4. /\ y \in Answer /\ y.of = a.answer.of /\ y.rows = a.answer.rows /\ y.rowsAt = a.answer.rowsAt
      /\ y.total = a.answer.total /\ y.totalAt = a.answer.totalAt
  BY <1>1, <1>2, <1>3 DEF Answer
<1>5. TableSound' /\ WalkSound' /\ \A d : LoadSound(d) => LoadSound(d)'
  BY <1>1, TableKept
<1>6. ListingsTypeOK'
  <2>1. spinner' \in BOOLEAN /\ ~spinner' /\ listed' \in Answer
    BY <1>1, <1>3, <1>4
  <2> QED BY <1>1, <2>1 DEF ListsInv, ListingsTypeOK
<1>7. RestSound'
  <2>1. Chosen' = Chosen /\ Matches(filter, query)' = Matches(filter, query) /\ OffsetOf(page)' = OffsetOf(page)
    BY <1>1, ChoiceKept
  <2>2. y.rowsAt <= rowEdits /\ Rightly(y) /\ (paged => Counts(y))
    BY <1>1, <1>2, <1>4 DEF LoadSound, Rightly, Counts
  <2>3. (Rightly(y)' <=> Rightly(y)) /\ (Counts(y)' <=> Counts(y))
    BY <1>1, TableKept
  <2>4. (Rightly(listed)' <=> Rightly(y)') /\ (Counts(listed)' <=> Counts(y)')
    BY <1>3 DEF Rightly, Counts
  <2>5. "haste" \notin mishaps => listLoads' = {} /\ y.of = Chosen
    BY <1>1, <1>4 DEF ListsInv, RestSound
  <2>6. mishaps = {} => OffsetOf(page) <= Cardinality(Matches(filter, query)) /\ Onward(y)
    BY <1>4 DEF ListsInv, RestSound, Onward
  <2>7. Onward(y) => Onward(listed)'
    BY <1>1, <1>3, <2>1 DEF Onward
  <2>8. page <= askedSo
    BY DEF ListsInv, RestSound
  <2> QED BY <1>1, <1>3, <2>1, <2>2, <2>3, <2>4, <2>5, <2>6, <2>7, <2>8 DEF RestSound
<1>8. \A d \in listLoads' : LoadSound(d)'
  BY <1>1, <1>5 DEF ListsInv
<1> QED BY <1>5, <1>6, <1>7, <1>8 DEF ListsInv

LEMMA ListFailsStep == \A a \in listLoads : ListsInv /\ ListFails(a) => ListsInv'
<1> SUFFICES ASSUME NEW a \in listLoads, ListsInv, ListFails(a) PROVE ListsInv'
  OBVIOUS
<1>1. /\ UNCHANGED <<filter, query, page, sought, timer, listed, askedSo, walk>> /\ UNCHANGED <<tableVars, paged>>
      /\ UNCHANGED <<made, bornAt, standing, rowEdits, paged>>
      /\ listLoads' = listLoads \ {a} /\ spinner' = FALSE /\ alarm' = TRUE /\ mishaps' = mishaps \cup {"haste"}
  BY DEF ListFails, tableVars
<1>2. TableSound' /\ WalkSound' /\ \A d : LoadSound(d) => LoadSound(d)'
  BY <1>1, TableKept
<1>3. ListingsTypeOK'
  <2>1. spinner' \in BOOLEAN /\ ~spinner' /\ alarm' \in BOOLEAN
    BY <1>1
  <2>2. mishaps' \subseteq {"haste", "departure"}
    BY <1>1 DEF ListsInv, ListingsTypeOK
  <2> QED BY <1>1, <2>1, <2>2 DEF ListsInv, ListingsTypeOK
<1>4. RestSound'
  <2>1. Counts(listed)' <=> Counts(listed)
    BY <1>1 DEF Counts
  <2>2. listed.rowsAt <= rowEdits /\ (paged => Counts(listed)) /\ page <= askedSo
    BY DEF ListsInv, RestSound
  <2> QED BY <1>1, <2>1, <2>2 DEF RestSound
<1>5. \A d \in listLoads' : LoadSound(d)'
  BY <1>1, <1>2 DEF ListsInv
<1> QED BY <1>2, <1>3, <1>4, <1>5 DEF ListsInv

\* A change of the table: rows come, each later than those there are, or one moves.
LEMMA Edited ==
    ASSUME ListsInv, (\E n \in 1 .. 2 : PaymentsMade(n)) \/ (\E e \in Entry : PaymentMoves(e))
    PROVE  /\ TableSound' /\ rowEdits' = rowEdits + 1 /\ rowEdits' \in 0 .. MaxRowEdits
           /\ made' \in 0 .. MaxEntries /\ made <= made' /\ bornAt' \in [Entry -> 0 .. MaxEntries]
           /\ standing' \in [Entry -> DOMAIN LedgerStatus \cup {"deleted", "none"}]
           /\ \A e \in 1 .. made : bornAt'[e] = bornAt[e]
           /\ \A e \in 1 .. made : Tied(e) => Tied(e)'
<1>1. /\ \A e \in Entry : IF e <= made THEN bornAt[e] \in 1 .. made /\ standing[e] # "none"
                                     ELSE bornAt[e] = 0 /\ standing[e] = "none"
      /\ bornAt \in [Entry -> 0 .. MaxEntries] /\ standing \in [Entry -> DOMAIN LedgerStatus \cup {"deleted", "none"}]
      /\ made \in Nat /\ made <= MaxEntries /\ MaxEntries \in Nat /\ Entry = 1 .. MaxEntries
      /\ rowEdits \in Nat /\ MaxRowEdits \in Nat
  BY ListFacts DEF ListsInv, TableSound, ListingsTypeOK
<1>2. "deposit_pending" \in DOMAIN LedgerStatus /\ "none" \notin DOMAIN LedgerStatus
      /\ "deposit_approved" \in DOMAIN LedgerStatus /\ "paid_in_full" \in DOMAIN LedgerStatus
  BY DEF LedgerStatus
<1>3. ASSUME NEW n \in 1 .. 2, PaymentsMade(n)
      PROVE  /\ TableSound' /\ rowEdits' = rowEdits + 1 /\ rowEdits' \in 0 .. MaxRowEdits
             /\ made' \in 0 .. MaxEntries /\ made <= made' /\ bornAt' \in [Entry -> 0 .. MaxEntries]
             /\ standing' \in [Entry -> DOMAIN LedgerStatus \cup {"deleted", "none"}]
             /\ \A e \in 1 .. made : bornAt'[e] = bornAt[e]
  <2>1. /\ made + n <= MaxEntries /\ rowEdits < MaxRowEdits /\ made' = made + n /\ rowEdits' = rowEdits + 1
        /\ bornAt' = [e \in Entry |-> IF e \in made + 1 .. made + n THEN made + n ELSE bornAt[e]]
        /\ standing' = [e \in Entry |-> IF e \in made + 1 .. made + n THEN "deposit_pending" ELSE standing[e]]
    BY <1>3 DEF PaymentsMade
  <2>2. \A e \in Entry : /\ bornAt'[e] = IF e \in made + 1 .. made + n THEN made + n ELSE bornAt[e]
                         /\ standing'[e] = IF e \in made + 1 .. made + n THEN "deposit_pending" ELSE standing[e]
    BY <2>1
  <2>3. TableSound'
    BY <1>1, <2>1, <2>2 DEF TableSound
  <2>4. bornAt' \in [Entry -> 0 .. MaxEntries]
    BY <1>1, <2>1
  <2>5. standing' \in [Entry -> DOMAIN LedgerStatus \cup {"deleted", "none"}]
    BY <1>1, <1>2, <2>1
  <2> QED BY <1>1, <2>1, <2>2, <2>3, <2>4, <2>5
<1>4. ASSUME NEW e \in Entry, PaymentMoves(e)
      PROVE  /\ TableSound' /\ rowEdits' = rowEdits + 1 /\ rowEdits' \in 0 .. MaxRowEdits
             /\ made' \in 0 .. MaxEntries /\ made <= made' /\ bornAt' \in [Entry -> 0 .. MaxEntries]
             /\ standing' \in [Entry -> DOMAIN LedgerStatus \cup {"deleted", "none"}]
             /\ \A d \in 1 .. made : bornAt'[d] = bornAt[d]
  <2>1. /\ rowEdits < MaxRowEdits /\ rowEdits' = rowEdits + 1 /\ UNCHANGED <<made, bornAt>>
        /\ \E next \in {<<"deposit_pending", "deposit_approved">>, <<"deposit_approved", "paid_in_full">>}
                         \cup {<<s, "deleted">> : s \in DOMAIN LedgerStatus} :
              standing[e] = next[1] /\ standing' = [standing EXCEPT ![e] = next[2]]
    BY <1>4 DEF PaymentMoves
  <2>2. PICK s \in {"deposit_approved", "paid_in_full", "deleted"} :
            standing[e] \in DOMAIN LedgerStatus /\ standing' = [standing EXCEPT ![e] = s]
    <3>1. PICK next \in {<<"deposit_pending", "deposit_approved">>, <<"deposit_approved", "paid_in_full">>}
                          \cup {<<s, "deleted">> : s \in DOMAIN LedgerStatus} :
              standing[e] = next[1] /\ standing' = [standing EXCEPT ![e] = next[2]]
      BY <2>1
    <3>2. next[1] \in DOMAIN LedgerStatus /\ next[2] \in {"deposit_approved", "paid_in_full", "deleted"}
      <4>1. CASE next \in {<<"deposit_pending", "deposit_approved">>, <<"deposit_approved", "paid_in_full">>}
        BY <1>2, <4>1
      <4>2. CASE next \in {<<s, "deleted">> : s \in DOMAIN LedgerStatus}
        <5>1. PICK s \in DOMAIN LedgerStatus : next = <<s, "deleted">>
          BY <4>2
        <5> QED BY <5>1
      <4> QED BY <4>1, <4>2
    <3> QED BY <3>1, <3>2
  <2>3. standing' \in [Entry -> DOMAIN LedgerStatus \cup {"deleted", "none"}]
    BY <1>1, <1>2, <2>2
  <2>4. \A d \in Entry : standing'[d] = IF d = e THEN s ELSE standing[d]
    BY <1>1, <2>2
  <2>5. TableSound'
    BY <1>1, <1>2, <2>1, <2>2, <2>4 DEF TableSound
  <2> QED BY <1>1, <2>1, <2>3, <2>5
<1>5. ASSUME NEW e \in 1 .. made, Tied(e), \A d \in 1 .. made : bornAt'[d] = bornAt[d] PROVE Tied(e)'
  <2>1. PICK d \in Entry \ {e} : bornAt[d] = bornAt[e]
    BY <1>5 DEF Tied
  <2>2. d \in 1 .. made
    BY <1>1, <2>1
  <2> QED BY <1>5, <2>1, <2>2 DEF Tied
<1> QED BY <1>3, <1>4, <1>5

LEMMA WalkNoticed ==
    ASSUME ListsInv, Noticed, (\E n \in 1 .. 2 : PaymentsMade(n)) \/ (\E e \in Entry : PaymentMoves(e))
    PROVE  WalkSound' /\ walk'.seen \subseteq Entry /\ walk'.twice \subseteq walk'.seen /\ walk'.steady \subseteq Entry
<1> DEFINE Changed(was, are) ==
      walk' = [walk EXCEPT !.came = @ \/ ~(are \subseteq was), !.left = @ \/ ~(was \subseteq are), !.steady = @ \cap are]
<1>1. walk.seen \subseteq Entry /\ walk.twice \subseteq walk.seen /\ walk.steady \subseteq Entry
  BY DEF ListsInv, ListingsTypeOK
<1>2. CASE walk \in [at : {0}, seen : SUBSET Entry, twice : SUBSET Entry, steady : SUBSET Entry,
                     came : BOOLEAN, left : BOOLEAN, done : BOOLEAN]
  <2>1. Changed({}, {})
    BY <1>2 DEF Noticed
  <2>2. PICK b \in BOOLEAN : b = (walk.came \/ ~({} \subseteq {}))
    <3>1. CASE walk.came = TRUE
      BY <3>1
    <3>2. CASE walk.came = FALSE
      BY <3>2
    <3> QED BY <1>2, <3>1, <3>2
  <2>3. PICK c \in BOOLEAN : c = (walk.left \/ ~({} \subseteq {}))
    <3>1. CASE walk.left = TRUE
      BY <3>1
    <3>2. CASE walk.left = FALSE
      BY <3>2
    <3> QED BY <1>2, <3>1, <3>2
  <2>4. walk' = [walk EXCEPT !.came = b, !.left = c, !.steady = walk.steady \cap {}]
    BY <2>1, <2>2, <2>3, Zenon
  <2>5. /\ walk' \in [at : {0}, seen : SUBSET Entry, twice : SUBSET Entry, steady : SUBSET Entry,
                      came : BOOLEAN, left : BOOLEAN, done : BOOLEAN]
        /\ walk'.seen = walk.seen /\ walk'.twice = walk.twice /\ walk'.steady = {}
    BY <1>2, <2>4
  <2> QED BY <1>1, <2>5 DEF WalkSound, Entry
<1>3. CASE walk.at # 0
  <2>1. PICK W : W = Matches(walk.of.filter, walk.of.query)
    OBVIOUS
  <2>2. PICK A : A = MatchesOf(standing', walk.of.filter, walk.of.query)
    OBVIOUS
  <2>3. Changed(W, A)
    BY <1>3, <2>1, <2>2 DEF Noticed
  <2>4. /\ walk \in [at : Nat \ {0}, of : ListChoice, seen : SUBSET (1 .. made), twice : SUBSET Entry,
                     steady : SUBSET W, came : BOOLEAN, left : BOOLEAN, done : BOOLEAN]
        /\ ~walk.came => \A e \in walk.twice : Tied(e)
        /\ ~walk.came => \A e \in walk.seen : Tied(e) \/ Cardinality(Newer(e, W)) < walk.at * PageSize
        /\ ~walk.left => \A e \in walk.steady \ walk.seen :
              Tied(e) \/ (~walk.done /\ walk.at * PageSize <= Cardinality(Newer(e, W)))
    BY <1>3, <2>1 DEF ListsInv, WalkSound
  <2>5. PICK b \in BOOLEAN : b = (walk.came \/ ~(A \subseteq W))
    <3>1. CASE walk.came = TRUE \/ ~(A \subseteq W)
      BY <3>1
    <3>2. CASE walk.came = FALSE /\ A \subseteq W
      BY <3>2
    <3> QED BY <2>4, <3>1, <3>2
  <2>6. PICK c \in BOOLEAN : c = (walk.left \/ ~(W \subseteq A))
    <3>1. CASE walk.left = TRUE \/ ~(W \subseteq A)
      BY <3>1
    <3>2. CASE walk.left = FALSE /\ W \subseteq A
      BY <3>2
    <3> QED BY <2>4, <3>1, <3>2
  <2>7. walk' = [walk EXCEPT !.came = b, !.left = c, !.steady = walk.steady \cap A]
    BY <2>3, <2>5, <2>6, Zenon
  <2>8. /\ walk'.at = walk.at /\ walk'.of = walk.of /\ walk'.seen = walk.seen /\ walk'.twice = walk.twice
        /\ walk'.steady = walk.steady \cap A /\ walk'.came = b /\ walk'.left = c /\ walk'.done = walk.done
        /\ walk.at \in Nat \ {0} /\ walk.of \in ListChoice
    BY <2>4, <2>7
  <2>9. walk.of.query \in Terms /\ made \in Nat /\ made <= MaxEntries /\ MaxEntries \in Nat /\ Entry = 1 .. MaxEntries
        /\ bornAt \in [Entry -> Nat] /\ PageSize \in Nat \ {0}
    BY <2>8, ListFacts
  <2>10. W \subseteq 1 .. made /\ W \in SUBSET Entry /\ A \in SUBSET Entry
    <3>1. W \in SUBSET Entry
      BY <2>1, <2>9, Matching DEF ListsInv
    <3>2. W \subseteq 1 .. made
      BY <2>1, <2>9, <3>1 DEF Matches, MatchesOf, ListsInv, TableSound
    <3> QED BY <2>2, <2>9, <3>1, <3>2, ListingsAssumption DEF MatchesOf, Terms
  <2>11. (1 .. made) \subseteq (1 .. made') /\ \A e \in 1 .. made : bornAt'[e] = bornAt[e] /\ (Tied(e) => Tied(e)')
    <3>1. made' \in Nat /\ made <= made'
      BY <2>9, Edited
    <3> QED BY <2>9, <3>1, Edited
  <2>12. Matches(walk.of.filter, walk.of.query)' = A
    BY <2>2, <2>8 DEF Matches
  <2>13. \A e : Newer(e, W) \in SUBSET Entry /\ Newer(e, A)' \in SUBSET Entry
    BY <2>10 DEF Newer
  <2>14. \A e : Cardinality(Newer(e, W)) \in Nat /\ Cardinality(Newer(e, A)') \in Nat
    BY <2>13, RowsCounted, <2>9
  <2>15. b = FALSE => A \subseteq W /\ walk.came = FALSE
    BY <2>4, <2>5
  <2>16. c = FALSE => W \subseteq A /\ walk.left = FALSE
    BY <2>4, <2>6
  <2>17. ASSUME b = FALSE, NEW e \in walk.seen, ~Tied(e)' PROVE Cardinality(Newer(e, A)') < walk.at * PageSize
    <3>1. e \in 1 .. made /\ ~Tied(e)
      BY <2>4, <2>11, <2>17
    <3>2. Newer(e, A)' \subseteq Newer(e, W)
      BY <2>10, <2>11, <2>15, <2>17, <3>1 DEF Newer
    <3>3. Cardinality(Newer(e, A)') <= Cardinality(Newer(e, W))
      BY <2>13, <3>2, RowsCounted
    <3>4. Cardinality(Newer(e, W)) < walk.at * PageSize
      BY <2>4, <2>15, <2>17, <3>1
    <3>5. walk.at * PageSize \in Nat
      BY <2>8, <2>9
    <3> QED BY <2>14, <3>3, <3>4, <3>5
  <2>18. ASSUME c = FALSE, NEW e \in (walk.steady \cap A) \ walk.seen, ~Tied(e)'
         PROVE  ~walk.done /\ walk.at * PageSize <= Cardinality(Newer(e, A)')
    <3>1. e \in 1 .. made /\ ~Tied(e)
      BY <2>4, <2>10, <2>11, <2>18
    <3>2. Newer(e, W) \subseteq Newer(e, A)'
      BY <2>10, <2>11, <2>16, <2>18, <3>1 DEF Newer
    <3>3. Cardinality(Newer(e, W)) <= Cardinality(Newer(e, A)')
      BY <2>13, <3>2, RowsCounted
    <3>4. ~walk.done /\ walk.at * PageSize <= Cardinality(Newer(e, W))
      BY <2>4, <2>16, <2>18, <3>1
    <3>5. walk.at * PageSize \in Nat
      BY <2>8, <2>9
    <3> QED BY <2>14, <3>3, <3>4, <3>5
  <2>19. b = FALSE => \A e \in walk.twice : Tied(e)'
    BY <1>1, <2>4, <2>11, <2>15
  <2>20. walk' \in [at : Nat \ {0}, of : ListChoice, seen : SUBSET (1 .. made'), twice : SUBSET Entry,
                    steady : SUBSET A, came : BOOLEAN, left : BOOLEAN, done : BOOLEAN]
    <3>1. walk' = [at |-> walk.at, of |-> walk.of, seen |-> walk.seen, twice |-> walk.twice,
                   steady |-> walk.steady \cap A, came |-> b, left |-> c, done |-> walk.done]
      BY <2>4, <2>7
    <3> QED BY <2>4, <2>11, <3>1
  <2>21. WalkSound'
    BY <2>8, <2>12, <2>17, <2>18, <2>19, <2>20 DEF WalkSound, Entry
  <2> QED BY <1>1, <2>8, <2>21
<1> QED BY <1>2, <1>3 DEF ListsInv, WalkSound

LEMMA TableChangesStep == ListsInv /\ TableChanges => ListsInv'
<1> SUFFICES ASSUME ListsInv, TableChanges PROVE ListsInv'
  OBVIOUS
<1>1. /\ (\E n \in 1 .. 2 : PaymentsMade(n)) \/ (\E e \in Entry : PaymentMoves(e))
      /\ Noticed /\ UNCHANGED <<paged, filter, query, page, sought, timer, listed, spinner, alarm, listLoads, askedSo>>
  BY DEF TableChanges
<1>2. /\ TableSound' /\ rowEdits' = rowEdits + 1 /\ rowEdits' \in 0 .. MaxRowEdits
      /\ made' \in 0 .. MaxEntries /\ bornAt' \in [Entry -> 0 .. MaxEntries]
      /\ standing' \in [Entry -> DOMAIN LedgerStatus \cup {"deleted", "none"}] /\ rowEdits \in Nat
  BY <1>1, Edited, ListFacts
<1>3. WalkSound' /\ walk'.seen \subseteq Entry /\ walk'.twice \subseteq walk'.seen /\ walk'.steady \subseteq Entry
  BY <1>1, WalkNoticed
<1>4. PICK A : A = MatchesOf(standing', filter, query)
  OBVIOUS
<1>5. mishaps' = IF Matches(filter, query) \subseteq A THEN mishaps ELSE mishaps \cup {"departure"}
  BY <1>1, <1>4 DEF Noticed
<1>6. ListingsTypeOK'
  <2>1. mishaps' \subseteq {"haste", "departure"}
    BY <1>5 DEF ListsInv, ListingsTypeOK
  <2> QED BY <1>1, <1>2, <1>3, <2>1 DEF ListsInv, ListingsTypeOK
<1>7. \A x \in Answer : x.rowsAt <= rowEdits => Rightly(x)' /\ x.rowsAt <= rowEdits'
  <2>1. \A x \in Answer : x.rowsAt \in Nat
    BY ListingsAssumption DEF Answer
  <2> QED BY <1>2, <2>1 DEF Rightly
<1>8. \A x : Counts(x)' <=> Counts(x)
  BY DEF Counts
<1>9. \A a \in listLoads' : LoadSound(a)'
  <2> SUFFICES ASSUME NEW a \in listLoads PROVE LoadSound(a)'
    BY <1>1
  <2>1. LoadSound(a) /\ a.answer \in Answer
    BY ListFacts
  <2> QED BY <1>1, <1>7, <1>8, <2>1 DEF LoadSound
<1>10. RestSound'
  <2>1. Matches(filter, query)' = A /\ Chosen' = Chosen /\ OffsetOf(page)' = OffsetOf(page)
    BY <1>1, <1>4 DEF Matches, Chosen, OffsetOf
  <2>2. A \in SUBSET Entry /\ query \in Terms
    BY <1>4, ListFacts, ListingsAssumption DEF MatchesOf, Terms
  <2>3. mishaps' = {} => mishaps = {} /\ Cardinality(Matches(filter, query)) <= Cardinality(A)
    BY <1>5, <2>2, RowsCounted
  <2>4. Cardinality(A) \in Nat /\ Cardinality(Matches(filter, query)) \in Nat /\ PageSize \in Nat \ {0} /\ page \in Nat \ {0}
    BY <2>2, ListFacts, RowsCounted
  <2>5. page * PageSize \in Nat /\ OffsetOf(page) \in Nat
    <3>1. PICK k \in Nat : page = k + 1
      <4>1. page - 1 \in Nat /\ page = (page - 1) + 1
        BY <2>4
      <4> QED BY <4>1
    <3>2. OffsetOf(page) = k * PageSize
      BY <3>1 DEF OffsetOf
    <3> QED BY <2>4, <3>2
  <2>6. mishaps' = {} => \A x : Onward(x) => Onward(x)'
    BY <1>1, <2>1, <2>3, <2>4, <2>5 DEF Onward
  <2>7. mishaps' = {} /\ Onward(listed) => Onward(listed)'
    BY <1>1, <2>1, <2>3, <2>4, <2>5 DEF Onward
  <2>8. listed \in Answer /\ listed.rowsAt <= rowEdits /\ (paged => Counts(listed)) /\ page <= askedSo
    BY ListFacts DEF ListsInv, RestSound
  <2>9. listed.rowsAt <= rowEdits' /\ Rightly(listed)' /\ (paged => Counts(listed)')
    <3>1. PICK x : x = listed
      OBVIOUS
    <3>2. Rightly(x)' /\ x.rowsAt <= rowEdits'
      BY <1>7, <2>8, <3>1
    <3> QED BY <1>1, <2>8, <3>1, <3>2 DEF Rightly, Counts
  <2>10. "haste" \notin mishaps' => "haste" \notin mishaps
    BY <1>5
  <2>11. mishaps' = {} => OffsetOf(page) <= Cardinality(A)
    BY <2>3, <2>4, <2>5 DEF ListsInv, RestSound
  <2> QED BY <1>1, <2>1, <2>3, <2>6, <2>7, <2>8, <2>9, <2>10, <2>11 DEF ListsInv, RestSound
<1> QED BY <1>2, <1>3, <1>6, <1>9, <1>10 DEF ListsInv

LEMMA ListsStep == ListsInv /\ [ListingsNext]_listVars => ListsInv'
<1> SUFFICES ASSUME ListsInv, [ListingsNext]_listVars PROVE ListsInv'
  OBVIOUS
<1>1. CASE UNCHANGED listVars
  <2>1. ByThePage
    BY <1>1, ListFacts, Zenon DEF listVars, tableVars, ByThePage, Quiet
  <2> QED BY <2>1, PageActsStep
<1>2. CASE \/ \E f \in Filters : SetFilter(f)
           \/ NextPage \/ PrevPage \/ TimerFires \/ ReloadList
           \/ \E t \in Terms : TypeSearch(t)
  BY <1>2, PageActs, PageActsStep
<1>3. CASE \E a \in listLoads : ReadRows(a) \/ ReadSummary(a) \/ ListLoaded(a) \/ ListFails(a)
  BY <1>3, ReadRowsStep, SummaryStep, LandsStep, ListFailsStep
<1>4. CASE TableChanges
  BY <1>4, TableChangesStep
<1> QED BY <1>1, <1>2, <1>3, <1>4 DEF ListingsNext

LEMMA ListsConclude == ListsInv => ListsAreTrue
<1> SUFFICES ASSUME ListsInv PROVE ListsAreTrue
  OBVIOUS
<1>1. WalkIsWhole
  BY DEF WalkIsWhole, ListsInv, WalkSound
<1>2. ASSUME listLoads = {}, "haste" \notin mishaps, listed.rowsAt = rowEdits
      PROVE  /\ listed.of = [filter |-> filter, query |-> query, page |-> page]
             /\ listed.rows \in Slices(Matches(filter, query), (page - 1) * PageSize)
  <2>1. listed.of = Chosen /\ Rightly(listed)
    BY <1>2 DEF ListsInv, RestSound
  <2>2. listed.of.filter = filter /\ listed.of.query = query /\ listed.of.page = page
    BY <2>1 DEF Chosen
  <2> QED BY <1>2, <2>1, <2>2 DEF Rightly, Chosen, OffsetOf
<1>3. mishaps = {} => (page - 1) * PageSize <= Cardinality(Matches(filter, query))
  BY DEF ListsInv, RestSound, OffsetOf
<1>4. paged => Counts(listed)
  BY DEF ListsInv, RestSound
<1> QED BY <1>1, <1>2, <1>3, <1>4 DEF ListsAreTrue, Counts

-----------------------------------------------------------------------------
(* All of them *)

LEMMA SettingsConclude == SettingsInv => SettingsAreSound
<1> SUFFICES ASSUME SettingsInv PROVE SettingsAreSound
  OBVIOUS
<1>1. SavedIsStored
  BY DEF SettingsInv, PageSound, SaysSaved, SavedIsStored
<1> QED BY <1>1 DEF SettingsInv, SettingsAreSound

BrowserInv ==
    ScreensInv /\ AccessInv /\ ConsolesInv /\ SettingsInv /\ AccountsInv /\ ListsInv

LEMMA BrowserStart == BrowserInit => BrowserInv
BY ScreensStart, AccessStart, ConsolesStart, SettingsStart, AccountsStart, ListsStart DEF BrowserInit, BrowserInv

\* One part runs and the others stand still.
LEMMA BrowserStep ==
    BrowserInv /\ [BrowserNext]_<<running, BookingVars, accessVars, consoleVars, settingsVars, accountVars, listVars>>
        => BrowserInv'
<1> SUFFICES ASSUME BrowserInv,
                    [BrowserNext]_<<running, BookingVars, accessVars, consoleVars, settingsVars, accountVars, listVars>>
             PROVE  BrowserInv'
  OBVIOUS
<1>1. /\ [ScreensNext]_<<vars, screenVars>> /\ [AccessNext]_accessVars /\ [ConsolesNext]_consoleVars
      /\ [SettingsNext]_settingsVars /\ [AccountsNext]_accountVars /\ [ListingsNext]_listVars
  BY DEF BrowserNext, BookingVars
<1> QED BY <1>1, ScreensStep, AccessStep, ConsolesStep, SettingsStep, AccountsStep, ListsStep DEF BrowserInv

LEMMA BrowserSound == BrowserSpec => []BrowserInv
BY BrowserStart, BrowserStep, PTL DEF BrowserSpec

\* Whichever page is open, everything it holds has its type, and a paged list
\* that shows a skeleton has a load under way that will end it.
THEOREM BrowserTyped == BrowserSpec => []BrowserTypeOK
<1>1. BrowserInv => BrowserTypeOK
  BY DEF BrowserInv, ScreensInv, AccessInv, ConsolesInv, SettingsInv, AccountsInv, ListsInv, BrowserTypeOK
<1> QED BY <1>1, BrowserSound, PTL

\* A screen of a booking that nobody else touched since it was loaded shows its
\* status as it stands, and its form starts from the money as it stands.
THEOREM FormsAreFresh == BrowserSpec => []FreshFormsAreTrue
<1>1. BrowserInv => FreshFormsAreTrue
  BY ScreensConclude DEF BrowserInv
<1> QED BY <1>1, BrowserSound, PTL

\* What each page tells its reader holds: its buttons are honoured, its menus
\* let in, its lists at rest are the database's, a save stores what was typed,
\* an address gets in where its password fits, and walking through the pages of
\* a list passes over no row and shows none twice but for the causes named.
THEOREM WordKept == BrowserSpec => []PagesKeepTheirWord
<1>1. BrowserInv => PagesKeepTheirWord
  BY ScreensConclude, AccessConcludes, ConsolesConclude, SettingsConclude, AccountsConclude, ListsConclude
     DEF BrowserInv, PagesKeepTheirWord
<1> QED BY <1>1, BrowserSound, PTL
=============================================================================
