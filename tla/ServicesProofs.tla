----------------------------- MODULE ServicesProofs -----------------------------
(* Proofs about the parts of the club that share no row: each has an inductive   *)
(* invariant of its own, over its own next-state relation, and a theorem about   *)
(* all of them at once takes from each part what it keeps while it runs.         *)
EXTENDS MCServices, ClubProofs, FiniteSetTheorems, FunctionTheorems, WellFoundedInduction, TLAPS

-----------------------------------------------------------------------------
(* The fees of a tournament *)

FeesSpec == FeesInit /\ [][FeesNext]_feeVars

\* Until two payments cross, what a desk payment read is still what is paid, so
\* the sum it is about to store stays within the fee.
FeesRoom ==
    \A t \in Payers : t \notin crossed =>
        /\ paid[t] <= Due
        /\ \A k \in Clerks : desk[k].team = t => paid[t] + desk[k].amount <= Due

\* A clerk who serves no team has nothing under way.
FeesIdle == \A k \in Clerks : desk[k].team = NoTeam => desk[k] = NoDesk

FeesInv == FeesTypeOK /\ FeesIdle /\ FeesAddUp /\ CreditIsCovered /\ FeesRoom

\* Nothing is paid or under way at first.
LEMMA InitFees == FeesInit => FeesInv
BY FeesAssumption DEF FeesInit, NoDesk, FeesInv, FeesTypeOK, FeesIdle, FeesAddUp, CreditIsCovered, FeesRoom

\* What remains of a fee is a number, and no more than the fee lacks.
LEMMA RemainingBounds ==
    ASSUME FeesTypeOK, NEW t \in Payers
    PROVE  /\ Remaining(t) \in 0 .. Due
           /\ Remaining(t) > 0 => paid[t] + Remaining(t) = Due
BY FeesAssumption DEF Remaining, FeesTypeOK

\* No desk payment and no gateway event breaks the invariant.
LEMMA StepFees == FeesInv /\ [FeesNext]_feeVars => FeesInv'
<1> SUFFICES ASSUME FeesInv, [FeesNext]_feeVars PROVE FeesInv'
    OBVIOUS
<1> USE FeesAssumption
<1>1. CASE UNCHANGED feeVars
    BY <1>1 DEF feeVars, FeesInv, FeesTypeOK, FeesIdle, NoDesk, FeesAddUp, CreditIsCovered, FeesRoom
<1>2. ASSUME NEW t \in Payers, NEW a \in Amounts, NEW k \in Clerks, PayReads(k, t, a)
      PROVE  FeesInv'
    <2>1. Amount(t, a) \in 1 .. Due /\ paid[t] + Amount(t, a) <= Due
        BY <1>2, RemainingBounds DEF PayReads, Amount, FeesInv, FeesTypeOK
    <2>2. FeesTypeOK' /\ FeesIdle'
        BY <1>2, <2>1 DEF PayReads, FeesInv, FeesTypeOK, FeesIdle, NoDesk
    <2>3. FeesRoom'
        BY <1>2, <2>1 DEF PayReads, FeesInv, FeesTypeOK, FeesRoom
    <2>4. FeesAddUp' /\ CreditIsCovered'
        BY <1>2 DEF PayReads, FeesInv, FeesAddUp, CreditIsCovered
    <2> QED
        BY <2>2, <2>3, <2>4 DEF FeesInv
<1>3. ASSUME NEW k \in Clerks, PayStores(k)
      PROVE  FeesInv'
    <2> DEFINE t == desk[k].team
               a == desk[k].amount
    <2>1. PICK u \in Payers : u = t
        <3>1. CASE t = NoTeam
            BY <1>3, <3>1 DEF PayStores, FeesInv, FeesIdle
        <3>2. CASE t # NoTeam
            BY <3>2 DEF FeesInv, FeesTypeOK
        <3> QED
            BY <3>1, <3>2
    <2>2. a \in 1 .. Due
        BY <2>1 DEF FeesInv, FeesTypeOK
    <2>3. /\ paid' = [paid EXCEPT ![u] = @ + a]
          /\ credited' = [credited EXCEPT ![u] = @ + a]
          /\ handed' = [handed EXCEPT ![u] = @ + a]
          /\ desk' = [desk EXCEPT ![k] = NoDesk]
          /\ seen' = seen
          /\ crossed' = IF \E j \in Clerks \ {k} : desk[j].team = u THEN crossed \cup {u} ELSE crossed
        BY <1>3, <2>1 DEF PayStores, Stored, Crosses, FeesInv, FeesTypeOK
    <2>4. FeesTypeOK' /\ FeesIdle'
        BY <2>2, <2>3 DEF FeesInv, FeesTypeOK, FeesIdle, NoDesk
    <2>5. FeesAddUp' /\ CreditIsCovered'
        BY <2>2, <2>3 DEF FeesInv, FeesTypeOK, FeesAddUp, CreditIsCovered
    <2>6. FeesRoom'
        <3> SUFFICES ASSUME NEW v \in Payers, v \notin crossed'
                     PROVE  /\ paid'[v] <= Due
                            /\ \A j \in Clerks : desk'[j].team = v => paid'[v] + desk'[j].amount <= Due
            BY DEF FeesRoom
        <3>1. v \notin crossed
            BY <2>3
        <3>2. CASE v = u
            <4>1. \A j \in Clerks : desk'[j].team # v
                BY <2>3, <3>2 DEF NoDesk, FeesInv, FeesTypeOK
            <4>2. paid[v] + a <= Due
                BY <2>1, <3>1, <3>2 DEF FeesInv, FeesRoom
            <4> QED
                BY <2>3, <3>2, <4>1, <4>2 DEF FeesInv, FeesTypeOK
        <3>3. CASE v # u
            BY <2>3, <3>1, <3>3 DEF NoDesk, FeesInv, FeesTypeOK, FeesRoom
        <3> QED
            BY <3>2, <3>3
    <2> QED
        BY <2>4, <2>5, <2>6 DEF FeesInv
<1>4. ASSUME NEW t \in Payers, NEW a \in Amounts, NEW e \in Events, FeeEvent(e, t, a)
      PROVE  FeesInv'
    <2>1. CASE ~Enough(t, a)
        BY <1>4, <2>1 DEF FeeEvent, FeesInv, FeesTypeOK, FeesIdle, NoDesk, FeesAddUp, CreditIsCovered, FeesRoom
    <2>2. CASE Enough(t, a)
        <3> DEFINE r == Remaining(t)
        <3>1. r \in 1 .. Due /\ a >= r /\ a \in Nat /\ paid[t] + r = Due
            BY <2>2, RemainingBounds DEF Enough, FeesInv
        <3>2. /\ paid' = [paid EXCEPT ![t] = @ + r]
              /\ credited' = [credited EXCEPT ![t] = @ + r]
              /\ handed' = [handed EXCEPT ![t] = @ + a]
              /\ desk' = desk
              /\ seen' = seen \cup {e}
              /\ crossed' = IF \E j \in Clerks : desk[j].team = t THEN crossed \cup {t} ELSE crossed
            BY <1>4, <2>2 DEF FeeEvent, Crosses
        <3> HIDE DEF r
        <3>3. FeesTypeOK' /\ FeesIdle'
            BY <3>1, <3>2 DEF FeesInv, FeesTypeOK, FeesIdle, NoDesk
        <3>4. FeesAddUp' /\ CreditIsCovered'
            BY <3>1, <3>2 DEF FeesInv, FeesTypeOK, FeesAddUp, CreditIsCovered
        <3>5. FeesRoom'
            BY <3>1, <3>2 DEF FeesInv, FeesTypeOK, FeesRoom
        <3> QED
            BY <3>3, <3>4, <3>5 DEF FeesInv
    <2> QED
        BY <2>1, <2>2
<1> QED
    BY <1>1, <1>2, <1>3, <1>4 DEF FeesNext

\* The fee's books are right whatever the desk and the gateway do at once.
THEOREM FeesSound == FeesSpec => []FeesAreSound
<1>1. FeesInv => FeesAreSound
    BY DEF FeesInv, FeesAreSound, NoOverpaymentAlone, FeesRoom
<1> QED
    BY InitFees, StepFees, <1>1, PTL DEF FeesSpec

-----------------------------------------------------------------------------
(* The pages' loads *)

\* Unless the selection was made in haste, every answer that will be shown is
\* the selection's, and so is what is shown, or on its way.
Patient ==
    ~hasty =>
        /\ \A l \in loads : ~l.dropped => l.choice = chosen
        /\ \A p \in pressed : p.choice = chosen
        /\ loading \/ banner \/ shown \in {chosen, Blank} \/ Awaited

LoadRequest == [nr : Nat, choice : Selections, reload : BOOLEAN, dropped : BOOLEAN]
Pressed     == [nr : Nat, choice : Selections]

PageShape ==
    /\ guarded \in BOOLEAN /\ spins \in BOOLEAN
    /\ loading \in BOOLEAN /\ banner \in BOOLEAN /\ hasty \in BOOLEAN
    /\ chosen \in Selections /\ made \in Nat
    /\ loads \subseteq LoadRequest /\ pressed \subseteq Pressed

PageInv == PageShape /\ Patient

\* A page opens on its first load.
LEMMA InitPage == PageInit => PageInv
<1> SUFFICES ASSUME PageInit PROVE PageInv
    OBVIOUS
<1> DEFINE first == [nr |-> 1, choice |-> chosen, reload |-> FALSE, dropped |-> FALSE]
<1>1. first \in LoadRequest /\ first.choice = chosen
    BY DEF PageInit, LoadRequest
<1>2. loads = {first} /\ pressed = {}
    BY DEF PageInit
<1> HIDE DEF first
<1>3. PageShape
    BY <1>1, <1>2 DEF PageInit, PageShape
<1>4. Patient
    BY <1>1, <1>2 DEF PageInit, Patient
<1> QED
    BY <1>3, <1>4 DEF PageInv

\* A load that the selection leaves is the same request, dropped or not.
LEMMA LiveRequest ==
    ASSUME NEW l \in LoadRequest, guarded \in BOOLEAN
    PROVE  /\ Live(l) \in LoadRequest
           /\ Live(l).choice = l.choice
           /\ Live(l).dropped = (l.dropped \/ (guarded /\ ~l.reload))
BY DEF Live, LoadRequest

\* A new load is of what it is told.
LEMMA NewRequest ==
    ASSUME NEW n \in Nat, NEW c \in Selections, NEW again \in BOOLEAN
    PROVE  /\ NewLoad(n, c, again) \in LoadRequest
           /\ NewLoad(n, c, again).choice = c /\ ~NewLoad(n, c, again).dropped
BY DEF NewLoad, LoadRequest

\* Selecting, the buttons, their reloads and every answer keep the invariant.
LEMMA StepPage == PageInv /\ [PageNext]_pageVars => PageInv'
<1> SUFFICES ASSUME PageInv, [PageNext]_pageVars PROVE PageInv'
    OBVIOUS
<1> USE DEF PageInv
<1>1. CASE UNCHANGED pageVars
    BY <1>1 DEF pageVars, PageShape, Patient, Awaited
<1>2. ASSUME NEW c \in Selections, Choose(c) PROVE PageInv'
    <2> DEFINE new == NewLoad(made + 1, c, FALSE)
    <2>1. new \in LoadRequest /\ new.choice = c /\ ~new.dropped
        <3>1. made + 1 \in Nat /\ FALSE \in BOOLEAN
            BY DEF PageShape
        <3> QED
            BY <3>1, NewRequest
    <2>2. \A l \in loads : Live(l) \in LoadRequest
        BY LiveRequest DEF PageShape
    <2>3. /\ loads' = {Live(l) : l \in loads} \cup {new} /\ chosen' = c /\ loading' = (spins \/ loading)
          /\ hasty' = (Undroppable # {} \/ pressed # {}) /\ UNCHANGED <<spins, pressed>>
        BY <1>2 DEF Choose
    <2>4. PageShape'
        <3>1. loads' \subseteq LoadRequest
            BY <2>1, <2>2, <2>3
        <3>2. /\ guarded' \in BOOLEAN /\ spins' \in BOOLEAN
              /\ loading' \in BOOLEAN /\ banner' \in BOOLEAN /\ hasty' \in BOOLEAN
            BY <1>2 DEF Choose, PageShape
        <3>3. chosen' \in Selections /\ made' \in Nat /\ pressed' \subseteq Pressed
            BY <1>2 DEF Choose, PageShape
        <3> QED
            BY <3>1, <3>2, <3>3 DEF PageShape
    <2>5. ASSUME NEW l \in loads', ~hasty', ~l.dropped PROVE l.choice = c
        <3> HIDE DEF new
        <3>1. CASE l = new
            BY <2>1, <3>1
        <3>2. ASSUME NEW m \in loads, l = Live(m) PROVE FALSE
            <4>1. ~(m.dropped \/ (guarded /\ ~m.reload))
                BY <2>5, <3>2, LiveRequest DEF PageShape
            <4>2. m \in Undroppable
                BY <4>1 DEF Undroppable
            <4> QED
                BY <2>3, <2>5, <4>2
        <3> QED
            BY <2>3, <3>1, <3>2
    <2>6. ~hasty' => pressed' = {}
        BY <2>3
    <2>7. loading' \/ Awaited'
        <3> HIDE DEF new
        <3>1. new \in loads' /\ new.choice = chosen'
            BY <2>1, <2>3
        <3> QED
            BY <2>1, <2>3, <3>1 DEF Awaited
    <2> QED
        BY <2>3, <2>4, <2>5, <2>6, <2>7 DEF Patient
<1>3. CASE Dismiss
    <2>1. PageShape'
        BY <1>3 DEF Dismiss, PageShape
    <2> QED
        BY <1>3, <2>1 DEF Dismiss, OldRows, Patient, Awaited
<1>4. ASSUME NEW c \in Selections, Press(c) PROVE PageInv'
    <2> DEFINE new == [nr |-> made + 1, choice |-> c]
    <2>1. new \in Pressed /\ new.choice = c
        BY DEF Pressed, PageShape
    <2>2. /\ pressed' = pressed \cup {new} /\ ~banner' /\ made' = made + 1 /\ hasty' = (hasty \/ OldRows)
          /\ UNCHANGED <<guarded, spins, chosen, shown, loading, loads>>
        BY <1>4 DEF Press
    <2> HIDE DEF new
    <2>3. PageShape'
        <3>1. pressed' \subseteq Pressed /\ made' \in Nat
            BY <2>1, <2>2 DEF PageShape
        <3>2. banner' = FALSE /\ hasty' = (hasty \/ OldRows)
            BY <1>4 DEF Press
        <3>3. hasty' \in BOOLEAN
            BY <3>2 DEF PageShape, OldRows
        <3> QED
            BY <2>2, <3>1, <3>2, <3>3 DEF PageShape
    <2>4. ASSUME ~hasty' PROVE c = chosen
        <3>1. CASE c = chosen
            BY <3>1
        <3>2. CASE spins /\ ~loading /\ c = shown
            <4>1. c # Blank
                BY BlankAssumption
            <4> QED
                BY <2>2, <2>4, <3>2, <4>1 DEF OldRows, Patient, Awaited
        <3> QED
            BY <1>4, <3>1, <3>2 DEF Press
    <2>5. ASSUME ~hasty' PROVE loading' \/ shown' \in {chosen', Blank} \/ Awaited'
        BY <2>2, <2>5 DEF OldRows, Patient, Awaited
    <2> QED
        BY <2>1, <2>2, <2>3, <2>4, <2>5 DEF Patient
<1>5. ASSUME NEW p \in pressed, Reload(p) PROVE PageInv'
    <2> DEFINE new == NewLoad(p.nr, p.choice, TRUE)
    <2>1. new \in LoadRequest /\ new.choice = p.choice
        BY NewRequest DEF PageShape, Pressed
    <2>2. /\ pressed' = pressed \ {p} /\ loads' = loads \cup {new}
          /\ (loading' /\ ~banner') \/ UNCHANGED <<loading, banner>>
          /\ UNCHANGED <<guarded, spins, chosen, shown, made, hasty>>
        BY <1>5 DEF Reload
    <2> HIDE DEF new
    <2>3. PageShape'
        <3>1. loads' \subseteq LoadRequest /\ pressed' \subseteq Pressed
            BY <2>1, <2>2 DEF PageShape
        <3>2. loading' \in BOOLEAN /\ banner' \in BOOLEAN
            BY <1>5 DEF Reload, PageShape
        <3> QED
            BY <2>2, <3>1, <3>2 DEF PageShape
    <2> QED
        BY <2>1, <2>2, <2>3 DEF Patient, Awaited
<1>6. ASSUME NEW p \in pressed, ChangeFails(p) PROVE PageInv'
    <2>1. PageShape'
        BY <1>6 DEF ChangeFails, PageShape
    <2> QED
        BY <1>6, <2>1 DEF ChangeFails, PageShape, Patient, Awaited
<1>7. ASSUME NEW l \in loads, LoadAnswered(l) PROVE PageInv'
    <2>1. PageShape'
        BY <1>7 DEF LoadAnswered, PageShape
    <2> QED
        BY <1>7, <2>1 DEF LoadAnswered, PageShape, Patient, Awaited
<1>8. ASSUME NEW l \in loads, LoadFails(l) PROVE PageInv'
    <2>1. PageShape'
        BY <1>8 DEF LoadFails, PageShape
    <2> QED
        BY <1>8, <2>1 DEF LoadFails, PageShape, Patient, Awaited
<1> QED
    BY <1>1, <1>2, <1>3, <1>4, <1>5, <1>6, <1>7, <1>8 DEF PageNext

\* Rows of another selection are passed off as this one's only after one of the
\* causes MisleadingTakesHaste names, or until this one's arrive.
THEOREM OnlyHasteMisleads == PageSpec => []MisleadingTakesHaste
<1>1. PageInv => MisleadingTakesHaste
    BY DEF PageInv, Patient, MisleadingTakesHaste, Misleading
<1> QED
    BY InitPage, StepPage, <1>1, PTL DEF PageSpec

-----------------------------------------------------------------------------
(* The court list's copy *)

\* A listing that was not left behind holds the list of the table.
CopyIsTable ==
    \A l \in Listers : lister[l].at = "read" /\ l \notin behind => lister[l].list = Listed

CacheShape ==
    /\ court \in [Courts -> Row]
    /\ \A l \in Listers : lister[l] = [at |-> lister[l].at, list |-> lister[l].list]
    /\ lister \in [Listers -> [at : {"idle", "missed", "read"}, list : SUBSET (Courts \X Numbers)]]
    /\ keeper \in [Keepers -> [at : {"idle", "numbered", "changed"}, number : 0 .. MaxNumber]]

CacheInv == CacheShape /\ CopyIsTable /\ StaleCopyNeedsCause /\ OneCourtPerNumber

\* At first there is no court and no copy.
LEMMA InitCache == CacheInit => CacheInv
BY MaxNumberAssumption
   DEF CacheInit, CacheInv, CacheShape, CopyIsTable, StaleCopyNeedsCause, OneCourtPerNumber, Row, Away, Rest,
       Showing, Made, Listed, Numbers

\* The list of the table is a list.
LEMMA ListedIsList == ASSUME CacheShape PROVE Listed \in SUBSET (Courts \X Numbers)
BY MaxNumberAssumption DEF CacheShape, Listed, Showing, Made, Row, Numbers

\* A change to a row, or its refusal, keeps the invariant: it leaves the
\* listings that read before it behind and is itself about to delete the copy.
LEMMA ChangeKeeps ==
    ASSUME CacheInv, NEW k \in Keepers, NEW c \in Courts, NEW row \in Row, keeper[k].at # "changed",
           Changes(k, c, row), UNCHANGED <<cached, lister, excused>>
    PROVE  CacheInv'
<1>1. CASE Free(c, row)
    <2>1. /\ court' = [court EXCEPT ![c] = row]
          /\ keeper' = [keeper EXCEPT ![k] = [Rest EXCEPT !.at = "changed"]]
          /\ behind' = behind \cup {l \in Listers : lister[l].at = "read"}
        BY <1>1 DEF Changes
    <2>2. CacheShape'
        BY <2>1, MaxNumberAssumption DEF CacheInv, CacheShape, Rest
    <2>3. CopyIsTable'
        BY <2>1 DEF CopyIsTable
    <2>4. StaleCopyNeedsCause'
        <3>1. keeper'[k].at = "changed"
            BY <2>1 DEF CacheInv, CacheShape, Rest
        <3> QED
            BY <3>1 DEF StaleCopyNeedsCause
    <2>5. OneCourtPerNumber'
        <3> SUFFICES ASSUME NEW a \in Showing', NEW b \in Showing',
                            court'[a].number = court'[b].number, a # b
                     PROVE  FALSE
            BY DEF OneCourtPerNumber
        <3>1. a \in Courts /\ b \in Courts
            BY DEF Showing, Made
        <3>2. CASE a = c
            BY <1>1, <2>1, <3>1, <3>2 DEF Free, Showing, Made, CacheInv, CacheShape
        <3>3. CASE b = c
            BY <1>1, <2>1, <3>1, <3>3 DEF Free, Showing, Made, CacheInv, CacheShape
        <3>4. CASE a # c /\ b # c
            BY <2>1, <3>1, <3>4 DEF Showing, Made, CacheInv, CacheShape, OneCourtPerNumber
        <3> QED
            BY <3>2, <3>3, <3>4
    <2> QED
        BY <2>2, <2>3, <2>4, <2>5 DEF CacheInv
<1>2. CASE ~Free(c, row)
    <2>1. keeper' = [keeper EXCEPT ![k] = Rest] /\ UNCHANGED <<court, behind>>
        BY <1>2 DEF Changes
    <2>2. CacheShape'
        BY <2>1, MaxNumberAssumption DEF CacheInv, CacheShape, Rest
    <2>3. CopyIsTable' /\ OneCourtPerNumber'
        BY <2>1 DEF CacheInv, CopyIsTable, OneCourtPerNumber, Listed, Showing, Made
    <2>4. StaleCopyNeedsCause'
        BY <2>1 DEF CacheInv, CacheShape, StaleCopyNeedsCause, Listed, Showing, Made
    <2> QED
        BY <2>2, <2>3, <2>4 DEF CacheInv
<1> QED
    BY <1>1, <1>2

\* Every step of a listing or a change keeps the invariant.
LEMMA StepCache == CacheInv /\ [CacheNext]_cacheVars => CacheInv'
<1> SUFFICES ASSUME CacheInv, [CacheNext]_cacheVars PROVE CacheInv'
    OBVIOUS
<1> USE DEF Showing, Made, Listed
<1>1. CASE UNCHANGED cacheVars
    BY <1>1 DEF cacheVars, CacheInv, CacheShape, CopyIsTable, StaleCopyNeedsCause, OneCourtPerNumber
<1>2. ASSUME NEW l \in Listers, ListMisses(l) PROVE CacheInv'
    BY <1>2 DEF ListMisses, CacheInv, CacheShape, CopyIsTable, StaleCopyNeedsCause, OneCourtPerNumber
<1>3. ASSUME NEW l \in Listers, ListReads(l) PROVE CacheInv'
    <2>1. CacheShape'
        BY <1>3, ListedIsList DEF ListReads, CacheInv, CacheShape
    <2> QED
        BY <1>3, <2>1 DEF ListReads, CacheInv, CacheShape, CopyIsTable, StaleCopyNeedsCause, OneCourtPerNumber
<1>4. ASSUME NEW l \in Listers, ListStores(l) PROVE CacheInv'
    <2>0. Away \in [at : {"idle", "missed", "read"}, list : SUBSET (Courts \X Numbers)]
          /\ Away = [at |-> Away.at, list |-> Away.list] /\ Away.at = "idle"
        BY DEF Away
    <2>1. CacheShape' /\ CopyIsTable' /\ OneCourtPerNumber'
        <3>1. CacheShape'
            BY <1>4, <2>0 DEF ListStores, CacheInv, CacheShape
        <3>2. CopyIsTable' /\ OneCourtPerNumber'
            BY <1>4, <2>0 DEF ListStores, CacheInv, CacheShape, CopyIsTable, OneCourtPerNumber
        <3> QED
            BY <3>1, <3>2
    <2>2. StaleCopyNeedsCause'
        BY <1>4 DEF ListStores, CacheInv, CopyIsTable, StaleCopyNeedsCause
    <2> QED
        BY <2>1, <2>2 DEF CacheInv
<1>5. CASE CopyLapses
    BY <1>5 DEF CopyLapses, CacheInv, CacheShape, CopyIsTable, StaleCopyNeedsCause, OneCourtPerNumber
<1>6. ASSUME NEW k \in Keepers, CreateNumbers(k) PROVE CacheInv'
    <2>1. PICK n \in Numbers : keeper' = [keeper EXCEPT ![k] = [at |-> "numbered", number |-> n]]
        BY <1>6 DEF CreateNumbers
    <2>2. keeper[k].at = "idle"
        BY <1>6 DEF CreateNumbers
    <2> QED
        BY <1>6, <2>1, <2>2, MaxNumberAssumption
        DEF CreateNumbers, CacheInv, CacheShape, Numbers, CopyIsTable, StaleCopyNeedsCause, OneCourtPerNumber
<1>7. ASSUME NEW k \in Keepers, DropsCopy(k) PROVE CacheInv'
    BY <1>7, MaxNumberAssumption
    DEF DropsCopy, Dropped, Rest, CacheInv, CacheShape, CopyIsTable, StaleCopyNeedsCause, OneCourtPerNumber
<1>8. ASSUME NEW k \in Keepers, DropFails(k) PROVE CacheInv'
    BY <1>8, MaxNumberAssumption
    DEF DropFails, Rest, CacheInv, CacheShape, CopyIsTable, StaleCopyNeedsCause, OneCourtPerNumber
<1>9. ASSUME NEW k \in Keepers, NEW c \in Courts, DeleteCourt(k, c) PROVE CacheInv'
    <2>1. [court[c] EXCEPT !.active = FALSE] \in Row
        <3>1. court[c] \in Row
            BY DEF CacheInv, CacheShape
        <3> HIDE DEF Listed, Showing, Made
        <3> QED
            BY <3>1 DEF Row
    <2> QED
        BY <1>9, <2>1, ChangeKeeps DEF DeleteCourt
<1>10. ASSUME NEW k \in Keepers, NEW c \in Courts, NEW n \in Numbers, CreateInserts(k, c, n)
       PROVE  CacheInv'
    <2>1. [number |-> n, active |-> TRUE] \in Row
        BY MaxNumberAssumption DEF Row, Numbers
    <2> QED
        BY <1>10, <2>1, ChangeKeeps DEF CreateInserts
<1>11. ASSUME NEW k \in Keepers, NEW c \in Courts, NEW row \in Row, UpdateCourt(k, c, row)
       PROVE  CacheInv'
    BY <1>11, ChangeKeeps DEF UpdateCourt
<1> QED
    BY <1>1, <1>2, <1>3, <1>4, <1>5, <1>6, <1>7, <1>8, <1>9, <1>10, <1>11 DEF CacheNext

\* A stale copy is about to go, or was stored by an overtaken listing, or
\* survived a delete Redis did not take.
THEOREM StaleExplained == CacheSpec => []StaleCopyNeedsCause
<1>1. CacheInv => StaleCopyNeedsCause
    BY DEF CacheInv
<1> QED
    BY InitCache, StepCache, <1>1, PTL DEF CacheSpec

\* Two active courts never carry one number.
THEOREM NumbersApart == CacheSpec => []OneCourtPerNumber
<1>1. CacheInv => OneCourtPerNumber
    BY DEF CacheInv
<1> QED
    BY InitCache, StepCache, <1>1, PTL DEF CacheSpec

-----------------------------------------------------------------------------
(* The reminders *)

\* The parts of the types the argument needs.
TicksTyped ==
    /\ lock \in Ticks \cup {NoTick}
    /\ tick \in [Ticks -> {"idle", "in", "sending", "mailed"}]
    /\ todo \in [Ticks -> SUBSET Bookings] /\ current \in [Ticks -> SUBSET Bookings]
    /\ confirmed \subseteq Bookings /\ marked \subseteq Bookings /\ mishap \subseteq Bookings
    /\ adrift \subseteq Ticks
    /\ mails \in [Bookings -> Nat]

\* A tick runs under the lock or has lost it, never both.
LockedOrAdrift ==
    \A t \in Ticks : IF tick[t] = "idle" THEN t # lock /\ t \notin adrift
                                         ELSE (t = lock) # (t \in adrift)

\* A tick works through a list only after it selected it, and has a booking
\* between mail and mark only while it is there.
TickPlaces ==
    \A t \in Ticks :
        /\ tick[t] \in {"idle", "in"} => todo[t] = {}
        /\ tick[t] # "mailed" => current[t] = {}

\* Who was mailed is marked, or touched by a fault, or about to be marked by
\* the tick that holds the lock.
Accounted ==
    \A b \in Bookings : mails[b] > 0 =>
        b \in marked \/ b \in mishap \/ \E t \in Ticks : t = lock /\ b \in current[t]

\* Who the holder of the lock is still to mail has not been mailed, unless a
\* fault touched them.
ToldOnce ==
    \A t \in Ticks, b \in Bookings : t = lock /\ b \in todo[t] => mails[b] = 0 \/ b \in mishap

ReminderInv == TicksTyped /\ LockedOrAdrift /\ TickPlaces /\ Accounted /\ ToldOnce /\ TwiceNeedsMishap

\* Before the first tick nobody holds the lock and nobody was mailed.
LEMMA InitReminder == ReminderInit => ReminderInv
BY NoTickAssumption DEF ReminderInit, ReminderInv, TicksTyped, LockedOrAdrift, TickPlaces, Accounted, ToldOnce,
   TwiceNeedsMishap

\* Every step of every tick, the faults included, keeps the invariant.
LEMMA StepReminder == ReminderInv /\ [ReminderNext]_reminderVars => ReminderInv'
<1> SUFFICES ASSUME ReminderInv, [ReminderNext]_reminderVars PROVE ReminderInv'
    OBVIOUS
<1> USE NoTickAssumption
<1> USE DEF ReminderInv, TicksTyped, LockedOrAdrift, TickPlaces
<1>1. CASE UNCHANGED reminderVars
    BY <1>1 DEF reminderVars, Accounted, ToldOnce, TwiceNeedsMishap
<1>2. ASSUME NEW t \in Ticks, TickEnters(t) PROVE ReminderInv'
    <2>1. lock = NoTick /\ tick[t] = "idle" /\ lock' = t /\ tick' = [tick EXCEPT ![t] = "in"]
        BY <1>2 DEF TickEnters, LockFree
    <2>2. TicksTyped' /\ LockedOrAdrift' /\ TickPlaces'
        BY <1>2, <2>1 DEF TickEnters
    <2>3. Accounted' /\ ToldOnce' /\ TwiceNeedsMishap'
        BY <1>2, <2>1 DEF TickEnters, Accounted, ToldOnce, TwiceNeedsMishap
    <2> QED
        BY <2>2, <2>3
<1>3. ASSUME NEW t \in Ticks, Selects(t) PROVE ReminderInv'
    <2>1. TicksTyped' /\ LockedOrAdrift' /\ TickPlaces'
        BY <1>3 DEF Selects, DueNow
    <2>2. Accounted' /\ TwiceNeedsMishap'
        BY <1>3 DEF Selects, Accounted, TwiceNeedsMishap
    <2>3. ASSUME NEW b \in Bookings, t = lock, b \in DueNow PROVE mails[b] = 0 \/ b \in mishap
        <3>1. b \notin marked /\ current[t] = {}
            BY <1>3, <2>3 DEF Selects, DueNow
        <3>2. \A u \in Ticks : u = lock => b \notin current[u]
            BY <2>3, <3>1
        <3> QED
            BY <3>1, <3>2 DEF Accounted
    <2>4. ToldOnce'
        BY <1>3, <2>3 DEF Selects, ToldOnce
    <2> QED
        BY <2>1, <2>2, <2>4
<1>4. ASSUME NEW t \in Ticks, NEW b \in Bookings, Mails(t, b) PROVE ReminderInv'
    <2>1. /\ tick[t] = "sending" /\ b \in todo[t]
          /\ mails' = [mails EXCEPT ![b] = @ + 1]
          /\ mishap' = IF t \in adrift THEN mishap \cup {b} ELSE mishap
        BY <1>4 DEF Mails
    <2>2. TicksTyped' /\ LockedOrAdrift' /\ TickPlaces'
        BY <1>4 DEF Mails
    <2>3. t \notin adrift => t = lock /\ (mails[b] = 0 \/ b \in mishap)
        BY <2>1 DEF ToldOnce
    <2>4. TwiceNeedsMishap'
        BY <2>1, <2>3 DEF TwiceNeedsMishap
    <2>5. Accounted'
        BY <1>4, <2>1, <2>3 DEF Mails, Accounted
    <2>6. ToldOnce'
        BY <1>4, <2>1, <2>3 DEF Mails, ToldOnce
    <2> QED
        BY <2>2, <2>4, <2>5, <2>6
<1>5. ASSUME NEW t \in Ticks, NEW b \in Bookings, MailFails(t, b) PROVE ReminderInv'
    <2>1. TicksTyped' /\ LockedOrAdrift' /\ TickPlaces'
        BY <1>5 DEF MailFails
    <2>2. Accounted' /\ ToldOnce' /\ TwiceNeedsMishap'
        BY <1>5 DEF MailFails, Accounted, ToldOnce, TwiceNeedsMishap
    <2> QED
        BY <2>1, <2>2
<1>6. ASSUME NEW t \in Ticks, Marks(t) PROVE ReminderInv'
    <2>1. TicksTyped' /\ LockedOrAdrift' /\ TickPlaces'
        BY <1>6 DEF Marks
    <2>2. Accounted' /\ ToldOnce' /\ TwiceNeedsMishap'
        BY <1>6 DEF Marks, Accounted, ToldOnce, TwiceNeedsMishap
    <2> QED
        BY <2>1, <2>2
<1>7. ASSUME NEW t \in Ticks, MarkFails(t) PROVE ReminderInv'
    <2>1. TicksTyped' /\ LockedOrAdrift' /\ TickPlaces'
        BY <1>7 DEF MarkFails
    <2>2. Accounted' /\ ToldOnce' /\ TwiceNeedsMishap'
        BY <1>7 DEF MarkFails, Accounted, ToldOnce, TwiceNeedsMishap
    <2> QED
        BY <2>1, <2>2
<1>8. ASSUME NEW t \in Ticks, TickEnds(t) \/ SelectFails(t) PROVE ReminderInv'
    <2>1. current[t] = {} /\ todo[t] = {} /\ tick' = [tick EXCEPT ![t] = "idle"]
        BY <1>8 DEF TickEnds, SelectFails
    <2>2. /\ lock' = IF lock = t THEN NoTick ELSE lock
          /\ adrift' = adrift \ {t}
          /\ UNCHANGED <<todo, current, confirmed, marked, mails, mishap>>
        BY <1>8 DEF TickEnds, SelectFails, Unlocked
    <2>3. TicksTyped' /\ LockedOrAdrift' /\ TickPlaces'
        BY <2>1, <2>2
    <2>4. Accounted' /\ ToldOnce' /\ TwiceNeedsMishap'
        BY <2>1, <2>2 DEF Accounted, ToldOnce, TwiceNeedsMishap
    <2> QED
        BY <2>3, <2>4
<1>9. ASSUME NEW t \in Ticks, Crash(t) PROVE ReminderInv'
    <2>1. TicksTyped' /\ LockedOrAdrift' /\ TickPlaces'
        BY <1>9 DEF Crash
    <2>2. Accounted' /\ ToldOnce' /\ TwiceNeedsMishap'
        BY <1>9 DEF Crash, Accounted, ToldOnce, TwiceNeedsMishap
    <2> QED
        BY <2>1, <2>2
<1>10. ASSUME NEW t \in Ticks, LockLost(t) PROVE ReminderInv'
    <2>1. TicksTyped' /\ LockedOrAdrift' /\ TickPlaces'
        BY <1>10 DEF LockLost
    <2>2. Accounted' /\ ToldOnce' /\ TwiceNeedsMishap'
        BY <1>10 DEF LockLost, Accounted, ToldOnce, TwiceNeedsMishap
    <2> QED
        BY <2>1, <2>2
<1>11. ASSUME NEW b \in Bookings, MinutesPass(b) \/ BookingCancelled(b) PROVE ReminderInv'
    BY <1>11 DEF MinutesPass, BookingCancelled, Accounted, ToldOnce, TwiceNeedsMishap
<1> QED
    BY <1>1, <1>2, <1>3, <1>4, <1>5, <1>6, <1>7, <1>8, <1>9, <1>10, <1>11 DEF ReminderNext

\* No reminder is sent twice without a fault, however the ticks of the replicas
\* overlap.
THEOREM SentOnce == ReminderSpec => []TwiceNeedsMishap
<1>1. ReminderInv => TwiceNeedsMishap
    BY DEF ReminderInv
<1> QED
    BY InitReminder, StepReminder, <1>1, PTL DEF ReminderSpec

\* The lock is never left behind by a tick that has ended or died.
THEOREM LockComesBack == ReminderSpec => []LockNeverLeaks
<1>1. ReminderInv => LockNeverLeaks
    BY NoTickAssumption DEF ReminderInv, TicksTyped, LockedOrAdrift, LockNeverLeaks
<1> QED
    BY InitReminder, StepReminder, <1>1, PTL DEF ReminderSpec

-----------------------------------------------------------------------------
(* The connection pool *)

\* A call holds a connection exactly while it is past the wait for one.
Placed ==
    \A k \in Calls :
        IF call[k].at \in {"idle", "waiting"}
        THEN call[k].on = NoConnection
        ELSE call[k].on \in Connections

OneHolder ==
    \A j, k \in Calls : j # k /\ call[j].on = call[k].on => call[j].on = NoConnection

\* The connection of a call is where the call is: plain until BEGIN, without a
\* club until the context is applied, and with the call's own from then on.
Staged ==
    \A k \in Calls :
        /\ call[k].at = "holding" => call[k].on \notin opened /\ setting[call[k].on] = NoClub
        /\ call[k].at = "begun"   => call[k].on \in opened /\ setting[call[k].on] = NoClub
        /\ call[k].at = "scoped"  => call[k].on \in opened /\ setting[call[k].on] = call[k].club

UnusedClean ==
    \A c \in Connections : (\A k \in Calls : call[k].on # c) => c \notin opened /\ setting[c] = NoClub

PoolInv ==
    PoolTypeOK /\ Placed /\ OneHolder /\ Staged /\ UnusedClean /\ EveryStatementSeesItsScope

\* A call that is not under way is a call.
LEMMA NoCallTyped == NoCall \in CallRow
BY StatementsAssumption DEF NoCall, CallRow, States, Kinds

\* The pool starts with plain connections that nobody holds.
LEMMA InitPool == PoolInit => PoolInv
<1> SUFFICES ASSUME PoolInit PROVE PoolInv
    OBVIOUS
<1>1. PoolTypeOK
    BY NoCallTyped DEF PoolInit, PoolTypeOK
<1>2. Placed /\ OneHolder /\ Staged /\ UnusedClean /\ EveryStatementSeesItsScope
    BY DEF PoolInit, NoCall, Placed, OneHolder, Staged, UnusedClean, EveryStatementSeesItsScope
<1> QED
    BY <1>1, <1>2 DEF PoolInv

\* A call that lets its connection go leaves it plain and without a club.
LEMMA HandedBack ==
    ASSUME PoolInv, NEW k \in Calls, call[k].on # NoConnection, Release(k), UNCHANGED misled,
           setting' = [setting EXCEPT ![call[k].on] = NoClub],
           opened' = opened \ {call[k].on}
    PROVE  PoolInv'
<1> DEFINE c == call[k].on
<1>1. c \in Connections /\ call' = [call EXCEPT ![k] = NoCall]
    BY DEF PoolInv, Placed, Release
<1>2. PoolTypeOK'
    BY <1>1, NoCallTyped DEF PoolInv, PoolTypeOK
<1>3. Placed' /\ OneHolder'
    BY <1>1 DEF PoolInv, PoolTypeOK, NoCall, Placed, OneHolder
<1>4. \A j \in Calls : j # k => call'[j] = call[j] /\ call[j].on # c
    BY <1>1 DEF PoolInv, PoolTypeOK, OneHolder
<1>5. Staged'
    <2> SUFFICES ASSUME NEW j \in Calls PROVE
            /\ call'[j].at = "holding" => call'[j].on \notin opened' /\ setting'[call'[j].on] = NoClub
            /\ call'[j].at = "begun"   => call'[j].on \in opened' /\ setting'[call'[j].on] = NoClub
            /\ call'[j].at = "scoped"  => call'[j].on \in opened' /\ setting'[call'[j].on] = call'[j].club
        BY DEF Staged
    <2>1. CASE j = k
        BY <2>1, <1>1 DEF PoolInv, PoolTypeOK, NoCall
    <2>2. CASE j # k
        <3>1. call'[j] = call[j] /\ call[j].on # c
            BY <2>2, <1>4
        <3>2. call[j].at \in {"holding", "begun", "scoped"} => call[j].on \in Connections
            BY DEF PoolInv, Placed
        <3> QED
            BY <3>1, <3>2 DEF PoolInv, PoolTypeOK, Staged
    <2> QED
        BY <2>1, <2>2
<1>6. UnusedClean'
    <2> SUFFICES ASSUME NEW d \in Connections, \A j \in Calls : call'[j].on # d
                 PROVE  d \notin opened' /\ setting'[d] = NoClub
        BY DEF UnusedClean
    <2>1. CASE d = c
        BY <2>1, <1>1 DEF PoolInv, PoolTypeOK
    <2>2. CASE d # c
        <3>1. \A j \in Calls : call[j].on # d
            BY <2>2, <1>4
        <3> QED
            BY <2>2, <3>1 DEF PoolInv, PoolTypeOK, UnusedClean
    <2> QED
        BY <2>1, <2>2
<1> QED
    BY <1>2, <1>3, <1>5, <1>6 DEF PoolInv, EveryStatementSeesItsScope

\* A call that moves on, or takes a connection, is still a call.
LEMMA RowMoves ==
    ASSUME NEW row \in CallRow, NEW to \in States, NEW on \in Connections \cup {NoConnection}
    PROVE  /\ [row EXCEPT !.at = to] \in CallRow
           /\ [row EXCEPT !.at = to, !.on = on] \in CallRow
BY DEF CallRow

\* Every step of every call keeps the invariant.
LEMMA StepPool == PoolInv /\ [PoolNext]_poolVars => PoolInv'
<1> SUFFICES ASSUME PoolInv, [PoolNext]_poolVars PROVE PoolInv'
    OBVIOUS
<1> USE NoClubAssumption, NoConnectionAssumption
<1>1. CASE UNCHANGED poolVars
    BY <1>1 DEF poolVars, PoolInv, PoolTypeOK, Placed, OneHolder, Staged, UnusedClean,
                EveryStatementSeesItsScope
<1>2. ASSUME NEW k \in Calls, NEW g \in Clubs \cup {NoClub}, NEW kind \in Kinds, Arrive(k, g, kind)
      PROVE  PoolInv'
    <2>1. PoolTypeOK'
        <3>1. [NoCall EXCEPT !.at = "waiting", !.club = g, !.kind = kind] \in CallRow
            BY NoCallTyped DEF CallRow, States
        <3> QED
            BY <1>2, <3>1 DEF Arrive, PoolInv, PoolTypeOK
    <2>2. Placed' /\ OneHolder' /\ Staged'
        BY <1>2 DEF Arrive, PoolInv, PoolTypeOK, CallRow, NoCall, Placed, OneHolder, Staged
    <2>3. UnusedClean'
        <3>1. \A j \in Calls : call'[j].on = call[j].on
            BY <1>2 DEF Arrive, PoolInv, PoolTypeOK, CallRow, NoCall, Placed
        <3> QED
            BY <1>2, <3>1 DEF Arrive, PoolInv, UnusedClean
    <2>4. EveryStatementSeesItsScope'
        BY <1>2 DEF Arrive, PoolInv, EveryStatementSeesItsScope
    <2> QED
        BY <2>1, <2>2, <2>3, <2>4 DEF PoolInv
<1>3. ASSUME NEW k \in Calls, NEW c \in Connections, Connect(k, c)
      PROVE  PoolInv'
    <2>1. \A j \in Calls : call[j].on # c
        BY <1>3 DEF Connect, Unused
    <2>2. PoolTypeOK'
        <3>1. call[k] \in CallRow /\ "holding" \in States
            BY DEF PoolInv, PoolTypeOK, States
        <3>2. [call[k] EXCEPT !.at = "holding", !.on = c] \in CallRow
            BY <3>1, RowMoves, Zenon
        <3>3. call' = [call EXCEPT ![k] = [call[k] EXCEPT !.at = "holding", !.on = c]]
            BY <1>3, <3>1 DEF Connect, PoolInv, PoolTypeOK, CallRow
        <3> QED
            BY <1>3, <3>2, <3>3 DEF Connect, PoolInv, PoolTypeOK
    <2>3. Placed' /\ OneHolder'
        BY <1>3, <2>1 DEF Connect, PoolInv, PoolTypeOK, CallRow, Placed, OneHolder
    <2>4. c \notin opened /\ setting[c] = NoClub
        BY <2>1 DEF PoolInv, UnusedClean
    <2>5. Staged'
        BY <1>3, <2>4 DEF Connect, PoolInv, PoolTypeOK, CallRow, Staged
    <2>6. UnusedClean' /\ EveryStatementSeesItsScope'
        BY <1>3 DEF Connect, PoolInv, PoolTypeOK, CallRow, Placed, UnusedClean,
                    EveryStatementSeesItsScope
    <2> QED
        BY <2>2, <2>3, <2>5, <2>6 DEF PoolInv
<1>4. ASSUME NEW k \in Calls, ConnectTimesOut(k)
      PROVE  PoolInv'
    <2>1. PoolTypeOK'
        BY <1>4, NoCallTyped DEF ConnectTimesOut, PoolInv, PoolTypeOK
    <2>2. Placed' /\ OneHolder' /\ Staged'
        BY <1>4 DEF ConnectTimesOut, PoolInv, PoolTypeOK, CallRow, NoCall, Placed, OneHolder, Staged
    <2>3. UnusedClean'
        <3>1. \A j \in Calls : call'[j].on = call[j].on
            BY <1>4 DEF ConnectTimesOut, PoolInv, PoolTypeOK, CallRow, NoCall, Placed
        <3> QED
            BY <1>4, <3>1 DEF ConnectTimesOut, PoolInv, UnusedClean
    <2>4. EveryStatementSeesItsScope'
        BY <1>4 DEF ConnectTimesOut, PoolInv, EveryStatementSeesItsScope
    <2> QED
        BY <2>1, <2>2, <2>3, <2>4 DEF PoolInv
<1>5. ASSUME NEW k \in Calls, Begin(k)
      PROVE  PoolInv'
    <2>1. PoolTypeOK'
        <3>1. call[k] \in CallRow /\ "begun" \in States /\ call[k].on \in Connections
            BY <1>5 DEF Begin, PoolInv, PoolTypeOK, States, CallRow, Placed
        <3>2. [call[k] EXCEPT !.at = "begun"] \in CallRow
            BY <3>1, RowMoves, Zenon
        <3> QED
            BY <1>5, <3>1, <3>2 DEF Begin, PoolInv, PoolTypeOK
    <2>2. Placed' /\ OneHolder'
        BY <1>5 DEF Begin, PoolInv, PoolTypeOK, CallRow, Placed, OneHolder
    <2>3. Staged'
        BY <1>5 DEF Begin, PoolInv, PoolTypeOK, CallRow, Placed, OneHolder, Staged
    <2>4. UnusedClean' /\ EveryStatementSeesItsScope'
        BY <1>5 DEF Begin, PoolInv, PoolTypeOK, CallRow, UnusedClean, EveryStatementSeesItsScope
    <2> QED
        BY <2>1, <2>2, <2>3, <2>4 DEF PoolInv
<1>6. ASSUME NEW k \in Calls, ApplyTenantContext(k)
      PROVE  PoolInv'
    <2>1. PoolTypeOK'
        <3>1. call[k] \in CallRow /\ "scoped" \in States /\ call[k].on \in Connections
            BY <1>6 DEF ApplyTenantContext, PoolInv, PoolTypeOK, States, CallRow, Placed
        <3>2. [call[k] EXCEPT !.at = "scoped"] \in CallRow
            BY <3>1, RowMoves, Zenon
        <3>3. call[k].club \in Clubs \cup {NoClub}
            BY <3>1 DEF CallRow
        <3> QED
            BY <1>6, <3>1, <3>2, <3>3 DEF ApplyTenantContext, PoolInv, PoolTypeOK
    <2>2. Placed' /\ OneHolder'
        BY <1>6 DEF ApplyTenantContext, PoolInv, PoolTypeOK, CallRow, Placed, OneHolder
    <2>3. Staged'
        BY <1>6 DEF ApplyTenantContext, PoolInv, PoolTypeOK, CallRow, Placed, OneHolder, Staged
    <2>4. UnusedClean' /\ EveryStatementSeesItsScope'
        BY <1>6 DEF ApplyTenantContext, PoolInv, PoolTypeOK, CallRow, UnusedClean,
                    EveryStatementSeesItsScope
    <2> QED
        BY <2>1, <2>2, <2>3, <2>4 DEF PoolInv
<1>7. ASSUME NEW k \in Calls, Statement(k)
      PROVE  PoolInv'
    <2>1. setting[call[k].on] = call[k].club
        BY <1>7 DEF Statement, Transacted, PoolInv, Staged
    <2>2. PoolTypeOK'
        <3>1. call[k].statements + 1 \in 0 .. MaxStatements
            BY <1>7, StatementsAssumption DEF Statement, PoolInv, PoolTypeOK, CallRow
        <3> QED
            BY <1>7, <3>1 DEF Statement, PoolInv, PoolTypeOK, CallRow
    <2>3. Placed' /\ OneHolder'
        BY <1>7 DEF Statement, PoolInv, PoolTypeOK, CallRow, Placed, OneHolder
    <2>4. Staged' /\ UnusedClean'
        BY <1>7 DEF Statement, PoolInv, PoolTypeOK, CallRow, Staged, UnusedClean
    <2>5. EveryStatementSeesItsScope'
        BY <1>7, <2>1 DEF Statement, PoolInv, EveryStatementSeesItsScope
    <2> QED
        BY <2>2, <2>3, <2>4, <2>5 DEF PoolInv
<1>8. ASSUME NEW k \in Calls, TransactionEnds(k)
      PROVE  PoolInv'
    <2>1. call[k].on # NoConnection
        BY <1>8 DEF TransactionEnds, PoolInv, PoolTypeOK
    <2> QED
        BY <1>8, <2>1, HandedBack DEF TransactionEnds, Ended
<1>9. ASSUME NEW k \in Calls, PlainEnds(k)
      PROVE  PoolInv'
    <2>1. /\ call[k].on \in Connections /\ call[k].on \notin opened
          /\ setting[call[k].on] = NoClub
        BY <1>9 DEF PlainEnds, PoolInv, Placed, Staged
    <2>2. /\ setting' = [setting EXCEPT ![call[k].on] = NoClub]
          /\ opened' = opened \ {call[k].on}
        BY <1>9, <2>1 DEF PlainEnds, PoolInv, PoolTypeOK
    <2> QED
        BY <1>9, <2>1, <2>2, HandedBack DEF PlainEnds
<1>10. ASSUME NEW k \in Calls, ConnectionDrops(k)
      PROVE  PoolInv'
    BY <1>10, HandedBack DEF ConnectionDrops
<1> QED
    BY <1>1, <1>2, <1>3, <1>4, <1>5, <1>6, <1>7, <1>8, <1>9, <1>10 DEF PoolNext

\* The setting a statement sees is its own club's or, for a call without one,
\* none, whatever ran on its connection before.
THEOREM ScopeHolds == PoolSpec => []EveryStatementSeesItsScope
<1>1. PoolInv => EveryStatementSeesItsScope
    BY DEF PoolInv
<1> QED
    BY InitPool, StepPool, <1>1, PTL DEF PoolSpec

\* Connections nobody holds are clean, and no two calls share one.
THEOREM CleanPool == PoolSpec => []PoolIsClean
<1>1. PoolInv => PoolIsClean
    BY DEF PoolInv, OneHolder, UnusedClean, PoolIsClean, Unused
<1> QED
    BY InitPool, StepPool, <1>1, PTL DEF PoolSpec

-----------------------------------------------------------------------------
(* The coaches' logins *)

\* A request names a coach and an account; one that read another role than a
\* member's still reads it, and one about to promote has stored its link.
LinkingInv ==
    \A m \in Managers :
        /\ linking[m].step = "idle" => linking[m] = NoLink
        /\ linking[m].step # "idle" => linking[m].coach \in Coaches /\ linking[m].login \in Logins
        /\ linking[m].step = "other" => role[linking[m].login] # "customer"
        /\ linking[m].step = "promoting" => linking[m].login \in linked

\* The inductive invariant of the links.
LoginsInv == LoginsTypeOK /\ LinkingInv /\ LinksPromote

\* The club starts with coaches without a login and with no coach's role.
LEMMA LoginsStart == LoginsInit => LoginsInv
<1> SUFFICES ASSUME LoginsInit PROVE LoginsInv
  OBVIOUS
<1>1. LoginsTypeOK
  BY DEF LoginsInit, LoginsTypeOK, NoLink
<1>2. LinkingInv
  BY DEF LoginsInit, LinkingInv, NoLink
<1>3. LinksPromote
  BY NoLoginAssumption DEF LoginsInit, LinksPromote, Roster
<1> QED BY <1>1, <1>2, <1>3 DEF LoginsInv

\* Whatever a request does next, the links stay sound.
LEMMA LoginsStep == LoginsInv /\ [LoginsNext]_loginVars => LoginsInv'
<1> SUFFICES ASSUME LoginsInv, [LoginsNext]_loginVars PROVE LoginsInv'
  OBVIOUS
<1> USE DEF LoginsInv
<1>1. ASSUME NEW m \in Managers, NEW c \in Coaches, NEW login \in Logins \cup {NoLogin},
             CreateCoach(m, c, login)
      PROVE  LoginsInv'
  <2> USE <1>1 DEF CreateCoach
  <2>1. LoginsTypeOK'
    BY DEF LoginsTypeOK, Link
  <2>2. LinkingInv'
    BY DEF LoginsTypeOK, LinkingInv, Link, NoLink
  <2>3. LinksPromote'
    BY DEF LoginsTypeOK, LinksPromote, Roster, Link, NoLink
  <2> QED BY <2>1, <2>2, <2>3
<1>2. ASSUME NEW m \in Managers, NEW c \in Coaches, NEW login \in Logins, RelinkCoach(m, c, login)
      PROVE  LoginsInv'
  <2> USE <1>2 DEF RelinkCoach, Link
  <2>1. LoginsTypeOK'
    BY DEF LoginsTypeOK
  <2>2. LinkingInv'
    BY DEF LoginsTypeOK, LinkingInv, NoLink
  <2>3. LinksPromote'
    BY DEF LoginsTypeOK, LinksPromote, Roster, NoLink
  <2> QED BY <2>1, <2>2, <2>3
<1>3. ASSUME NEW c \in Coaches, Unlink(c) PROVE LoginsInv'
  <2> USE <1>3 DEF Unlink
  <2>1. LoginsTypeOK' /\ LinkingInv'
    BY DEF LoginsTypeOK, LinkingInv
  <2>2. LinksPromote'
    BY DEF LoginsTypeOK, LinksPromote, Roster
  <2> QED BY <2>1, <2>2
<1>4. ASSUME NEW m \in Managers, ResolveCoachAccount(m) PROVE LoginsInv'
  <2> USE <1>4 DEF ResolveCoachAccount, Resolved
  <2>1. LoginsTypeOK'
    BY DEF LoginsTypeOK
  <2>2. LinkingInv'
    BY DEF LoginsTypeOK, LinkingInv
  <2>3. LinksPromote'
    BY DEF LoginsTypeOK, LinksPromote, Roster
  <2> QED BY <2>1, <2>2, <2>3
<1>5. ASSUME NEW m \in Managers, NoAccount(m) \/ LinkRefused(m) PROVE LoginsInv'
  <2> USE <1>5 DEF NoAccount, LinkRefused
  <2>1. LoginsTypeOK'
    BY DEF LoginsTypeOK, NoLink
  <2>2. LinkingInv'
    BY DEF LoginsTypeOK, LinkingInv, NoLink
  <2>3. LinksPromote'
    BY DEF LoginsTypeOK, LinksPromote, Roster, NoLink
  <2> QED BY <2>1, <2>2, <2>3
<1>6. ASSUME NEW m \in Managers, LinkCoachAccount(m) PROVE LoginsInv'
  <2> DEFINE c == linking[m].coach
             u == linking[m].login
  <2> USE <1>6 DEF LinkCoachAccount
  <2>1. c \in Coaches /\ u \in Logins
    BY DEF LinkingInv
  <2>2. LoginsTypeOK'
    BY <2>1 DEF LoginsTypeOK, NoLink
  <2>3. LinkingInv'
    BY <2>1 DEF LoginsTypeOK, LinkingInv, NoLink
  <2>4. role[u] = "customer" => linking'[m].step = "promoting" /\ linking'[m].login = u
    BY DEF LoginsTypeOK, LinkingInv
  <2>5. LinksPromote'
    <3>1. \A v \in Logins : role'[v] = "coach" => v \in linked'
      BY DEF LinksPromote
    <3>2. ASSUME NEW d \in Roster', profile'[d] # NoLogin, role'[profile'[d]] = "customer"
          PROVE  \/ profile'[d] \in cut'
                 \/ \E n \in Managers : linking'[n].step = "promoting" /\ linking'[n].login = profile'[d]
      <4>1. CASE d = c
        BY <2>1, <2>4, <3>2, <4>1 DEF LoginsTypeOK
      <4>2. CASE d # c
        <5>1. d \in Roster /\ profile'[d] = profile[d]
          BY <2>1, <4>2 DEF LoginsTypeOK, Roster
        <5>2. \/ profile[d] \in cut
              \/ \E n \in Managers : linking[n].step = "promoting" /\ linking[n].login = profile[d]
          BY <3>2, <5>1 DEF LinksPromote
        <5> QED BY <5>1, <5>2 DEF LoginsTypeOK
      <4> QED BY <4>1, <4>2
    <3> QED BY <3>1, <3>2 DEF LinksPromote
  <2> QED BY <2>2, <2>3, <2>5
<1>7. ASSUME NEW m \in Managers, Promote(m) PROVE LoginsInv'
  <2> USE <1>7 DEF Promote
  <2>1. LoginsTypeOK'
    BY DEF LoginsTypeOK, NoLink
  <2>2. LinkingInv'
    BY DEF LoginsTypeOK, LinkingInv, NoLink
  <2>3. LinksPromote'
    BY DEF LoginsTypeOK, LinkingInv, LinksPromote, Roster, NoLink
  <2> QED BY <2>1, <2>2, <2>3
<1>8. ASSUME NEW m \in Managers, LinkCut(m) PROVE LoginsInv'
  <2> USE <1>8 DEF LinkCut
  <2>1. linking[m].login \in Logins
    BY DEF LoginsTypeOK, LinkingInv, NoLink
  <2>2. LoginsTypeOK'
    BY <2>1 DEF LoginsTypeOK, NoLink
  <2>3. LinkingInv'
    BY DEF LoginsTypeOK, LinkingInv, NoLink
  <2>4. LinksPromote'
    BY DEF LoginsTypeOK, LinksPromote, Roster, NoLink
  <2> QED BY <2>2, <2>3, <2>4
<1>9. CASE UNCHANGED loginVars
  BY <1>9 DEF loginVars, LoginsTypeOK, LinkingInv, LinksPromote, Roster
<1> QED BY <1>1, <1>2, <1>3, <1>4, <1>5, <1>6, <1>7, <1>8, <1>9 DEF LoginsNext

\* No refused link makes a member a coach, and a linked member is one unless
\* the request is on its way or died, for any coaches, logins and requests.
THEOREM NoStrayPromotion == LoginsSpec => []LinksPromote
<1>1. LoginsSpec => []LoginsInv
  BY LoginsStart, LoginsStep, PTL DEF LoginsSpec
<1> QED BY <1>1, PTL DEF LoginsInv
-----------------------------------------------------------------------------
(* The lost and found *)

LostTypes ==
    /\ claim \in [Claimants -> {"none", "asked", "pending", "approved", "rejected"}]
    /\ decision \in [Staff -> [claim : Claimants \cup {Nothing}, marked : BOOLEAN]]
    /\ late \in BOOLEAN

\* While nothing went wrong one claim at most is approved, and it is being
\* decided, or it is and no other waits.
OneApproved ==
    ~late => /\ \A c, d \in Approved : c = d
             /\ Approved # {} /\ Deciding = {} => \A c \in Claimants : claim[c] # "pending"

LEMMA LostStarts == LostInit => LostTypes /\ OneApproved
<1> SUFFICES ASSUME LostInit PROVE LostTypes /\ OneApproved
  OBVIOUS
<1>1. NoDecision \in [claim : Claimants \cup {Nothing}, marked : BOOLEAN]
  BY DEF NoDecision
<1>2. LostTypes
  BY <1>1 DEF LostInit, LostTypes
<1>3. Approved = {}
  BY DEF LostInit, Approved
<1> QED BY <1>2, <1>3 DEF OneApproved

LEMMA LostStep == LostTypes /\ OneApproved /\ [LostNext]_itemVars => LostTypes' /\ OneApproved'
<1> SUFFICES ASSUME LostTypes, OneApproved, [LostNext]_itemVars PROVE LostTypes' /\ OneApproved'
  OBVIOUS
<1>0. NoDecision \in [claim : Claimants \cup {Nothing}, marked : BOOLEAN]
  BY DEF NoDecision
<1>1. ASSUME NEW c \in Claimants, SubmitReads(c) PROVE LostTypes' /\ OneApproved'
  <2>1. LostTypes'
    BY <1>1 DEF SubmitReads, LostTypes
  <2>2. Approved' = Approved /\ Deciding' = Deciding
    BY <1>1 DEF SubmitReads, LostTypes, Approved, Deciding
  <2> QED BY <1>1, <2>1, <2>2 DEF SubmitReads, LostTypes, OneApproved
<1>2. ASSUME NEW c \in Claimants, SubmitInserts(c) PROVE LostTypes' /\ OneApproved'
  <2>1. LostTypes'
    BY <1>2 DEF SubmitInserts, LostTypes
  <2>2. Approved' = Approved /\ (~late' => Approved = {})
    BY <1>2 DEF SubmitInserts, LostTypes, Approved
  <2> QED BY <2>1, <2>2 DEF OneApproved
<1>3. ASSUME NEW c \in Claimants, Reject(c) PROVE LostTypes' /\ OneApproved'
  <2>1. LostTypes'
    BY <1>3 DEF Reject, LostTypes
  <2>2. /\ Approved' = Approved /\ Deciding' = Deciding
        /\ \A d \in Claimants : claim'[d] = "pending" => claim[d] = "pending"
    BY <1>3 DEF Reject, Decidable, LostTypes, Approved, Deciding
  <2> QED BY <1>3, <2>1, <2>2 DEF Reject, OneApproved
<1>4. ASSUME NEW s \in Staff, NEW c \in Claimants, Approve(s, c) PROVE LostTypes' /\ OneApproved'
  <2>1. LostTypes'
    BY <1>4 DEF Approve, LostTypes
  <2>2. ~late' => ~late /\ Deciding = {}
    BY <1>4 DEF Approve
  <2>3. ~late' => Approved = {}
    BY <1>4, <2>2 DEF Approve, Decidable, OneApproved
  <2>4. Approved' \subseteq Approved \cup {c}
    BY <1>4 DEF Approve, LostTypes, Approved
  <2>5. s \in Deciding'
    BY <1>4, NothingAssumption DEF Approve, LostTypes, Deciding, NoDecision
  <2> QED BY <2>1, <2>3, <2>4, <2>5 DEF OneApproved
<1>5. ASSUME NEW s \in Staff, ApproveMarks(s) PROVE LostTypes' /\ OneApproved'
  <2>1. LostTypes'
    BY <1>5 DEF ApproveMarks, LostTypes
  <2>2. decision'[s] # NoDecision /\ \A r \in Staff \ {s} : decision'[r] = decision[r]
    BY <1>5 DEF ApproveMarks, LostTypes, NoDecision
  <2>3. Approved' = Approved /\ Deciding' = Deciding
    BY <1>5, <2>2 DEF ApproveMarks, Approved, Deciding
  <2> QED BY <1>5, <2>1, <2>3 DEF ApproveMarks, OneApproved
<1>6. ASSUME NEW s \in Staff, ApproveCloses(s) PROVE LostTypes' /\ OneApproved'
  <2>1. \A d \in Claimants : /\ claim'[d] = "approved" <=> claim[d] = "approved"
                             /\ claim'[d] # "pending"
                             /\ claim'[d] \in {"none", "asked", "pending", "approved", "rejected"}
    BY <1>6 DEF ApproveCloses, Rivals, LostTypes
  <2>2. LostTypes'
    BY <1>0, <1>6, <2>1 DEF ApproveCloses, LostTypes
  <2>3. Approved' = Approved
    BY <2>1 DEF Approved
  <2> QED BY <1>6, <2>1, <2>2, <2>3 DEF ApproveCloses, OneApproved
<1>7. ASSUME NEW s \in Staff, DecisionLost(s) PROVE LostTypes' /\ OneApproved'
  BY <1>0, <1>7 DEF DecisionLost, LostTypes, OneApproved
<1>8. ASSUME NEW to, UpdateItem(to) PROVE LostTypes' /\ OneApproved'
  BY <1>8 DEF UpdateItem, LostTypes, OneApproved, Approved, Deciding
<1>9. CASE UNCHANGED itemVars
  BY <1>9 DEF itemVars, LostTypes, OneApproved, Approved, Deciding
<1> QED BY <1>1, <1>2, <1>3, <1>4, <1>5, <1>6, <1>7, <1>8, <1>9 DEF LostNext

LEMMA ApprovedCounted == OneApproved => OneOwner
<1> SUFFICES ASSUME OneApproved, ~late PROVE Cardinality(Approved) <= 1
  BY DEF OneOwner
<1>1. CASE Approved = {}
  BY <1>1, FS_EmptySet
<1>2. ASSUME NEW c \in Approved PROVE Cardinality(Approved) <= 1
  <2>1. Approved = {c}
    BY <1>2 DEF OneApproved
  <2>2. Cardinality({c}) = 1
    BY FS_Singleton
  <2> QED BY <2>1, <2>2
<1> QED BY <1>1, <1>2

\* However claims and decisions interleave, one person at most is told to come for
\* the item, unless a claim joined after an approval, two approvals crossed, or
\* one was cut short; for any number of claimants and staff.
THEOREM OneOwnerTold == LostInit /\ [][LostNext]_itemVars => []OneOwner
<1>1. LostInit /\ [][LostNext]_itemVars => [](LostTypes /\ OneApproved)
  BY LostStarts, LostStep, PTL
<1> QED BY <1>1, ApprovedCounted, PTL

-----------------------------------------------------------------------------
(* The staff page *)

\* No two calls are of one click, and none of a click to come.
ClicksApart == /\ \A c \in calls : c.nr <= clicks
               /\ \A c, d \in calls : c.nr = d.nr => c = d

\* Of a page that was told everything, the last call under way carries what the
\* page shows, and when none is, that is what was granted.
LastCallTells ==
    \A o \in Owners \ muddled :
        /\ \A c \in OwnCalls(o) :
               ~c.applied /\ (\A d \in OwnCalls(o) : ~d.applied => d.nr <= c.nr) => c.row = panel[o]
        /\ (\A c \in OwnCalls(o) : c.applied) => panel[o] = granted

\* What a reload has read is what was granted, until a row is written.
ReloadsTell == \A q \in reloads : q.read /\ ~q.late => q.seen = granted

StaffInv == StaffTypeOK /\ ClicksApart /\ LastCallTells /\ ReloadsTell

LEMMA StaffStarts == StaffInit => StaffInv
<1> SUFFICES ASSUME StaffInit PROVE StaffInv
  OBVIOUS
<1>1. StaffTypeOK
  BY FirstOwnersAssumption, ClicksAssumption DEF StaffInit, StaffTypeOK
<1>2. ClicksApart /\ LastCallTells /\ ReloadsTell
  BY DEF StaffInit, ClicksApart, LastCallTells, ReloadsTell, OwnCalls
<1> QED BY <1>1, <1>2 DEF StaffInv

LEMMA ToggleStep ==
    ASSUME StaffInv, NEW o \in Owners, NEW f \in Flags, TogglePermission(o, f)
    PROVE  StaffInv'
<1> DEFINE row == Switched(panel[o], f)
           new == [nr |-> clicks + 1, by |-> o, row |-> row, flag |-> f, applied |-> FALSE]
<1>1. row \in SUBSET Flags /\ clicks + 1 \in 1 .. MaxClicks /\ clicks \in Nat
  BY ClicksAssumption DEF StaffInv, StaffTypeOK, TogglePermission, Switched
<1>2. /\ clicks' = clicks + 1 /\ calls' = calls \cup {new} /\ panel' = [panel EXCEPT ![o] = row]
      /\ UNCHANGED <<accounts, active, removing, granted, reloads, reloaded, muddled>>
  BY DEF TogglePermission, Flipped
<1>3. new \in Call /\ new.nr = clicks + 1 /\ new.by = o /\ new.row = row /\ ~new.applied
  BY <1>1 DEF Call
<1> HIDE DEF new, row
<1>4. StaffTypeOK'
  BY <1>1, <1>2, <1>3 DEF StaffInv, StaffTypeOK
<1>5. \A c \in calls : c \in Call /\ c.nr \in Nat /\ c.nr <= clicks
  BY DEF StaffInv, StaffTypeOK, ClicksApart, Call
<1>6. ClicksApart'
  BY <1>1, <1>2, <1>3, <1>5 DEF StaffInv, ClicksApart
<1>7. ASSUME NEW p \in Owners \ muddled'
      PROVE  /\ \A c \in OwnCalls(p)' :
                    ~c.applied /\ (\A d \in OwnCalls(p)' : ~d.applied => d.nr <= c.nr) => c.row = panel'[p]
             /\ (\A c \in OwnCalls(p)' : c.applied) => panel'[p] = granted'
  <2>1. CASE p = o
    <3>1. new \in OwnCalls(p)' /\ panel'[p] = row
      BY <1>2, <1>3, <2>1 DEF OwnCalls, StaffInv, StaffTypeOK
    <3>2. \A c \in OwnCalls(p)' : c = new \/ ~(new.nr <= c.nr)
      BY <1>1, <1>2, <1>3, <1>5 DEF OwnCalls
    <3> QED BY <1>3, <3>1, <3>2
  <2>2. CASE p # o
    <3>1. OwnCalls(p)' = OwnCalls(p) /\ panel'[p] = panel[p]
      BY <1>2, <1>3, <2>2 DEF OwnCalls, StaffInv, StaffTypeOK
    <3> QED BY <1>2, <3>1 DEF StaffInv, LastCallTells
  <2> QED BY <2>1, <2>2
<1>8. ReloadsTell'
  BY <1>2 DEF StaffInv, ReloadsTell
<1> QED BY <1>4, <1>6, <1>7, <1>8 DEF StaffInv, LastCallTells

LEMMA ApplyStep ==
    ASSUME StaffInv, NEW c \in calls, UpdateStaffPermissions(c)
    PROVE  StaffInv'
<1> DEFINE done == [c EXCEPT !.applied = TRUE]
<1>1. /\ granted' = c.row /\ calls' = (calls \ {c}) \cup {done} /\ ~c.applied
      /\ UNCHANGED <<accounts, active, removing, panel, clicks, reloaded>>
      /\ reloads' = {[q EXCEPT !.late = q.read] : q \in reloads}
  BY DEF UpdateStaffPermissions
<1>2. c \in Call /\ \A d \in calls : d \in Call
  BY DEF StaffInv, StaffTypeOK
<1>3. done \in Call /\ done.nr = c.nr /\ done.by = c.by /\ done.row = c.row /\ done.applied
  BY <1>2 DEF Call
<1> HIDE DEF done
<1>4. muddled' = muddled \cup (Owners \ {c.by}) \cup (IF Overtakes(c) THEN {c.by} ELSE {})
  BY DEF UpdateStaffPermissions
<1>5. c.by \in Owners /\ c.row \subseteq Flags
  BY <1>2 DEF Call
<1>9. \A q \in reloads' : q \in Reread /\ (q.read => q.late)
  <2>1. \A q \in reloads : [q EXCEPT !.late = q.read] \in Reread
                         /\ [q EXCEPT !.late = q.read].read = q.read
                         /\ [q EXCEPT !.late = q.read].late = q.read
    BY DEF StaffInv, StaffTypeOK, Reread
  <2> QED BY <1>1, <2>1
<1>6. StaffTypeOK'
  BY <1>1, <1>2, <1>3, <1>4, <1>5, <1>9 DEF StaffInv, StaffTypeOK
<1>10. ReloadsTell'
  BY <1>9 DEF ReloadsTell
<1>7. ClicksApart'
  BY <1>1, <1>3 DEF StaffInv, ClicksApart
<1>8. ASSUME NEW o \in Owners \ muddled'
      PROVE  /\ \A e \in OwnCalls(o)' :
                    ~e.applied /\ (\A d \in OwnCalls(o)' : ~d.applied => d.nr <= e.nr) => e.row = panel'[o]
             /\ (\A e \in OwnCalls(o)' : e.applied) => panel'[o] = granted'
  <2>1. o = c.by /\ o \notin muddled /\ ~Overtakes(c)
    BY <1>4, <1>5
  <2>2. OwnCalls(o)' = (OwnCalls(o) \ {c}) \cup {done} /\ c \in OwnCalls(o)
    BY <1>1, <1>3, <2>1 DEF OwnCalls
  <2>3. \A d \in OwnCalls(o) : d.nr \in Nat /\ (~d.applied => c.nr <= d.nr)
    BY <1>2, <2>1 DEF Overtakes, OwnCalls, Call
  <2>4. ASSUME NEW e \in OwnCalls(o)', ~e.applied, \A d \in OwnCalls(o)' : ~d.applied => d.nr <= e.nr
        PROVE  e.row = panel'[o]
    <3>1. e \in OwnCalls(o) /\ c.nr <= e.nr
      BY <1>3, <2>2, <2>3, <2>4
    <3>2. \A d \in OwnCalls(o) : ~d.applied => d.nr <= e.nr
      BY <2>2, <2>4, <3>1
    <3> QED BY <1>1, <2>1, <2>4, <3>1, <3>2 DEF StaffInv, LastCallTells
  <2>5. ASSUME \A e \in OwnCalls(o)' : e.applied
        PROVE  panel'[o] = granted'
    <3>1. \A d \in OwnCalls(o) : ~d.applied => d = c
      BY <2>2, <2>5
    <3>2. \A d \in OwnCalls(o) : ~d.applied => d.nr <= c.nr
      BY <2>3, <3>1, <2>2
    <3> QED BY <1>1, <2>1, <2>2, <3>2 DEF StaffInv, LastCallTells
  <2> QED BY <2>4, <2>5
<1> QED BY <1>6, <1>7, <1>8, <1>10 DEF StaffInv, LastCallTells

LEMMA AnswerStep ==
    ASSUME StaffInv, NEW c \in calls, ToggleAnswered(c) \/ ToggleFails(c)
    PROVE  StaffInv'
<1>1. c \in Call /\ c.by \in Owners
  BY DEF StaffInv, StaffTypeOK, Call
<1>2. StaffTypeOK'
  BY <1>1 DEF StaffInv, StaffTypeOK, ToggleAnswered, ToggleFails, Switched, Call
<1>3. ClicksApart'
  BY DEF StaffInv, ClicksApart, ToggleAnswered, ToggleFails
<1>4. ASSUME NEW o \in Owners \ muddled'
      PROVE  /\ \A e \in OwnCalls(o)' :
                    ~e.applied /\ (\A d \in OwnCalls(o)' : ~d.applied => d.nr <= e.nr) => e.row = panel'[o]
             /\ (\A e \in OwnCalls(o)' : e.applied) => panel'[o] = granted'
  <2>1. o \notin muddled /\ panel'[o] = panel[o] /\ granted' = granted
    BY <1>1 DEF ToggleAnswered, ToggleFails, StaffInv, StaffTypeOK
  <2>2. OwnCalls(o)' = OwnCalls(o) \ {c}
    BY DEF OwnCalls, ToggleAnswered, ToggleFails
  <2>3. c \in OwnCalls(o) => c.applied
    BY <1>1 DEF OwnCalls, ToggleAnswered, ToggleFails
  <2>4. \A e \in OwnCalls(o) : ~e.applied => e \in OwnCalls(o)'
    BY <2>2, <2>3
  <2> QED BY <2>1, <2>2, <2>4, <2>3 DEF StaffInv, LastCallTells
<1>5. ReloadsTell'
  BY DEF StaffInv, ReloadsTell, ToggleAnswered, ToggleFails
<1> QED BY <1>2, <1>3, <1>4, <1>5 DEF StaffInv, LastCallTells

\* A reload that starts, reads or is lost changes nothing that is shown.
LEMMA ReloadStarts ==
    ASSUME StaffInv, NEW o \in Owners, Reloads(o)
    PROVE  reloads' \subseteq Reread /\ reloaded' \in 0 .. MaxReloads
           /\ \A q \in reloads' : q \in reloads \/ ~q.read
<1> DEFINE new == [nr |-> reloaded + 1, by |-> o, read |-> FALSE, seen |-> {}, late |-> FALSE]
<1>1. reloaded + 1 \in 1 .. MaxReloads /\ reloaded' = reloaded + 1 /\ reloads' = reloads \cup {new}
  BY ClicksAssumption DEF Reloads, StaffInv, StaffTypeOK
<1>2. new \in Reread /\ ~new.read
  BY <1>1 DEF Reread
<1> HIDE DEF new
<1> QED BY <1>1, <1>2, ClicksAssumption DEF StaffInv, StaffTypeOK

\* The answer of a reload shows what was granted, or crossed a switch.
LEMMA ReloadStep ==
    ASSUME StaffInv, NEW q \in reloads, ReloadReads(q) \/ ReloadLands(q) \/ ReloadIsLost(q)
    PROVE  StaffInv'
<1>1. q \in Reread /\ q.by \in Owners /\ q.seen \subseteq Flags
  BY DEF StaffInv, StaffTypeOK, Reread
<1>2. ClicksApart' /\ granted' = granted /\ \A o \in Owners : OwnCalls(o)' = OwnCalls(o)
  BY DEF ReloadReads, ReloadLands, ReloadIsLost, StaffInv, ClicksApart, OwnCalls
<1>3. CASE ReloadReads(q)
  <2> DEFINE done == [q EXCEPT !.read = TRUE, !.seen = granted]
  <2>1. done \in Reread /\ done.seen = granted
    BY <1>1 DEF Reread, StaffInv, StaffTypeOK
  <2>2. reloads' = (reloads \ {q}) \cup {done}
    BY <1>3 DEF ReloadReads
  <2> HIDE DEF done
  <2>3. StaffTypeOK'
    BY <1>3, <2>1, <2>2 DEF ReloadReads, StaffInv, StaffTypeOK
  <2>4. ReloadsTell'
    BY <1>2, <2>1, <2>2 DEF StaffInv, ReloadsTell
  <2>5. LastCallTells'
    BY <1>2, <1>3 DEF ReloadReads, StaffInv, LastCallTells
  <2> QED BY <1>2, <2>3, <2>4, <2>5 DEF StaffInv
<1>4. CASE ReloadLands(q)
  <2>1. StaffTypeOK'
    BY <1>1, <1>4 DEF ReloadLands, StaffInv, StaffTypeOK
  <2>2. ReloadsTell'
    BY <1>2, <1>4 DEF ReloadLands, StaffInv, ReloadsTell
  <2>3. ASSUME NEW p \in Owners \ muddled'
        PROVE  \/ p \notin muddled /\ panel'[p] = panel[p]
               \/ OwnCalls(p) = {} /\ panel'[p] = granted
    BY <1>1, <1>4 DEF ReloadLands, StaffInv, StaffTypeOK, ReloadsTell
  <2>4. LastCallTells'
    BY <1>2, <2>3 DEF StaffInv, LastCallTells
  <2> QED BY <1>2, <2>1, <2>2, <2>4 DEF StaffInv
<1>5. CASE ReloadIsLost(q)
  <2>1. StaffTypeOK' /\ ReloadsTell'
    BY <1>2, <1>5 DEF ReloadIsLost, StaffInv, StaffTypeOK, ReloadsTell
  <2>2. LastCallTells'
    BY <1>2, <1>5 DEF ReloadIsLost, StaffInv, LastCallTells
  <2> QED BY <1>2, <2>1, <2>2 DEF StaffInv
<1> QED BY <1>3, <1>4, <1>5

LEMMA StaffStep == StaffInv /\ [StaffNext]_staffVars => StaffInv'
<1> SUFFICES ASSUME StaffInv, [StaffNext]_staffVars PROVE StaffInv'
  OBVIOUS
<1>1. ASSUME UNCHANGED <<granted, panel, calls, clicks, muddled>>, StaffTypeOK',
             \A q \in reloads' : q \in reloads \/ ~q.read
      PROVE  StaffInv'
  BY <1>1 DEF StaffInv, ClicksApart, LastCallTells, ReloadsTell, OwnCalls
<1>2. ASSUME NEW o \in Owners, NEW t \in Owners, CreateStaff(o, t) PROVE StaffInv'
  <2>1. StaffTypeOK'
    BY <1>2, ReloadStarts DEF CreateStaff, StaffInv, StaffTypeOK
  <2> QED BY <1>1, <1>2, <2>1, ReloadStarts DEF CreateStaff
<1>3. ASSUME NEW o \in Owners, NEW t \in Owners, SetUserStatus(o, t) \/ RemovalCounts(o, t) PROVE StaffInv'
  BY <1>1, <1>3 DEF SetUserStatus, RemovalCounts, StaffInv, StaffTypeOK
<1>4. ASSUME NEW o \in Owners, RemovalDeletes(o) PROVE StaffInv'
  <2>1. /\ reloads' \subseteq Reread /\ reloaded' \in 0 .. MaxReloads
        /\ \A q \in reloads' : q \in reloads \/ ~q.read
    BY <1>4, ReloadStarts DEF RemovalDeletes, StaffInv, StaffTypeOK
  <2>2. StaffTypeOK'
    BY <1>4, <2>1 DEF RemovalDeletes, StaffInv, StaffTypeOK
  <2> QED BY <1>1, <1>4, <2>1, <2>2 DEF RemovalDeletes
<1>5. CASE UNCHANGED staffVars
  <2>1. StaffTypeOK'
    BY <1>5 DEF staffVars, StaffInv, StaffTypeOK
  <2> QED BY <1>1, <1>5, <2>1 DEF staffVars
<1> QED BY <1>2, <1>3, <1>4, <1>5, ToggleStep, ApplyStep, AnswerStep, ReloadStep DEF StaffNext

LEMMA StaffTells == StaffInv => SwitchesTellTheTruth
  BY DEF StaffInv, LastCallTells, SwitchesTellTheTruth

\* When the calls of a page are all answered, its switches tell what the
\* receptionist may do, unless a call failed, one overtook an earlier one, another
\* owner switched something since, or a reload crossed a switch.
THEOREM SwitchesTell == StaffSpec => []SwitchesTellTheTruth
<1>1. StaffSpec => []StaffInv
  BY StaffStarts, StaffStep, PTL DEF StaffSpec
<1> QED BY <1>1, StaffTells, PTL

-----------------------------------------------------------------------------
(* The audit log *)

\* The rows of a strict operation and the steps it has to take make up its steps,
\* but for the step whose row is being written.
StrictBooks(o) ==
    /\ at[o] # "committed"
    /\ at[o] \in {"idle", "open", "inserted"} => pending[o] + left[o] = Entries
    /\ at[o] \in {"worked", "assumed"} => pending[o] + 1 + left[o] = Entries
    /\ trail[o] = IF at[o] = "over" THEN Entries ELSE 0

\* Of one that logs on the audit pool, what readers see and what is to come.
InsideBooks(o) ==
    /\ at[o] \notin {"assumed", "inserted", "committed"}
    /\ pending[o] = 0
    /\ at[o] = "over" => left[o] = 0
    /\ at[o] \in {"idle", "open", "over"} =>
          trail[o] + left[o] <= Entries /\ (causes[o] = {} => trail[o] + left[o] = Entries)
    /\ at[o] = "worked" =>
          trail[o] + 1 + left[o] <= Entries /\ (causes[o] = {} => trail[o] + 1 + left[o] = Entries)

AfterBooks(o) ==
    /\ at[o] \notin {"assumed", "inserted"}
    /\ pending[o] = 0
    /\ at[o] # "over" => trail[o] = 0
    /\ at[o] = "over" /\ causes[o] = {} => trail[o] = 1

\* A connection acts as the writer for one statement of a strict operation.
OperationInv(o) ==
    /\ session[o] = "writer" <=> at[o] \in {"assumed", "inserted"}
    /\ at[o] = "undone" => causes[o] # {}
    /\ manner[o] = "strict" => StrictBooks(o)
    /\ manner[o] = "inside" => InsideBooks(o)
    /\ manner[o] = "after" => AfterBooks(o)

AuditInv == AuditTypeOK /\ \A o \in Operations : OperationInv(o)

LEMMA AuditStarts == AuditInit => AuditInv
<1> SUFFICES ASSUME AuditInit PROVE AuditInv
  OBVIOUS
<1>1. AuditTypeOK
  BY EntriesAssumption DEF AuditInit, AuditTypeOK, Resting, InTransaction, Privileges
<1>2. ASSUME NEW o \in Operations PROVE OperationInv(o)
  BY EntriesAssumption DEF AuditInit, OperationInv, StrictBooks, InsideBooks, AfterBooks
<1> QED BY <1>1, <1>2 DEF AuditInv

\* What is known of an operation before it takes a step.
LEMMA OperationTyped ==
    ASSUME AuditInv, NEW o \in Operations
    PROVE  /\ manner[o] \in {"strict", "inside", "after"} /\ session[o] \in {"app", "writer"}
           /\ at[o] \in InTransaction \cup Resting \cup {"committed"}
           /\ left[o] \in 0 .. Entries /\ pending[o] \in 0 .. Entries /\ trail[o] \in 0 .. Entries
           /\ causes[o] \subseteq {"statement", "audit", "crash"}
           /\ Entries \in Nat \ {0} /\ OperationInv(o)
  BY EntriesAssumption DEF AuditInv, AuditTypeOK, Privileges

\* A step of one operation that leaves it typed and its books in order keeps the
\* invariant, since it touches nothing of another.
LEMMA OneMoves ==
    ASSUME AuditInv, NEW o \in Operations,
           NEW a \in InTransaction \cup Resting \cup {"committed"}, NEW l \in 0 .. Entries,
           NEW s \in {"app", "writer"}, NEW p \in 0 .. Entries, NEW t \in 0 .. Entries,
           NEW c \in SUBSET {"statement", "audit", "crash"},
           manner' = manner, at' = [at EXCEPT ![o] = a], left' = [left EXCEPT ![o] = l],
           session' = [session EXCEPT ![o] = s], pending' = [pending EXCEPT ![o] = p],
           trail' = [trail EXCEPT ![o] = t], causes' = [causes EXCEPT ![o] = c],
           OperationInv(o)'
    PROVE  AuditInv'
<1>1. AuditTypeOK'
  BY DEF AuditInv, AuditTypeOK, Privileges
<1>2. ASSUME NEW q \in Operations, q # o PROVE OperationInv(q)'
  <2>1. /\ manner'[q] = manner[q] /\ at'[q] = at[q] /\ left'[q] = left[q] /\ session'[q] = session[q]
        /\ pending'[q] = pending[q] /\ trail'[q] = trail[q] /\ causes'[q] = causes[q]
    BY <1>2 DEF AuditInv, AuditTypeOK
  <2> QED BY <2>1 DEF AuditInv, OperationInv, StrictBooks, InsideBooks, AfterBooks
<1> QED BY <1>1, <1>2 DEF AuditInv

LEMMA RollbackStep ==
    ASSUME AuditInv, NEW o \in Operations, at[o] \in InTransaction,
           NEW what \in SUBSET {"statement", "crash"}, what # {}, RolledBack(o, what)
    PROVE  AuditInv'
<1> USE OperationTyped
<1> DEFINE c == causes[o] \cup what
<1>1. /\ manner' = manner /\ at' = [at EXCEPT ![o] = "undone"] /\ left' = [left EXCEPT ![o] = left[o]]
      /\ session' = [session EXCEPT ![o] = "app"] /\ pending' = [pending EXCEPT ![o] = 0]
      /\ trail' = [trail EXCEPT ![o] = trail[o]] /\ causes' = [causes EXCEPT ![o] = c]
  BY DEF RolledBack, Blame, AuditInv, AuditTypeOK
<1>2. c # {} /\ c \in SUBSET {"statement", "audit", "crash"}
  OBVIOUS
<1>3. /\ manner'[o] = manner[o] /\ at'[o] = "undone" /\ session'[o] = "app" /\ pending'[o] = 0
      /\ trail'[o] = trail[o] /\ causes'[o] = c
  BY <1>1 DEF AuditInv, AuditTypeOK
<1>4. OperationInv(o)'
  BY <1>2, <1>3 DEF OperationInv, StrictBooks, InsideBooks, AfterBooks, InTransaction
<1>5. "undone" \in InTransaction \cup Resting \cup {"committed"} /\ 0 \in 0 .. Entries
  BY DEF Resting
<1> HIDE DEF c
<1> QED BY <1>1, <1>2, <1>4, <1>5, OneMoves

LEMMA BeginStep == ASSUME AuditInv, NEW o \in Operations, BeginWork(o) PROVE AuditInv'
<1> USE OperationTyped
<1>1. /\ manner' = manner /\ at' = [at EXCEPT ![o] = "open"] /\ left' = [left EXCEPT ![o] = left[o]]
      /\ session' = [session EXCEPT ![o] = session[o]] /\ pending' = [pending EXCEPT ![o] = pending[o]]
      /\ trail' = [trail EXCEPT ![o] = trail[o]] /\ causes' = [causes EXCEPT ![o] = causes[o]]
  BY DEF BeginWork, Step, AuditInv, AuditTypeOK
<1>2. /\ left[o] \in 0 .. Entries /\ pending[o] \in 0 .. Entries /\ trail[o] \in 0 .. Entries
      /\ "open" \in InTransaction \cup Resting \cup {"committed"}
  BY DEF BeginWork, Step, OperationInv, StrictBooks, InsideBooks, AfterBooks, InTransaction, Resting
<1>3. /\ manner'[o] = manner[o] /\ at'[o] = "open" /\ left'[o] = left[o] /\ session'[o] = session[o]
      /\ pending'[o] = pending[o] /\ trail'[o] = trail[o] /\ causes'[o] = causes[o]
  BY <1>1 DEF AuditInv, AuditTypeOK
<1>4. OperationInv(o)'
  BY <1>3 DEF BeginWork, Step, OperationInv, StrictBooks, InsideBooks, AfterBooks
<1> QED BY <1>1, <1>2, <1>4, OneMoves

LEMMA WorkStep == ASSUME AuditInv, NEW o \in Operations, Work(o) PROVE AuditInv'
<1> USE OperationTyped
<1>a. at[o] = "open" /\ left[o] > 0
  BY Zenon DEF Work
<1>b. session[o] = "app" /\ manner[o] \in {"strict", "inside", "after"} /\ left[o] - 1 \in 0 .. Entries
  BY <1>a DEF OperationInv
<1>c. May(o, "write tables")
  BY <1>b DEF May, Privileges
<1>d. /\ at' = [at EXCEPT ![o] = "worked"] /\ left' = [left EXCEPT ![o] = left[o] - 1]
      /\ UNCHANGED <<manner, session, pending, trail, causes>>
  BY <1>c, Zenon DEF Work
<1>1. /\ manner' = manner /\ at' = [at EXCEPT ![o] = "worked"] /\ left' = [left EXCEPT ![o] = left[o] - 1]
      /\ session' = [session EXCEPT ![o] = session[o]] /\ pending' = [pending EXCEPT ![o] = pending[o]]
      /\ trail' = [trail EXCEPT ![o] = trail[o]] /\ causes' = [causes EXCEPT ![o] = causes[o]]
  BY <1>d DEF AuditInv, AuditTypeOK
<1>2. /\ left[o] - 1 \in 0 .. Entries /\ pending[o] \in 0 .. Entries /\ trail[o] \in 0 .. Entries
      /\ "worked" \in InTransaction \cup Resting \cup {"committed"}
  BY <1>a, <1>b DEF OperationInv, StrictBooks, InsideBooks, AfterBooks, InTransaction, Resting
<1>3. /\ manner'[o] = manner[o] /\ at'[o] = "worked" /\ left'[o] = left[o] - 1 /\ session'[o] = session[o]
      /\ pending'[o] = pending[o] /\ trail'[o] = trail[o] /\ causes'[o] = causes[o]
  BY <1>1 DEF AuditInv, AuditTypeOK
<1>4. OperationInv(o)'
  BY <1>a, <1>b, <1>3 DEF OperationInv, StrictBooks, InsideBooks, AfterBooks
<1> QED BY <1>1, <1>2, <1>4, OneMoves

LEMMA CommitStep == ASSUME AuditInv, NEW o \in Operations, CommitAll(o) PROVE AuditInv'
<1> USE OperationTyped
<1>1. CASE manner[o] = "after"
  <2>1. /\ manner' = manner /\ at' = [at EXCEPT ![o] = "committed"] /\ left' = [left EXCEPT ![o] = left[o]]
        /\ session' = [session EXCEPT ![o] = "app"] /\ pending' = [pending EXCEPT ![o] = 0]
        /\ trail' = [trail EXCEPT ![o] = trail[o] + pending[o]] /\ causes' = [causes EXCEPT ![o] = causes[o]]
    BY <1>1 DEF CommitAll, Step, AuditInv, AuditTypeOK
  <2>2. /\ left[o] \in 0 .. Entries /\ 0 \in 0 .. Entries /\ trail[o] + pending[o] \in 0 .. Entries
        /\ "committed" \in InTransaction \cup Resting \cup {"committed"}
    BY <1>1 DEF CommitAll, Step, OperationInv, StrictBooks, InsideBooks, AfterBooks, InTransaction, Resting
  <2>3. /\ manner'[o] = manner[o] /\ at'[o] = "committed" /\ left'[o] = left[o] /\ session'[o] = "app"
        /\ pending'[o] = 0 /\ trail'[o] = trail[o] + pending[o] /\ causes'[o] = causes[o]
    BY <2>1 DEF AuditInv, AuditTypeOK
  <2>4. OperationInv(o)'
    BY <1>1, <2>3 DEF CommitAll, Step, OperationInv, StrictBooks, InsideBooks, AfterBooks
  <2> QED BY <2>1, <2>2, <2>4, OneMoves
<1>2. CASE manner[o] # "after"
  <2>1. /\ manner' = manner /\ at' = [at EXCEPT ![o] = "over"] /\ left' = [left EXCEPT ![o] = left[o]]
        /\ session' = [session EXCEPT ![o] = "app"] /\ pending' = [pending EXCEPT ![o] = 0]
        /\ trail' = [trail EXCEPT ![o] = trail[o] + pending[o]] /\ causes' = [causes EXCEPT ![o] = causes[o]]
    BY <1>2 DEF CommitAll, Step, AuditInv, AuditTypeOK
  <2>2. /\ left[o] \in 0 .. Entries /\ 0 \in 0 .. Entries /\ trail[o] + pending[o] \in 0 .. Entries
        /\ "over" \in InTransaction \cup Resting \cup {"committed"}
    BY <1>2 DEF CommitAll, Step, OperationInv, StrictBooks, InsideBooks, AfterBooks, InTransaction, Resting
  <2>3. /\ manner'[o] = manner[o] /\ at'[o] = "over" /\ left'[o] = left[o] /\ session'[o] = "app"
        /\ pending'[o] = 0 /\ trail'[o] = trail[o] + pending[o] /\ causes'[o] = causes[o]
    BY <2>1 DEF AuditInv, AuditTypeOK
  <2>4. OperationInv(o)'
    BY <1>2, <2>3 DEF CommitAll, Step, OperationInv, StrictBooks, InsideBooks, AfterBooks
  <2> QED BY <2>1, <2>2, <2>4, OneMoves
<1> QED BY <1>1, <1>2 DEF CommitAll, Step

LEMMA AssumeStep == ASSUME AuditInv, NEW o \in Operations, SetLocalRole(o) PROVE AuditInv'
<1> USE OperationTyped
<1>1. /\ manner' = manner /\ at' = [at EXCEPT ![o] = "assumed"] /\ left' = [left EXCEPT ![o] = left[o]]
      /\ session' = [session EXCEPT ![o] = "writer"] /\ pending' = [pending EXCEPT ![o] = pending[o]]
      /\ trail' = [trail EXCEPT ![o] = trail[o]] /\ causes' = [causes EXCEPT ![o] = causes[o]]
  BY DEF SetLocalRole, Step, AuditInv, AuditTypeOK
<1>2. /\ left[o] \in 0 .. Entries /\ pending[o] \in 0 .. Entries /\ trail[o] \in 0 .. Entries
      /\ "assumed" \in InTransaction \cup Resting \cup {"committed"}
  BY DEF SetLocalRole, Step, OperationInv, StrictBooks, InsideBooks, AfterBooks, InTransaction, Resting
<1>3. /\ manner'[o] = manner[o] /\ at'[o] = "assumed" /\ left'[o] = left[o] /\ session'[o] = "writer"
      /\ pending'[o] = pending[o] /\ trail'[o] = trail[o] /\ causes'[o] = causes[o]
  BY <1>1 DEF AuditInv, AuditTypeOK
<1>4. OperationInv(o)'
  BY <1>3 DEF SetLocalRole, Step, OperationInv, StrictBooks, InsideBooks, AfterBooks
<1> QED BY <1>1, <1>2, <1>4, OneMoves

LEMMA InsertStep == ASSUME AuditInv, NEW o \in Operations, AuditLogStrict(o) PROVE AuditInv'
<1> USE OperationTyped
<1>a. at[o] = "assumed"
  BY Zenon DEF AuditLogStrict, Step
<1>b. manner[o] = "strict" /\ StrictBooks(o)
  BY <1>a DEF OperationInv, InsideBooks, AfterBooks
<1>1. /\ manner' = manner /\ at' = [at EXCEPT ![o] = "inserted"] /\ left' = [left EXCEPT ![o] = left[o]]
      /\ session' = [session EXCEPT ![o] = session[o]] /\ pending' = [pending EXCEPT ![o] = pending[o] + 1]
      /\ trail' = [trail EXCEPT ![o] = trail[o]] /\ causes' = [causes EXCEPT ![o] = causes[o]]
  BY Zenon DEF AuditLogStrict, Step, AuditInv, AuditTypeOK
<1>2. /\ left[o] \in 0 .. Entries /\ pending[o] + 1 \in 0 .. Entries /\ trail[o] \in 0 .. Entries
      /\ "inserted" \in InTransaction \cup Resting \cup {"committed"}
  BY <1>a, <1>b DEF StrictBooks, InTransaction, Resting
<1>3. /\ manner'[o] = manner[o] /\ at'[o] = "inserted" /\ left'[o] = left[o] /\ session'[o] = session[o]
      /\ pending'[o] = pending[o] + 1 /\ trail'[o] = trail[o] /\ causes'[o] = causes[o]
  BY <1>1 DEF AuditInv, AuditTypeOK
<1>4. OperationInv(o)'
  BY <1>3, Zenon DEF AuditLogStrict, Step, OperationInv, StrictBooks, InsideBooks, AfterBooks
<1> QED BY <1>1, <1>2, <1>4, OneMoves

LEMMA ResetStep == ASSUME AuditInv, NEW o \in Operations, ResetRole(o) PROVE AuditInv'
<1> USE OperationTyped
<1>1. /\ manner' = manner /\ at' = [at EXCEPT ![o] = "open"] /\ left' = [left EXCEPT ![o] = left[o]]
      /\ session' = [session EXCEPT ![o] = "app"] /\ pending' = [pending EXCEPT ![o] = pending[o]]
      /\ trail' = [trail EXCEPT ![o] = trail[o]] /\ causes' = [causes EXCEPT ![o] = causes[o]]
  BY DEF ResetRole, RoleAfter, Step, AuditInv, AuditTypeOK
<1>2. /\ left[o] \in 0 .. Entries /\ pending[o] \in 0 .. Entries /\ trail[o] \in 0 .. Entries
      /\ "open" \in InTransaction \cup Resting \cup {"committed"}
  BY DEF ResetRole, RoleAfter, Step, OperationInv, StrictBooks, InsideBooks, AfterBooks, InTransaction, Resting
<1>3. /\ manner'[o] = manner[o] /\ at'[o] = "open" /\ left'[o] = left[o] /\ session'[o] = "app"
      /\ pending'[o] = pending[o] /\ trail'[o] = trail[o] /\ causes'[o] = causes[o]
  BY <1>1 DEF AuditInv, AuditTypeOK
<1>4. OperationInv(o)'
  BY <1>3 DEF ResetRole, RoleAfter, Step, OperationInv, StrictBooks, InsideBooks, AfterBooks
<1> QED BY <1>1, <1>2, <1>4, OneMoves

LEMMA InsideStep == ASSUME AuditInv, NEW o \in Operations, AuditLogInside(o) PROVE AuditInv'
<1> USE OperationTyped
<1>1. CASE trail' = [trail EXCEPT ![o] = @ + 1] /\ UNCHANGED causes
  <2>1. /\ manner' = manner /\ at' = [at EXCEPT ![o] = "open"] /\ left' = [left EXCEPT ![o] = left[o]]
        /\ session' = [session EXCEPT ![o] = session[o]] /\ pending' = [pending EXCEPT ![o] = pending[o]]
        /\ trail' = [trail EXCEPT ![o] = trail[o] + 1] /\ causes' = [causes EXCEPT ![o] = causes[o]]
    BY <1>1 DEF AuditLogInside, Logged, Blame, Step, AuditInv, AuditTypeOK
  <2>2. /\ left[o] \in 0 .. Entries /\ pending[o] \in 0 .. Entries /\ trail[o] + 1 \in 0 .. Entries
        /\ "open" \in InTransaction \cup Resting \cup {"committed"}
    BY <1>1 DEF AuditLogInside, Logged, Blame, Step, OperationInv, StrictBooks, InsideBooks, AfterBooks, InTransaction, Resting
  <2>3. /\ manner'[o] = manner[o] /\ at'[o] = "open" /\ left'[o] = left[o] /\ session'[o] = session[o]
        /\ pending'[o] = pending[o] /\ trail'[o] = trail[o] + 1 /\ causes'[o] = causes[o]
    BY <2>1 DEF AuditInv, AuditTypeOK
  <2>4. OperationInv(o)'
    BY <1>1, <2>3 DEF AuditLogInside, Logged, Blame, Step, OperationInv, StrictBooks, InsideBooks, AfterBooks
  <2> QED BY <2>1, <2>2, <2>4, OneMoves
<1>2. CASE Blame(o, {"audit"}) /\ UNCHANGED trail
  <2>1. /\ manner' = manner /\ at' = [at EXCEPT ![o] = "open"] /\ left' = [left EXCEPT ![o] = left[o]]
        /\ session' = [session EXCEPT ![o] = session[o]] /\ pending' = [pending EXCEPT ![o] = pending[o]]
        /\ trail' = [trail EXCEPT ![o] = trail[o]] /\ causes' = [causes EXCEPT ![o] = causes[o] \cup {"audit"}]
    BY <1>2 DEF AuditLogInside, Logged, Blame, Step, AuditInv, AuditTypeOK
  <2>2. /\ left[o] \in 0 .. Entries /\ pending[o] \in 0 .. Entries /\ trail[o] \in 0 .. Entries
        /\ "open" \in InTransaction \cup Resting \cup {"committed"}
    BY <1>2 DEF AuditLogInside, Logged, Blame, Step, OperationInv, StrictBooks, InsideBooks, AfterBooks, InTransaction, Resting
  <2>3. /\ manner'[o] = manner[o] /\ at'[o] = "open" /\ left'[o] = left[o] /\ session'[o] = session[o]
        /\ pending'[o] = pending[o] /\ trail'[o] = trail[o] /\ causes'[o] = causes[o] \cup {"audit"}
    BY <2>1 DEF AuditInv, AuditTypeOK
  <2>4. OperationInv(o)'
    BY <1>2, <2>3 DEF AuditLogInside, Logged, Blame, Step, OperationInv, StrictBooks, InsideBooks, AfterBooks
  <2> QED BY <2>1, <2>2, <2>4, OneMoves, ZenonT(30)
<1> QED BY <1>1, <1>2 DEF AuditLogInside, Logged, Blame, Step

LEMMA NotYetStep == ASSUME AuditInv, NEW o \in Operations, NotYetLogged(o) PROVE AuditInv'
<1> USE OperationTyped
<1>1. /\ manner' = manner /\ at' = [at EXCEPT ![o] = "open"] /\ left' = [left EXCEPT ![o] = left[o]]
      /\ session' = [session EXCEPT ![o] = session[o]] /\ pending' = [pending EXCEPT ![o] = pending[o]]
      /\ trail' = [trail EXCEPT ![o] = trail[o]] /\ causes' = [causes EXCEPT ![o] = causes[o]]
  BY DEF NotYetLogged, Step, AuditInv, AuditTypeOK
<1>2. /\ left[o] \in 0 .. Entries /\ pending[o] \in 0 .. Entries /\ trail[o] \in 0 .. Entries
      /\ "open" \in InTransaction \cup Resting \cup {"committed"}
  BY DEF NotYetLogged, Step, OperationInv, StrictBooks, InsideBooks, AfterBooks, InTransaction, Resting
<1>3. /\ manner'[o] = manner[o] /\ at'[o] = "open" /\ left'[o] = left[o] /\ session'[o] = session[o]
      /\ pending'[o] = pending[o] /\ trail'[o] = trail[o] /\ causes'[o] = causes[o]
  BY <1>1 DEF AuditInv, AuditTypeOK
<1>4. OperationInv(o)'
  BY <1>3 DEF NotYetLogged, Step, OperationInv, StrictBooks, InsideBooks, AfterBooks
<1> QED BY <1>1, <1>2, <1>4, OneMoves

LEMMA AfterStep == ASSUME AuditInv, NEW o \in Operations, AuditLogAfter(o) PROVE AuditInv'
<1> USE OperationTyped
<1>1. CASE trail' = [trail EXCEPT ![o] = @ + 1] /\ UNCHANGED causes
  <2>1. /\ manner' = manner /\ at' = [at EXCEPT ![o] = "over"] /\ left' = [left EXCEPT ![o] = left[o]]
        /\ session' = [session EXCEPT ![o] = session[o]] /\ pending' = [pending EXCEPT ![o] = pending[o]]
        /\ trail' = [trail EXCEPT ![o] = trail[o] + 1] /\ causes' = [causes EXCEPT ![o] = causes[o]]
    BY <1>1 DEF AuditLogAfter, Logged, Blame, Step, AuditInv, AuditTypeOK
  <2>2. /\ left[o] \in 0 .. Entries /\ pending[o] \in 0 .. Entries /\ trail[o] + 1 \in 0 .. Entries
        /\ "over" \in InTransaction \cup Resting \cup {"committed"}
    BY <1>1 DEF AuditLogAfter, Logged, Blame, Step, OperationInv, StrictBooks, InsideBooks, AfterBooks, InTransaction, Resting
  <2>3. /\ manner'[o] = manner[o] /\ at'[o] = "over" /\ left'[o] = left[o] /\ session'[o] = session[o]
        /\ pending'[o] = pending[o] /\ trail'[o] = trail[o] + 1 /\ causes'[o] = causes[o]
    BY <2>1 DEF AuditInv, AuditTypeOK
  <2>4. OperationInv(o)'
    BY <1>1, <2>3 DEF AuditLogAfter, Logged, Blame, Step, OperationInv, StrictBooks, InsideBooks, AfterBooks
  <2> QED BY <2>1, <2>2, <2>4, OneMoves
<1>2. CASE Blame(o, {"audit"}) /\ UNCHANGED trail
  <2>1. /\ manner' = manner /\ at' = [at EXCEPT ![o] = "over"] /\ left' = [left EXCEPT ![o] = left[o]]
        /\ session' = [session EXCEPT ![o] = session[o]] /\ pending' = [pending EXCEPT ![o] = pending[o]]
        /\ trail' = [trail EXCEPT ![o] = trail[o]] /\ causes' = [causes EXCEPT ![o] = causes[o] \cup {"audit"}]
    BY <1>2 DEF AuditLogAfter, Logged, Blame, Step, AuditInv, AuditTypeOK
  <2>2. /\ left[o] \in 0 .. Entries /\ pending[o] \in 0 .. Entries /\ trail[o] \in 0 .. Entries
        /\ "over" \in InTransaction \cup Resting \cup {"committed"}
    BY <1>2 DEF AuditLogAfter, Logged, Blame, Step, OperationInv, StrictBooks, InsideBooks, AfterBooks, InTransaction, Resting
  <2>3. /\ manner'[o] = manner[o] /\ at'[o] = "over" /\ left'[o] = left[o] /\ session'[o] = session[o]
        /\ pending'[o] = pending[o] /\ trail'[o] = trail[o] /\ causes'[o] = causes[o] \cup {"audit"}
    BY <2>1 DEF AuditInv, AuditTypeOK
  <2>4. OperationInv(o)'
    BY <1>2, <2>3 DEF AuditLogAfter, Logged, Blame, Step, OperationInv, StrictBooks, InsideBooks, AfterBooks
  <2> QED BY <2>1, <2>2, <2>4, OneMoves, ZenonT(30)
<1> QED BY <1>1, <1>2 DEF AuditLogAfter, Logged, Blame, Step

LEMMA UnloggedStep == ASSUME AuditInv, NEW o \in Operations, CrashBeforeLog(o) PROVE AuditInv'
<1> USE OperationTyped
<1>1. /\ manner' = manner /\ at' = [at EXCEPT ![o] = "over"] /\ left' = [left EXCEPT ![o] = left[o]]
      /\ session' = [session EXCEPT ![o] = session[o]] /\ pending' = [pending EXCEPT ![o] = pending[o]]
      /\ trail' = [trail EXCEPT ![o] = trail[o]] /\ causes' = [causes EXCEPT ![o] = causes[o] \cup {"crash"}]
  BY DEF CrashBeforeLog, Blame, Step, AuditInv, AuditTypeOK
<1>2. /\ left[o] \in 0 .. Entries /\ pending[o] \in 0 .. Entries /\ trail[o] \in 0 .. Entries
      /\ "over" \in InTransaction \cup Resting \cup {"committed"}
  BY DEF CrashBeforeLog, Blame, Step, OperationInv, StrictBooks, InsideBooks, AfterBooks, InTransaction, Resting
<1>3. /\ manner'[o] = manner[o] /\ at'[o] = "over" /\ left'[o] = left[o] /\ session'[o] = session[o]
      /\ pending'[o] = pending[o] /\ trail'[o] = trail[o] /\ causes'[o] = causes[o] \cup {"crash"}
  BY <1>1 DEF AuditInv, AuditTypeOK
<1>4. OperationInv(o)'
  BY <1>3 DEF CrashBeforeLog, Blame, Step, OperationInv, StrictBooks, InsideBooks, AfterBooks
<1> QED BY <1>1, <1>2, <1>4, OneMoves, ZenonT(30)

LEMMA AuditStep == AuditInv /\ [AuditNext]_auditVars => AuditInv'
<1> SUFFICES ASSUME AuditInv, [AuditNext]_auditVars PROVE AuditInv'
  OBVIOUS
<1>1. ASSUME NEW o \in Operations, StatementFails(o) \/ AuditCrash(o) PROVE AuditInv'
  BY <1>1, RollbackStep DEF StatementFails, AuditCrash
<1>2. ASSUME UNCHANGED auditVars PROVE AuditInv'
  BY <1>2 DEF auditVars, AuditInv, AuditTypeOK, OperationInv, StrictBooks, InsideBooks, AfterBooks
<1> QED BY <1>1, <1>2, BeginStep, WorkStep, CommitStep, AssumeStep, InsertStep, ResetStep,
          InsideStep, NotYetStep, AfterStep, UnloggedStep DEF AuditNext

LEMMA TrailTells == AuditInv => TrailIsTrue
<1> SUFFICES ASSUME AuditInv, NEW o \in Operations
             PROVE  /\ at[o] \in Resting => session[o] = "app"
                    /\ at[o] = "undone" => causes[o] # {}
                    /\ manner[o] = "strict" => trail[o] = IF at[o] = "over" THEN Entries ELSE 0
                    /\ manner[o] = "after" /\ trail[o] > 0 => at[o] = "over"
                    /\ at[o] = "over" /\ causes[o] = {} => trail[o] = IF manner[o] = "after" THEN 1 ELSE Entries
  BY DEF TrailIsTrue
<1> QED BY OperationTyped DEF OperationInv, StrictBooks, InsideBooks, AfterBooks, Resting

\* A strict operation stands if and only if all its rows do; another that
\* stands lacks a row only where the log failed, and no connection goes back to
\* the pool as the writer of the log.
THEOREM TrailHolds == AuditInit /\ [][AuditNext]_auditVars => []TrailIsTrue
<1>1. AuditInit /\ [][AuditNext]_auditVars => []AuditInv
  BY AuditStarts, AuditStep, PTL
<1> QED BY <1>1, TrailTells, PTL

-----------------------------------------------------------------------------
(* The migrations *)

\* What was executed is told apart only where no container did it.
UpgradeTypes ==
    /\ shipped \subseteq Files /\ recorded \subseteq Files /\ belated \subseteq Files
    /\ run \in [Runners -> Open \cup {"idle", "reading", "between", "finished", "failed"}]
    /\ listed \in [Runners -> SUBSET Files] /\ due \in [Runners -> SUBSET Files]
    /\ booted \in BOOLEAN
    /\ ills \in [Runners -> SUBSET {"broken", "rival", "untracked", "crash"}]

\* What a run listed is recorded or due, until it ends.
RunInv(r) ==
    /\ due[r] \subseteq listed[r] /\ listed[r] \subseteq shipped
    /\ run[r] \notin Open \cup {"between"} => due[r] = {}
    /\ run[r] \in Open => due[r] # {}
    /\ run[r] \in Open \cup {"between", "finished"} => listed[r] \subseteq recorded \cup due[r]
    /\ run[r] = "failed" => ills[r] # {}

\* A file that a run passed over came late.
PassedOver ==
    \A r \in Runners, g \in Files, f \in Files :
        (g \in listed[r] /\ f \in shipped \ listed[r] /\ f < g) => f \in belated

\* In a database the runner manages, each file took effect once, and one that
\* did not, before another that did, came late.
Managed ==
    /\ executed \in Seq(Files)
    /\ Done = recorded
    /\ Cardinality(Done) = Len(executed)
    /\ \A g \in Done, f \in shipped \ Done : f < g => f \in belated
    /\ \A i, j \in DOMAIN executed : i < j /\ executed[i] > executed[j] => executed[j] \in belated

UpgradeInv == UpgradeTypes /\ (\A r \in Runners : RunInv(r)) /\ PassedOver /\ (~booted => Managed)

\* The next file of a run is the first one due.
LEMMA LeastIs ==
    ASSUME NEW U, U \subseteq Files, U # {}
    PROVE  Least(U) \in U /\ \A g \in U : Least(U) <= g
<1>1. U \subseteq Nat
  BY UpgradesAssumption DEF Files
<1>2. PICK t \in U : \A u \in U : ~(<<u, t>> \in OpToRel(<, Nat))
  BY <1>1, NatLessThanWellFounded, WFMin, Zenon
<1>3. \A u \in U : t <= u
  <2> SUFFICES ASSUME NEW u \in U, ~(t <= u) PROVE FALSE
    OBVIOUS
  <2>1. u \in Nat /\ t \in Nat /\ u < t
    BY <1>1
  <2> QED BY <1>2, <2>1 DEF OpToRel
<1> QED BY <1>2, <1>3, Zenon DEF Least

LEMMA CurrentIs ==
    ASSUME UpgradeTypes, NEW r \in Runners, RunInv(r), run[r] \in Open
    PROVE  /\ Current(r) \in due[r] /\ Current(r) \in Files /\ Current(r) \in listed[r] /\ Current(r) \in shipped
           /\ \A g \in due[r] : Current(r) <= g
<1>1. due[r] \subseteq Files /\ due[r] # {}
  BY DEF UpgradeTypes, RunInv
<1> QED BY <1>1, LeastIs DEF Current, RunInv

LEMMA UpgradesStart == UpgradesInit => UpgradeInv
<1> SUFFICES ASSUME UpgradesInit PROVE UpgradeInv
  OBVIOUS
<1>1. UpgradeTypes
  BY DEF UpgradesInit, UpgradeTypes
<1>2. ASSUME NEW r \in Runners PROVE RunInv(r)
  BY DEF UpgradesInit, RunInv, Open
<1>3. PassedOver
  BY DEF UpgradesInit, PassedOver
<1>4. Done = {} /\ executed = <<>> /\ recorded = {}
  BY DEF UpgradesInit, Done
<1>5. Managed
  BY <1>4, FS_EmptySet DEF Managed
<1> QED BY <1>1, <1>2, <1>3, <1>5 DEF UpgradeInv

\* A run that moves, records and leaves behind what it should keeps its part, and
\* the records only grow, so the other runs keep theirs.
LEMMA RunnerMoves ==
    ASSUME UpgradeInv, NEW r \in Runners,
           \A q \in Runners \ {r} : /\ run'[q] = run[q] /\ listed'[q] = listed[q]
                                    /\ due'[q] = due[q] /\ ills'[q] = ills[q],
           shipped \subseteq shipped', recorded \subseteq recorded', RunInv(r)'
    PROVE  \A q \in Runners : RunInv(q)'
  BY DEF UpgradeInv, RunInv

LEMMA ShipStep == ASSUME UpgradeInv, NEW f \in Files, Ship(f) PROVE UpgradeInv'
<1>1. /\ f \notin shipped /\ shipped' = shipped \cup {f}
      /\ belated \subseteq belated'
      /\ (\E g \in Done \cup UNION {listed[r] : r \in Runners} : g > f) => f \in belated'
      /\ belated' \subseteq belated \cup {f}
      /\ UNCHANGED <<executed, recorded, run, listed, due, booted, ills>>
  BY DEF Ship
<1>2. UpgradeTypes'
  BY <1>1 DEF UpgradeInv, UpgradeTypes
<1>3. \A r \in Runners : RunInv(r)'
  BY <1>1 DEF UpgradeInv, RunInv
<1>4. Files \subseteq Nat
  BY UpgradesAssumption DEF Files
<1>5. PassedOver'
  <2> SUFFICES ASSUME NEW r \in Runners, NEW g \in Files, NEW h \in Files,
                      g \in listed[r], h \in shipped', h \notin listed[r], h < g
               PROVE  h \in belated'
    BY <1>1 DEF PassedOver
  <2>1. CASE h \in shipped
    BY <1>1, <2>1 DEF UpgradeInv, PassedOver
  <2>2. CASE h = f
    BY <1>1, <1>4, <2>2
  <2> QED BY <1>1, <2>1, <2>2
<1>6. ASSUME ~booted' PROVE Managed'
  <2>1. Managed /\ Done' = Done
    BY <1>1, <1>6 DEF UpgradeInv, Done
  <2>2. Done \subseteq Files
    BY <2>1 DEF Managed, UpgradeInv, UpgradeTypes
  <2>3. \A g \in Done', h \in shipped' \ Done' : h < g => h \in belated'
    <3> SUFFICES ASSUME NEW g \in Done, NEW h \in shipped', h \notin Done, h < g PROVE h \in belated'
      BY <2>1
    <3>1. CASE h \in shipped
      BY <1>1, <2>1, <3>1 DEF Managed
    <3>2. CASE h = f
      BY <1>1, <1>4, <2>2, <3>2
    <3> QED BY <1>1, <3>1, <3>2
  <2> QED BY <1>1, <2>1, <2>3 DEF Managed
<1> QED BY <1>2, <1>3, <1>5, <1>6 DEF UpgradeInv

LEMMA InitDbStep == ASSUME UpgradeInv, InitDb PROVE UpgradeInv'
  BY DEF InitDb, UpgradeInv, UpgradeTypes, RunInv, PassedOver, Managed

\* Steps of a run that record nothing and list nothing new.
LEMMA QuietStep ==
    ASSUME UpgradeInv, NEW r \in Runners, UNCHANGED <<shipped, executed, recorded, booted, belated>>,
           UpgradeTypes', \A q \in Runners : listed'[q] \subseteq listed[q] /\ RunInv(q)',
           \A q \in Runners \ {r} : listed'[q] = listed[q],
           listed'[r] \in {listed[r], {}}
    PROVE  UpgradeInv'
<1>1. PassedOver'
  BY DEF UpgradeInv, PassedOver
<1>2. ~booted' => Managed'
  BY DEF UpgradeInv, Managed, Done
<1> QED BY <1>1, <1>2 DEF UpgradeInv

LEMMA MainStep == ASSUME UpgradeInv, NEW r \in Runners, Main(r) PROVE UpgradeInv'
<1>1. UpgradeTypes'
  BY DEF Main, Moves, UpgradeInv, UpgradeTypes
<1>2. RunInv(r)'
  BY DEF Main, Moves, UpgradeInv, UpgradeTypes, RunInv, Open
<1>3. \A q \in Runners : RunInv(q)'
  BY <1>2, RunnerMoves DEF Main, Moves, UpgradeInv, UpgradeTypes
<1>4. PassedOver'
  <2> SUFFICES ASSUME NEW q \in Runners, NEW g \in Files, NEW f \in Files,
                      g \in listed'[q], f \in shipped, f \notin listed'[q], f < g
               PROVE  f \in belated
    BY DEF PassedOver, Main
  <2>1. q # r /\ listed'[q] = listed[q]
    BY DEF Main, UpgradeInv, UpgradeTypes
  <2> QED BY <2>1 DEF UpgradeInv, PassedOver
<1>5. ~booted' => Managed'
  BY DEF Main, UpgradeInv, Managed, Done
<1> QED BY <1>1, <1>3, <1>4, <1>5 DEF UpgradeInv

LEMMA ReadAppliedStep == ASSUME UpgradeInv, NEW r \in Runners, ReadApplied(r) PROVE UpgradeInv'
<1>1. UpgradeTypes'
  BY DEF ReadApplied, Moves, UpgradeInv, UpgradeTypes
<1>2. RunInv(r)'
  BY DEF ReadApplied, Moves, UpgradeInv, UpgradeTypes, RunInv, Open
<1>3. \A q \in Runners : RunInv(q)'
  BY <1>2, RunnerMoves DEF ReadApplied, Moves, UpgradeInv, UpgradeTypes
<1> QED BY <1>1, <1>3, QuietStep DEF ReadApplied

LEMMA PassStep ==
    ASSUME UpgradeInv, NEW r \in Runners, Apply(r) \/ Alter(r) \/ UpToDate(r) \/ RunAgain(r)
    PROVE  UpgradeInv'
<1>1. UpgradeTypes'
  BY DEF Apply, Alter, UpToDate, RunAgain, Moves, UpgradeInv, UpgradeTypes, Open
<1>2. RunInv(r)'
  <2>1. CASE Apply(r)
    BY <2>1 DEF Apply, Moves, UpgradeInv, UpgradeTypes, RunInv, Open
  <2>2. CASE Alter(r)
    BY <2>2 DEF Alter, Moves, UpgradeInv, UpgradeTypes, RunInv, Open
  <2>3. CASE UpToDate(r)
    BY <2>3 DEF UpToDate, Moves, UpgradeInv, UpgradeTypes, RunInv, Open
  <2>4. CASE RunAgain(r)
    BY <2>4 DEF RunAgain, Moves, UpgradeInv, UpgradeTypes, RunInv, Open
  <2> QED BY <2>1, <2>2, <2>3, <2>4
<1>3. \A q \in Runners : RunInv(q)'
  BY <1>2, RunnerMoves DEF Apply, Alter, UpToDate, RunAgain, Moves, UpgradeInv, UpgradeTypes
<1>4. /\ UNCHANGED <<shipped, executed, recorded, booted, belated>>
      /\ \A q \in Runners \ {r} : listed'[q] = listed[q]
      /\ listed'[r] \in {listed[r], {}}
  BY DEF Apply, Alter, UpToDate, RunAgain, UpgradeInv, UpgradeTypes
<1>5. \A q \in Runners : listed'[q] \subseteq listed[q]
  BY <1>4
<1> QED BY <1>1, <1>3, <1>4, <1>5, QuietStep

LEMMA EndsStep ==
    ASSUME UpgradeInv, NEW r \in Runners, NEW why \in SUBSET {"broken", "rival", "untracked", "crash"},
           why # {}, Ends(r, why)
    PROVE  UpgradeInv'
<1>1. UpgradeTypes'
  BY DEF Ends, Moves, UpgradeInv, UpgradeTypes
<1>2. RunInv(r)'
  BY DEF Ends, Moves, UpgradeInv, UpgradeTypes, RunInv, Open
<1>3. \A q \in Runners : RunInv(q)'
  BY <1>2, RunnerMoves DEF Ends, Moves, UpgradeInv, UpgradeTypes
<1> QED BY <1>1, <1>3, QuietStep DEF Ends

LEMMA RefusedStep == ASSUME UpgradeInv, NEW r \in Runners, Refused(r) PROVE UpgradeInv'
<1> DEFINE why == (IF Current(r) \in recorded THEN {"rival"} ELSE {}) \cup (IF booted THEN {"untracked"} ELSE {})
<1>1. why # {}
  BY DEF Refused, UpgradeInv, Managed
<1>2. why \in SUBSET {"broken", "rival", "untracked", "crash"} /\ Ends(r, why)
  BY DEF Refused
<1> HIDE DEF why
<1> QED BY <1>1, <1>2, EndsStep

LEMMA CommitFileStep == ASSUME UpgradeInv, NEW r \in Runners, CommitFile(r) PROVE UpgradeInv'
<1> DEFINE h == Current(r)
<1>1. /\ h \in due[r] /\ h \in Files /\ h \in listed[r] /\ h \in shipped /\ \A g \in due[r] : h <= g
  BY CurrentIs DEF CommitFile, UpgradeInv, Open
<1>2. /\ h \notin recorded /\ executed' = Append(executed, h) /\ recorded' = recorded \cup {h}
      /\ due' = [due EXCEPT ![r] = @ \ {h}] /\ run' = [run EXCEPT ![r] = "between"] /\ run[r] = "altered"
      /\ UNCHANGED <<shipped, listed, booted, belated, ills>>
  BY DEF CommitFile, Recorded, Moves
<1> HIDE DEF h
<1>3. UpgradeTypes'
  BY <1>1, <1>2 DEF UpgradeInv, UpgradeTypes
<1>4. RunInv(r)'
  BY <1>1, <1>2 DEF UpgradeInv, UpgradeTypes, RunInv, Open
<1>5. \A q \in Runners : RunInv(q)'
  BY <1>2, <1>4, RunnerMoves DEF UpgradeInv, UpgradeTypes
<1>6. PassedOver'
  BY <1>2 DEF UpgradeInv, PassedOver
<1>7. ASSUME ~booted' PROVE Managed'
  <2>1. Managed
    BY <1>2, <1>7 DEF UpgradeInv
  <2>2. Len(executed) \in Nat /\ Len(executed') = Len(executed) + 1 /\ executed' \in Seq(Files)
    BY <1>1, <1>2, <2>1 DEF Managed
  <2>3. /\ \A i \in 1 .. Len(executed) : executed'[i] = executed[i]
        /\ executed'[Len(executed) + 1] = h
    BY <1>1, <1>2, <2>1 DEF Managed
  <2>4. Done' = Done \cup {h}
    <3>1. Done = {executed[i] : i \in 1 .. Len(executed)}
      BY <2>1 DEF Done, Managed
    <3>2. Done' = {executed'[i] : i \in 1 .. Len(executed) + 1}
      BY <2>2 DEF Done
    <3>3. 1 .. Len(executed) + 1 = (1 .. Len(executed)) \cup {Len(executed) + 1}
      BY <2>2
    <3> QED BY <2>3, <3>1, <3>2, <3>3
  <2>5. IsFiniteSet(Done)
    <3>1. Done \subseteq 1 .. LastFile
      BY <2>1 DEF Managed, UpgradeInv, UpgradeTypes, Files
    <3>2. IsFiniteSet(1 .. LastFile)
      BY FS_Interval, UpgradesAssumption
    <3> QED BY <3>1, <3>2, FS_Subset
  <2>6. Cardinality(Done') = Len(executed')
    <3>1. h \notin Done /\ Cardinality(Done) = Len(executed)
      BY <1>2, <2>1 DEF Managed
    <3>2. Cardinality(Done \cup {h}) = Cardinality(Done) + 1
      BY <2>5, <3>1, FS_AddElement
    <3> QED BY <2>2, <2>4, <3>1, <3>2
  <2>7. \A g \in Done', f \in shipped' \ Done' : f < g => f \in belated'
    <3> SUFFICES ASSUME NEW g \in Done \cup {h}, NEW f \in shipped, f \notin Done, f # h, f < g
                 PROVE  f \in belated
      BY <1>2, <2>4
    <3>1. CASE g \in Done
      BY <2>1, <3>1 DEF Managed
    <3>2. CASE g = h
      <4>1. f \in Files /\ f \in Nat /\ h \in Nat
        BY <1>1, UpgradesAssumption DEF UpgradeInv, UpgradeTypes, Files
      <4>2. f \notin due[r]
        BY <1>1, <3>2, <4>1
      <4>3. f \notin listed[r]
        BY <1>2, <2>1, <4>2 DEF UpgradeInv, RunInv, Managed, Open
      <4> QED BY <1>1, <3>2, <4>1, <4>3 DEF UpgradeInv, PassedOver
    <3> QED BY <3>1, <3>2
  <2>8. \A i, j \in DOMAIN executed' : i < j /\ executed'[i] > executed'[j] => executed'[j] \in belated'
    <3> SUFFICES ASSUME NEW i \in 1 .. Len(executed) + 1, NEW j \in 1 .. Len(executed) + 1,
                        i < j, executed'[i] > executed'[j]
                 PROVE  executed'[j] \in belated
      BY <1>2, <2>2
    <3>1. i \in 1 .. Len(executed) /\ executed'[i] = executed[i]
      BY <2>2, <2>3
    <3>2. CASE j \in 1 .. Len(executed)
      <4>1. executed'[j] = executed[j] /\ i \in DOMAIN executed /\ j \in DOMAIN executed
        BY <2>1, <2>3, <3>1, <3>2 DEF Managed
      <4> QED BY <2>1, <3>1, <4>1 DEF Managed
    <3>3. CASE j = Len(executed) + 1
      <4>1. executed[i] \in Done /\ executed[i] \in Files
        BY <2>1, <3>1 DEF Managed, Done
      <4>2. executed'[j] = h /\ h < executed[i]
        BY <1>1, <2>3, <3>1, <3>3, <4>1, UpgradesAssumption DEF Files
      <4> QED BY <1>1, <1>2, <2>1, <4>1, <4>2 DEF Managed
    <3> QED BY <2>2, <3>2, <3>3
  <2>9. Done' = recorded'
    BY <1>2, <2>1, <2>4 DEF Managed
  <2> QED BY <2>2, <2>6, <2>7, <2>8, <2>9 DEF Managed
<1> QED BY <1>3, <1>5, <1>6, <1>7 DEF UpgradeInv

LEMMA UpgradesStep == UpgradeInv /\ [UpgradesNext]_upgradeVars => UpgradeInv'
<1> SUFFICES ASSUME UpgradeInv, [UpgradesNext]_upgradeVars PROVE UpgradeInv'
  OBVIOUS
<1>1. ASSUME NEW r \in Runners, FileBroken(r) \/ RunnerDies(r) PROVE UpgradeInv'
  BY <1>1, EndsStep DEF FileBroken, RunnerDies
<1>2. ASSUME UNCHANGED upgradeVars PROVE UpgradeInv'
  BY <1>2 DEF upgradeVars, UpgradeInv, UpgradeTypes, RunInv, PassedOver, Managed, Done
<1> QED BY <1>1, <1>2, ShipStep, InitDbStep, MainStep, ReadAppliedStep, PassStep, CommitFileStep,
          RefusedStep DEF UpgradesNext

LEMMA UpgradesTell == UpgradeInv => UpgradesAreSound
<1> SUFFICES ASSUME UpgradeInv PROVE UpgradesAreSound
  OBVIOUS
<1>1. ASSUME NEW r \in Runners
      PROVE  (run[r] = "finished" => listed[r] \subseteq recorded) /\ (run[r] = "failed" => ills[r] # {})
  BY DEF UpgradeInv, RunInv, Open
<1> QED BY <1>1 DEF UpgradeInv, Managed, UpgradesAreSound

\* In a database the runner has managed from the start each file took effect
\* once and is recorded, in the order of the names but for files shipped late; a
\* run that ends well left nothing it listed behind, and one fails for a cause.
THEOREM UpgradesHold == UpgradesInit /\ [][UpgradesNext]_upgradeVars => []UpgradesAreSound
<1>1. UpgradesInit /\ [][UpgradesNext]_upgradeVars => []UpgradeInv
  BY UpgradesStart, UpgradesStep, PTL
<1> QED BY <1>1, UpgradesTell, PTL

-----------------------------------------------------------------------------
(* Types of the parts whose invariants above say less than their types *)

\* A page's requests and presses are numbered apart, and while it waits one is
\* under way whose answer it will take.
PageTyped ==
    /\ PageTypeOK
    /\ \A l \in loads : l.nr <= made
    /\ \A p \in pressed : p.nr <= made

\* The first load is numbered one.
LEMMA PageTypedStarts == PageInit => PageTyped
<1> SUFFICES ASSUME PageInit PROVE PageTyped
  OBVIOUS
<1> DEFINE first == [nr |-> 1, choice |-> chosen, reload |-> FALSE, dropped |-> FALSE]
<1>1. first \in Load /\ ~first.dropped /\ first.nr = 1 /\ 1 \in 0 .. MaxLoads
  BY LoadsAssumption DEF PageInit, Load
<1>2. loads = {first} /\ made = 1 /\ pressed = {}
  BY DEF PageInit
<1> HIDE DEF first
<1>3. loads \subseteq Load /\ \A l, k \in loads : l.nr = k.nr => l = k
  BY <1>1, <1>2
<1>4. (\E l \in loads : ~l.dropped) /\ \A l \in loads : l.nr <= made
  BY <1>1, <1>2
<1> QED BY <1>1, <1>2, <1>3, <1>4 DEF PageInit, PageTyped, PageTypeOK

\* A load that goes stale keeps its number.
LEMMA LiveTyped ==
    ASSUME NEW l \in Load, guarded \in BOOLEAN
    PROVE  Live(l) \in Load /\ Live(l).nr = l.nr
BY DEF Live, Load

\* A new load has the number it is given.
LEMMA NewLoadTyped ==
    ASSUME NEW n \in 1 .. MaxLoads, NEW c \in Selections, NEW again \in BOOLEAN
    PROVE  NewLoad(n, c, again) \in Load /\ NewLoad(n, c, again).nr = n /\ ~NewLoad(n, c, again).dropped
BY DEF NewLoad, Load

\* Each load and press has a number of its own, up to the last one made.
LEMMA PageTypedStep == PageTyped /\ [PageNext]_pageVars => PageTyped'
<1> SUFFICES ASSUME PageTyped, [PageNext]_pageVars PROVE PageTyped'
  OBVIOUS
<1>t. /\ loads \subseteq Load /\ pressed \subseteq Change /\ made \in Nat /\ guarded \in BOOLEAN
      /\ chosen \in Selections /\ \A l \in loads : l.nr \in Nat /\ l.nr <= made
      /\ \A p \in pressed : p.nr \in 1 .. MaxLoads /\ p.nr <= made /\ p.choice \in Selections
  BY LoadsAssumption DEF PageTyped, PageTypeOK, Load, Change
<1>n. ASSUME made < MaxLoads PROVE made + 1 \in 1 .. MaxLoads /\ made + 1 \in 0 .. MaxLoads
  BY <1>t, <1>n, LoadsAssumption
<1>1. CASE UNCHANGED pageVars
  BY <1>1 DEF pageVars, PageTyped, PageTypeOK
<1>2. ASSUME NEW c \in Selections, Choose(c) PROVE PageTyped'
  <2> DEFINE new == NewLoad(made + 1, c, FALSE)
  <2>1. new \in Load /\ new.nr = made + 1 /\ ~new.dropped /\ made + 1 \in 0 .. MaxLoads
    BY <1>2, <1>n, NewLoadTyped DEF Choose
  <2>2. loads' = {Live(l) : l \in loads} \cup {new} /\ made' = made + 1 /\ UNCHANGED pressed
    BY <1>2 DEF Choose
  <2> HIDE DEF new
  <2>3. \A l \in loads : Live(l) \in Load /\ Live(l).nr = l.nr
    BY <1>t, LiveTyped
  <2>4. loads' \subseteq Load /\ \E l \in loads' : ~l.dropped
    BY <2>1, <2>2, <2>3
  <2>5. \A l, k \in loads' : l.nr = k.nr => l = k
    BY <1>t, <2>1, <2>2, <2>3 DEF PageTyped, PageTypeOK
  <2>6. /\ \A l \in loads' : l.nr <= made'
        /\ \A p \in pressed' : p.nr <= made'
        /\ \A p \in pressed', l \in loads' : p.nr # l.nr
    BY <1>t, <2>1, <2>2, <2>3 DEF PageTyped, PageTypeOK
  <2>7. made' \in 0 .. MaxLoads
    BY <2>1, <2>2
  <2>8. /\ guarded' \in BOOLEAN /\ spins' \in BOOLEAN
        /\ loading' \in BOOLEAN /\ banner' \in BOOLEAN /\ hasty' \in BOOLEAN
        /\ chosen' \in Selections /\ shown' \in Selections \cup {Blank}
    BY <1>2 DEF Choose, PageTyped, PageTypeOK
  <2>9. pressed' \subseteq Change /\ \A p, q \in pressed' : p.nr = q.nr => p = q
    BY <2>2 DEF PageTyped, PageTypeOK
  <2> QED BY <2>4, <2>5, <2>6, <2>7, <2>8, <2>9 DEF PageTyped, PageTypeOK
<1>3. CASE Dismiss
  BY <1>3 DEF Dismiss, PageTyped, PageTypeOK
<1>4. ASSUME NEW c \in Selections, Press(c) PROVE PageTyped'
  <2> DEFINE new == [nr |-> made + 1, choice |-> c]
  <2>1. new \in Change /\ new.nr = made + 1 /\ made + 1 \in 0 .. MaxLoads
    BY <1>4, <1>n DEF Press, Change
  <2>2. /\ pressed' = pressed \cup {new} /\ made' = made + 1
        /\ UNCHANGED <<guarded, spins, chosen, shown, loading, loads>>
    BY <1>4 DEF Press
  <2>3. banner' \in BOOLEAN /\ hasty' \in BOOLEAN
    BY <1>4 DEF Press, PageTyped, PageTypeOK
  <2> HIDE DEF new
  <2>4. pressed' \subseteq Change /\ \A p, q \in pressed' : p.nr = q.nr => p = q
    BY <1>t, <2>1, <2>2 DEF PageTyped, PageTypeOK
  <2>5. /\ \A l \in loads' : l.nr <= made'
        /\ \A p \in pressed' : p.nr <= made'
        /\ \A p \in pressed', l \in loads' : p.nr # l.nr
    BY <1>t, <2>1, <2>2 DEF PageTyped, PageTypeOK
  <2> QED BY <2>1, <2>2, <2>3, <2>4, <2>5 DEF PageTyped, PageTypeOK
<1>5. ASSUME NEW p \in pressed, Reload(p) PROVE PageTyped'
  <2> DEFINE new == NewLoad(p.nr, p.choice, TRUE)
  <2>1. new \in Load /\ new.nr = p.nr /\ ~new.dropped
    BY <1>t, NewLoadTyped
  <2>2. /\ pressed' = pressed \ {p} /\ loads' = loads \cup {new}
        /\ UNCHANGED <<guarded, spins, chosen, shown, made, hasty>>
    BY <1>5 DEF Reload
  <2> HIDE DEF new
  <2>3. loading' \in BOOLEAN /\ banner' \in BOOLEAN
    BY <1>5 DEF Reload, PageTyped, PageTypeOK
  <2>4. loads' \subseteq Load /\ \E l \in loads' : ~l.dropped
    BY <1>t, <2>1, <2>2
  <2>5. \A l, k \in loads' : l.nr = k.nr => l = k
    BY <1>t, <2>1, <2>2 DEF PageTyped, PageTypeOK
  <2>6. pressed' \subseteq Change /\ \A a, b \in pressed' : a.nr = b.nr => a = b
    BY <1>t, <2>2 DEF PageTyped, PageTypeOK
  <2>7. \A a \in pressed', l \in loads' : a.nr # l.nr
    BY <1>t, <2>1, <2>2 DEF PageTyped, PageTypeOK
  <2>8. (\A l \in loads' : l.nr <= made') /\ \A a \in pressed' : a.nr <= made'
    BY <1>t, <2>1, <2>2
  <2> QED BY <2>2, <2>3, <2>4, <2>5, <2>6, <2>7, <2>8 DEF PageTyped, PageTypeOK
<1>6. ASSUME NEW p \in pressed, ChangeFails(p) PROVE PageTyped'
  <2>1. banner' \in BOOLEAN
    BY <1>6 DEF ChangeFails, PageTyped, PageTypeOK
  <2> QED BY <1>6, <2>1 DEF ChangeFails, PageTyped, PageTypeOK
<1>7. ASSUME NEW l \in loads, LoadAnswered(l) \/ LoadFails(l) PROVE PageTyped'
  <2>1. loads' = loads \ {l} /\ UNCHANGED <<made, guarded, spins, chosen, pressed, hasty>>
    BY <1>7 DEF LoadAnswered, LoadFails
  <2>2. IF l.dropped THEN loading' = loading ELSE loading' = FALSE
    BY <1>7 DEF LoadAnswered, LoadFails
  <2>3. shown' \in Selections \cup {Blank} /\ banner' \in BOOLEAN
    <3>1. l.choice \in Selections
      BY <1>t DEF Load
    <3> QED BY <1>7, <3>1 DEF LoadAnswered, LoadFails, PageTyped, PageTypeOK
  <2>4. loading' => \E k \in loads' : ~k.dropped
    BY <2>1, <2>2 DEF PageTyped, PageTypeOK
  <2>5. loading' \in BOOLEAN
    BY <2>2 DEF PageTyped, PageTypeOK
  <2> QED BY <2>1, <2>3, <2>4, <2>5 DEF PageTyped, PageTypeOK
<1> QED BY <1>1, <1>2, <1>3, <1>4, <1>5, <1>6, <1>7 DEF PageNext

\* There is at most one copy of the list of courts.
CacheTyped ==
    /\ CacheShape /\ behind \subseteq Listers /\ excused \in BOOLEAN
    /\ cached \subseteq List /\ IsFiniteSet(cached) /\ Cardinality(cached) <= 1

\* At first nothing is cached and no listing is behind.
LEMMA CacheTypedStarts == CacheInit => CacheTyped
<1> SUFFICES ASSUME CacheInit PROVE CacheTyped
  OBVIOUS
<1>1. CacheShape
  BY InitCache DEF CacheInv
<1>2. cached = {} /\ behind = {} /\ excused = FALSE
  BY DEF CacheInit
<1>3. IsFiniteSet(cached) /\ Cardinality(cached) <= 1
  BY <1>2, FS_EmptySet
<1> QED BY <1>1, <1>2, <1>3 DEF CacheTyped

\* The copy is the one list a listing read, or is not there.
LEMMA CacheTypedStep == CacheTyped /\ CacheInv /\ CacheInv' /\ [CacheNext]_cacheVars => CacheTyped'
<1> SUFFICES ASSUME CacheTyped, CacheShape, CacheShape', [CacheNext]_cacheVars PROVE CacheTyped'
  BY DEF CacheInv
<1>1. \A l \in Listers : lister[l].list \in List
  BY DEF CacheShape, List
<1>2. /\ \/ cached' \subseteq cached
         \/ \E x \in List : cached' = {x}
      /\ behind' \subseteq Listers /\ excused' \in BOOLEAN
  <2>1. CASE UNCHANGED cacheVars
    BY <2>1 DEF cacheVars, CacheTyped
  <2>2. ASSUME NEW l \in Listers, ListMisses(l) \/ ListReads(l) \/ ListStores(l)
        PROVE  <1>2!1 /\ <1>2!2
    <3>1. cached' = cached \/ cached' = {lister[l].list}
      BY <2>2 DEF ListMisses, ListReads, ListStores
    <3>2. behind' \subseteq Listers
      BY <2>2 DEF ListMisses, ListReads, ListStores, CacheTyped
    <3>3. excused' = excused \/ excused' = (l \in behind)
      BY <2>2, Zenon DEF ListMisses, ListReads, ListStores
    <3>4. (l \in behind) \in BOOLEAN
      OBVIOUS
    <3>6. excused \in BOOLEAN
      BY DEF CacheTyped
    <3>5. excused' \in BOOLEAN
      BY <3>3, <3>4, <3>6, Zenon
    <3> QED BY <1>1, <3>1, <3>2, <3>5
  <2>3. CASE CopyLapses
    BY <2>3 DEF CopyLapses, CacheTyped
  <2>4. ASSUME NEW k \in Keepers, CreateNumbers(k) \/ DropsCopy(k) \/ DropFails(k)
        PROVE  <1>2!1 /\ <1>2!2
    BY <2>4 DEF CreateNumbers, DropsCopy, Dropped, DropFails, CacheTyped
  <2>5. ASSUME NEW k \in Keepers, NEW c \in Courts, NEW row, Changes(k, c, row), UNCHANGED <<cached, excused>>
        PROVE  <1>2!1 /\ <1>2!2
    BY <2>5 DEF Changes, CacheTyped
  <2> QED BY <2>1, <2>2, <2>3, <2>4, <2>5 DEF CacheNext, CreateInserts, UpdateCourt, DeleteCourt
<1>3. IsFiniteSet(cached') /\ Cardinality(cached') <= 1 /\ cached' \subseteq List
  <2>1. CASE cached' \subseteq cached
    <3>1. IsFiniteSet(cached)
      BY DEF CacheTyped, CacheInv
    <3> QED BY <2>1, <3>1, FS_Subset, FS_CardinalityType DEF CacheTyped
  <2>2. ASSUME NEW x \in List, cached' = {x} PROVE <1>3
    <3>1. IsFiniteSet({x}) /\ Cardinality({x}) = 1
      BY FS_Singleton
    <3>2. {x} \subseteq List
      BY <2>2
    <3> QED BY <2>2, <3>1, <3>2
  <2> QED BY <1>2, <2>1, <2>2
<1> QED BY <1>2, <1>3 DEF CacheTyped

\* Mails are counted up to their bound, and a booking's window only moves on.
RemindersTyped == ReminderInv /\ when \in [Bookings -> 0 .. 2] /\ mails \in [Bookings -> 0 .. MaxMails]

\* No mail is counted before the first tick.
LEMMA RemindersTypedStart == ReminderInit => RemindersTyped
BY InitReminder, MailsAssumption DEF ReminderInit, RemindersTyped

\* Mails are sent only while there is room to count them.
LEMMA RemindersTypedStep == RemindersTyped /\ [ReminderNext]_reminderVars => RemindersTyped'
<1> SUFFICES ASSUME RemindersTyped, [ReminderNext]_reminderVars PROVE RemindersTyped'
  OBVIOUS
<1>1. ReminderInv'
  BY StepReminder DEF RemindersTyped
<1>2. when' \in [Bookings -> 0 .. 2]
  <2>1. when' = when \/ \E b \in Bookings : when[b] < 2 /\ when' = [when EXCEPT ![b] = @ + 1]
    BY DEF ReminderNext, reminderVars, TickEnters, Selects, Mails, MailFails, Marks, MarkFails, TickEnds, SelectFails,
           Crash, LockLost, MinutesPass, BookingCancelled
  <2> QED BY <2>1 DEF RemindersTyped
<1>3. mails' \in [Bookings -> 0 .. MaxMails]
  <2>1. mails' = mails \/ \E b \in Bookings : mails[b] < MaxMails /\ mails' = [mails EXCEPT ![b] = @ + 1]
    BY DEF ReminderNext, reminderVars, TickEnters, Selects, Mails, MailFails, Marks, MarkFails, TickEnds, SelectFails,
           Crash, LockLost, MinutesPass, BookingCancelled
  <2> QED BY <2>1, MailsAssumption DEF RemindersTyped
<1> QED BY <1>1, <1>2, <1>3 DEF RemindersTyped

\* These are the types the run checks.
LEMMA RemindersTypedIs == RemindersTyped => ReminderTypeOK
BY DEF RemindersTyped, ReminderInv, TicksTyped, ReminderTypeOK

\* The first start of a container runs the files shipped by their rank.
LEMMA RankHeld ==
    ASSUME NEW S, S \subseteq Nat, IsFiniteSet(S), NEW i \in 1 .. Cardinality(S)
    PROVE  \E f \in S : Cardinality({g \in S : g <= f}) = i
<1> DEFINE rank == [f \in S |-> Cardinality({g \in S : g <= f})]
           n == Cardinality(S)
<1>n. n \in Nat /\ IsFiniteSet(1 .. n) /\ Cardinality(1 .. n) = n
  BY FS_CardinalityType, FS_Interval
<1>1. ASSUME NEW f \in S PROVE rank[f] \in 1 .. n
  <2> DEFINE U == {g \in S : g <= f}
  <2>1. U \subseteq S /\ f \in U
    OBVIOUS
  <2>2. IsFiniteSet(U) /\ Cardinality(U) <= n /\ Cardinality(U) \in Nat
    BY <2>1, FS_Subset, FS_CardinalityType
  <2>3. Cardinality(U) # 0
    BY <2>1, <2>2, FS_EmptySet
  <2> QED BY <1>n, <2>2, <2>3
<1>2. ASSUME NEW f \in S, NEW g \in S, f < g PROVE rank[f] < rank[g]
  <2> DEFINE U == {h \in S : h <= f}
             V == {h \in S : h <= g}
  <2>0. f \in Nat /\ g \in Nat /\ \A h \in S : h \in Nat
    OBVIOUS
  <2>1. V \subseteq S /\ (\A h \in U : h \in V) /\ g \in V /\ g \notin U
    BY <1>2, <2>0
  <2>2. IsFiniteSet(V) /\ IsFiniteSet(U)
    BY <2>1, FS_Subset
  <2> HIDE DEF U, V
  <2>4. U \in SUBSET V /\ U # V
    BY <2>1
  <2>3. Cardinality(U) < Cardinality(V)
    BY <2>2, <2>4, FS_Subset, FS_CardinalityType
  <2> QED BY <2>3 DEF U, V
<1>3. rank \in Injection(S, 1 .. n)
  <2>1. rank \in [S -> 1 .. n]
    BY <1>1
  <2>2. ASSUME NEW f \in S, NEW g \in S, rank[f] = rank[g] PROVE f = g
    <3>1. rank[f] \in Nat
      BY <1>1, <1>n
    <3> QED BY <1>2, <2>2, <3>1
  <2> QED BY <2>1, <2>2, Fun_IsInj
<1>4. rank \in Surjection(S, 1 .. n)
  BY <1>3, <1>n, FS_Injection
<1>5. \E f \in S : rank[f] = i
  BY <1>4 DEF Surjection
<1> QED BY <1>5

\* What has been executed are files of the release, also what the container's
\* first start executed.
ExecutedTyped == executed \in Seq(Files)

\* A database executes only files that were shipped to it.
LEMMA ExecutedStep ==
    UpgradeInv /\ ExecutedTyped /\ [UpgradesNext]_upgradeVars => ExecutedTyped'
<1> SUFFICES ASSUME UpgradeInv, ExecutedTyped, [UpgradesNext]_upgradeVars PROVE ExecutedTyped'
  OBVIOUS
<1>1. CASE executed' = executed
  BY <1>1 DEF ExecutedTyped
<1>2. CASE InitDb
  <2> DEFINE n == Cardinality(shipped)
             nth(i) == CHOOSE f \in shipped : Cardinality({g \in shipped : g <= f}) = i
  <2>1. shipped \subseteq Files /\ Files \subseteq Nat /\ IsFiniteSet(Files)
    BY FS_Interval, UpgradesAssumption DEF UpgradeInv, UpgradeTypes, Files
  <2>2. IsFiniteSet(shipped) /\ n \in Nat /\ shipped \subseteq Nat
    BY <2>1, FS_Subset, FS_CardinalityType
  <2>3. ASSUME NEW i \in 1 .. n PROVE nth(i) \in Files
    <3>1. \E f \in shipped : Cardinality({g \in shipped : g <= f}) = i
      BY <2>2, RankHeld
    <3> QED BY <2>1, <3>1
  <2>4. executed' = [i \in 1 .. n |-> nth(i)]
    BY <1>2 DEF InitDb
  <2> HIDE DEF n, nth
  <2>5. [i \in 1 .. n |-> nth(i)] \in Seq(Files)
    BY <2>2, <2>3
  <2> QED BY <2>4, <2>5 DEF ExecutedTyped
<1>3. ASSUME NEW r \in Runners, CommitFile(r) PROVE ExecutedTyped'
  <2>1. Current(r) \in Files
    BY <1>3, CurrentIs DEF CommitFile, UpgradeInv, Open
  <2> QED BY <1>3, <2>1 DEF CommitFile, ExecutedTyped
<1>4. executed' = executed \/ InitDb \/ \E r \in Runners : CommitFile(r)
  BY DEF UpgradesNext, upgradeVars, Ship, Main, ReadApplied, Apply, Alter, Refused, FileBroken, RunnerDies, Ends,
         UpToDate, RunAgain
<1> QED BY <1>1, <1>2, <1>3, <1>4

\* With what the invariant keeps, the types are those the run checks.
LEMMA UpgradesTypedIs == UpgradeInv /\ ExecutedTyped => UpgradesTypeOK
BY DEF UpgradeInv, UpgradeTypes, ExecutedTyped, UpgradesTypeOK

-----------------------------------------------------------------------------
(* The staff page and the coaches' logins together *)

\* Whichever part a behaviour is of, the staff page and the coaches' logins keep
\* their invariants: the part that runs by its own steps, the others at rest.
THEOREM LoginsSound == Spec => []LoginsAreSound
<1> DEFINE Both == StaffInv /\ LoginsInv
<1>1. Init => Both
  BY StaffStarts, LoginsStart DEF Init
<1>2. Both /\ [Next]_<<running, Club, Week, Platform>> => Both'
  <2> SUFFICES ASSUME Both, [Next]_<<running, Club, Week, Platform>> PROVE Both'
    OBVIOUS
  <2>1. [StaffNext]_staffVars
    BY DEF Next, Club
  <2>2. [LoginsNext]_loginVars
    BY DEF Next, Club
  <2> QED BY <2>1, <2>2, StaffStep, LoginsStep
<1>3. Both => LoginsAreSound
  BY StaffTells DEF LoginsInv, LoginsAreSound
<1> QED BY <1>1, <1>2, <1>3, PTL DEF Spec

-----------------------------------------------------------------------------
(* Every part keeps its types *)

\* A step is a step of the part that runs or leaves it alone.
LEMMA PartsStep ==
    ASSUME [Next]_<<running, Club, Week, Platform>>
    PROVE  /\ [TournamentNext]_tournamentVars /\ [FeesNext]_feeVars /\ [LostNext]_itemVars
           /\ [PageNext]_pageVars /\ [CacheNext]_cacheVars /\ [ReminderNext]_reminderVars /\ [PoolNext]_poolVars
           /\ [StaffNext]_staffVars /\ [LoginsNext]_loginVars /\ [BoardsNext]_boardVars /\ [NoticesNext]_noticeVars
           /\ [AuditNext]_auditVars /\ [UpgradesNext]_upgradeVars /\ [ReportsNext]_reportVars
           /\ [HoursNext]_hours
           /\ running' = running
<1>1. CASE UNCHANGED <<running, Club, Week, Platform>>
  BY <1>1 DEF Club, Week, Platform, Office, Hosted
<1>2. CASE Next
  BY <1>2 DEF Next, Club, Week, Platform, Office, Hosted
<1> QED BY <1>1, <1>2

ServicesInv ==
    /\ BracketInv /\ FeesInv /\ PageTyped /\ CacheTyped /\ CacheInv /\ RemindersTyped /\ PoolInv
    /\ StaffInv /\ BoardsInv /\ LoginsInv /\ NoticesInv /\ AuditInv /\ UpgradeInv /\ ExecutedTyped
    /\ ReportsInv /\ HoursTypeOK

\* Every part starts, whichever is to run.
LEMMA ServicesStart == Init => ServicesInv
<1> SUFFICES ASSUME Init PROVE ServicesInv
  OBVIOUS
<1>1. BracketInv /\ FeesInv /\ PageTyped
  BY BracketStarts, InitFees, PageTypedStarts DEF Init
<1>2. CacheTyped /\ CacheInv /\ RemindersTyped /\ PoolInv
  BY CacheTypedStarts, InitCache, RemindersTypedStart, InitPool DEF Init
<1>3. StaffInv /\ BoardsInv /\ LoginsInv /\ NoticesInv
  BY StaffStarts, BoardsInvStart, LoginsStart, NoticesStart DEF Init
<1>4. AuditInv /\ UpgradeInv /\ ReportsInv
  BY AuditStarts, UpgradesStart, ReportsInvStart DEF Init
<1>5. ExecutedTyped
  <2>1. executed = <<>>
    BY DEF Init, UpgradesInit
  <2> QED BY <2>1 DEF ExecutedTyped
<1>6. HoursTypeOK
  <2>1. CASE running = "boards"
    <3>1. hours \in [Weekdays -> Openings] /\ Weekdays \in SUBSET Weekdays
      BY <2>1 DEF Init
    <3> QED BY <3>1 DEF HoursTypeOK
  <2>2. CASE running # "boards"
    BY <2>2, HoursTypedStart DEF Init
  <2> QED BY <2>1, <2>2
<1> QED BY <1>1, <1>2, <1>3, <1>4, <1>5, <1>6 DEF ServicesInv

\* The part that runs takes its step; the invariants of the others are about what rests.
LEMMA ServicesStep == ServicesInv /\ [Next]_<<running, Club, Week, Platform>> => ServicesInv'
<1> SUFFICES ASSUME ServicesInv, [Next]_<<running, Club, Week, Platform>> PROVE ServicesInv'
  OBVIOUS
<1>1. BracketInv' /\ FeesInv' /\ PageTyped'
  BY PartsStep, BracketStep, StepFees, PageTypedStep DEF ServicesInv
<1>2. CacheInv'
  BY PartsStep, StepCache DEF ServicesInv
<1>3. CacheTyped' /\ RemindersTyped' /\ PoolInv'
  BY <1>2, PartsStep, CacheTypedStep, RemindersTypedStep, StepPool DEF ServicesInv
<1>4. StaffInv' /\ BoardsInv' /\ LoginsInv' /\ NoticesInv'
  BY PartsStep, StaffStep, BoardsInvStep, LoginsStep, NoticesStep DEF ServicesInv
<1>5. AuditInv' /\ UpgradeInv' /\ ExecutedTyped' /\ ReportsInv'
  BY PartsStep, AuditStep, UpgradesStep, ExecutedStep, ReportsInvStep DEF ServicesInv
<1>6. HoursTypeOK'
  BY PartsStep, HoursTypedStep DEF ServicesInv
<1> QED BY <1>1, <1>2, <1>3, <1>4, <1>5, <1>6 DEF ServicesInv

\* Each part's invariant holds its types.
LEMMA ServicesTypes == ServicesInv => ServicesTypeOK
<1> SUFFICES ASSUME ServicesInv PROVE ServicesTypeOK
  OBVIOUS
<1>1. TournamentTypeOK /\ FeesTypeOK /\ PageTypeOK
  BY TournamentTypedIs DEF ServicesInv, BracketInv, FeesInv, PageTyped
<1>2. CacheTypeOK
  BY DEF ServicesInv, CacheTyped, CacheShape, List, CacheTypeOK
<1>3. ReminderTypeOK /\ PoolTypeOK /\ StaffTypeOK
  BY RemindersTypedIs DEF ServicesInv, PoolInv, StaffInv
<1>4. BoardsTypeOK /\ LoginsTypeOK /\ NoticesTypeOK
  BY BoardsTypedIs DEF ServicesInv, BoardsInv, LoginsInv, NoticesInv
<1>5. AuditTypeOK /\ UpgradesTypeOK /\ ReportsTypeOK
  BY UpgradesTypedIs DEF ServicesInv, AuditInv, ReportsInv, ReportsTyped
<1>6. HoursTypeOK
  BY DEF ServicesInv
<1> QED BY <1>1, <1>2, <1>3, <1>4, <1>5, <1>6 DEF ServicesTypeOK

\* What the services keep in every behaviour of the club.
LEMMA ServicesKeep == Spec => []ServicesInv
<1>1. Init => ServicesInv
  BY ServicesStart
<1>2. ServicesInv /\ [Next]_<<running, Club, Week, Platform>> => ServicesInv'
  BY ServicesStep
<1> QED BY <1>1, <1>2, PTL DEF Spec

\* Whichever part runs, its rows, requests, pages and counters stay of their
\* types.
THEOREM ServicesTyped == Spec => []ServicesTypeOK
BY ServicesKeep, ServicesTypes, PTL

\* The validator's reading of the week is the plain one: a member's booking is
\* within the working hours exactly when the club is open at every moment of it.
THEOREM HoursKept == Spec => []HoursHonoured
<1>1. ServicesInv => HoursHonoured
  BY HoursTell DEF ServicesInv, HoursHonoured
<1> QED BY <1>1, ServicesKeep, PTL

\* What the pages, the notices, the audit log, the migrations, the reports and the
\* charts tell is what is so, whichever of them runs, for any hours, bookings,
\* messages, operations, files and requests.
THEOREM TruthTold == Spec => []WhatIsToldIsTrue
<1>1. ServicesInv => WhatIsToldIsTrue
  BY BoardsInvTells, NoticesTell, TrailTells, UpgradesTell, ReportsTell DEF ServicesInv, WhatIsToldIsTrue
<1> QED BY <1>1, ServicesKeep, PTL
=================================================================================
