----------------------------- MODULE SessionsProofs -----------------------------
(* Proofs about the sessions of one account.  A rotation holds the row it        *)
(* exchanges, so of one login at most one row lives; a quiet browser presents    *)
(* the newest row there is, so the theft alarm needs a mishap; and a reset       *)
(* sweeps every row that lives when it sets the password.  The rows a model      *)
(* allows are never exhausted by what is under way.                              *)
EXTENDS Sessions, FiniteSetTheorems, NaturalsInduction, WellFoundedInduction, TLAPS

-----------------------------------------------------------------------------
(* What is kept *)

\* Calls that may still add a row, and tabs whose login will.
Needing == {c \in Calls : \/ post[c].st \in {"sent", "rotating"}
                          \/ call[c].st = "sent" /\ ~call[c].retry}
Signing == {b \in Tabs : signing[b] # 0}

\* There is a row for each of them.
RowsLeft == Cardinality(Needing) + Cardinality(Signing) <= Cardinality(Free)

\* A session descends from a login's row; a rotation has its row, which is live,
\* to itself.
Descent ==
    /\ \A t \in Tokens : row[t].st # "unborn" =>
           row[t].family \in Tokens /\ row[row[t].family].st # "unborn"
    /\ \A c \in Calls : post[c].st = "rotating" => row[post[c].with].st = "live"
    /\ \A c, d \in Calls : /\ post[c].st = "rotating" /\ post[d].st = "rotating"
                           /\ post[c].with = post[d].with
                           => c = d

\* One call at most leads a tab's refresh, and the tab knows; a call with a
\* refresh leads it, or went with its page.
OneLeader ==
    /\ \A c \in Calls : post[c].st # "none" => call[c].st \in {"idle", "leading"}
    /\ \A c \in Calls : call[c].st # "idle" => call[c].tab \in Tabs
    /\ \A c \in Calls : call[c].st = "leading" => refreshing[call[c].tab]
    /\ \A c, d \in Calls : /\ call[c].st = "leading" /\ call[d].st = "leading"
                           /\ call[c].tab = call[d].tab
                           => c = d

Usable == {t \in Tokens : row[t].st \in {"live", "expired"}}

\* Until a mishap one refresh at most is under way, its call waits for it, and
\* what it presents or has won can be used; so can the cookie, but for the time
\* between the exchange of its row and the answer.
Quiet ==
    ~mishap =>
        /\ \A c \in Posting : call[c].st = "leading" /\ post[c].st # "sweeping"
        /\ \A c, d \in Posting : c = d
        /\ \A c \in Calls : /\ post[c].st \in {"sent", "rotating"} => post[c].with \in Usable
                            /\ post[c].st = "answered" => post[c].got \in Usable
        /\ (cookie # None /\ \A c \in Calls : post[c].st # "answered") => cookie \in Usable

\* A live row was won with the password of today, late, or is about to be swept.
SweptOrLate == \A t \in Live : row[t].pw = account.pw \/ row[t].late \/ t \in sweep[Reset]

PasswordOfLink == account.pw = IF link = "used" THEN 2 ELSE 1

-----------------------------------------------------------------------------
(* Rows *)

\* The first of the rows not yet used.
LEMMA FreshIsFree ==
    ASSUME Free # {}
    PROVE  Fresh \in Free
<1>1. Free \subseteq Nat
  BY BoundsAssumption DEF Free, Tokens
<1>2. PICK t \in Free : \A u \in Free : ~(<<u, t>> \in OpToRel(<, Nat))
  BY <1>1, NatLessThanWellFounded, WFMin
<1>3. \A u \in Free : t <= u
  <2> SUFFICES ASSUME NEW u \in Free, ~(t <= u) PROVE FALSE
    OBVIOUS
  <2>1. u \in Nat /\ t \in Nat /\ u < t
    BY <1>1
  <2> QED BY <1>2, <2>1 DEF OpToRel
<1> QED BY <1>2, <1>3 DEF Fresh

LEMMA FreeFinite == IsFiniteSet(Free)
<1>1. IsFiniteSet(Tokens) /\ Free \subseteq Tokens
  BY FS_Interval, BoundsAssumption DEF Tokens, Free
<1> QED BY <1>1, FS_Subset

LEMMA NeedsFinite ==
    /\ IsFiniteSet(Needing) /\ IsFiniteSet(Signing)
    /\ Cardinality(Needing) \in Nat /\ Cardinality(Signing) \in Nat /\ Cardinality(Free) \in Nat
<1>1. Needing \subseteq Calls /\ Signing \subseteq Tabs
  BY DEF Needing, Signing
<1> QED BY <1>1, FreeFinite, FiniteAssumption, FS_Subset, FS_CardinalityType

\* Who may add a row finds one.
LEMMA RowForEach ==
    ASSUME RowsLeft, Needing # {} \/ Signing # {}
    PROVE  Fresh \in Free
<1>1. Cardinality(Needing) > 0 \/ Cardinality(Signing) > 0
  BY NeedsFinite, FS_EmptySet
<1>2. Free # {}
  BY <1>1, NeedsFinite, FS_EmptySet DEF RowsLeft
<1> QED BY <1>2, FreshIsFree

\* With room, there is a row for one more.
LEMMA RoomForOne ==
    ASSUME Room
    PROVE  Cardinality(Needing) + Cardinality(Signing) + 1 <= Cardinality(Free)
<1>1. Needing \subseteq Open /\ Open \subseteq Calls
  BY DEF Needing, Open
<1>2. IsFiniteSet(Open) /\ Cardinality(Open) \in Nat /\ Cardinality(Needing) <= Cardinality(Open)
  BY <1>1, FiniteAssumption, FS_Subset, FS_CardinalityType
<1> QED BY <1>2, NeedsFinite DEF Room, Signing

\* Nobody else needs a row, and no row was taken.
LEMMA NeedsLess ==
    ASSUME RowsLeft, Needing' \subseteq Needing, Signing' \subseteq Signing, Free' = Free
    PROVE  RowsLeft'
<1>1. /\ Cardinality(Needing') <= Cardinality(Needing) /\ Cardinality(Needing') \in Nat
      /\ Cardinality(Signing') <= Cardinality(Signing) /\ Cardinality(Signing') \in Nat
  BY NeedsFinite, FS_Subset, FS_CardinalityType
<1> QED BY <1>1, NeedsFinite DEF RowsLeft

\* Who needed a row took the first one.
LEMMA CallTakesRow ==
    ASSUME RowsLeft, NEW c \in Needing, Needing' \subseteq Needing \ {c}, Signing' \subseteq Signing,
           Free' = Free \ {Fresh}, Fresh \in Free
    PROVE  RowsLeft'
<1>1. /\ Cardinality(Needing') <= Cardinality(Needing) - 1 /\ Cardinality(Needing') \in Nat
      /\ Cardinality(Signing') <= Cardinality(Signing) /\ Cardinality(Signing') \in Nat
  <2>1. IsFiniteSet(Needing \ {c}) /\ Cardinality(Needing \ {c}) = Cardinality(Needing) - 1
    BY NeedsFinite, FS_RemoveElement
  <2> QED BY <2>1, NeedsFinite, FS_Subset, FS_CardinalityType
<1>2. Cardinality(Free') = Cardinality(Free) - 1
  BY FreeFinite, FS_RemoveElement
<1> QED BY <1>1, <1>2, NeedsFinite DEF RowsLeft

LEMMA LoginTakesRow ==
    ASSUME RowsLeft, NEW b \in Signing, Needing' \subseteq Needing, Signing' \subseteq Signing \ {b},
           Free' = Free \ {Fresh}, Fresh \in Free
    PROVE  RowsLeft'
<1>1. /\ Cardinality(Signing') <= Cardinality(Signing) - 1 /\ Cardinality(Signing') \in Nat
      /\ Cardinality(Needing') <= Cardinality(Needing) /\ Cardinality(Needing') \in Nat
  <2>1. IsFiniteSet(Signing \ {b}) /\ Cardinality(Signing \ {b}) = Cardinality(Signing) - 1
    BY NeedsFinite, FS_RemoveElement
  <2> QED BY <2>1, NeedsFinite, FS_Subset, FS_CardinalityType
<1>2. Cardinality(Free') = Cardinality(Free) - 1
  BY FreeFinite, FS_RemoveElement
<1> QED BY <1>1, <1>2, NeedsFinite DEF RowsLeft

\* One more call, or login, for which there is a row.
LEMMA OneMoreNeeds ==
    ASSUME Cardinality(Needing) + Cardinality(Signing) + 1 <= Cardinality(Free), Free' = Free,
           \/ \E c \in Calls : Needing' \subseteq Needing \cup {c} /\ Signing' = Signing
           \/ \E b \in Tabs : Needing' = Needing /\ Signing' \subseteq Signing \cup {b}
    PROVE  RowsLeft'
<1>1. ASSUME NEW S, IsFiniteSet(S), NEW x, NEW T, T \subseteq S \cup {x}
      PROVE  Cardinality(T) \in Nat /\ Cardinality(T) <= Cardinality(S) + 1
  <2>1. /\ IsFiniteSet(S \cup {x}) /\ Cardinality(S) \in Nat
        /\ Cardinality(S \cup {x}) <= Cardinality(S) + 1
    BY <1>1, FS_AddElement, FS_CardinalityType
  <2> QED BY <1>1, <2>1, FS_Subset, FS_CardinalityType
<1>2. CASE \E c \in Calls : Needing' \subseteq Needing \cup {c} /\ Signing' = Signing
  <2>1. Cardinality(Needing') \in Nat /\ Cardinality(Needing') <= Cardinality(Needing) + 1
    BY <1>1, <1>2, NeedsFinite
  <2> QED BY <1>2, <2>1, NeedsFinite DEF RowsLeft
<1>3. CASE \E b \in Tabs : Needing' = Needing /\ Signing' \subseteq Signing \cup {b}
  <2>1. Cardinality(Signing') \in Nat /\ Cardinality(Signing') <= Cardinality(Signing) + 1
    BY <1>1, <1>3, NeedsFinite
  <2> QED BY <1>3, <2>1, NeedsFinite DEF RowsLeft
<1> QED BY <1>2, <1>3

-----------------------------------------------------------------------------
(* Types *)

SessionRow == [st : {"unborn", "live", "revoked", "expired"}, family : 0 .. MaxTokens,
               pw : Nat, late : BOOLEAN]
CallRow == [st : {"idle", "sent", "queued", "leading"}, tab : Tabs \cup {None},
            bearer : Tokens \cup {None}, retry : BOOLEAN]
PostRow == [st : {"none", "sent", "rotating", "sweeping", "answered", "refused"},
            with : Tokens \cup {None}, got : Tokens \cup {None}]

\* The types of the rows, of what a browser keeps, and of what is under way.
LEMMA RowTypes ==
    TypeOK <=> /\ row \in [Tokens -> SessionRow]
               /\ account \in [active : BOOLEAN, pw : Nat \ {0}, failed : 0 .. Attempts, locked : BOOLEAN]
               /\ link \in {"none", "open", "used"} /\ click \in [Clicks -> {"none", "read", "done"}]
               /\ lapsed \subseteq Tokens /\ sweep \in [Sweepers -> SUBSET Tokens]
               /\ cookie \in Tokens \cup {None} /\ profile \in BOOLEAN
               /\ page \in [Tabs -> {"login", "app"}] /\ memory \in [Tabs -> Tokens \cup {None}]
               /\ refreshing \in [Tabs -> BOOLEAN] /\ signing \in [Tabs -> Nat]
               /\ call \in [Calls -> CallRow] /\ post \in [Calls -> PostRow]
               /\ \A c \in Posting : post[c].with \in Tokens
               /\ alarm \in BOOLEAN /\ mishap \in BOOLEAN /\ incidents \in 0 .. MaxIncidents
  BY DEF TypeOK, SessionRow, CallRow, PostRow

\* A row with another state is a row.
LEMMA OtherState ==
    /\ \A r \in SessionRow, st \in {"unborn", "live", "revoked", "expired"} : [r EXCEPT !.st = st] \in SessionRow
    /\ \A k \in CallRow, st \in {"idle", "sent", "queued", "leading"} : [k EXCEPT !.st = st] \in CallRow
    /\ \A p \in PostRow, st \in {"none", "sent", "rotating", "sweeping", "answered", "refused"} :
           [p EXCEPT !.st = st] \in PostRow
    /\ NoCall \in CallRow /\ NoPost \in PostRow
  BY DEF SessionRow, CallRow, PostRow, NoCall, NoPost

LEMMA InitTypes == Init => TypeOK /\ RowsLeft
<1> SUFFICES ASSUME Init PROVE TypeOK /\ RowsLeft
  OBVIOUS
<1>1. TypeOK
  <2>1. Unborn \in SessionRow /\ NoCall \in CallRow /\ NoPost \in PostRow
    BY BoundsAssumption DEF Unborn, NoCall, NoPost, SessionRow, CallRow, PostRow
  <2>2. /\ row \in [Tokens -> SessionRow] /\ call \in [Calls -> CallRow] /\ post \in [Calls -> PostRow]
    BY <2>1 DEF Init
  <2>3. account \in [active : BOOLEAN, pw : Nat \ {0}, failed : 0 .. Attempts, locked : BOOLEAN]
    BY BoundsAssumption DEF Init
  <2>4. Posting = {}
    BY DEF Init, Posting, NoPost
  <2>5. incidents \in 0 .. MaxIncidents
    BY BoundsAssumption DEF Init
  <2> QED BY <2>2, <2>3, <2>4, <2>5 DEF Init, TypeOK, SessionRow, CallRow, PostRow
<1>2. Needing = {} /\ Signing = {}
  BY DEF Init, Needing, Signing, NoCall, NoPost
<1> QED BY <1>1, <1>2, NeedsFinite, FS_EmptySet DEF RowsLeft

\* What a page that is left forgets.
LEMMA SignedOutTypes ==
    ASSUME TypeOK, NEW b, SignedOut(b)
    PROVE  /\ profile' \in BOOLEAN /\ page' \in [Tabs -> {"login", "app"}]
           /\ memory' \in [Tabs -> Tokens \cup {None}] /\ refreshing' \in [Tabs -> BOOLEAN]
           /\ call' \in [Calls -> [st : {"idle", "sent", "queued", "leading"}, tab : Tabs \cup {None},
                                   bearer : Tokens \cup {None}, retry : BOOLEAN]]
  BY DEF TypeOK, SignedOut, NoCall

\* What an UPDATE of the account's rows leaves.
LEMMA RevokedTypes ==
    ASSUME TypeOK, NEW s \in Sweepers, Revoked(s)
    PROVE  /\ row' \in [Tokens -> [st : {"unborn", "live", "revoked", "expired"}, family : 0 .. MaxTokens,
                                   pw : Nat, late : BOOLEAN]]
           /\ sweep' \in [Sweepers -> SUBSET Tokens]
           /\ Free' = Free
<1>1. ASSUME NEW t \in Tokens
      PROVE  /\ row'[t] \in [st : {"unborn", "live", "revoked", "expired"}, family : 0 .. MaxTokens,
                             pw : Nat, late : BOOLEAN]
             /\ row'[t].st = "unborn" <=> row[t].st = "unborn"
  BY DEF TypeOK, Revoked
<1>2. row' = [t \in Tokens |-> row'[t]]
  BY DEF Revoked
<1>3. sweep' \in [Sweepers -> SUBSET Tokens]
  BY DEF TypeOK, Revoked
<1> QED BY <1>1, <1>2, <1>3 DEF Free

LEMMA LoginTypes ==
    ASSUME TypeOK, RowsLeft, NEW b \in Tabs,
           LoginReads(b) \/ LoginInserts(b) \/ LoginRefused(b) \/ OpenTab(b) \/ Reload(b) \/ Logout(b)
    PROVE  TypeOK' /\ RowsLeft'
<1> USE DEF server, browser, Posting
<1>1. CASE LoginReads(b)
  <2>1. TypeOK'
    BY <1>1 DEF LoginReads, TypeOK
  <2>2. Needing' = Needing /\ Signing' \subseteq Signing \cup {b} /\ Free' = Free
    BY <1>1 DEF LoginReads, TypeOK, Needing, Signing, Free
  <2> QED BY <1>1, <2>1, <2>2, RoomForOne, OneMoreNeeds DEF LoginReads
<1>2. CASE LoginInserts(b)
  <2>1. b \in Signing
    BY <1>2 DEF LoginInserts, Signing
  <2>2. Fresh \in Free /\ Fresh \in Tokens
    BY <2>1, RowForEach DEF Free
  <2>3. TypeOK'
    <3>1. row' \in [Tokens -> [st : {"unborn", "live", "revoked", "expired"}, family : 0 .. MaxTokens,
                               pw : Nat, late : BOOLEAN]]
      BY <1>2, <2>2, BoundsAssumption DEF LoginInserts, TypeOK, Tokens
    <3>2. account' \in [active : BOOLEAN, pw : Nat \ {0}, failed : 0 .. Attempts, locked : BOOLEAN]
      <4>1. account' = [account EXCEPT !.failed = 0, !.locked = FALSE] /\ 0 \in 0 .. Attempts
        BY <1>2, BoundsAssumption DEF LoginInserts
      <4> QED BY <4>1 DEF TypeOK
    <3>3. /\ memory' \in [Tabs -> Tokens \cup {None}] /\ page' \in [Tabs -> {"login", "app"}]
          /\ signing' \in [Tabs -> Nat] /\ cookie' \in Tokens \cup {None} /\ profile' \in BOOLEAN
      BY <1>2, <2>2 DEF LoginInserts, TypeOK
    <3> QED BY <1>2, <3>1, <3>2, <3>3 DEF LoginInserts, TypeOK
  <2>4. Needing' \subseteq Needing /\ Signing' \subseteq Signing \ {b} /\ Free' = Free \ {Fresh}
    BY <1>2, <2>2 DEF LoginInserts, TypeOK, Needing, Signing, Free
  <2> QED BY <2>1, <2>2, <2>3, <2>4, LoginTakesRow
<1>3. CASE LoginRefused(b)
  <2>1. account' \in [active : BOOLEAN, pw : Nat \ {0}, failed : 0 .. Attempts, locked : BOOLEAN]
    <3>1. (IF account.failed + 1 > Attempts THEN Attempts ELSE account.failed + 1) \in 0 .. Attempts
      BY BoundsAssumption DEF TypeOK
    <3>2. (account.failed + 1 >= Attempts) \in BOOLEAN
      OBVIOUS
    <3>3. account' = [account EXCEPT !.failed = IF account.failed + 1 > Attempts THEN Attempts
                                                ELSE account.failed + 1,
                                     !.locked = account.failed + 1 >= Attempts]
      BY <1>3 DEF LoginRefused
    <3> QED BY <3>1, <3>2, <3>3 DEF TypeOK
  <2>2. incidents' \in 0 .. MaxIncidents
    BY <1>3, BoundsAssumption DEF LoginRefused, Incident, TypeOK
  <2>3. TypeOK'
    BY <1>3, <2>1, <2>2 DEF LoginRefused, TypeOK
  <2> QED BY <1>3, <2>3, NeedsLess DEF LoginRefused, Needing, Signing, Free
<1>4. CASE OpenTab(b)
  <2>1. TypeOK'
    BY <1>4 DEF OpenTab, TypeOK
  <2> QED BY <1>4, <2>1, NeedsLess DEF OpenTab, Needing, Signing, Free
<1>5. CASE Reload(b)
  <2>1. TypeOK'
    BY <1>5, BoundsAssumption DEF Reload, Incident, TypeOK, NoCall
  <2>2. Needing' \subseteq Needing
    BY <1>5 DEF Reload, Needing, NoCall
  <2> QED BY <1>5, <2>1, <2>2, NeedsLess DEF Reload, Signing, Free
<1>6. CASE Logout(b)
  <2>1. TypeOK'
    BY <1>6, SignedOutTypes, BoundsAssumption DEF Logout, Incident, TypeOK
  <2>2. Needing' \subseteq Needing
    BY <1>6 DEF Logout, SignedOut, Needing, NoCall
  <2> QED BY <1>6, <2>1, <2>2, NeedsLess DEF Logout, Signing, Free
<1> QED BY <1>1, <1>2, <1>3, <1>4, <1>5, <1>6

LEMMA ClientTypes ==
    ASSUME TypeOK, RowsLeft, NEW c \in Calls, Send(c) \/ Client(c) \/ AnswerLost(c)
    PROVE  TypeOK' /\ RowsLeft'
<1> USE DEF server, browser, Posting
<1>1. CASE Send(c)
  <2>1. PICK b \in Tabs :
            call' = [call EXCEPT ![c] = [st |-> "sent", tab |-> b, bearer |-> memory[b], retry |-> FALSE]]
    BY <1>1 DEF Send
  <2>2. TypeOK'
    BY <1>1, <2>1 DEF Send, TypeOK
  <2>3. Needing' \subseteq Needing \cup {c} /\ Signing' = Signing /\ Free' = Free
    BY <1>1, <2>1 DEF Send, TypeOK, Needing, Signing, Free
  <2> QED BY <1>1, <2>2, <2>3, RoomForOne, OneMoreNeeds DEF Send
<1>2. CASE Answered(c)
  <2>1. TypeOK'
    BY <1>2 DEF Answered, TypeOK, NoCall
  <2>2. Needing' \subseteq Needing
    BY <1>2 DEF Answered, TypeOK, Needing, NoCall
  <2> QED BY <1>2, <2>1, <2>2, NeedsLess DEF Answered, Signing, Free
<1>3. CASE Queue(c)
  <2>1. TypeOK'
    <3>1. call' \in [Calls -> CallRow]
      BY <1>3, RowTypes, OtherState DEF Queue
    <3> QED BY <1>3, <3>1 DEF Queue, TypeOK, CallRow
  <2>2. Needing' \subseteq Needing
    BY <1>3 DEF Queue, TypeOK, Needing
  <2> QED BY <1>3, <2>1, <2>2, NeedsLess DEF Queue, Signing, Free
<1>4. CASE Lead(c)
  <2>1. Presented \in [st : {"sent", "refused"}, with : Tokens \cup {None}, got : Tokens \cup {None}]
    BY DEF Presented, NoPost, TypeOK
  <2>2. Presented.st = "sent" => Presented.with \in Tokens
    BY DEF Presented, NoPost, TypeOK
  <2>3. call[c].tab \in Tabs \/ call[c].tab = None
    BY DEF TypeOK
  <2> HIDE DEF Posting
  <2>4. TypeOK'
    <3>1. call' \in [Calls -> CallRow]
      <4>1. [call[c] EXCEPT !.st = "leading", !.retry = TRUE] \in CallRow /\ call \in [Calls -> CallRow]
        BY RowTypes, ZenonT(30) DEF CallRow
      <4>2. call' = [call EXCEPT ![c] = [call[c] EXCEPT !.st = "leading", !.retry = TRUE]]
        BY <1>4 DEF Lead
      <4> QED BY <4>1, <4>2
    <3>2. post' \in [Calls -> [st : {"none", "sent", "rotating", "sweeping", "answered", "refused"},
                               with : Tokens \cup {None}, got : Tokens \cup {None}]]
      BY <1>4, <2>1 DEF Lead, TypeOK
    <3>3. \A d \in Posting' : post'[d].with \in Tokens
      BY <1>4, <2>1, <2>2 DEF Lead, TypeOK, Posting
    <3>4. refreshing' \in [Tabs -> BOOLEAN] /\ mishap' \in BOOLEAN
      BY <1>4 DEF Lead, TypeOK
    <3> QED BY <1>4, <3>1, <3>2, <3>3, <3>4 DEF Lead, TypeOK, CallRow
  <2>5. Needing' \subseteq Needing
    BY <1>4 DEF Lead, Refused, TypeOK, Needing
  <2> QED BY <1>4, <2>4, <2>5, NeedsLess DEF Lead, Signing, Free
<1>5. CASE RefreshSucceeds(c)
  <2> DEFINE b == call[c].tab
             t == post[c].got
  <2>1. t \in Tokens \cup {None} /\ call \in [Calls -> CallRow] /\ post \in [Calls -> PostRow]
    BY RowTypes DEF PostRow
  <2> HIDE DEF Posting
  <2>2. call' \in [Calls -> CallRow]
    <3>1. ASSUME NEW o \in Calls
          PROVE  [call[o] EXCEPT !.st = "sent", !.bearer = t, !.retry = TRUE] \in CallRow
      BY <2>1 DEF CallRow
    <3> QED BY <1>5, <2>1, <3>1 DEF RefreshSucceeds
  <2>3. post' \in [Calls -> PostRow] /\ \A d \in Posting' : post'[d].with \in Tokens
    BY <1>5, <2>1, RowTypes, OtherState DEF RefreshSucceeds, Posting, NoPost
  <2>4. /\ memory' \in [Tabs -> Tokens \cup {None}] /\ refreshing' \in [Tabs -> BOOLEAN]
        /\ cookie' \in Tokens \cup {None}
    BY <1>5, <2>1 DEF RefreshSucceeds, TypeOK, FlagAfter
  <2>5. TypeOK'
    BY <1>5, <2>2, <2>3, <2>4 DEF RefreshSucceeds, TypeOK, CallRow, PostRow
  <2>6. Needing' \subseteq Needing
    BY <1>5, <2>1 DEF RefreshSucceeds, Needing, NoPost, CallRow
  <2> QED BY <1>5, <2>5, <2>6, NeedsLess DEF RefreshSucceeds, Signing, Free
<1>6. CASE RefreshFails(c)
  <2>1. SignedOut(call[c].tab)
    BY <1>6 DEF RefreshFails
  <2> HIDE DEF Posting
  <2>2. post' \in [Calls -> PostRow] /\ \A d \in Posting' : post'[d].with \in Tokens
    BY <1>6, RowTypes, OtherState DEF RefreshFails, Posting, NoPost
  <2>3. TypeOK'
    BY <1>6, <2>1, <2>2, SignedOutTypes DEF RefreshFails, TypeOK, PostRow
  <2>4. Needing' \subseteq Needing
    BY <1>6, <2>1 DEF RefreshFails, SignedOut, Needing, NoCall, NoPost, TypeOK
  <2> QED BY <1>6, <2>3, <2>4, NeedsLess DEF RefreshFails, Signing, Free
<1>7. CASE AnswerDropped(c)
  <2>1. TypeOK'
    BY <1>7 DEF AnswerDropped, TypeOK, NoPost
  <2>2. Needing' \subseteq Needing
    BY <1>7 DEF AnswerDropped, TypeOK, Needing, NoPost
  <2> QED BY <1>7, <2>1, <2>2, NeedsLess DEF AnswerDropped, Signing, Free
<1>8. CASE AnswerLost(c)
  <2>1. SignedOut(call[c].tab)
    BY <1>8 DEF AnswerLost
  <2>2. incidents' \in 0 .. MaxIncidents
    BY <1>8, BoundsAssumption DEF AnswerLost, Incident, TypeOK
  <2>3. TypeOK'
    BY <1>8, <2>1, <2>2, SignedOutTypes DEF AnswerLost, TypeOK
  <2>4. Needing' \subseteq Needing
    BY <1>8, <2>1 DEF AnswerLost, SignedOut, Needing, NoCall
  <2> QED BY <1>8, <2>3, <2>4, NeedsLess DEF AnswerLost, Signing, Free
<1> QED BY <1>1, <1>2, <1>3, <1>4, <1>5, <1>6, <1>7, <1>8 DEF Client

LEMMA ServerTypes ==
    ASSUME TypeOK, RowsLeft, Descent, OneLeader, NEW c \in Calls, Server(c)
    PROVE  TypeOK' /\ RowsLeft'
<1> USE DEF server, browser
<1>0. c \in Sweepers /\ post \in [Calls -> PostRow] /\ row \in [Tokens -> SessionRow]
  BY RowTypes DEF Sweepers
<1>1. ASSUME NEW st \in {"rotating", "sweeping", "refused"}, post' = [post EXCEPT ![c].st = st],
             c \in Posting, UNCHANGED call
      PROVE  /\ post' \in [Calls -> PostRow] /\ \A d \in Posting' : post'[d].with \in Tokens
             /\ post[c].st = "sent" \/ st = "refused" => Needing' \subseteq Needing
  <2>1. post' \in [Calls -> PostRow]
    BY <1>0, <1>1, OtherState
  <2>2. \A d \in Calls : post'[d].with = post[d].with /\ (d # c => post'[d] = post[d])
    BY <1>0, <1>1 DEF PostRow
  <2>3. \A d \in Posting' : d \in Posting
    BY <1>1, <2>2 DEF Posting
  <2>4. post'[c].st = st
    BY <1>0, <1>1 DEF PostRow
  <2>5. post[c].st = "sent" \/ st = "refused" => Needing' \subseteq Needing
    BY <1>1, <2>2, <2>4 DEF Needing
  <2>6. \A d \in Posting : post[d].with \in Tokens
    BY DEF TypeOK
  <2>7. \A d \in Posting' : d \in Calls /\ post'[d].with \in Tokens
    BY <2>2, <2>3, <2>6 DEF Posting
  <2> QED BY <2>1, <2>5, <2>7
<1>2. CASE RefreshLocks(c)
  <2>1. /\ post' \in [Calls -> PostRow] /\ \A d \in Posting' : post'[d].with \in Tokens
        /\ Needing' \subseteq Needing
    BY <1>1, <1>2 DEF RefreshLocks, Posting
  <2>2. TypeOK'
    BY <1>2, <2>1 DEF RefreshLocks, TypeOK, PostRow
  <2> QED BY <1>2, <2>1, <2>2, NeedsLess DEF RefreshLocks, Signing, Free
<1>3. CASE RefreshInvalid(c)
  <2>1. /\ post' \in [Calls -> PostRow] /\ \A d \in Posting' : post'[d].with \in Tokens
        /\ Needing' \subseteq Needing
    BY <1>1, <1>3 DEF RefreshInvalid, Posting
  <2>2. TypeOK'
    BY <1>3, <2>1 DEF RefreshInvalid, TypeOK, PostRow
  <2> QED BY <1>3, <2>1, <2>2, NeedsLess DEF RefreshInvalid, Signing, Free
<1>4. CASE RefreshReused(c)
  <2>1. /\ post' \in [Calls -> PostRow] /\ \A d \in Posting' : post'[d].with \in Tokens
        /\ Needing' \subseteq Needing
    BY <1>1, <1>4 DEF RefreshReused, Posting
  <2>2. sweep' \in [Sweepers -> SUBSET Tokens]
    BY <1>0, <1>4 DEF RefreshReused, TypeOK, Live
  <2>3. TypeOK'
    BY <1>4, <2>1, <2>2 DEF RefreshReused, TypeOK, PostRow
  <2> QED BY <1>4, <2>1, <2>3, NeedsLess DEF RefreshReused, Signing, Free
<1>5. CASE ReuseAnswered(c)
  <2>1. Revoked(c) /\ c \in Posting
    BY <1>5 DEF ReuseAnswered, Posting
  <2>2. /\ post' \in [Calls -> PostRow] /\ \A d \in Posting' : post'[d].with \in Tokens
        /\ Needing' \subseteq Needing
    BY <1>1, <1>5, <2>1 DEF ReuseAnswered
  <2>3. TypeOK'
    BY <1>0, <1>5, <2>1, <2>2, RevokedTypes DEF ReuseAnswered, TypeOK, PostRow
  <2> QED BY <1>0, <1>5, <2>1, <2>2, <2>3, RevokedTypes, NeedsLess DEF ReuseAnswered, Signing
<1>6. CASE RefreshCommits(c)
  <2>1. c \in Needing /\ c \in Posting
    BY <1>6 DEF RefreshCommits, Needing, Posting
  <2>2. Fresh \in Free /\ Fresh \in Tokens /\ post[c].with \in Tokens
    BY <2>1, RowForEach, RowTypes DEF Free
  <2> DEFINE old == post[c].with
             new == [row[old] EXCEPT !.st = "live", !.late = row[old].pw # account.pw]
  <2>3. row' \in [Tokens -> SessionRow]
    <3>1. new \in SessionRow /\ [row[old] EXCEPT !.st = "revoked"] \in SessionRow
      BY <1>0, <2>2, ZenonT(30) DEF SessionRow
    <3>2. row' = [row EXCEPT ![old].st = "revoked", ![Fresh] = new]
      BY <1>6 DEF RefreshCommits
    <3> HIDE DEF new, old
    <3> QED BY <1>0, <3>1, <3>2
  <2>4. post' = [post EXCEPT ![c] = [post[c] EXCEPT !.st = "answered", !.got = Fresh]]
    BY <1>6 DEF RefreshCommits
  <2>5. post' \in [Calls -> PostRow] /\ \A d \in Posting' : post'[d].with \in Tokens
    <3>1. [post[c] EXCEPT !.st = "answered", !.got = Fresh] \in PostRow
      BY <1>0, <2>2 DEF PostRow
    <3>2. post' \in [Calls -> PostRow]
      BY <1>0, <2>4, <3>1
    <3>3. post'[c].with = post[c].with /\ \A d \in Calls \ {c} : post'[d] = post[d]
      BY <1>0, <2>4 DEF PostRow
    <3>4. \A d \in Posting' : post'[d].with = post[d].with /\ d \in Posting
      BY <2>1, <3>3 DEF Posting
    <3> QED BY <3>2, <3>4, RowTypes
  <2>6. TypeOK'
    BY <1>6, <2>3, <2>5 DEF RefreshCommits, TypeOK, PostRow, SessionRow
  <2>7. Needing' \subseteq Needing \ {c} /\ Signing' = Signing
    <3>1. post'[c].st = "answered" /\ \A d \in Calls \ {c} : post'[d] = post[d]
      BY <1>0, <2>4 DEF PostRow
    <3>2. call[c].st # "sent" /\ call' = call /\ signing' = signing
      BY <1>6 DEF RefreshCommits, OneLeader
    <3> QED BY <3>1, <3>2 DEF Needing, Signing
  <2>8. Free' = Free \ {Fresh}
    <3>1. row[old].st = "live" /\ old # Fresh
      BY <1>6, <2>2 DEF RefreshCommits, Descent, Free
    <3>2. row'[Fresh].st = "live" /\ row'[old].st = "revoked"
      BY <1>0, <1>6, <2>2, <3>1 DEF RefreshCommits, SessionRow
    <3>3. \A t \in Tokens \ {old, Fresh} : row'[t] = row[t]
      BY <1>0, <1>6 DEF RefreshCommits
    <3> QED BY <2>2, <3>1, <3>2, <3>3 DEF Free
  <2> QED BY <2>1, <2>2, <2>6, <2>7, <2>8, CallTakesRow
<1> QED BY <1>2, <1>3, <1>4, <1>5, <1>6 DEF Server

LEMMA AccountTypes ==
    ASSUME TypeOK, RowsLeft,
           \/ LockoutEnds \/ Suspend \/ SuspendSweeps \/ SuspendEnds \/ Reactivate
           \/ ForgotPassword \/ ResetCommits
           \/ \E k \in Clicks : ResetReads(k) \/ ResetRedeems(k)
           \/ \E t \in Tokens : Lapse(t) \/ Expire(t)
    PROVE  TypeOK' /\ RowsLeft'
<1> USE DEF browser, Posting
<1>0. Reset \in Sweepers /\ Owner \in Sweepers
  BY DEF Sweepers
<1>1. ASSUME UNCHANGED <<row, call, post, signing>> PROVE RowsLeft'
  BY <1>1, NeedsLess DEF Needing, Signing, Free
<1>2. CASE LockoutEnds
  BY <1>1, <1>2 DEF LockoutEnds, TypeOK
<1>3. CASE Suspend
  <2>1. incidents' \in 0 .. MaxIncidents
    BY <1>3, BoundsAssumption DEF Suspend, Incident, TypeOK
  <2> QED BY <1>1, <1>3, <2>1 DEF Suspend, TypeOK
<1>4. CASE SuspendSweeps
  BY <1>0, <1>1, <1>4 DEF SuspendSweeps, TypeOK, Live
<1>5. CASE SuspendEnds
  <2>1. TypeOK'
    BY <1>0, <1>5, RevokedTypes DEF SuspendEnds, TypeOK
  <2> QED BY <1>0, <1>5, <2>1, RevokedTypes, NeedsLess DEF SuspendEnds, Needing, Signing
<1>6. CASE Reactivate
  BY <1>1, <1>6 DEF Reactivate, TypeOK
<1>7. CASE ForgotPassword
  <2>1. incidents' \in 0 .. MaxIncidents
    BY <1>7, BoundsAssumption DEF ForgotPassword, Incident, TypeOK
  <2> QED BY <1>1, <1>7, <2>1 DEF ForgotPassword, TypeOK
<1>8. CASE ResetCommits
  <2>1. TypeOK'
    BY <1>0, <1>8, RevokedTypes DEF ResetCommits, TypeOK
  <2> QED BY <1>0, <1>8, <2>1, RevokedTypes, NeedsLess DEF ResetCommits, Needing, Signing
<1>9. ASSUME NEW k \in Clicks, ResetReads(k) PROVE TypeOK' /\ RowsLeft'
  BY <1>1, <1>9 DEF ResetReads, TypeOK
<1>10. ASSUME NEW k \in Clicks, ResetRedeems(k) PROVE TypeOK' /\ RowsLeft'
  <2>1. CASE Redeemable
    <3>1. account' = [account EXCEPT !.pw = @ + 1, !.failed = 0, !.locked = FALSE] /\ 0 \in 0 .. Attempts
      BY <1>10, <2>1, BoundsAssumption DEF ResetRedeems
    <3>2. account' \in [active : BOOLEAN, pw : Nat \ {0}, failed : 0 .. Attempts, locked : BOOLEAN]
      <4>1. account \in [active : BOOLEAN, pw : Nat \ {0}, failed : 0 .. Attempts, locked : BOOLEAN]
        BY DEF TypeOK
      <4>2. account.pw + 1 \in Nat \ {0}
        BY <4>1
      <4> QED BY <3>1, <4>1, <4>2
    <3>3. link' \in {"none", "open", "used"} /\ sweep' \in [Sweepers -> SUBSET Tokens]
      BY <1>0, <1>10, <2>1 DEF ResetRedeems, TypeOK, Live
    <3>4. click' \in [Clicks -> {"none", "read", "done"}]
      BY <1>10 DEF ResetRedeems, TypeOK
    <3>5. TypeOK'
      BY <1>10, <3>2, <3>3, <3>4 DEF ResetRedeems, TypeOK
    <3> QED BY <1>1, <1>10, <3>5 DEF ResetRedeems
  <2>2. CASE ~Redeemable
    BY <1>1, <1>10, <2>2 DEF ResetRedeems, TypeOK
  <2> QED BY <2>1, <2>2
<1>11. ASSUME NEW t \in Tokens, Lapse(t) PROVE TypeOK' /\ RowsLeft'
  BY <1>1, <1>11 DEF Lapse, TypeOK
<1>12. ASSUME NEW t \in Tokens, Expire(t) PROVE TypeOK' /\ RowsLeft'
  <2>1. row' \in [Tokens -> SessionRow] /\ row \in [Tokens -> SessionRow]
    BY <1>12, RowTypes, OtherState DEF Expire
  <2>2. Free' = Free
    BY <1>12, <2>1 DEF Expire, Free, SessionRow
  <2>3. TypeOK'
    BY <1>12, <2>1 DEF Expire, TypeOK, SessionRow
  <2> QED BY <1>12, <2>2, <2>3, NeedsLess DEF Expire, Needing, Signing
<1> QED BY <1>2, <1>3, <1>4, <1>5, <1>6, <1>7, <1>8, <1>9, <1>10, <1>11, <1>12

LEMMA StepTypes == TypeOK /\ RowsLeft /\ Descent /\ OneLeader /\ [Next]_vars => TypeOK' /\ RowsLeft'
<1> SUFFICES ASSUME TypeOK, RowsLeft, Descent, OneLeader, [Next]_vars PROVE TypeOK' /\ RowsLeft'
  OBVIOUS
<1>1. CASE UNCHANGED vars
  <2>1. TypeOK'
    BY <1>1 DEF vars, server, browser, TypeOK, Posting
  <2> QED BY <1>1, <2>1, NeedsLess DEF vars, server, browser, Needing, Signing, Free
<1> QED BY <1>1, LoginTypes, ClientTypes, ServerTypes, AccountTypes DEF Next
-----------------------------------------------------------------------------
(* Rotation *)

\* What the descent of the rows depends on stays.
LEMMA DescentStays ==
    ASSUME Descent, OneSessionPerLogin, UNCHANGED <<row, post>>
    PROVE  Descent' /\ OneSessionPerLogin'
  BY DEF Descent, OneSessionPerLogin, Live

\* No further rotation begins, and rows only end, those of a rotation excepted.
LEMMA DescentEnds ==
    ASSUME TypeOK, Descent, OneSessionPerLogin,
           \A c \in Calls : post'[c].st = "rotating" => post[c].st = "rotating" /\ post'[c].with = post[c].with,
           \A t \in Tokens : /\ row'[t].family = row[t].family
                             /\ row'[t].st = "unborn" <=> row[t].st = "unborn"
                             /\ row'[t].st = "live" => row[t].st = "live"
                             /\ Locked(t) => row'[t].st = row[t].st
    PROVE  Descent' /\ OneSessionPerLogin'
<1>1. \A c \in Calls : post[c].st = "rotating" => post[c].with \in Tokens /\ Locked(post[c].with)
  BY DEF TypeOK, Posting, Locked
<1>2. Descent'
  BY <1>1 DEF Descent
<1>3. OneSessionPerLogin'
  BY DEF OneSessionPerLogin, Live
<1> QED BY <1>2, <1>3

\* A new login's row is the first of its descent.
LEMMA LoginDescends ==
    ASSUME TypeOK, RowsLeft, Descent, OneSessionPerLogin, NEW b \in Tabs, LoginInserts(b)
    PROVE  Descent' /\ OneSessionPerLogin'
<1>1. Fresh \in Tokens /\ row[Fresh].st = "unborn"
  <2>1. b \in Signing
    BY DEF LoginInserts, Signing
  <2> QED BY <2>1, RowForEach DEF Free
<1>2. row'[Fresh].st = "live" /\ row'[Fresh].family = Fresh /\ \A t \in Tokens \ {Fresh} : row'[t] = row[t]
  BY <1>1 DEF LoginInserts, TypeOK
<1>3. UNCHANGED post /\ \A c \in Calls : post[c].st = "rotating" => post[c].with \in Tokens
  BY DEF LoginInserts, TypeOK, Posting
<1>4. Descent'
  <2>1. ASSUME NEW t \in Tokens, row'[t].st # "unborn"
        PROVE  row'[t].family \in Tokens /\ row'[row'[t].family].st # "unborn"
    BY <1>1, <1>2, <2>1 DEF Descent
  <2>2. ASSUME NEW c \in Calls, post'[c].st = "rotating" PROVE row'[post'[c].with].st = "live"
    BY <1>1, <1>2, <1>3, <2>2 DEF Descent
  <2> QED BY <1>3, <2>1, <2>2 DEF Descent
<1>5. OneSessionPerLogin'
  <2>1. \A t \in Live' \ {Fresh} : t \in Live /\ row[t].family # Fresh
    BY <1>1, <1>2 DEF Live, Descent
  <2>2. \A t \in Live' : t \in Tokens
    BY DEF Live
  <2> QED BY <1>2, <2>1, <2>2 DEF OneSessionPerLogin
<1> QED BY <1>4, <1>5

\* The exchanged row ends as its successor begins.
LEMMA CommitDescends ==
    ASSUME TypeOK, RowsLeft, Descent, OneSessionPerLogin, NEW c \in Calls, RefreshCommits(c)
    PROVE  Descent' /\ OneSessionPerLogin'
<1> DEFINE old == post[c].with
<1>1. Fresh \in Tokens /\ row[Fresh].st = "unborn" /\ old \in Tokens /\ row[old].st = "live"
  <2>1. c \in Needing /\ c \in Posting
    BY DEF RefreshCommits, Needing, Posting
  <2> QED BY <2>1, RowForEach DEF Free, TypeOK, RefreshCommits, Descent
<1>2. /\ row'[Fresh].st = "live" /\ row'[Fresh].family = row[old].family
      /\ row'[old].st = "revoked" /\ row'[old].family = row[old].family
      /\ \A t \in Tokens \ {Fresh, old} : row'[t] = row[t]
  <2>1. row \in [Tokens -> SessionRow]
    BY RowTypes
  <2> QED BY <1>1, <2>1 DEF RefreshCommits, SessionRow
<1>3. /\ \A d \in Calls \ {c} : post'[d] = post[d]
      /\ post'[c].st = "answered"
  BY DEF RefreshCommits, TypeOK
<1>4. \A d \in Calls : post[d].st = "rotating" => post[d].with \in Tokens
  BY DEF TypeOK, Posting
<1>5. Descent'
  <2>1. ASSUME NEW t \in Tokens, row'[t].st # "unborn"
        PROVE  row'[t].family \in Tokens /\ row'[row'[t].family].st # "unborn"
    <3> DEFINE like == IF t = Fresh THEN old ELSE t
    <3>1. like \in Tokens /\ row[like].st # "unborn" /\ row'[t].family = row[like].family
      BY <1>1, <1>2, <2>1
    <3>2. row[like].family \in Tokens /\ row[row[like].family].st # "unborn"
      BY <3>1 DEF Descent
    <3>3. \A u \in Tokens : row[u].st # "unborn" => row'[u].st # "unborn"
      BY <1>1, <1>2
    <3> QED BY <3>1, <3>2, <3>3
  <2>2. ASSUME NEW d \in Calls, post'[d].st = "rotating"
        PROVE  d # c /\ post'[d] = post[d] /\ row'[post'[d].with].st = "live"
    <3>1. d # c /\ post'[d] = post[d]
      BY <1>3, <2>2
    <3>2. post[d].with # old
      BY <2>2, <3>1 DEF Descent, RefreshCommits
    <3> QED BY <1>1, <1>2, <1>4, <2>2, <3>1, <3>2 DEF Descent
  <2> QED BY <2>1, <2>2 DEF Descent
<1>6. OneSessionPerLogin'
  <2>1. \A t \in Live' \ {Fresh} : t \in Live /\ t # old
    BY <1>1, <1>2 DEF Live
  <2>2. old \in Live
    BY <1>1 DEF Live
  <2>3. \A t, u \in Live' \ {Fresh} : row'[t] = row[t] /\ row'[u] = row[u]
    BY <1>1, <1>2, <2>1 DEF Live
  <2>4. \A t \in Live' \ {Fresh} : row'[t].family # row'[Fresh].family
    BY <1>2, <2>1, <2>2, <2>3 DEF OneSessionPerLogin
  <2> QED BY <2>1, <2>3, <2>4 DEF OneSessionPerLogin
<1> QED BY <1>5, <1>6

LEMMA StepDescent ==
    TypeOK /\ RowsLeft /\ Descent /\ OneSessionPerLogin /\ [Next]_vars => Descent' /\ OneSessionPerLogin'
<1> SUFFICES ASSUME TypeOK, RowsLeft, Descent, OneSessionPerLogin, [Next]_vars
             PROVE  Descent' /\ OneSessionPerLogin'
  OBVIOUS
<1> USE DEF server, browser
<1>0. row \in [Tokens -> SessionRow] /\ post \in [Calls -> PostRow]
  BY RowTypes
<1>1. ASSUME NEW b \in Tabs, LoginReads(b) \/ LoginRefused(b) \/ OpenTab(b) \/ Reload(b) \/ Logout(b)
      PROVE  Descent' /\ OneSessionPerLogin'
  BY <1>1, DescentStays DEF LoginReads, LoginRefused, OpenTab, Reload, Logout
<1>2. ASSUME NEW c \in Calls, Send(c) \/ Answered(c) \/ Queue(c) \/ AnswerLost(c)
      PROVE  Descent' /\ OneSessionPerLogin'
  BY <1>2, DescentStays DEF Send, Answered, Queue, AnswerLost
<1>3. \/ LockoutEnds \/ Suspend \/ SuspendSweeps \/ Reactivate \/ ForgotPassword
      \/ (\E k \in Clicks : ResetReads(k) \/ ResetRedeems(k)) \/ (\E t \in Tokens : Lapse(t))
      \/ UNCHANGED vars
      => Descent' /\ OneSessionPerLogin'
  BY DescentStays DEF LockoutEnds, Suspend, SuspendSweeps, Reactivate, ForgotPassword, ResetReads, ResetRedeems,
     Lapse, vars
<1>4. ASSUME NEW c \in Calls, UNCHANGED row,
             \E p : post' = [post EXCEPT ![c] = p] /\ p.st # "rotating"
      PROVE  Descent' /\ OneSessionPerLogin'
  BY <1>0, <1>4, DescentEnds
<1>5. ASSUME NEW c \in Calls,
             Lead(c) \/ RefreshSucceeds(c) \/ RefreshFails(c) \/ AnswerDropped(c)
             \/ RefreshInvalid(c) \/ RefreshReused(c)
      PROVE  Descent' /\ OneSessionPerLogin'
  <2>1. Presented.st # "rotating" /\ NoPost.st # "rotating"
    BY DEF Presented, NoPost
  <2>2. \A st \in {"refused", "sweeping"} : [post[c] EXCEPT !.st = st].st # "rotating"
    BY <1>0 DEF PostRow
  <2>3. CASE Lead(c)
    BY <1>4, <2>1, <2>3 DEF Lead
  <2>4. CASE RefreshSucceeds(c) \/ RefreshFails(c) \/ AnswerDropped(c)
    BY <1>4, <2>1, <2>4 DEF RefreshSucceeds, RefreshFails, AnswerDropped
  <2>5. CASE RefreshInvalid(c) \/ RefreshReused(c)
    BY <1>4, <2>2, <2>5 DEF RefreshInvalid, RefreshReused
  <2> QED BY <1>5, <2>3, <2>4, <2>5
<1>6. ASSUME NEW s \in Sweepers, Revoked(s),
             \A c \in Calls : post'[c].st = "rotating" => post[c].st = "rotating" /\ post'[c].with = post[c].with
      PROVE  Descent' /\ OneSessionPerLogin'
  <2>1. ASSUME NEW t \in Tokens
        PROVE  /\ row'[t].family = row[t].family
               /\ row'[t].st = "unborn" <=> row[t].st = "unborn"
               /\ row'[t].st = "live" => row[t].st = "live"
               /\ Locked(t) => row'[t].st = row[t].st
    BY <1>0, <1>6 DEF Revoked, Ends, SessionRow
  <2> QED BY <1>6, <2>1, DescentEnds
<1>7. ASSUME NEW c \in Calls, ReuseAnswered(c) PROVE Descent' /\ OneSessionPerLogin'
  <2>1. \A d \in Calls : post'[d].st = "rotating" => post[d].st = "rotating" /\ post'[d].with = post[d].with
    BY <1>0, <1>7 DEF ReuseAnswered, PostRow
  <2> QED BY <1>6, <1>7, <2>1 DEF ReuseAnswered, Sweepers
<1>8. CASE SuspendEnds
  BY <1>6, <1>8 DEF SuspendEnds, Sweepers
<1>9. CASE ResetCommits
  BY <1>6, <1>9 DEF ResetCommits, Sweepers
<1>10. ASSUME NEW t \in Tokens, Expire(t) PROVE Descent' /\ OneSessionPerLogin'
  <2>1. ASSUME NEW u \in Tokens
        PROVE  /\ row'[u].family = row[u].family
               /\ row'[u].st = "unborn" <=> row[u].st = "unborn"
               /\ row'[u].st = "live" => row[u].st = "live"
               /\ Locked(u) => row'[u].st = row[u].st
    BY <1>0, <1>10 DEF Expire, SessionRow
  <2> QED BY <1>10, <2>1, DescentEnds DEF Expire
<1>11. ASSUME NEW c \in Calls, RefreshLocks(c) PROVE Descent' /\ OneSessionPerLogin'
  <2>1. /\ UNCHANGED row /\ post'[c].st = "rotating" /\ post'[c].with = post[c].with
        /\ \A d \in Calls \ {c} : post'[d] = post[d]
    BY <1>0, <1>11 DEF RefreshLocks, PostRow
  <2>2. \A d \in Calls \ {c} : ~(post[d].st = "rotating" /\ post[d].with = post[c].with)
    BY <1>11 DEF RefreshLocks, Exchangeable, Locked
  <2>3. row[post[c].with].st = "live"
    BY <1>11 DEF RefreshLocks
  <2>4. Descent'
    BY <2>1, <2>2, <2>3 DEF Descent
  <2> QED BY <2>1, <2>4 DEF OneSessionPerLogin, Live
<1> QED BY <1>1, <1>2, <1>3, <1>5, <1>7, <1>8, <1>9, <1>10, <1>11, LoginDescends, CommitDescends
        DEF Next, Client, Server
-----------------------------------------------------------------------------
(* One leader for a tab *)

LEMMA LeaderStays ==
    ASSUME OneLeader, UNCHANGED <<call, refreshing>>,
           \A c \in Calls : post'[c].st # "none" => post[c].st # "none"
    PROVE  OneLeader'
  BY DEF OneLeader

\* A tab whose calls are forgotten has no leader.
LEMMA LeaderForgotten ==
    ASSUME OneLeader, NEW b, refreshing' = [refreshing EXCEPT ![b] = FALSE],
           call' = [o \in Calls |-> IF o \in Mine(b) THEN NoCall ELSE call[o]],
           \A c \in Calls : post'[c].st # "none" => post[c].st # "none",
           refreshing \in [Tabs -> BOOLEAN]
    PROVE  OneLeader'
<1>1. \A o \in Calls : call'[o].st # "idle" => call'[o] = call[o] /\ call[o].tab # b
  BY DEF Mine, NoCall
<1>2. \A o \in Calls : call'[o] = call[o] \/ call'[o].st = "idle"
  BY DEF NoCall
<1>3. \A c \in Calls : post'[c].st # "none" => call'[c].st \in {"idle", "leading"}
  BY <1>2 DEF OneLeader
<1>4. \A c \in Calls : call'[c].st # "idle" => call'[c].tab \in Tabs
  BY <1>1 DEF OneLeader
<1>5. \A c \in Calls : call'[c].st = "leading" => refreshing'[call'[c].tab]
  BY <1>1 DEF OneLeader
<1>6. \A c, d \in Calls : call'[c].st = "leading" /\ call'[d].st = "leading" /\ call'[c].tab = call'[d].tab => c = d
  BY <1>1 DEF OneLeader
<1> QED BY <1>3, <1>4, <1>5, <1>6 DEF OneLeader

LEMMA StepLeader == TypeOK /\ OneLeader /\ [Next]_vars => OneLeader'
<1> SUFFICES ASSUME TypeOK, OneLeader, [Next]_vars PROVE OneLeader'
  OBVIOUS
<1> USE DEF server, browser
<1>0. call \in [Calls -> CallRow] /\ post \in [Calls -> PostRow] /\ refreshing \in [Tabs -> BOOLEAN]
  BY RowTypes
<1>1. ASSUME NEW b \in Tabs, LoginReads(b) \/ LoginInserts(b) \/ LoginRefused(b) \/ OpenTab(b) PROVE OneLeader'
  BY <1>1, LeaderStays DEF LoginReads, LoginInserts, LoginRefused, OpenTab
<1>2. ASSUME NEW b \in Tabs, Reload(b) \/ Logout(b) PROVE OneLeader'
  BY <1>0, <1>2, LeaderForgotten DEF Reload, Logout, SignedOut
<1>3. ASSUME NEW c \in Calls, RefreshFails(c) \/ AnswerLost(c) PROVE OneLeader'
  <2>1. \A d \in Calls : post'[d].st # "none" => post[d].st # "none"
    BY <1>0, <1>3 DEF RefreshFails, AnswerLost, NoPost
  <2> QED BY <1>0, <1>3, <2>1, LeaderForgotten DEF RefreshFails, AnswerLost, SignedOut
<1>4. \/ LockoutEnds \/ Suspend \/ SuspendSweeps \/ SuspendEnds \/ Reactivate \/ ForgotPassword \/ ResetCommits
      \/ (\E k \in Clicks : ResetReads(k) \/ ResetRedeems(k)) \/ (\E t \in Tokens : Lapse(t) \/ Expire(t))
      \/ UNCHANGED vars
      => OneLeader'
  BY LeaderStays DEF LockoutEnds, Suspend, SuspendSweeps, SuspendEnds, Reactivate, ForgotPassword, ResetCommits,
     ResetReads, ResetRedeems, Lapse, Expire, vars
<1>5. ASSUME NEW c \in Calls, Server(c) \/ AnswerDropped(c) PROVE OneLeader'
  <2>1. \A d \in Calls : post'[d].st # "none" => post[d].st # "none"
    BY <1>0, <1>5 DEF Server, RefreshLocks, RefreshCommits, RefreshInvalid, RefreshReused, ReuseAnswered,
       AnswerDropped, NoPost
  <2>2. UNCHANGED <<call, refreshing>>
    BY <1>5 DEF Server, RefreshLocks, RefreshCommits, RefreshInvalid, RefreshReused, ReuseAnswered, AnswerDropped
  <2> QED BY <2>1, <2>2, LeaderStays
<1>6. ASSUME NEW c \in Calls, Send(c) \/ Answered(c) \/ Queue(c) PROVE OneLeader'
  <2>1. UNCHANGED <<post, refreshing>> /\ \A d \in Calls \ {c} : call'[d] = call[d]
    BY <1>0, <1>6 DEF Send, Answered, Queue
  <2>2. call'[c].st # "leading" /\ (call'[c].st # "idle" => call'[c].tab \in Tabs /\ post[c].st = "none")
    BY <1>0, <1>6 DEF Send, Answered, Queue, Refused, NoCall, OneLeader, CallRow
  <2> QED BY <2>1, <2>2 DEF OneLeader
<1>7. ASSUME NEW c \in Calls, Lead(c) PROVE OneLeader'
  <2>1. /\ call'[c].st = "leading" /\ call'[c].tab = call[c].tab /\ call[c].tab \in Tabs
        /\ ~refreshing[call[c].tab]
    BY <1>0, <1>7 DEF Lead, Refused, Leads, OneLeader, CallRow
  <2>2. /\ \A d \in Calls \ {c} : call'[d] = call[d] /\ post'[d] = post[d]
        /\ refreshing' = [refreshing EXCEPT ![call[c].tab] = TRUE]
    BY <1>0, <1>7 DEF Lead
  <2>3. \A b \in Tabs : refreshing[b] => refreshing'[b]
    BY <1>0, <2>2
  <2> QED BY <1>0, <2>1, <2>2, <2>3 DEF OneLeader
<1>8. ASSUME NEW c \in Calls, RefreshSucceeds(c) PROVE OneLeader'
  <2> DEFINE b == call[c].tab
  <2>1. /\ \A o \in Calls : (o = c \/ (o \in Mine(b) /\ call[o].st = "queued"))
                            => call'[o].st = "sent" /\ call'[o].tab = call[o].tab /\ call[o].st # "idle"
        /\ \A o \in Calls : ~(o = c \/ (o \in Mine(b) /\ call[o].st = "queued")) => call'[o] = call[o]
    BY <1>0, <1>8 DEF RefreshSucceeds, CallRow
  <2>2. post'[c].st = "none" /\ \A o \in Calls \ {c} : post'[o] = post[o]
    BY <1>0, <1>8 DEF RefreshSucceeds, NoPost
  <2>3. /\ refreshing' = [refreshing EXCEPT ![b] = FALSE] /\ call[c].st = "leading" /\ b \in Tabs
    BY <1>8 DEF RefreshSucceeds, FlagAfter, OneLeader
  <2>4. \A o \in Calls : call'[o].st = "leading" => o # c /\ call'[o] = call[o] /\ call[o].tab # b
    BY <2>1, <2>3 DEF OneLeader
  <2>5. \A o \in Calls : call'[o].st = "leading" => refreshing'[call'[o].tab]
    BY <1>0, <2>3, <2>4 DEF OneLeader
  <2>6. \A o \in Calls : post'[o].st # "none" => call'[o].st \in {"idle", "leading"}
    BY <2>1, <2>2 DEF OneLeader
  <2>7. \A o \in Calls : call'[o].st # "idle" => call'[o].tab \in Tabs
    BY <2>1 DEF OneLeader
  <2>8. \A o, d \in Calls : /\ call'[o].st = "leading" /\ call'[d].st = "leading" /\ call'[o].tab = call'[d].tab
                            => o = d
    BY <2>4 DEF OneLeader
  <2> QED BY <2>5, <2>6, <2>7, <2>8 DEF OneLeader
<1> QED BY <1>1, <1>2, <1>3, <1>4, <1>5, <1>6, <1>7, <1>8 DEF Next, Client

-----------------------------------------------------------------------------
(* The quiet browser *)

\* What is under way goes on as it was, and no valid row was revoked.
LEMMA QuietStays ==
    ASSUME TypeOK, Quiet, mishap' = mishap,
           \A c \in Calls : post'[c].st = post[c].st /\ post'[c].with = post[c].with /\ post'[c].got = post[c].got,
           \A c \in Posting : call'[c].st = call[c].st,
           Usable \subseteq Usable',
           cookie' = cookie \/ cookie' = None
    PROVE  Quiet'
<1> SUFFICES ASSUME ~mishap PROVE Quiet'
  BY DEF Quiet
<1>1. Posting' = Posting
  BY DEF Posting
<1>2. /\ \A c \in Posting' : call'[c].st = "leading" /\ post'[c].st # "sweeping"
      /\ \A c, d \in Posting' : c = d
  BY <1>1 DEF Quiet, Posting
<1>3. ASSUME NEW c \in Calls
      PROVE  /\ post'[c].st \in {"sent", "rotating"} => post'[c].with \in Usable'
             /\ post'[c].st = "answered" => post'[c].got \in Usable'
  BY DEF Quiet
<1>4. (cookie' # None /\ \A c \in Calls : post'[c].st # "answered") => cookie' \in Usable'
  BY DEF Quiet
<1> QED BY <1>2, <1>3, <1>4 DEF Quiet

\* A page whose calls are forgotten while nothing of it is under way.
LEMMA QuietForgotten ==
    ASSUME TypeOK, Quiet, NEW b, mishap' = (mishap \/ \E o \in Posting : call[o].tab = b),
           call' = [o \in Calls |-> IF o \in Mine(b) THEN NoCall ELSE call[o]],
           UNCHANGED <<post, row>>, cookie' = cookie \/ cookie' = None
    PROVE  Quiet'
<1> SUFFICES ASSUME ~mishap' PROVE Quiet'
  BY DEF Quiet
<1>1. ~mishap /\ mishap' = mishap
  BY DEF TypeOK
<1>2. \A c \in Posting : call'[c] = call[c]
  BY DEF Posting, Mine
<1>3. Usable' = Usable
  BY DEF Usable
<1> QED BY <1>1, <1>2, <1>3, QuietStays

LEMMA QuietServer ==
    ASSUME TypeOK, RowsLeft, Descent, Quiet, AlarmNeedsMishap, NEW c \in Calls, Server(c)
    PROVE  Quiet' /\ AlarmNeedsMishap'
<1> USE DEF server, browser
<1>0. row \in [Tokens -> SessionRow] /\ post \in [Calls -> PostRow]
  BY RowTypes
<1>1. UNCHANGED <<cookie, call, mishap>>
  BY DEF Server, RefreshLocks, RefreshCommits, RefreshInvalid, RefreshReused, ReuseAnswered
<1>2. CASE mishap
  BY <1>1, <1>2 DEF Quiet, AlarmNeedsMishap
<1>3. CASE ~mishap
  <2>1. c \in Posting => \A d \in Calls \ {c} : d \notin Posting
    BY <1>3 DEF Quiet
  <2>2. CASE RefreshLocks(c)
    <3>1. /\ post'[c].st = "rotating" /\ post'[c].with = post[c].with /\ post[c].st = "sent"
          /\ \A d \in Calls \ {c} : post'[d] = post[d]
      BY <1>0, <2>2 DEF RefreshLocks, PostRow
    <3>2. Posting' = Posting /\ Usable' = Usable
      BY <2>2, <3>1 DEF Posting, Usable, RefreshLocks
    <3>3. \A d \in Calls : /\ post'[d].st \in {"sent", "rotating"} => post'[d].with \in Usable'
                           /\ post'[d].st = "answered" => post'[d].got \in Usable' /\ post[d].st = "answered"
      BY <1>3, <3>1, <3>2 DEF Quiet
    <3>4. ASSUME NEW d \in Posting' PROVE call'[d].st = "leading" /\ post'[d].st # "sweeping"
      <4>1. d \in Posting /\ call[d].st = "leading" /\ post[d].st # "sweeping"
        BY <1>3, <3>2 DEF Quiet
      <4>2. post'[d].st # "sweeping"
        BY <3>1, <4>1 DEF Posting
      <4> QED BY <1>1, <4>1, <4>2
    <3>5. \A d, e \in Posting' : d = e
      BY <1>3, <3>2 DEF Quiet
    <3>6. (cookie' # None /\ \A d \in Calls : post'[d].st # "answered") => cookie' \in Usable'
      BY <1>1, <1>3, <3>1, <3>2 DEF Quiet
    <3>7. Quiet'
      BY <3>3, <3>4, <3>5, <3>6 DEF Quiet
    <3> QED BY <2>2, <3>7 DEF AlarmNeedsMishap, RefreshLocks
  <2>3. CASE RefreshInvalid(c)
    <3>1. /\ post'[c].st = "refused" /\ post[c].st = "sent"
          /\ \A d \in Calls \ {c} : post'[d] = post[d]
      BY <1>0, <2>3 DEF RefreshInvalid, PostRow
    <3>2. Posting' \subseteq Posting /\ Usable' = Usable
      BY <2>3, <3>1 DEF Posting, Usable, RefreshInvalid
    <3>3. Quiet'
      BY <1>1, <1>3, <3>1, <3>2 DEF Quiet, Posting
    <3> QED BY <2>3, <3>3 DEF AlarmNeedsMishap, RefreshInvalid
  <2>4. CASE RefreshCommits(c)
    <3>1. Fresh \in Tokens
      <4>1. c \in Needing
        BY <2>4 DEF RefreshCommits, Needing
      <4> QED BY <4>1, RowForEach DEF Free
    <3>2. /\ post'[c].st = "answered" /\ post'[c].got = Fresh /\ post[c].st = "rotating" /\ c \in Posting
          /\ \A d \in Calls \ {c} : post'[d] = post[d] /\ d \notin Posting
      BY <1>0, <2>1, <2>4 DEF RefreshCommits, PostRow, Posting
    <3>3. Posting' = Posting
      BY <3>2 DEF Posting
    <3>4. Fresh \in Usable'
      BY <1>0, <2>4, <3>1 DEF RefreshCommits, Usable, SessionRow
    <3>5. \A d \in Calls : /\ post'[d].st \in {"sent", "rotating"} => post'[d].with \in Usable'
                           /\ post'[d].st = "answered" => post'[d].got \in Usable'
      BY <3>2, <3>4 DEF Posting
    <3>6. Quiet'
      BY <1>1, <1>3, <3>2, <3>3, <3>5 DEF Quiet
    <3> QED BY <2>4, <3>6 DEF AlarmNeedsMishap, RefreshCommits
  <2>5. CASE RefreshReused(c)
    BY <1>3, <2>5 DEF RefreshReused, Quiet, Usable
  <2>6. CASE ReuseAnswered(c)
    BY <1>3, <2>6 DEF ReuseAnswered, Quiet, Posting
  <2> QED BY <2>2, <2>3, <2>4, <2>5, <2>6 DEF Server
<1> QED BY <1>2, <1>3

LEMMA QuietLogin ==
    ASSUME TypeOK, RowsLeft, Quiet, NEW b \in Tabs, LoginInserts(b)
    PROVE  Quiet'
<1> SUFFICES ASSUME ~mishap PROVE Quiet'
  BY DEF Quiet, LoginInserts
<1>1. Fresh \in Tokens /\ Fresh \in Free
  <2>1. b \in Signing
    BY DEF LoginInserts, Signing
  <2> QED BY <2>1, RowForEach DEF Free
<1>2. row'[Fresh].st = "live" /\ \A t \in Tokens \ {Fresh} : row'[t] = row[t]
  BY <1>1 DEF LoginInserts, TypeOK
<1>3. Usable \subseteq Usable' /\ Fresh \in Usable'
  BY <1>1, <1>2 DEF Usable, Free
<1>4. UNCHANGED <<post, call, mishap>> /\ cookie' = Fresh
  BY DEF LoginInserts
<1>5. Posting' = Posting
  BY <1>4 DEF Posting
<1> QED BY <1>3, <1>4, <1>5 DEF Quiet

\* The first call to meet the 401 while nothing else is under way.
LEMMA QuietLead ==
    ASSUME TypeOK, OneLeader, Quiet, NEW c \in Calls, Lead(c)
    PROVE  Quiet'
<1> SUFFICES ASSUME ~mishap' PROVE Quiet'
  BY DEF Quiet
<1>0. call \in [Calls -> CallRow] /\ post \in [Calls -> PostRow]
  BY RowTypes
<1>1. ~mishap /\ \A o \in Posting : call[o].tab = call[c].tab
  BY DEF Lead
<1>2. Posting = {}
  <2>1. \A o \in Posting : o \in Calls /\ call[o].st = "leading" /\ refreshing[call[o].tab]
    BY <1>1 DEF Quiet, Posting, OneLeader
  <2> QED BY <1>1, <2>1 DEF Lead, Leads
<1>3. /\ call'[c].st = "leading" /\ post'[c] = Presented
      /\ \A d \in Calls \ {c} : post'[d] = post[d] /\ call'[d] = call[d]
  BY <1>0 DEF Lead, CallRow
<1>4. Usable' = Usable /\ cookie' = cookie
  BY DEF Lead, Usable, server
<1>5. \/ cookie = None /\ Presented.st = "refused"
      \/ cookie \in Usable /\ Presented.st = "sent" /\ Presented.with = cookie
  <2>1. \A d \in Calls : post[d].st # "answered"
    BY <1>2 DEF Posting
  <2> QED BY <1>1, <2>1 DEF Presented, NoPost, Quiet
<1>6. \A d \in Posting' : d = c /\ post'[d].st # "sweeping"
  BY <1>2, <1>3, <1>5 DEF Posting
<1>7. ASSUME NEW d \in Calls
      PROVE  /\ post'[d].st \in {"sent", "rotating"} => post'[d].with \in Usable'
             /\ post'[d].st # "answered"
  BY <1>2, <1>3, <1>4, <1>5 DEF Posting
<1>8. cookie' # None => cookie' \in Usable'
  BY <1>4, <1>5
<1> QED BY <1>3, <1>6, <1>7, <1>8 DEF Quiet

LEMMA QuietClient ==
    ASSUME TypeOK, OneLeader, Quiet, NEW c \in Calls, Send(c) \/ Client(c) \/ AnswerLost(c)
    PROVE  Quiet'
<1> USE DEF server, browser
<1>0. call \in [Calls -> CallRow] /\ post \in [Calls -> PostRow]
  BY RowTypes
<1>1. CASE AnswerLost(c)
  BY <1>1 DEF AnswerLost, Quiet
<1>2. CASE mishap
  BY <1>1, <1>2 DEF Send, Client, Answered, Queue, Lead, RefreshSucceeds, RefreshFails, AnswerDropped, Quiet
<1>3. CASE Send(c) \/ Answered(c) \/ Queue(c)
  <2>1. UNCHANGED <<post, cookie, row, mishap>> /\ \A d \in Calls \ {c} : call'[d] = call[d]
    BY <1>0, <1>3 DEF Send, Answered, Queue
  <2>2. c \in Posting => mishap
    BY <1>3 DEF Send, Answered, Queue, Refused, Quiet, Posting
  <2>3. \A d \in Posting : mishap \/ call'[d].st = call[d].st
    BY <2>1, <2>2 DEF Posting
  <2>4. Usable' = Usable
    BY <2>1 DEF Usable
  <2>5. ~mishap => Quiet'
    BY <2>1, <2>3, <2>4, QuietStays
  <2> QED BY <1>2, <2>5
<1>4. CASE RefreshSucceeds(c)
  <2> SUFFICES ASSUME ~mishap PROVE Quiet'
    BY <1>2
  <2>1. c \in Posting /\ \A d \in Calls \ {c} : d \notin Posting
    BY <1>4 DEF RefreshSucceeds, Posting, Quiet
  <2>2. post'[c].st = "none" /\ \A d \in Calls \ {c} : post'[d] = post[d]
    BY <1>0, <1>4 DEF RefreshSucceeds, NoPost
  <2>3. Posting' = {}
    BY <2>1, <2>2 DEF Posting
  <2>4. cookie' = post[c].got /\ post[c].got \in Usable /\ Usable' = Usable
    BY <1>4 DEF RefreshSucceeds, Quiet, Usable
  <2>5. \A d \in Calls : post'[d].st \notin {"sent", "rotating", "answered"}
    BY <2>3 DEF Posting
  <2> QED BY <2>3, <2>4, <2>5 DEF Quiet
<1>5. CASE RefreshFails(c)
  <2> SUFFICES ASSUME ~mishap PROVE Quiet'
    BY <1>2
  <2>1. post'[c].st = "none" /\ post[c].st = "refused" /\ \A d \in Calls \ {c} : post'[d] = post[d]
    BY <1>0, <1>5 DEF RefreshFails, NoPost
  <2>2. Posting' = Posting /\ c \notin Posting
    BY <2>1 DEF Posting
  <2>3. \A d \in Posting : call'[d] = call[d]
    BY <1>5, <2>2 DEF RefreshFails, SignedOut, Mine, Posting, OneLeader, Quiet
  <2>4. UNCHANGED <<cookie, row, mishap>> /\ Usable' = Usable
    BY <1>5 DEF RefreshFails, Usable
  <2> QED BY <2>1, <2>2, <2>3, <2>4 DEF Quiet, Posting
<1>6. CASE AnswerDropped(c)
  <2> SUFFICES ASSUME ~mishap PROVE Quiet'
    BY <1>2
  <2>1. post'[c].st = "none" /\ post[c].st = "refused" /\ \A d \in Calls \ {c} : post'[d] = post[d]
    BY <1>0, <1>6 DEF AnswerDropped, NoPost, Quiet, Posting
  <2>2. Posting' = Posting
    BY <2>1 DEF Posting
  <2>3. UNCHANGED <<cookie, row, mishap, call>> /\ Usable' = Usable
    BY <1>6 DEF AnswerDropped, Usable
  <2> QED BY <2>1, <2>2, <2>3 DEF Quiet, Posting
<1> QED BY <1>1, <1>3, <1>4, <1>5, <1>6, QuietLead DEF Client

LEMMA StepQuiet ==
    TypeOK /\ RowsLeft /\ Descent /\ OneLeader /\ Quiet /\ AlarmNeedsMishap /\ [Next]_vars
      => Quiet' /\ AlarmNeedsMishap'
<1> SUFFICES ASSUME TypeOK, RowsLeft, Descent, OneLeader, Quiet, AlarmNeedsMishap, [Next]_vars
             PROVE  Quiet' /\ AlarmNeedsMishap'
  OBVIOUS
<1> USE DEF server, browser
<1>0. row \in [Tokens -> SessionRow]
  BY RowTypes
<1>1. ASSUME UNCHANGED alarm, mishap => mishap' PROVE AlarmNeedsMishap'
  BY <1>1 DEF AlarmNeedsMishap
<1>2. ASSUME UNCHANGED <<post, call, mishap, alarm, cookie>>, Usable \subseteq Usable' PROVE Quiet' /\ AlarmNeedsMishap'
  BY <1>1, <1>2, QuietStays
<1>3. ASSUME NEW b \in Tabs, LoginReads(b) \/ LoginRefused(b) \/ OpenTab(b) PROVE Quiet' /\ AlarmNeedsMishap'
  BY <1>2, <1>3 DEF LoginReads, LoginRefused, OpenTab, Usable
<1>4. ASSUME NEW b \in Tabs, LoginInserts(b) PROVE Quiet' /\ AlarmNeedsMishap'
  BY <1>1, <1>4, QuietLogin DEF LoginInserts
<1>5. ASSUME NEW b \in Tabs, Reload(b) \/ Logout(b) PROVE Quiet' /\ AlarmNeedsMishap'
  BY <1>1, <1>5, QuietForgotten DEF Reload, Logout, SignedOut
<1>6. ASSUME NEW c \in Calls, Send(c) \/ Client(c) \/ AnswerLost(c) PROVE Quiet' /\ AlarmNeedsMishap'
  <2>1. UNCHANGED alarm /\ (mishap => mishap')
    <3>1. CASE Lead(c)
      BY <3>1 DEF Lead
    <3>2. CASE AnswerLost(c)
      BY <3>2 DEF AnswerLost
    <3>3. CASE Send(c) \/ Answered(c) \/ Queue(c)
      BY <3>3 DEF Send, Answered, Queue
    <3>4. CASE RefreshSucceeds(c)
      BY <3>4 DEF RefreshSucceeds
    <3>5. CASE RefreshFails(c)
      BY <3>5 DEF RefreshFails
    <3>6. CASE AnswerDropped(c)
      BY <3>6 DEF AnswerDropped
    <3> QED BY <1>6, <3>1, <3>2, <3>3, <3>4, <3>5, <3>6 DEF Client
  <2> QED BY <1>1, <1>6, <2>1, QuietClient
<1>7. CASE SuspendEnds \/ ResetCommits
  BY <1>7 DEF SuspendEnds, ResetCommits, Quiet, AlarmNeedsMishap
<1>8. \/ LockoutEnds \/ Suspend \/ SuspendSweeps \/ Reactivate \/ ForgotPassword
      \/ (\E k \in Clicks : ResetReads(k) \/ ResetRedeems(k)) \/ (\E t \in Tokens : Lapse(t)) \/ UNCHANGED vars
      => Quiet' /\ AlarmNeedsMishap'
  BY <1>2 DEF LockoutEnds, Suspend, SuspendSweeps, Reactivate, ForgotPassword, ResetReads, ResetRedeems, Lapse,
     vars, Usable
<1>9. ASSUME NEW t \in Tokens, Expire(t) PROVE Quiet' /\ AlarmNeedsMishap'
  <2>1. Usable \subseteq Usable'
    BY <1>0, <1>9 DEF Expire, Usable, SessionRow
  <2> QED BY <1>2, <1>9, <2>1 DEF Expire
<1> QED BY <1>3, <1>4, <1>5, <1>6, <1>7, <1>8, <1>9, QuietServer DEF Next

-----------------------------------------------------------------------------
(* The reset *)

\* Rows only end, by anybody but the reset.
LEMMA SweptStays ==
    ASSUME SweptOrLate, PasswordOfLink, account'.pw = account.pw, link' = link,
           \A t \in Live' : t \in Live /\ row'[t].pw = row[t].pw /\ row'[t].late = row[t].late,
           Live' \cap sweep[Reset] \subseteq sweep'[Reset]
    PROVE  SweptOrLate' /\ PasswordOfLink'
  BY DEF SweptOrLate, PasswordOfLink, Live

LEMMA StepReset ==
    TypeOK /\ RowsLeft /\ Descent /\ SweptOrLate /\ PasswordOfLink /\ [Next]_vars => SweptOrLate' /\ PasswordOfLink'
<1> SUFFICES ASSUME TypeOK, RowsLeft, Descent, SweptOrLate, PasswordOfLink, [Next]_vars
             PROVE  SweptOrLate' /\ PasswordOfLink'
  OBVIOUS
<1> USE DEF server, browser
<1>0. /\ row \in [Tokens -> SessionRow] /\ sweep \in [Sweepers -> SUBSET Tokens]
      /\ account \in [active : BOOLEAN, pw : Nat \ {0}, failed : 0 .. Attempts, locked : BOOLEAN]
      /\ Reset \in Sweepers /\ Owner \in Sweepers /\ Reset # Owner /\ \A c \in Calls : c \in Sweepers /\ c # Reset
  BY RowTypes, NamesAssumption DEF Sweepers, Reset, Owner
<1>1. ASSUME UNCHANGED <<row, link>>, account'.pw = account.pw, sweep[Reset] \subseteq sweep'[Reset]
      PROVE  SweptOrLate' /\ PasswordOfLink'
  BY <1>1, SweptStays DEF Live
<1>2. ASSUME NEW b \in Tabs, LoginReads(b) \/ LoginRefused(b) \/ OpenTab(b) \/ Reload(b) \/ Logout(b)
      PROVE  SweptOrLate' /\ PasswordOfLink'
  <2>1. account'.pw = account.pw
    BY <1>0, <1>2 DEF LoginReads, LoginRefused, OpenTab, Reload, Logout
  <2> QED BY <1>1, <1>2, <2>1 DEF LoginReads, LoginRefused, OpenTab, Reload, Logout
<1>3. ASSUME NEW c \in Calls,
             Send(c) \/ Client(c) \/ AnswerLost(c) \/ RefreshLocks(c) \/ RefreshInvalid(c)
      PROVE  SweptOrLate' /\ PasswordOfLink'
  <2>1. UNCHANGED <<row, account, link, sweep>>
    BY <1>3 DEF Send, Client, AnswerLost, RefreshLocks, RefreshInvalid, Answered, Queue, Lead, RefreshSucceeds,
       RefreshFails, AnswerDropped
  <2> QED BY <1>1, <2>1
<1>4. ASSUME NEW c \in Calls, RefreshReused(c) PROVE SweptOrLate' /\ PasswordOfLink'
  BY <1>0, <1>1, <1>4 DEF RefreshReused
<1>5. ASSUME NEW b \in Tabs, LoginInserts(b) PROVE SweptOrLate' /\ PasswordOfLink'
  <2>1. Fresh \in Tokens
    <3>1. b \in Signing
      BY <1>5 DEF LoginInserts, Signing
    <3> QED BY <3>1, RowForEach DEF Free
  <2>2. /\ row'[Fresh].pw = signing[b] /\ row'[Fresh].late = (signing[b] # account.pw)
        /\ \A t \in Tokens \ {Fresh} : row'[t] = row[t]
    BY <1>0, <1>5, <2>1 DEF LoginInserts
  <2>3. account'.pw = account.pw /\ UNCHANGED <<link, sweep>>
    BY <1>0, <1>5 DEF LoginInserts
  <2> QED BY <2>1, <2>2, <2>3 DEF SweptOrLate, PasswordOfLink, Live
<1>6. ASSUME NEW c \in Calls, RefreshCommits(c) PROVE SweptOrLate' /\ PasswordOfLink'
  <2> DEFINE old == post[c].with
  <2>1. Fresh \in Tokens /\ Fresh # old /\ old \in Tokens
    <3>1. c \in Needing /\ c \in Posting
      BY <1>6 DEF RefreshCommits, Needing, Posting
    <3> QED BY <1>6, <3>1, RowForEach DEF Free, TypeOK, RefreshCommits, Descent
  <2>2. /\ row'[Fresh].pw = row[old].pw /\ row'[Fresh].late = (row[old].pw # account.pw)
        /\ row'[old].st = "revoked"
        /\ \A t \in Tokens \ {Fresh, old} : row'[t] = row[t]
    BY <1>0, <1>6, <2>1 DEF RefreshCommits, SessionRow
  <2>3. UNCHANGED <<account, link, sweep>>
    BY <1>6 DEF RefreshCommits
  <2> QED BY <2>1, <2>2, <2>3 DEF SweptOrLate, PasswordOfLink, Live
<1>7. ASSUME NEW s \in Sweepers, Revoked(s)
      PROVE  /\ \A t \in Live' : /\ t \in Live /\ row'[t] = row[t] /\ t \notin sweep[s]
             /\ \A z \in Sweepers \ {s} : sweep'[z] = sweep[z]
  BY <1>0, <1>7 DEF Revoked, Ends, Live, SessionRow
<1>8. ASSUME NEW s \in Sweepers, Revoked(s), UNCHANGED <<account, link>>
      PROVE  SweptOrLate' /\ PasswordOfLink'
  BY <1>0, <1>7, <1>8, SweptStays
<1>9. ASSUME NEW c \in Calls, ReuseAnswered(c) PROVE SweptOrLate' /\ PasswordOfLink'
  BY <1>0, <1>8, <1>9 DEF ReuseAnswered
<1>10. CASE SuspendEnds \/ ResetCommits
  BY <1>0, <1>8, <1>10 DEF SuspendEnds, ResetCommits
<1>11. ASSUME NEW k \in Clicks, ResetRedeems(k) PROVE SweptOrLate' /\ PasswordOfLink'
  <2>1. CASE Redeemable
    <3>1. link = "open" /\ link' = "used" /\ account'.pw = account.pw + 1 /\ UNCHANGED row
      BY <1>0, <1>11, <2>1 DEF ResetRedeems, Redeemable
    <3>2. sweep'[Reset] = Live /\ Live' = Live
      BY <1>0, <1>11, <2>1, <3>1 DEF ResetRedeems, Live
    <3> QED BY <3>1, <3>2 DEF SweptOrLate, PasswordOfLink
  <2>2. CASE ~Redeemable
    BY <1>1, <1>11, <2>2 DEF ResetRedeems
  <2> QED BY <2>1, <2>2
<1>12. CASE ForgotPassword
  BY <1>12 DEF ForgotPassword, SweptOrLate, PasswordOfLink, Live
<1>13. ASSUME NEW t \in Tokens, Expire(t) PROVE SweptOrLate' /\ PasswordOfLink'
  <2>1. \A u \in Live' : u \in Live /\ row'[u].pw = row[u].pw /\ row'[u].late = row[u].late
    BY <1>0, <1>13 DEF Expire, Live, SessionRow
  <2> QED BY <1>13, <2>1, SweptStays DEF Expire
<1>14. \/ LockoutEnds \/ Suspend \/ Reactivate \/ SuspendSweeps
       \/ (\E k \in Clicks : ResetReads(k)) \/ (\E t \in Tokens : Lapse(t)) \/ UNCHANGED vars
       => SweptOrLate' /\ PasswordOfLink'
  <2> SUFFICES ASSUME \/ LockoutEnds \/ Suspend \/ Reactivate \/ SuspendSweeps
                      \/ (\E k \in Clicks : ResetReads(k)) \/ (\E t \in Tokens : Lapse(t)) \/ UNCHANGED vars
               PROVE  SweptOrLate' /\ PasswordOfLink'
    OBVIOUS
  <2>1. account'.pw = account.pw /\ UNCHANGED <<row, link>> /\ sweep'[Reset] = sweep[Reset]
    BY <1>0 DEF LockoutEnds, Suspend, Reactivate, SuspendSweeps, ResetReads, Lapse, vars
  <2> QED BY <1>1, <2>1
<1> QED BY <1>2, <1>3, <1>4, <1>5, <1>6, <1>9, <1>10, <1>11, <1>12, <1>13, <1>14 DEF Next, Server

-----------------------------------------------------------------------------
(* The theorems *)

\* The inductive invariant.
SessionsInv ==
    /\ TypeOK /\ RowsLeft
    /\ Descent /\ OneSessionPerLogin
    /\ OneLeader /\ Quiet /\ AlarmNeedsMishap
    /\ SweptOrLate /\ PasswordOfLink

LEMMA SessionsHold == Spec => []SessionsInv
<1>1. Init => SessionsInv
  <2> SUFFICES ASSUME Init PROVE SessionsInv
    OBVIOUS
  <2>1. Live = {} /\ Posting = {} /\ \A t \in Tokens : row[t].st = "unborn"
    BY DEF Init, Live, Posting, Unborn, NoPost
  <2>2. Descent /\ OneSessionPerLogin /\ SweptOrLate
    BY <2>1 DEF Init, Descent, OneSessionPerLogin, SweptOrLate, NoPost
  <2>3. OneLeader /\ AlarmNeedsMishap /\ PasswordOfLink
    BY DEF Init, OneLeader, AlarmNeedsMishap, PasswordOfLink, NoCall, NoPost
  <2>4. Quiet
    BY <2>1 DEF Init, Quiet, NoPost
  <2> QED BY <2>2, <2>3, <2>4, InitTypes DEF SessionsInv
<1>2. SessionsInv /\ [Next]_vars => SessionsInv'
  BY StepTypes, StepDescent, StepLeader, StepQuiet, StepReset DEF SessionsInv
<1> QED BY <1>1, <1>2, PTL DEF Spec

\* The rows, the browser and what is under way keep their types, for any tabs,
\* calls, redemptions and number of rows.
THEOREM SessionsTyped == Spec => []TypeOK
  BY SessionsHold, PTL DEF SessionsInv

\* However many tabs and calls refresh at once, a login has one session, and the
\* theft alarm goes off only after two tabs refreshed at once, an answer was
\* lost, a page was left meanwhile, or the account was reset or suspended.
THEOREM RotationSound == Spec => []RotationIsSound
<1>1. SessionsInv => RotationIsSound
  BY DEF SessionsInv, RotationIsSound
<1> QED BY <1>1, SessionsHold, PTL

\* A reset link sets one password, and ends every session won with the old one
\* but those whose login or rotation was under way.
THEOREM ResetSound == Spec => []ResetIsSound
<1>1. SessionsInv => ResetIsSound
  BY DEF SessionsInv, ResetIsSound, ResetEndsSessions, LinkSetsOnePassword, SweptOrLate, PasswordOfLink
<1> QED BY <1>1, SessionsHold, PTL
=================================================================================
