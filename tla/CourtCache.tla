------------------------------ MODULE CourtCache ------------------------------
(***************************************************************************)
(* The court list and its copy in Redis.  A listing reads the copy, reads   *)
(* the table and writes the copy in three calls; a change to a court writes *)
(* the table and deletes the copy in two.  A new court's number is read in  *)
(* one statement and inserted in another.                                   *)
(*                                                                         *)
(* DroppedKept, which no definition uses, is a wrong version of Dropped.    *)
(***************************************************************************)
EXTENDS Naturals, FiniteSets, FiniteSetsExt

CONSTANTS
    Courts,     \* the rows of the courts table that may come to exist
    Listers,    \* GET /courts under way
    Keepers,    \* owners' changes under way
    MaxNumber   \* bound on the court numbers

ASSUME MaxNumberAssumption == MaxNumber \in Nat \ {0}

VARIABLES
    court,     \* per row: its number, 0 before it is inserted, and is_active
    cached,    \* the copy: no list, or one
    lister,    \* per listing: where it is and what it has read
    keeper,    \* per change: where it is, and the number it chose
    behind,    \* history: the listings that read the table before its last change
    excused    \* history: the copy comes from a listing left behind, or a delete failed

cacheVars == <<court, cached, lister, keeper, behind, excused>>

Numbers == 1 .. MaxNumber
Row  == [number : 0 .. MaxNumber, active : BOOLEAN]
List == SUBSET (Courts \X Numbers)

Made     == {c \in Courts : court[c].number # 0}
Showing  == {c \in Made : court[c].active}
Listed   == {<<c, court[c].number>> : c \in Showing}

CacheTypeOK ==
    /\ court \in [Courts -> Row]
    /\ cached \subseteq List /\ Cardinality(cached) <= 1
    /\ lister \in [Listers -> [at : {"idle", "missed", "read"}, list : List]]
    /\ keeper \in [Keepers -> [at : {"idle", "numbered", "changed"}, number : 0 .. MaxNumber]]
    /\ behind \subseteq Listers /\ excused \in BOOLEAN

Away == [at |-> "idle", list |-> {}]
Rest == [at |-> "idle", number |-> 0]

CacheInit ==
    /\ court = [c \in Courts |-> [number |-> 0, active |-> FALSE]]
    /\ cached = {}
    /\ lister = [l \in Listers |-> Away]
    /\ keeper = [k \in Keepers |-> Rest]
    /\ behind = {} /\ excused = FALSE

-----------------------------------------------------------------------------
(* Listings *)

ListMisses(l) ==
    /\ lister[l].at = "idle" /\ cached = {}
    /\ lister' = [lister EXCEPT ![l].at = "missed"]
    /\ UNCHANGED <<court, cached, keeper, behind, excused>>

ListReads(l) ==
    /\ lister[l].at = "missed"
    /\ lister' = [lister EXCEPT ![l] = [at |-> "read", list |-> Listed]]
    /\ behind' = behind \ {l}
    /\ UNCHANGED <<court, cached, keeper, excused>>

ListStores(l) ==
    /\ lister[l].at = "read"
    /\ cached' = {lister[l].list}
    /\ excused' = (l \in behind)
    /\ lister' = [lister EXCEPT ![l] = Away]
    /\ UNCHANGED <<court, keeper, behind>>

\* The copy lapses after its 30 seconds.
CopyLapses ==
    /\ cached # {}
    /\ cached' = {} /\ excused' = FALSE
    /\ UNCHANGED <<court, lister, keeper, behind>>

-----------------------------------------------------------------------------
(* Changes *)

\* The partial unique index: one active court per number.
Free(c, row) == row.active => \A d \in Showing \ {c} : court[d].number # row.number

DroppedKept == cached
Dropped     == {}

\* The statement that changes a row; a number in use ends the call.
Changes(k, c, row) ==
    IF Free(c, row)
    THEN /\ court' = [court EXCEPT ![c] = row]
         /\ keeper' = [keeper EXCEPT ![k] = [Rest EXCEPT !.at = "changed"]]
         /\ behind' = behind \cup {l \in Listers : lister[l].at = "read"}
    ELSE /\ keeper' = [keeper EXCEPT ![k] = Rest]
         /\ UNCHANGED <<court, behind>>

CreateNumbers(k) ==
    /\ keeper[k].at = "idle"
    /\ LET next == 1 + Max({court[c].number : c \in Courts}) IN
         /\ next \in Numbers
         /\ keeper' = [keeper EXCEPT ![k] = [at |-> "numbered", number |-> next]]
    /\ UNCHANGED <<court, cached, lister, behind, excused>>

\* The number is the one read before, or the owner's own.
CreateInserts(k, c, n) ==
    /\ \/ keeper[k].at = "numbered" /\ n = keeper[k].number
       \/ keeper[k].at = "idle"
    /\ c \notin Made
    /\ Changes(k, c, [number |-> n, active |-> TRUE])
    /\ UNCHANGED <<cached, lister, excused>>

UpdateCourt(k, c, row) ==
    /\ keeper[k].at = "idle" /\ c \in Made /\ row.number # 0
    /\ Changes(k, c, row)
    /\ UNCHANGED <<cached, lister, excused>>

DeleteCourt(k, c) ==
    /\ keeper[k].at = "idle" /\ c \in Made
    /\ Changes(k, c, [court[c] EXCEPT !.active = FALSE])
    /\ UNCHANGED <<cached, lister, excused>>

DropsCopy(k) ==
    /\ keeper[k].at = "changed"
    /\ cached' = Dropped /\ excused' = FALSE
    /\ keeper' = [keeper EXCEPT ![k] = Rest]
    /\ UNCHANGED <<court, lister, behind>>

\* Redis does not answer: the change stands, the owner is told it failed.
DropFails(k) ==
    /\ keeper[k].at = "changed"
    /\ excused' = TRUE
    /\ keeper' = [keeper EXCEPT ![k] = Rest]
    /\ UNCHANGED <<court, cached, lister, behind>>

CacheNext ==
    \/ \E l \in Listers : ListMisses(l) \/ ListReads(l) \/ ListStores(l)
    \/ CopyLapses
    \/ \E k \in Keepers :
         \/ CreateNumbers(k) \/ DropsCopy(k) \/ DropFails(k)
         \/ \E c \in Courts :
              \/ DeleteCourt(k, c)
              \/ \E n \in Numbers : CreateInserts(k, c, n)
              \/ \E row \in Row : UpdateCourt(k, c, row)

CacheSpec == CacheInit /\ [][CacheNext]_cacheVars

-----------------------------------------------------------------------------
\* The copy differs from the table only while a change is about to delete it,
\* or because a listing that read before the change stored it, or because
\* Redis did not take the delete.
StaleCopyNeedsCause ==
    cached \notin {{}, {Listed}} => excused \/ \E k \in Keepers : keeper[k].at = "changed"

\* Courts numbered by MAX + 1 at the same time, renumbered or reactivated
\* never leave two active courts with one number.
OneCourtPerNumber ==
    \A c, d \in Showing : court[c].number = court[d].number => c = d
=============================================================================
