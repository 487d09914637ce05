----------------------------- MODULE BookingDesk -----------------------------
(***************************************************************************)
(* One prime-time slot on several courts: the bookings made of it, the     *)
(* waitlist for it, the holds that a cancellation hands to the waitlist,   *)
(* and the rental stock that the bookings on all courts share.             *)
(*                                                                         *)
(* A creation is one transaction of several statements, each seeing what   *)
(* is committed when it runs (READ COMMITTED): it locks its court, looks   *)
(* at the court's bookings, then at its holds, then locks each item of     *)
(* equipment and looks at its stock, and inserts.  A cancellation does not *)
(* lock the court, so it can commit between any two of these.              *)
(*                                                                         *)
(* A definition no action uses (RouteHoldsFirst, ItemFreeAlways,           *)
(* NextItemAsked, ConsumesNothing, BookedLocked) is a wrong version of the *)
(* one below it.                                                           *)
(***************************************************************************)
EXTENDS Naturals, Sequences, FiniteSets

CONSTANTS
    Courts,
    Items,      \* equipment, numbered as their ids are ordered
    Stock,      \* [Items -> Nat], what the club first owns of each
    Members,
    MaxRequests,\* bound: bookings asked for
    Asks,       \* what a request may ask: [court, who, desk (made by staff), want (items, as listed)]
    Wishes,     \* what a member may wait for: [who, court], no court standing for any
    MaxEntries, \* bound: rows of waitlist_entries
    Edits,      \* what the owner may write into the catalogue: [item, stock, active]
    MaxEdits,   \* bound: changes to the catalogue
    None

Requests == 1 .. MaxRequests
Entries == 1 .. MaxEntries

ASSUME BoundsAssumption == MaxRequests \in Nat /\ MaxEntries \in Nat /\ MaxEdits \in Nat /\ Items \subseteq Nat
ASSUME StockAssumption == Stock \in [Items -> Nat] /\ Edits \subseteq [item : Items, stock : Nat, active : BOOLEAN]
ASSUME WishesAssumption == Wishes \subseteq [who : Members, court : Courts \cup {None}]
ASSUME NoneAssumption == None \notin Courts \cup Members \cup Requests \cup Nat
\* Two lines of one item break the unique index of booking_equipment: such a
\* request is left out.
ASSUME AsksAssumption == \A a \in Asks : a.court \in Courts /\ a.who \in Members /\ a.desk \in BOOLEAN /\ a.want \in Seq(Items)
    /\ \A k, n \in DOMAIN a.want : a.want[k] = a.want[n] => k = n

VARIABLES
    request,   \* a creation under way and the booking it becomes; over when refused, cancelled or released
    item,      \* equipment: its stock_qty, and is_active
    entry,     \* waitlist_entries in the order of created_at
    hold,      \* slot_holds in the order of created_at
    edits

vars == <<request, item, entry, hold, edits>>

NoAsk == [court |-> None, who |-> None, desk |-> FALSE, want |-> << >>]
Idle == [st |-> "idle", ask |-> NoAsk, at |-> 1, token |-> None, gone |-> {}, got |-> {},
         claims |-> None, offers |-> None]
NoEntry == [st |-> "none", who |-> None, court |-> None]

Init ==
    /\ request = [r \in Requests |-> Idle]
    /\ item = [i \in Items |-> [stock |-> Stock[i], active |-> TRUE]]
    /\ edits = 0
    /\ entry = [e \in Entries |-> NoEntry]
    /\ hold = << >>

\* A booking being cancelled is live for every other transaction until it commits.
Live == {r \in Requests : request[r].st \in {"booked", "cancelling"}}
Wanted(r) == {request[r].ask.want[k] : k \in DOMAIN request[r].ask.want}
Reserved(i) == Cardinality({r \in Live : i \in Wanted(r)})

-----------------------------------------------------------------------------
(* Creating a booking.                                                     *)

RouteHoldsFirst == <<"court", "holds", "bookings", "items">>
Route == <<"court", "bookings", "holds", "items">>

Doing(r, what) == request[r].st = "creating" /\ Route[request[r].at] = what

\* The row locks are held from the statement that takes them to the end of the
\* transaction, so what a creation has done says which it holds.
CourtFree(c) ==
    ~\E q \in Requests : request[q].st = "creating" /\ request[q].at > 1 /\ request[q].ask.court = c
ItemFreeAlways(i) == TRUE
ItemFree(i) == ~\E q \in Requests : request[q].st = "creating" /\ i \in request[q].got

\* The transaction begins: its NOW(), against which holds expire, is fixed.
Ask(r) ==
    /\ request[r].st = "idle" /\ \A q \in Requests : q < r => request[q].st # "idle"
    /\ \E a \in Asks, t \in {None} \cup DOMAIN hold :
        /\ a.desk => t = None
        /\ request' = [request EXCEPT ![r] = [Idle EXCEPT !.st = "creating", !.ask = a, !.token = t,
                                              !.gone = {h \in DOMAIN hold : hold[h].expired}]]
    /\ UNCHANGED <<item, entry, hold, edits>>

Onward(r) == [request EXCEPT ![r].at = @ + 1]

LockCourt(r) ==
    /\ Doing(r, "court") /\ CourtFree(request[r].ask.court)
    /\ request' = Onward(r)
    /\ UNCHANGED <<item, entry, hold, edits>>

\* A rollback, which gives every lock back.
Refuse(r) ==
    /\ request' = [request EXCEPT ![r] = [Idle EXCEPT !.st = "over"]]
    /\ UNCHANGED <<item, entry, hold, edits>>

Taken(c) == \E q \in Live : request[q].ask.court = c

LookBookings(r) ==
    /\ Doing(r, "bookings")
    /\ IF Taken(request[r].ask.court)
       THEN Refuse(r)
       ELSE request' = Onward(r) /\ UNCHANGED <<item, entry, hold, edits>>

ActiveHolds(r) ==
    {h \in DOMAIN hold : /\ hold[h].court = request[r].ask.court
                         /\ ~hold[h].claimed
                         /\ h \notin request[r].gone}
Oldest(H) == CHOOSE h \in H : \A o \in H : h <= o

\* The token is of the hold, and the booking is for the member it was issued to.
Entitled(r, h) == hold[h].who = request[r].ask.who /\ request[r].token = h

\* Of several active holds only the oldest is compared; staff override it.
LookHolds(r) ==
    /\ Doing(r, "holds")
    /\ LET H == ActiveHolds(r) IN
       IF H = {}
       THEN /\ request' = Onward(r)
            /\ UNCHANGED <<item, entry, hold, edits>>
       ELSE IF Entitled(r, Oldest(H))
       THEN /\ request' = [Onward(r) EXCEPT ![r].claims = Oldest(H)]
            /\ UNCHANGED <<item, entry, hold, edits>>
       ELSE IF request[r].ask.desk
       THEN /\ request' = Onward(r)
            /\ UNCHANGED <<item, entry, hold, edits>>
       ELSE Refuse(r)

Missing(r) == Wanted(r) \ request[r].got
NextItemAsked(r) ==
    LET w == request[r].ask.want
        k == CHOOSE n \in DOMAIN w : w[n] \in Missing(r) /\ \A m \in DOMAIN w : w[m] \in Missing(r) => n <= m IN w[k]
NextItem(r) == CHOOSE i \in Missing(r) : \A o \in Missing(r) : i <= o

\* The row of the item is locked, then the reservations of it summed; only the
\* holder of the lock can add one, so both are one step.
RentItem(r) ==
    /\ Doing(r, "items") /\ Missing(r) # {}
    /\ LET i == NextItem(r) IN
       /\ ItemFree(i)
       /\ IF ~item[i].active \/ item[i].stock <= Reserved(i)
          THEN Refuse(r)
          ELSE /\ request' = [request EXCEPT ![r].got = @ \cup {i}]
               /\ UNCHANGED <<item, entry, hold, edits>>

ConsumesNothing(h) == hold
Consumes(h) == [hold EXCEPT ![h].claimed = TRUE]

\* The booking, its lines and the claim of its hold are inserted and committed.
Books(r) == Doing(r, "items") /\ Missing(r) = {}

BookedLocked(r) == [request EXCEPT ![r] = [@ EXCEPT !.st = "booked", !.at = 1, !.token = None, !.gone = {}]]
Booked(r) == [request EXCEPT ![r] = [@ EXCEPT !.st = "booked", !.at = 1, !.token = None, !.gone = {}, !.got = {}]]

CommitCreate(r) ==
    /\ Books(r)
    /\ request' = Booked(r)
    /\ hold' = IF request[r].claims = None THEN hold ELSE Consumes(request[r].claims)
    /\ UNCHANGED <<item, entry, edits>>

-----------------------------------------------------------------------------
(* Cancelling one, in two steps: the top entry is locked, skipping those    *)
(* another cancellation holds, and the hold is committed with the           *)
(* cancellation.                                                            *)

Over(r) == [request EXCEPT ![r] = [Idle EXCEPT !.st = "over", !.claims = request[r].claims]]

Matching(r) ==
    {e \in Entries : /\ entry[e].st = "waiting"
                     /\ entry[e].court \in {None, request[r].ask.court}
                     /\ entry[e].who # request[r].ask.who}

EntryFree(e) == ~\E q \in Requests : request[q].st = "cancelling" /\ request[q].offers = e

CancelLocks(r) ==
    /\ request[r].st = "booked"
    /\ LET E == {e \in Matching(r) : EntryFree(e)} IN
       request' = [request EXCEPT ![r].st = "cancelling", ![r].offers = IF E = {} THEN None ELSE Oldest(E)]
    /\ UNCHANGED <<item, entry, hold, edits>>

\* Two cancellations on one court are never under way together, so its holds
\* are appended in the order of their created_at.
CancelCommits(r) ==
    LET e == request[r].offers IN
    /\ request[r].st = "cancelling"
    /\ request' = Over(r)
    /\ IF e = None THEN UNCHANGED <<entry, hold>>
       ELSE /\ hold' = Append(hold, [court |-> request[r].ask.court, who |-> entry[e].who, entry |-> e,
                                     claimed |-> FALSE, expired |-> FALSE])
            /\ entry' = [entry EXCEPT ![e] = [NoEntry EXCEPT !.st = "served"]]
    /\ UNCHANGED <<item, edits>>

\* A statement fails and the whole cancellation is undone; the request may be
\* repeated.
CancelFails(r) ==
    /\ request[r].st = "cancelling"
    /\ request' = [request EXCEPT ![r].st = "booked", ![r].offers = None]
    /\ UNCHANGED <<item, entry, hold, edits>>

\* The cron jobs release unpaid bookings and offer them to nobody.
Release(r) ==
    /\ request[r].st = "booked"
    /\ request' = Over(r)
    /\ UNCHANGED <<item, entry, hold, edits>>

-----------------------------------------------------------------------------
(* The waitlist, the clock and the catalogue.                              *)

\* A member waits at most once for one court or any; the row is the next.
JoinWaitlist(e) ==
    /\ entry[e].st = "none" /\ \A o \in Entries : o < e => entry[o].st # "none"
    /\ \E w \in Wishes :
        LET new == [st |-> "waiting", who |-> w.who, court |-> w.court] IN
        /\ \A o \in Entries : entry[o] # new
        /\ entry' = [entry EXCEPT ![e] = new]
    /\ UNCHANGED <<request, item, hold, edits>>

LeaveWaitlist(e) ==
    /\ entry[e].st = "waiting" /\ EntryFree(e)
    /\ entry' = [entry EXCEPT ![e] = [NoEntry EXCEPT !.st = "left"]]
    /\ UNCHANGED <<request, item, hold, edits>>

\* WAITLIST_HOLD_MINUTES pass.
HoldExpires(h) ==
    /\ ~hold[h].expired /\ ~hold[h].claimed
    /\ hold' = [hold EXCEPT ![h].expired = TRUE]
    /\ UNCHANGED <<request, item, entry, edits>>

Edit(i, new) ==
    /\ ItemFree(i) /\ new # item[i]
    /\ edits < MaxEdits /\ edits' = edits + 1
    /\ item' = [item EXCEPT ![i] = new]
    /\ UNCHANGED <<request, entry, hold>>

\* The owner may write any stock, below what is reserved too.
UpdateEquipment(e) == Edit(e.item, [stock |-> e.stock, active |-> e.active])
DeleteEquipment(i) == item[i].active /\ Edit(i, [item[i] EXCEPT !.active = FALSE])

Create(r) ==
    \/ LockCourt(r) \/ LookBookings(r) \/ LookHolds(r)
    \/ RentItem(r) \/ CommitCreate(r)

Next ==
    \/ \E r \in Requests :
        \/ Ask(r) \/ Create(r)
        \/ CancelLocks(r) \/ CancelCommits(r) \/ CancelFails(r) \/ Release(r)
    \/ \E e \in Entries : JoinWaitlist(e) \/ LeaveWaitlist(e)
    \/ \E h \in DOMAIN hold : HoldExpires(h)
    \/ \E e \in Edits : UpdateEquipment(e)
    \/ \E i \in Items : DeleteEquipment(i)

Spec == Init /\ [][Next]_vars

\* A statement that is not blocked runs, and a creation ends in a commit or a
\* rollback: the lock queue of PostgreSQL serves whoever waits.  Its detection
\* of a deadlock, which ends one of the transactions in an error, is left out.
FairSpec == Spec /\ \A r \in Requests : WF_vars(Create(r))

-----------------------------------------------------------------------------
TypeOK ==
    /\ \A r \in Requests :
        /\ request[r].st \in {"idle", "creating", "booked", "cancelling", "over"}
        /\ request[r].ask \in Asks \cup {NoAsk}
        /\ request[r].at \in 1 .. Len(Route)
        /\ {request[r].token, request[r].claims} \subseteq {None} \cup DOMAIN hold
        /\ request[r].gone \subseteq DOMAIN hold
        /\ request[r].got \subseteq (IF request[r].st = "creating" THEN Wanted(r) ELSE {})
        /\ request[r].offers \in {None} \cup Entries
    /\ \A i \in Items : item[i].stock \in Nat /\ item[i].active \in BOOLEAN
    /\ \A e \in Entries : entry[e] \in [st : {"none", "waiting", "left", "served"},
                                        who : Members \cup {None}, court : Courts \cup {None}]
    /\ \A h \in DOMAIN hold : /\ hold[h].court \in Courts /\ hold[h].who \in Members
                              /\ hold[h].entry \in Entries

\* A member's booking of a slot that is held for others when it commits is the
\* holder's own: the freed slot is not sold between the cancellation and the
\* claim, whatever the cancellation fell between.
HeldSlotKept ==
    [][\A r \in Requests :
        Books(r) /\ request'[r].st = "booked" /\ ~request[r].ask.desk /\ ActiveHolds(r) # {}
            => request[r].claims \in ActiveHolds(r) /\ hold[request[r].claims].who = request[r].ask.who]_vars

\* One hold makes one booking, on the court it holds, however often the token
\* is presented, also after that booking was cancelled.
HoldClaimedOnce ==
    \A h \in DOMAIN hold :
        LET C == {r \in Requests : request[r].claims = h /\ request[r].st # "creating"} IN
        /\ Cardinality(C) <= 1
        /\ \A r \in C : request[r].st # "over" => request[r].ask.court = hold[h].court

\* An entry of the waitlist is offered at most one slot, and every entry marked
\* fulfilled was offered one, also when two courts are freed together or a
\* cancellation fails half way.
EntryServedOnce ==
    \A e \in Entries :
        Cardinality({h \in DOMAIN hold : hold[h].entry = e}) = IF entry[e].st = "served" THEN 1 ELSE 0

\* What the waitlist promises once is given once: the slot and the offer.
ServedOnce == HoldClaimedOnce /\ EntryServedOnce

\* A booking that commits finds its items in stock and in the catalogue, though
\* the courts share them and the owner may edit them meanwhile.
StockCovers ==
    [][\A r \in Requests : Books(r) /\ request'[r].st = "booked"
        => \A i \in Wanted(r) : item[i].active /\ Reserved(i) < item[i].stock]_vars

\* Every request to book is answered, no two waiting for each other's court or
\* items: as requests are bounded, the desk comes to rest.
EveryRequestAnswered ==
    (\E r \in Requests : request[r].st = "creating") ~> (\A r \in Requests : request[r].st # "creating")
=============================================================================
