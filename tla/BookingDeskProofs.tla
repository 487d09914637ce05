-------------------------- MODULE BookingDeskProofs --------------------------
(***************************************************************************)
(* Theorems about BookingDesk for any courts, items, stock and members and *)
(* any number of requests, wishes and edits.                               *)
(*                                                                         *)
(* The argument: two creations never hold one court or one item            *)
(* (CourtsHeld, ItemsHeld).  A creation that found its court unbooked      *)
(* keeps it unbooked, for only a creation that held the court could change *)
(* that (SlotFree); no cancellation can then hand out a new hold on the    *)
(* court, so what the creation read of the holds stays true (HoldsLooked). *)
(* An item whose lock is held is neither edited nor reserved by others, so *)
(* what was in stock still is (StockLooked).                               *)
(***************************************************************************)
EXTENDS BookingDesk, FiniteSetTheorems, WellFoundedInduction, TLAPS

Creating(r) == request[r].st = "creating"

Request ==
    [st : {"idle", "creating", "booked", "cancelling", "over"}, ask : Asks \cup {NoAsk},
     at : 1 .. 4, token : {None} \cup Nat, gone : SUBSET Nat, got : SUBSET Items,
     claims : {None} \cup Nat, offers : {None} \cup Entries]

Hold == [court : Courts, who : Members, entry : Entries, claimed : BOOLEAN, expired : BOOLEAN]

DeskTypes ==
    /\ request \in [Requests -> Request]
    /\ item \in [Items -> [stock : Nat, active : BOOLEAN]]
    /\ entry \in [Entries -> [st : {"none", "waiting", "left", "served"},
                              who : Members \cup {None}, court : Courts \cup {None}]]
    /\ hold \in Seq(Hold)
    /\ edits \in Nat

\* What a request carries fits its stage.
StageOf(r) ==
    /\ request[r].st \in {"creating", "booked", "cancelling"} => request[r].ask \in Asks
    /\ {request[r].token, request[r].claims} \subseteq {None} \cup DOMAIN hold
    /\ request[r].gone \subseteq DOMAIN hold
    /\ request[r].got \subseteq (IF Creating(r) THEN Wanted(r) ELSE {})
    /\ request[r].ask.desk => request[r].token = None
    /\ Creating(r) /\ request[r].at < 4 => request[r].claims = None
    /\ request[r].st = "idle" => request[r] = Idle
    /\ request[r].offers # None => request[r].st = "cancelling"

Stages == \A r \in Requests : StageOf(r)

CourtsHeld ==
    \A q, r \in Requests :
        q # r /\ Creating(q) /\ Creating(r) /\ request[q].at > 1 /\ request[r].at > 1 =>
            request[q].ask.court # request[r].ask.court

SlotFree ==
    \A r \in Requests : Creating(r) /\ request[r].at > 2 => ~Taken(request[r].ask.court)

\* The hold found is still there, and is the member's; or there is none, or the
\* desk overrides it.
HoldsOf(r) ==
    \/ request[r].claims \in ActiveHolds(r) /\ Entitled(r, request[r].claims)
    \/ request[r].claims = None /\ (request[r].ask.desk \/ ActiveHolds(r) = {})

HoldsLooked == \A r \in Requests : Creating(r) /\ request[r].at = 4 => HoldsOf(r)

\* A hold that a booking was made of is marked, and is of that booking alone.
ClaimsKept ==
    \A r \in Requests : ~Creating(r) /\ request[r].claims # None =>
        /\ hold[request[r].claims].claimed
        /\ request[r].st # "over" => request[r].ask.court = hold[request[r].claims].court
        /\ \A q \in Requests : ~Creating(q) /\ request[q].claims = request[r].claims => q = r

ItemsHeld ==
    \A q, r \in Requests : q # r => request[q].got \cap request[r].got = {}

StockLooked ==
    \A r \in Requests : \A i \in request[r].got : item[i].active /\ Reserved(i) < item[i].stock

Offered(e) == {h \in DOMAIN hold : hold[h].entry = e}

\* The entry a cancellation has locked waits, and is locked by it alone.
OffersApart ==
    \A r \in Requests : request[r].offers # None =>
        /\ entry[request[r].offers].st = "waiting"
        /\ \A q \in Requests : request[q].offers = request[r].offers => q = r

EntriesOffered ==
    \A e \in Entries :
        IF entry[e].st = "served" THEN \E h \in DOMAIN hold : Offered(e) = {h} ELSE Offered(e) = {}

\* Who waits is a member.
Waiting == \A e \in Entries : entry[e].st = "waiting" => entry[e].who \in Members

DeskInv ==
    /\ DeskTypes /\ Stages /\ CourtsHeld /\ SlotFree /\ HoldsLooked /\ ClaimsKept
    /\ ItemsHeld /\ StockLooked /\ OffersApart /\ EntriesOffered /\ Waiting

-----------------------------------------------------------------------------
(* Operators *)

LEMMA DoingAt ==
    ASSUME DeskTypes, NEW r \in Requests
    PROVE  /\ Doing(r, "court")    <=> Creating(r) /\ request[r].at = 1
           /\ Doing(r, "bookings") <=> Creating(r) /\ request[r].at = 2
           /\ Doing(r, "holds")    <=> Creating(r) /\ request[r].at = 3
           /\ Doing(r, "items")    <=> Creating(r) /\ request[r].at = 4
<1>1. request[r].at \in 1 .. 4
  BY DEF DeskTypes, Request
<1>2. Route[1] = "court" /\ Route[2] = "bookings" /\ Route[3] = "holds" /\ Route[4] = "items"
  BY DEF Route
<1>3. QED
  BY <1>1, <1>2 DEF Doing, Creating

\* What is reserved of an item is a number, and fewer bookings reserve no more.
Renting(i) == {r \in Live : i \in Wanted(r)}

LEMMA ReservedNumber ==
    ASSUME NEW i
    PROVE  IsFiniteSet(Renting(i)) /\ Reserved(i) = Cardinality(Renting(i)) /\ Reserved(i) \in Nat
<1>1. Renting(i) \subseteq 1 .. MaxRequests
  BY DEF Renting, Live, Requests
<1>2. IsFiniteSet(1 .. MaxRequests)
  BY BoundsAssumption, FS_Interval
<1>3. IsFiniteSet(Renting(i))
  BY <1>1, <1>2, FS_Subset
<1>4. QED
  BY <1>3, FS_CardinalityType DEF Reserved, Renting

LEMMA ReservedShrinks ==
    ASSUME NEW i, Renting(i)' \subseteq Renting(i)
    PROVE  Reserved(i)' \in Nat /\ Reserved(i)' <= Reserved(i)
<1>1. Reserved(i)' = Cardinality(Renting(i)')
  BY DEF Reserved, Renting
<1>2. QED
  BY <1>1, ReservedNumber, FS_Subset, FS_CardinalityType

\* A step of one request that leaves the tables alone keeps the invariant, if
\* what it takes is free and what it relies on holds.
LEMMA OneMoves ==
    ASSUME DeskInv, UNCHANGED <<item, entry, hold, edits>>, NEW r \in Requests,
           request' \in [Requests -> Request],
           \A q \in Requests : q # r => request'[q] = request[q],
           StageOf(r)',
           request'[r].st \in {"booked", "cancelling"} =>
               request[r].st \in {"booked", "cancelling"} /\ request'[r].ask = request[r].ask,
           Creating(r)' /\ request'[r].at > 1 =>
               \A q \in Requests : q # r /\ Creating(q) /\ request[q].at > 1 =>
                   request[q].ask.court # request'[r].ask.court,
           Creating(r)' /\ request'[r].at > 2 => ~Taken(request'[r].ask.court),
           Creating(r)' /\ request'[r].at = 4 => HoldsOf(r)',
           ~Creating(r)' /\ request'[r].claims # None =>
               ~Creating(r) /\ request'[r].claims = request[r].claims
               /\ (request'[r].st # "over" =>
                       request[r].st # "over" /\ request'[r].ask = request[r].ask),
           \A q \in Requests : q # r => request[q].got \cap request'[r].got = {},
           \A i \in request'[r].got :
               i \in request[r].got \/ (item[i].active /\ Reserved(i) < item[i].stock),
           request'[r].offers # None =>
               entry[request'[r].offers].st = "waiting"
               /\ \A q \in Requests : q # r => request[q].offers # request'[r].offers
    PROVE  DeskInv'
<1> USE DEF DeskInv
<1>1. DeskTypes'
  BY DEF DeskTypes
<1>2. Stages'
  <2> SUFFICES ASSUME NEW q \in Requests, q # r PROVE StageOf(q)'
    BY DEF Stages
  <2>1. StageOf(q)
    BY DEF Stages
  <2>2. QED
    BY <2>1 DEF StageOf, Creating, Wanted
<1>3. CourtsHeld'
  BY DEF CourtsHeld, Creating
<1>4. SlotFree'
  <2>1. \A c : Taken(c)' => Taken(c)
    BY DEF Taken, Live
  <2>2. QED
    BY <2>1 DEF SlotFree, Creating
<1>5. HoldsLooked'
  <2> SUFFICES ASSUME NEW q \in Requests, q # r, Creating(q), request[q].at = 4
               PROVE  HoldsOf(q)'
    BY DEF HoldsLooked, Creating
  <2>1. ActiveHolds(q)' = ActiveHolds(q) /\ request'[q] = request[q]
    BY DEF ActiveHolds
  <2>2. QED
    BY <2>1 DEF HoldsLooked, HoldsOf, Entitled
<1>6. ClaimsKept'
  BY DEF ClaimsKept, Creating
<1>7. ItemsHeld'
  BY DEF ItemsHeld
<1>8. StockLooked'
  <2> SUFFICES ASSUME NEW q \in Requests, NEW i \in request'[q].got
               PROVE  item[i].active /\ Reserved(i)' < item[i].stock
    BY DEF StockLooked
  <2>1. item[i].active /\ Reserved(i) < item[i].stock
    BY DEF StockLooked
  <2>2. Renting(i)' \subseteq Renting(i)
    BY DEF Renting, Live, Wanted
  <2>3. i \in Items
    BY DEF DeskTypes, Request
  <2>4. QED
    BY <2>1, <2>2, <2>3, ReservedShrinks, ReservedNumber DEF DeskTypes
<1>9. OffersApart' /\ EntriesOffered' /\ Waiting'
  BY DEF OffersApart, EntriesOffered, Waiting, Offered
<1>10. QED
  BY <1>1, <1>2, <1>3, <1>4, <1>5, <1>6, <1>7, <1>8, <1>9

-----------------------------------------------------------------------------
(* The steps of a creation *)

\* A request begins with nothing taken and nothing looked at.
LEMMA AskStep == ASSUME DeskInv, NEW r \in Requests, Ask(r) PROVE DeskInv'
<1> DEFINE gone == {h \in DOMAIN hold : hold[h].expired}
           new(a, t) == [Idle EXCEPT !.st = "creating", !.ask = a, !.token = t, !.gone = gone]
<1>1. PICK a \in Asks, t \in {None} \cup DOMAIN hold :
         (a.desk => t = None) /\ request' = [request EXCEPT ![r] = new(a, t)]
  BY DEF Ask
<1>2. DOMAIN hold \subseteq Nat
  BY DEF DeskInv, DeskTypes
<1>3. gone \subseteq DOMAIN hold /\ gone \in SUBSET Nat /\ t \in {None} \cup Nat
  BY <1>2
<1> HIDE DEF gone
<1>4. Idle \in Request
  BY DEF Idle, Request
<1>5. new(a, t) \in Request
  BY <1>3, <1>4 DEF Request
<1>6. /\ new(a, t).st = "creating" /\ new(a, t).ask = a /\ new(a, t).at = 1
      /\ new(a, t).token = t /\ new(a, t).gone = gone /\ new(a, t).got = {}
      /\ new(a, t).claims = None /\ new(a, t).offers = None
  BY DEF Idle
<1> HIDE DEF new
<1>7. /\ request' \in [Requests -> Request] /\ request'[r] = new(a, t)
      /\ \A q \in Requests : q # r => request'[q] = request[q]
      /\ UNCHANGED <<item, entry, hold, edits>>
  BY <1>1, <1>5 DEF Ask, DeskInv, DeskTypes
<1>8. StageOf(r)'
  BY <1>1, <1>3, <1>6, <1>7 DEF StageOf, Creating
<1>9. QED
  BY <1>6, <1>7, <1>8, OneMoves DEF Creating

\* A rolled-back request keeps nothing.
LEMMA RefuseStep == ASSUME DeskInv, NEW r \in Requests, Refuse(r) PROVE DeskInv'
<1> DEFINE new == [Idle EXCEPT !.st = "over"]
<1>1. /\ new.st = "over" /\ new.ask = NoAsk /\ new.at = 1 /\ new.token = None
      /\ new.gone = {} /\ new.got = {} /\ new.claims = None /\ new.offers = None
      /\ new \in Request
  BY DEF Idle, Request
<1> HIDE DEF new
<1>2. request' = [request EXCEPT ![r] = new]
  BY DEF Refuse, new
<1>3. /\ request' \in [Requests -> Request] /\ request'[r] = new
      /\ \A q \in Requests : q # r => request'[q] = request[q]
      /\ UNCHANGED <<item, entry, hold, edits>>
  BY <1>1, <1>2, SMTT(30) DEF Refuse, DeskInv, DeskTypes
<1>4. StageOf(r)'
  BY <1>1, <1>3 DEF StageOf, Creating, NoAsk
<1>5. QED
  BY <1>1, <1>3, <1>4, OneMoves DEF Creating

\* Where a creation stands after its statement has passed.
LEMMA OnwardIs ==
    ASSUME DeskInv, NEW r \in Requests, Creating(r), request[r].at < 4
    PROVE  /\ Onward(r) \in [Requests -> Request]
           /\ \A q \in Requests : q # r => Onward(r)[q] = request[q]
           /\ Onward(r)[r].st = "creating" /\ Onward(r)[r].at = request[r].at + 1
           /\ Onward(r)[r].ask = request[r].ask /\ Onward(r)[r].token = request[r].token
           /\ Onward(r)[r].gone = request[r].gone /\ Onward(r)[r].got = request[r].got
           /\ Onward(r)[r].claims = None /\ request[r].claims = None
           /\ Onward(r)[r].offers = None
<1>1. request[r].at + 1 \in 1 .. 4
  BY DEF DeskInv, DeskTypes, Request
<1>2. StageOf(r)
  BY DEF DeskInv, Stages
<1>3. QED
  BY <1>1, <1>2, SMTT(30) DEF Onward, DeskInv, DeskTypes, Request, StageOf, Creating

LEMMA OnwardFacts ==
    ASSUME DeskInv, NEW r \in Requests, Creating(r), request[r].at < 4, request' = Onward(r)
    PROVE  /\ request' \in [Requests -> Request]
           /\ \A q \in Requests : q # r => request'[q] = request[q]
           /\ Creating(r)' /\ request'[r].at = request[r].at + 1
           /\ request'[r].ask = request[r].ask /\ request'[r].token = request[r].token
           /\ request'[r].gone = request[r].gone /\ request'[r].got = request[r].got
           /\ request'[r].claims = None /\ request[r].claims = None
           /\ request'[r].offers = None
BY OnwardIs DEF Creating

LEMMA LockCourtStep == ASSUME DeskInv, NEW r \in Requests, LockCourt(r) PROVE DeskInv'
<1>1. Creating(r) /\ request[r].at = 1
  BY DoingAt DEF LockCourt, DeskInv
<1>2. /\ request' = Onward(r) /\ UNCHANGED <<item, entry, hold, edits>>
      /\ \A q \in Requests : Creating(q) /\ request[q].at > 1 =>
             request[q].ask.court # request[r].ask.court
  BY DEF LockCourt, CourtFree, Creating
<1>3. /\ request' \in [Requests -> Request] /\ Creating(r)' /\ request'[r].at = 2
      /\ \A q \in Requests : q # r => request'[q] = request[q]
      /\ request'[r].ask = request[r].ask /\ request'[r].token = request[r].token
      /\ request'[r].gone = request[r].gone /\ request'[r].got = request[r].got
      /\ request'[r].claims = None /\ request'[r].offers = None
  BY <1>1, <1>2, OnwardFacts
<1>4. StageOf(r)'
  BY <1>1, <1>2, <1>3 DEF StageOf, DeskInv, Stages, Creating, Wanted
<1>5. \A q \in Requests : q # r => request[q].got \cap request'[r].got = {}
  BY <1>3 DEF DeskInv, ItemsHeld
<1>6. /\ ~(request'[r].st \in {"booked", "cancelling"})
      /\ Creating(r)' /\ request'[r].at > 1 =>
               \A q \in Requests : q # r /\ Creating(q) /\ request[q].at > 1 =>
                   request[q].ask.court # request'[r].ask.court
      /\ ~(Creating(r)' /\ request'[r].at > 2)
      /\ ~(Creating(r)' /\ request'[r].at = 4)
      /\ ~(~Creating(r)' /\ request'[r].claims # None)
  BY <1>2, <1>3 DEF Creating
<1>7. \A i \in request'[r].got :
               i \in request[r].got \/ (item[i].active /\ Reserved(i) < item[i].stock)
  BY <1>3
<1>8. QED
  BY <1>2, <1>3, <1>4, <1>5, <1>6, <1>7, OneMoves

LEMMA LookBookingsStep == ASSUME DeskInv, NEW r \in Requests, LookBookings(r) PROVE DeskInv'
<1>1. Creating(r) /\ request[r].at = 2
  BY DoingAt DEF LookBookings, DeskInv
<1>2. CASE Taken(request[r].ask.court)
  BY <1>2, RefuseStep DEF LookBookings
<1>3. CASE ~Taken(request[r].ask.court)
  <2>1. request' = Onward(r) /\ UNCHANGED <<item, entry, hold, edits>>
    BY <1>3 DEF LookBookings
  <2>2. /\ request' \in [Requests -> Request] /\ Creating(r)' /\ request'[r].at = 3
        /\ \A q \in Requests : q # r => request'[q] = request[q]
        /\ request'[r].ask = request[r].ask /\ request'[r].token = request[r].token
        /\ request'[r].gone = request[r].gone /\ request'[r].got = request[r].got
        /\ request'[r].claims = None /\ request'[r].offers = None
    BY <1>1, <2>1, OnwardFacts
  <2>3. StageOf(r)'
    BY <1>1, <2>1, <2>2 DEF StageOf, DeskInv, Stages, Creating, Wanted
  <2>4. \A q \in Requests : q # r =>
            /\ request[q].got \cap request'[r].got = {}
            /\ Creating(q) /\ request[q].at > 1 => request[q].ask.court # request[r].ask.court
    BY <1>1, <2>2 DEF DeskInv, ItemsHeld, CourtsHeld
  <2>5. QED
    BY <1>3, <2>1, <2>2, <2>3, <2>4, OneMoves DEF Creating
<1>4. QED
  BY <1>2, <1>3

\* The oldest of the active holds is one of them.
LEMMA OldestIsOne ==
    ASSUME NEW H \in SUBSET Nat, H # {}
    PROVE  Oldest(H) \in H
<1>1. \E h \in H : \A o \in H : ~(<<o, h>> \in OpToRel(<, Nat))
  BY NatLessThanWellFounded, WFMin
<1>2. PICK h \in H : \A o \in H : ~(<<o, h>> \in OpToRel(<, Nat))
  BY <1>1
<1>3. ASSUME NEW o \in H PROVE h <= o
  <2>1. <<o, h>> \in Nat \X Nat
    OBVIOUS
  <2>2. ~(o < h)
    BY <1>2, <2>1 DEF OpToRel
  <2>3. QED
    BY <2>2
<1>4. QED
  BY <1>3 DEF Oldest

LEMMA LookHoldsStep == ASSUME DeskInv, NEW r \in Requests, LookHolds(r) PROVE DeskInv'
<1> DEFINE H == ActiveHolds(r)
<1>1. Creating(r) /\ request[r].at = 3
  BY DoingAt DEF LookHolds, DeskInv
<1>2. /\ H \subseteq DOMAIN hold /\ DOMAIN hold \subseteq Nat
      /\ H # {} => Oldest(H) \in H
  <2>1. H \subseteq DOMAIN hold /\ DOMAIN hold \subseteq Nat
    BY DEF ActiveHolds, DeskInv, DeskTypes
  <2>2. H \in SUBSET Nat
    BY <2>1
  <2> HIDE DEF H
  <2>3. QED
    BY <2>1, <2>2, OldestIsOne
\* The court is still unbooked, and held against every other creation.
<1>3. /\ ~Taken(request[r].ask.court)
      /\ \A q \in Requests : q # r =>
            /\ request[q].got \cap request[r].got = {}
            /\ Creating(q) /\ request[q].at > 1 => request[q].ask.court # request[r].ask.court
  BY <1>1 DEF DeskInv, SlotFree, CourtsHeld, ItemsHeld
<1>4. /\ StageOf(r)
      /\ request[r] \in Request
  BY DEF DeskInv, Stages, DeskTypes
\* It goes on with the hold it found, if that is its own, or with none.
<1>5. ASSUME NEW c \in {None} \cup H, UNCHANGED <<item, entry, hold, edits>>,
             request' = [Onward(r) EXCEPT ![r].claims = c],
             IF c = None THEN request[r].ask.desk \/ H = {} ELSE Entitled(r, c)
      PROVE  DeskInv'
  <2>1. /\ request' \in [Requests -> Request] /\ Creating(r)' /\ request'[r].at = 4
        /\ \A q \in Requests : q # r => request'[q] = request[q]
        /\ request'[r].ask = request[r].ask /\ request'[r].token = request[r].token
        /\ request'[r].gone = request[r].gone /\ request'[r].got = request[r].got
        /\ request'[r].claims = c /\ request'[r].offers = None
    <3> HIDE DEF H
    <3>1. c \in {None} \cup Nat
      BY <1>2
    <3>2. QED
      BY <1>1, <1>5, <3>1, OnwardIs DEF Request, Creating
  <2>2. StageOf(r)'
    BY <1>1, <1>2, <1>4, <1>5, <2>1 DEF StageOf, Creating, Wanted
  <2>3. HoldsOf(r)'
    <3>1. ActiveHolds(r)' = H
      BY <1>5, <2>1 DEF ActiveHolds
    <3>2. QED
      BY <1>5, <2>1, <3>1 DEF HoldsOf, Entitled
  <2>4. QED
    BY <1>3, <1>5, <2>1, <2>2, <2>3, OneMoves DEF Creating
<1>6. ASSUME UNCHANGED <<item, entry, hold, edits>>, request' = Onward(r), request[r].ask.desk \/ H = {}
      PROVE  DeskInv'
  <2>1. Onward(r) = [Onward(r) EXCEPT ![r].claims = None]
    <3>1. /\ Onward(r) \in [Requests -> Request] /\ Onward(r)[r].claims = None
      BY <1>1, OnwardIs
    <3>2. QED
      BY <3>1 DEF Request
  <2>2. QED
    BY <1>5, <1>6, <2>1
<1>7. QED
  <2>1. CASE H = {}
    BY <1>6, <2>1 DEF LookHolds
  <2>2. CASE H # {} /\ Entitled(r, Oldest(H))
    <3>1. Oldest(H) \in H /\ H \subseteq DOMAIN hold /\ DOMAIN hold \subseteq Nat
      BY <1>2, <2>2
    <3>2. Oldest(H) # None
      <4> HIDE DEF H
      <4> QED
        BY <3>1, NoneAssumption
    <3>3. /\ request' = [Onward(r) EXCEPT ![r].claims = Oldest(H)]
          /\ UNCHANGED <<item, entry, hold, edits>>
      BY <2>2 DEF LookHolds
    <3> HIDE DEF H
    <3>4. QED
      BY <1>5, <2>2, <3>1, <3>2, <3>3
  <2>3. CASE H # {} /\ ~Entitled(r, Oldest(H)) /\ request[r].ask.desk
    BY <1>6, <2>3 DEF LookHolds
  <2>4. CASE H # {} /\ ~Entitled(r, Oldest(H)) /\ ~request[r].ask.desk
    BY <2>4, RefuseStep DEF LookHolds
  <2>5. QED
    BY <2>1, <2>2, <2>3, <2>4

LEMMA RentItemStep == ASSUME DeskInv, NEW r \in Requests, RentItem(r) PROVE DeskInv'
<1> DEFINE i == NextItem(r)
<1>1. Creating(r) /\ request[r].at = 4
  BY DoingAt DEF RentItem, DeskInv
<1>2. StageOf(r) /\ request[r] \in Request
  BY DEF DeskInv, Stages, DeskTypes
<1>3. Missing(r) \in SUBSET Nat /\ Wanted(r) \subseteq Items
  <2>1. request[r].ask.want \in Seq(Items)
    BY <1>1, <1>2, AsksAssumption DEF StageOf, Creating
  <2>2. Wanted(r) \subseteq Items
    BY <2>1 DEF Wanted
  <2>3. QED
    BY <2>2, BoundsAssumption DEF Missing
<1>4. i \in Wanted(r) /\ i \notin request[r].got /\ i \in Items
  <2>1. Oldest(Missing(r)) \in Missing(r)
    BY <1>3, OldestIsOne DEF RentItem
  <2>2. i = Oldest(Missing(r))
    BY DEF NextItem, Oldest
  <2>3. QED
    BY <1>3, <2>1, <2>2 DEF Missing
<1> HIDE DEF i
<1>5. CASE ~item[i].active \/ item[i].stock <= Reserved(i)
  BY <1>5, RefuseStep DEF RentItem, i
<1>6. CASE item[i].active /\ ~(item[i].stock <= Reserved(i))
  <2>1. /\ request' = [request EXCEPT ![r].got = @ \cup {i}] /\ UNCHANGED <<item, entry, hold, edits>>
        /\ \A q \in Requests : Creating(q) => i \notin request[q].got
    BY <1>6 DEF RentItem, i, ItemFree, Creating
  <2>2. /\ request' \in [Requests -> Request] /\ Creating(r)' /\ request'[r].at = 4
        /\ \A q \in Requests : q # r => request'[q] = request[q]
        /\ request'[r].ask = request[r].ask /\ request'[r].token = request[r].token
        /\ request'[r].gone = request[r].gone /\ request'[r].got = request[r].got \cup {i}
        /\ request'[r].claims = request[r].claims /\ request'[r].offers = request[r].offers
    BY <1>1, <1>2, <1>4, <2>1 DEF Creating, Request, DeskInv, DeskTypes
  <2>3. StageOf(r)'
    BY <1>1, <1>2, <1>4, <2>1, <2>2 DEF StageOf, Creating, Wanted
  <2>4. /\ \A q \in Requests : q # r =>
              /\ request[q].got \cap request'[r].got = {}
              /\ Creating(q) /\ request[q].at > 1 => request[q].ask.court # request[r].ask.court
        /\ ~Taken(request[r].ask.court)
    <3>1. \A q \in Requests : i \notin request[q].got
      BY <2>1 DEF DeskInv, Stages, StageOf
    <3>2. QED
      BY <1>1, <2>2, <3>1 DEF DeskInv, ItemsHeld, CourtsHeld, SlotFree
  <2>5. HoldsOf(r)'
    <3>1. ActiveHolds(r)' = ActiveHolds(r)
      BY <2>1, <2>2 DEF ActiveHolds
    <3>2. HoldsOf(r)
      BY <1>1 DEF DeskInv, HoldsLooked
    <3>3. QED
      BY <2>1, <2>2, <3>1, <3>2 DEF HoldsOf, Entitled
  <2>6. /\ item[i].stock \in Nat /\ Reserved(i) \in Nat
    BY <1>4, ReservedNumber DEF DeskInv, DeskTypes
  <2>7. request[r].offers = None
    BY <1>1, <1>2 DEF StageOf, Creating
  <2>8. \A j \in request'[r].got :
            j \in request[r].got \/ (item[j].active /\ Reserved(j) < item[j].stock)
    <3>1. Reserved(i) < item[i].stock
      BY <1>6, <2>6
    <3>2. QED
      BY <1>6, <2>2, <3>1
  <2>9. /\ ~(request'[r].st \in {"booked", "cancelling"})
        /\ ~(~Creating(r)' /\ request'[r].claims # None)
    BY <2>2 DEF Creating
  <2>10. request'[r].offers = None
    BY <2>2, <2>7
  <2>11. ~Taken(request'[r].ask.court)
    BY <2>2, <2>4
  <2>12. \A q \in Requests : q # r /\ Creating(q) /\ request[q].at > 1 =>
             request[q].ask.court # request'[r].ask.court
    BY <2>2, <2>4
  <2>13. QED
    BY <2>1, <2>2, <2>3, <2>4, <2>5, <2>8, <2>9, <2>10, <2>11, <2>12, OneMoves
<1>7. QED
  BY <1>5, <1>6

\* What a commit writes: the booking, which keeps its ask and its claim, and the
\* mark on the hold it claims.
LEMMA CommitFacts ==
    ASSUME DeskInv, NEW r \in Requests, CommitCreate(r)
    PROVE  /\ Creating(r) /\ request[r].at = 4 /\ Wanted(r) = request[r].got /\ request[r].offers = None
           /\ request' \in [Requests -> Request]
           /\ \A q \in Requests : q # r => request'[q] = request[q]
           /\ request'[r].st = "booked" /\ request'[r].ask = request[r].ask
           /\ request'[r].token = None /\ request'[r].gone = {} /\ request'[r].got = {}
           /\ request'[r].claims = request[r].claims /\ request'[r].offers = None
           /\ UNCHANGED <<item, entry, edits>>
           /\ hold' \in Seq(Hold) /\ DOMAIN hold' = DOMAIN hold
           /\ \A h \in DOMAIN hold :
                  /\ hold'[h].court = hold[h].court /\ hold'[h].who = hold[h].who
                  /\ hold'[h].entry = hold[h].entry
                  /\ hold'[h].claimed <=> hold[h].claimed \/ h = request[r].claims
<1>1. Creating(r) /\ request[r].at = 4 /\ Missing(r) = {}
  BY DoingAt DEF CommitCreate, Books, DeskInv
<1>2. StageOf(r) /\ request[r] \in Request
  BY DEF DeskInv, Stages, DeskTypes
<1>3. Wanted(r) = request[r].got /\ request[r].offers = None
  BY <1>1, <1>2 DEF StageOf, Creating, Missing
<1>4. /\ request' \in [Requests -> Request]
      /\ \A q \in Requests : q # r => request'[q] = request[q]
      /\ request'[r].st = "booked" /\ request'[r].ask = request[r].ask
      /\ request'[r].token = None /\ request'[r].gone = {} /\ request'[r].got = {}
      /\ request'[r].claims = request[r].claims /\ request'[r].offers = None
  <2> DEFINE b == [request[r] EXCEPT !.st = "booked", !.at = 1, !.token = None, !.gone = {}, !.got = {}]
  <2>1. /\ b \in Request /\ b.st = "booked" /\ b.ask = request[r].ask /\ b.token = None /\ b.gone = {}
        /\ b.got = {} /\ b.claims = request[r].claims /\ b.offers = request[r].offers
    <3>1. 1 \in 1 .. 4 /\ {} \in SUBSET Nat /\ {} \in SUBSET Items /\ None \in {None} \cup Nat
      OBVIOUS
    <3>2. b \in Request
      BY <1>2, <3>1 DEF Request
    <3>3. QED
      BY <1>2, <3>2 DEF Request
  <2>2. request' = [request EXCEPT ![r] = b]
    BY DEF CommitCreate, Booked
  <2> HIDE DEF b
  <2>3. QED
    BY <1>3, <2>1, <2>2 DEF DeskInv, DeskTypes
<1>5. /\ hold' \in Seq(Hold) /\ DOMAIN hold' = DOMAIN hold
      /\ \A h \in DOMAIN hold :
             /\ hold'[h].court = hold[h].court /\ hold'[h].who = hold[h].who
             /\ hold'[h].entry = hold[h].entry
             /\ hold'[h].claimed <=> hold[h].claimed \/ h = request[r].claims
  <2>1. /\ hold \in Seq(Hold) /\ request[r].claims \in {None} \cup DOMAIN hold
        /\ hold' = IF request[r].claims = None THEN hold ELSE Consumes(request[r].claims)
    BY <1>2 DEF CommitCreate, DeskInv, DeskTypes, StageOf
  <2>2. CASE request[r].claims = None
    <3>1. None \notin DOMAIN hold
      BY <2>1, NoneAssumption
    <3>2. QED
      BY <2>1, <2>2, <3>1
  <2>3. CASE request[r].claims # None
    <3> DEFINE c == request[r].claims
    <3>1. c \in DOMAIN hold /\ hold' = [hold EXCEPT ![c].claimed = TRUE]
      BY <2>1, <2>3 DEF Consumes
    <3> HIDE DEF c
    <3>2. \A h \in DOMAIN hold : hold[h] \in Hold
      BY <2>1
    <3>3. /\ DOMAIN hold' = DOMAIN hold /\ \A h \in DOMAIN hold : hold'[h] \in Hold
      BY <3>1, <3>2 DEF Hold
    <3>4. hold' \in Seq(Hold)
      <4>1. PICK n \in Nat : hold \in [1 .. n -> Hold]
        BY <2>1 DEF Seq
      <4>2. hold' \in [1 .. n -> Hold]
        BY <3>1, <3>3, <4>1
      <4>3. QED
        BY <4>2 DEF Seq
    <3>5. \A h \in DOMAIN hold :
              /\ hold'[h].court = hold[h].court /\ hold'[h].who = hold[h].who
              /\ hold'[h].entry = hold[h].entry
              /\ hold'[h].claimed <=> hold[h].claimed \/ h = c
      BY <3>1, <3>2 DEF Hold
    <3>6. QED
      BY <3>3, <3>4, <3>5 DEF c
  <2>4. QED
    BY <2>2, <2>3
<1>6. QED
  BY <1>1, <1>3, <1>4, <1>5 DEF CommitCreate

LEMMA CommitCreateStep == ASSUME DeskInv, NEW r \in Requests, CommitCreate(r) PROVE DeskInv'
<1> DEFINE c == request[r].claims
<1>1. /\ Creating(r) /\ request[r].at = 4 /\ Wanted(r) = request[r].got /\ request[r].offers = None
      /\ request' \in [Requests -> Request]
      /\ \A q \in Requests : q # r => request'[q] = request[q]
      /\ request'[r].st = "booked" /\ request'[r].ask = request[r].ask
      /\ request'[r].token = None /\ request'[r].gone = {} /\ request'[r].got = {}
      /\ request'[r].claims = c /\ request'[r].offers = None
      /\ UNCHANGED <<item, entry, edits>>
      /\ hold' \in Seq(Hold) /\ DOMAIN hold' = DOMAIN hold
      /\ \A h \in DOMAIN hold :
             /\ hold'[h].court = hold[h].court /\ hold'[h].who = hold[h].who
             /\ hold'[h].entry = hold[h].entry
             /\ hold'[h].claimed <=> hold[h].claimed \/ h = c
  BY CommitFacts
<1> HIDE DEF c
<1>2. c = None \/ (/\ c \in DOMAIN hold /\ ~hold[c].claimed
                   /\ hold[c].court = request[r].ask.court)
  BY <1>1 DEF DeskInv, HoldsLooked, HoldsOf, ActiveHolds, c
<1>3. \A q \in Requests : q # r =>
          /\ request[q].got \cap Wanted(r) = {}
          /\ Creating(q) /\ request[q].at > 1 => request[q].ask.court # request[r].ask.court
  BY <1>1 DEF DeskInv, ItemsHeld, CourtsHeld
<1>4. DeskTypes'
  BY <1>1 DEF DeskInv, DeskTypes
<1>5. Stages'
  <2> SUFFICES ASSUME NEW q \in Requests PROVE StageOf(q)'
    BY DEF Stages
  <2>1. StageOf(q)
    BY DEF DeskInv, Stages
  <2>2. QED
    BY <1>1, <2>1 DEF StageOf, Creating, Wanted, c
<1>6. CourtsHeld' /\ ItemsHeld'
  BY <1>1 DEF DeskInv, CourtsHeld, ItemsHeld, Creating
<1>7. SlotFree'
  <2>1. \A x : Taken(x)' => Taken(x) \/ x = request[r].ask.court
    BY <1>1 DEF Taken, Live
  <2> SUFFICES ASSUME NEW q \in Requests, q # r, Creating(q), request[q].at > 2
               PROVE  ~Taken(request[q].ask.court)'
    BY <1>1 DEF SlotFree, Creating
  <2>2. ~Taken(request[q].ask.court)
    BY DEF DeskInv, SlotFree
  <2>3. request[q].at \in Nat
    BY DEF DeskInv, DeskTypes, Request
  <2>4. request[q].at > 1
    BY <2>3
  <2> QED
    BY <1>1, <1>3, <2>1, <2>2, <2>4
<1>8. HoldsLooked'
  <2> SUFFICES ASSUME NEW q \in Requests, q # r, Creating(q), request[q].at = 4
               PROVE  HoldsOf(q)'
    BY <1>1 DEF HoldsLooked, Creating
  <2>1. request'[q] = request[q] /\ request[q].ask.court # request[r].ask.court
    BY <1>1, <1>3
  <2>2. \A h \in DOMAIN hold : hold[h].court = request[q].ask.court =>
            (hold'[h].claimed <=> hold[h].claimed)
    BY <1>1, <1>2, <2>1, NoneAssumption DEF DeskInv, DeskTypes
  <2>3. ActiveHolds(q)' = ActiveHolds(q)
    BY <1>1, <2>1, <2>2 DEF ActiveHolds
  <2>4. HoldsOf(q)
    BY DEF DeskInv, HoldsLooked
  <2>5. QED
    BY <1>1, <2>1, <2>3, <2>4 DEF HoldsOf, Entitled, ActiveHolds
<1>9. ClaimsKept'
  <2> SUFFICES ASSUME NEW q \in Requests, ~Creating(q)', request'[q].claims # None
               PROVE  /\ hold'[request'[q].claims].claimed
                      /\ request'[q].st # "over" =>
                             request'[q].ask.court = hold'[request'[q].claims].court
                      /\ \A p \in Requests :
                             ~Creating(p)' /\ request'[p].claims = request'[q].claims => p = q
    BY DEF ClaimsKept
  <2>1. \A p \in Requests : p # r /\ ~Creating(p)' /\ request'[p].claims # None =>
            /\ request'[p].claims \in DOMAIN hold /\ hold[request'[p].claims].claimed
            /\ request'[p].st # "over" =>
                   request'[p].ask.court = hold[request'[p].claims].court
            /\ \A o \in Requests : ~Creating(o) /\ request[o].claims = request'[p].claims => o = p
    BY <1>1 DEF DeskInv, ClaimsKept, Stages, StageOf, Creating
  <2>2. CASE q = r
    BY <1>1, <1>2, <2>1, <2>2 DEF Creating
  <2>3. CASE q # r
    BY <1>1, <1>2, <2>1, <2>3 DEF Creating
  <2>4. QED
    BY <2>2, <2>3
<1>10. StockLooked'
  <2> SUFFICES ASSUME NEW q \in Requests, NEW i \in request'[q].got
               PROVE  item[i].active /\ Reserved(i)' < item[i].stock
    BY <1>1 DEF StockLooked
  <2>1. q # r /\ i \in request[q].got
    BY <1>1
  <2>2. item[i].active /\ Reserved(i) < item[i].stock /\ i \in Items /\ i \notin Wanted(r)
    BY <1>3, <2>1 DEF DeskInv, StockLooked, DeskTypes, Request
  <2>3. Renting(i)' \subseteq Renting(i)
    BY <1>1, <2>2 DEF Renting, Live, Wanted
  <2>4. Reserved(i)' \in Nat /\ Reserved(i)' <= Reserved(i)
    BY <2>3, ReservedShrinks
  <2>5. Reserved(i) \in Nat /\ item[i].stock \in Nat
    BY <2>2, ReservedNumber DEF DeskInv, DeskTypes
  <2>6. QED
    BY <2>2, <2>4, <2>5
<1>11. OffersApart' /\ EntriesOffered' /\ Waiting'
  <2>1. \A e \in Entries : Offered(e)' = Offered(e)
    BY <1>1 DEF Offered
  <2>2. QED
    BY <1>1, <2>1 DEF DeskInv, OffersApart, EntriesOffered, Waiting
<1>12. QED
  BY <1>4, <1>5, <1>6, <1>7, <1>8, <1>9, <1>10, <1>11 DEF DeskInv

-----------------------------------------------------------------------------
(* The steps of a cancellation *)

\* The entry that is locked is free, and is of the list.
LEMMA CancelLocksStep == ASSUME DeskInv, NEW r \in Requests, CancelLocks(r) PROVE DeskInv'
<1> DEFINE E == {e \in Matching(r) : EntryFree(e)}
           o == IF E = {} THEN None ELSE Oldest(E)
<1>1. E \in SUBSET Nat
  BY DEF Matching, Entries
<1>2. o = None \/ (o \in Entries /\ entry[o].st = "waiting" /\ EntryFree(o))
  <2>1. CASE E = {}
    BY <2>1
  <2>2. CASE E # {}
    <3>1. Oldest(E) \in E
      <4> HIDE DEF E
      <4> QED
        BY <1>1, <2>2, OldestIsOne
    <3>2. QED
      BY <2>2, <3>1 DEF Matching
  <2>3. QED
    BY <2>1, <2>2
<1>3. /\ request[r].st = "booked" /\ request[r] \in Request /\ StageOf(r)
      /\ request' = [request EXCEPT ![r].st = "cancelling", ![r].offers = o]
      /\ UNCHANGED <<item, entry, hold, edits>>
  BY DEF CancelLocks, DeskInv, DeskTypes, Stages
<1> HIDE DEF o
<1>4. /\ request' \in [Requests -> Request]
      /\ \A q \in Requests : q # r => request'[q] = request[q]
      /\ request'[r].st = "cancelling" /\ request'[r].ask = request[r].ask
      /\ request'[r].token = request[r].token /\ request'[r].gone = request[r].gone
      /\ request'[r].got = request[r].got /\ request'[r].claims = request[r].claims
      /\ request'[r].offers = o
  BY <1>2, <1>3 DEF DeskInv, DeskTypes, Request
<1>5. StageOf(r)'
  BY <1>3, <1>4 DEF StageOf, Creating, Wanted
<1>6. \A q \in Requests : q # r => request[q].got \cap request'[r].got = {}
  BY <1>4 DEF DeskInv, ItemsHeld
<1>7. request'[r].offers # None =>
          entry[request'[r].offers].st = "waiting"
          /\ \A q \in Requests : q # r => request[q].offers # request'[r].offers
  BY <1>2, <1>4 DEF EntryFree, DeskInv, Stages, StageOf
<1>8. QED
  BY <1>3, <1>4, <1>5, <1>6, <1>7, OneMoves DEF Creating

LEMMA CancelFailsStep == ASSUME DeskInv, NEW r \in Requests, CancelFails(r) PROVE DeskInv'
<1>1. /\ request[r].st = "cancelling" /\ request[r] \in Request /\ StageOf(r)
      /\ request' = [request EXCEPT ![r].st = "booked", ![r].offers = None]
      /\ UNCHANGED <<item, entry, hold, edits>>
  BY DEF CancelFails, DeskInv, DeskTypes, Stages
<1>2. /\ request' \in [Requests -> Request]
      /\ \A q \in Requests : q # r => request'[q] = request[q]
      /\ request'[r].st = "booked" /\ request'[r].ask = request[r].ask
      /\ request'[r].token = request[r].token /\ request'[r].gone = request[r].gone
      /\ request'[r].got = request[r].got /\ request'[r].claims = request[r].claims
      /\ request'[r].offers = None
  BY <1>1 DEF DeskInv, DeskTypes, Request
<1>3. StageOf(r)'
  BY <1>1, <1>2 DEF StageOf, Creating, Wanted
<1>4. \A q \in Requests : q # r => request[q].got \cap request'[r].got = {}
  BY <1>2 DEF DeskInv, ItemsHeld
<1>5. QED
  BY <1>1, <1>2, <1>3, <1>4, OneMoves DEF Creating

\* A booking that is over keeps only its claim.
LEMMA OverFacts ==
    ASSUME DeskInv, NEW r \in Requests, request[r].st \in {"booked", "cancelling"}, request' = Over(r)
    PROVE  /\ request' \in [Requests -> Request]
           /\ \A q \in Requests : q # r => request'[q] = request[q]
           /\ request'[r].st = "over" /\ request'[r].ask = NoAsk /\ request'[r].at = 1
           /\ request'[r].token = None /\ request'[r].gone = {} /\ request'[r].got = {}
           /\ request'[r].claims = request[r].claims /\ request'[r].offers = None
<1> DEFINE new == [Idle EXCEPT !.st = "over", !.claims = request[r].claims]
<1>1. Idle \in Request /\ request[r].claims \in {None} \cup Nat
  BY DEF Idle, Request, DeskInv, DeskTypes
<1>2. new \in Request
  BY <1>1 DEF Request
<1>3. /\ new.st = "over" /\ new.ask = NoAsk /\ new.at = 1 /\ new.token = None /\ new.gone = {}
      /\ new.got = {} /\ new.claims = request[r].claims /\ new.offers = None
  BY DEF Idle
<1>4. request' = [request EXCEPT ![r] = new]
  BY DEF Over
<1> HIDE DEF new
<1>5. QED
  BY <1>2, <1>3, <1>4 DEF DeskInv, DeskTypes

\* A booking that ends and offers nothing.
LEMMA OverStep ==
    ASSUME DeskInv, NEW r \in Requests, request[r].st \in {"booked", "cancelling"}, request' = Over(r),
           UNCHANGED <<item, entry, hold, edits>>
    PROVE  DeskInv'
<1>1. /\ request' \in [Requests -> Request]
      /\ \A q \in Requests : q # r => request'[q] = request[q]
      /\ request'[r].st = "over" /\ request'[r].ask = NoAsk /\ request'[r].at = 1
      /\ request'[r].token = None /\ request'[r].gone = {} /\ request'[r].got = {}
      /\ request'[r].claims = request[r].claims /\ request'[r].offers = None
  BY OverFacts
<1>2. StageOf(r)
  BY DEF DeskInv, Stages
<1>3. StageOf(r)'
  BY <1>1, <1>2 DEF StageOf, Creating, NoAsk
<1>4. QED
  BY <1>1, <1>3, OneMoves DEF Creating

\* The freed slot is held for the entry that was locked, which is served.
LEMMA CancelCommitsStep == ASSUME DeskInv, NEW r \in Requests, CancelCommits(r) PROVE DeskInv'
<1> DEFINE e == request[r].offers
           n == Len(hold) + 1
           new == [court |-> request[r].ask.court, who |-> entry[e].who, entry |-> e,
                   claimed |-> FALSE, expired |-> FALSE]
<1>1. /\ request[r].st = "cancelling" /\ request' = Over(r) /\ UNCHANGED <<item, edits>>
      /\ IF e = None THEN UNCHANGED <<entry, hold>>
         ELSE hold' = Append(hold, new) /\ entry' = [entry EXCEPT ![e] = [NoEntry EXCEPT !.st = "served"]]
  BY DEF CancelCommits
<1>2. CASE e = None
  BY <1>1, <1>2, OverStep
<1>3. CASE e # None
  <2>1. /\ request[r].ask \in Asks /\ request[r].ask.court \in Courts
        /\ e \in Entries /\ entry[e].st = "waiting" /\ entry[e].who \in Members
        /\ \A q \in Requests : request[q].offers = e => q = r
    BY <1>1, <1>3, AsksAssumption
       DEF DeskInv, Stages, StageOf, OffersApart, Waiting, DeskTypes, Request
  <2>2. /\ request' \in [Requests -> Request]
        /\ \A q \in Requests : q # r => request'[q] = request[q]
        /\ request'[r].st = "over" /\ request'[r].ask = NoAsk /\ request'[r].at = 1
        /\ request'[r].token = None /\ request'[r].gone = {} /\ request'[r].got = {}
        /\ request'[r].claims = request[r].claims /\ request'[r].offers = None
    BY <1>1, OverFacts
  <2>3. /\ hold \in Seq(Hold) /\ new \in Hold /\ n \in Nat
    BY <2>1 DEF DeskInv, DeskTypes, Hold
  <2>4. /\ new.court = request[r].ask.court /\ new.entry = e
    OBVIOUS
  <2>5. /\ hold' \in Seq(Hold) /\ DOMAIN hold' = DOMAIN hold \cup {n} /\ n \notin DOMAIN hold
        /\ \A h \in DOMAIN hold : hold'[h] = hold[h]
        /\ hold'[n] = new
    <3>1. hold' = Append(hold, new)
      BY <1>1, <1>3
    <3> HIDE DEF new
    <3>2. QED
      BY <2>3, <3>1
  <2>6. /\ entry' = [entry EXCEPT ![e] = [NoEntry EXCEPT !.st = "served"]]
        /\ entry'[e].st = "served" /\ \A o \in Entries : o # e => entry'[o] = entry[o]
    BY <1>1, <1>3, <2>1 DEF DeskInv, DeskTypes, NoEntry
  <2>7. entry' \in [Entries -> [st : {"none", "waiting", "left", "served"},
                                who : Members \cup {None}, court : Courts \cup {None}]]
    BY <2>1, <2>6 DEF DeskInv, DeskTypes, NoEntry
  <2> HIDE DEF e, n, new
  <2>8. DeskTypes'
    BY <1>1, <2>2, <2>5, <2>7 DEF DeskInv, DeskTypes
  <2>9. Stages'
    <3> SUFFICES ASSUME NEW q \in Requests PROVE StageOf(q)'
      BY DEF Stages
    <3>1. StageOf(q)
      BY DEF DeskInv, Stages
    <3>2. QED
      BY <2>2, <2>5, <3>1 DEF StageOf, Creating, Wanted, NoAsk
  <2>10. CourtsHeld' /\ ItemsHeld'
    BY <2>2 DEF DeskInv, CourtsHeld, ItemsHeld, Creating
  <2>11. \A c : Taken(c)' => Taken(c)
    BY <2>2 DEF Taken, Live
  <2>12. SlotFree'
    BY <2>2, <2>11 DEF DeskInv, SlotFree, Creating
  <2>13. HoldsLooked'
    <3> SUFFICES ASSUME NEW q \in Requests, q # r, Creating(q), request[q].at = 4
                 PROVE  HoldsOf(q)'
      BY <2>2 DEF HoldsLooked, Creating
    \* The new hold is on another court: this one was booked until now.
    <3>1. request[q].ask.court # request[r].ask.court
      BY <1>1 DEF DeskInv, SlotFree, Taken, Live
    <3>2. ActiveHolds(q)' = ActiveHolds(q) /\ request'[q] = request[q]
      BY <2>2, <2>4, <2>5, <3>1 DEF ActiveHolds
    <3>3. HoldsOf(q)
      BY DEF DeskInv, HoldsLooked
    <3>4. QED
      BY <2>5, <3>2, <3>3 DEF HoldsOf, Entitled, ActiveHolds
  <2>14. ClaimsKept'
    <3>1. \A q \in Requests : request[q].claims # None => request[q].claims \in DOMAIN hold
      BY DEF DeskInv, Stages, StageOf
    <3>2. QED
      BY <1>1, <2>2, <2>5, <3>1 DEF DeskInv, ClaimsKept, Creating
  <2>15. StockLooked'
    <3> SUFFICES ASSUME NEW q \in Requests, NEW i \in request'[q].got
                 PROVE  item[i].active /\ Reserved(i)' < item[i].stock
      BY <1>1 DEF StockLooked
    <3>1. item[i].active /\ Reserved(i) < item[i].stock /\ i \in Items
      BY <2>2 DEF DeskInv, StockLooked, DeskTypes, Request
    <3>2. Renting(i)' \subseteq Renting(i)
      BY <2>2 DEF Renting, Live, Wanted
    <3>3. Reserved(i)' \in Nat /\ Reserved(i)' <= Reserved(i)
      BY <3>2, ReservedShrinks
    <3>4. Reserved(i) \in Nat /\ item[i].stock \in Nat
      BY <3>1, ReservedNumber DEF DeskInv, DeskTypes
    <3>5. QED
      BY <3>1, <3>3, <3>4
  <2>16. OffersApart'
    <3>1. \A q \in Requests : request'[q].offers # None =>
              q # r /\ request[q].offers # e /\ request[q].offers \in Entries
      BY <2>1, <2>2 DEF DeskInv, DeskTypes, Request
    <3>2. QED
      BY <2>2, <2>6, <3>1 DEF DeskInv, OffersApart
  <2>17. EntriesOffered'
    <3> SUFFICES ASSUME NEW o \in Entries
                 PROVE  IF entry'[o].st = "served" THEN \E h \in DOMAIN hold' : Offered(o)' = {h}
                                                   ELSE Offered(o)' = {}
      BY DEF EntriesOffered
    <3>1. CASE o = e
      <4>1. Offered(o) = {}
        BY <2>1, <3>1 DEF DeskInv, EntriesOffered
      <4>2. Offered(o)' = {n}
        BY <2>4, <2>5, <3>1, <4>1 DEF Offered
      <4>3. QED
        BY <2>5, <2>6, <3>1, <4>2
    <3>2. CASE o # e
      <4>1. Offered(o)' = Offered(o)
        BY <2>4, <2>5, <3>2 DEF Offered
      <4>2. QED
        BY <2>5, <2>6, <3>2, <4>1 DEF DeskInv, EntriesOffered
    <3>3. QED
      BY <3>1, <3>2
  <2>18. Waiting'
    BY <2>6 DEF DeskInv, Waiting
  <2>19. QED
    BY <2>8, <2>9, <2>10, <2>12, <2>13, <2>14, <2>15, <2>16, <2>17, <2>18 DEF DeskInv
<1>4. QED
  BY <1>2, <1>3

-----------------------------------------------------------------------------
(* The waitlist, the clock and the catalogue *)

\* An entry no cancellation has locked may change, if it is not made to look
\* served.
LEMMA EntryMoves ==
    ASSUME DeskInv, UNCHANGED <<request, item, hold, edits>>, NEW e \in Entries,
           entry' \in [Entries -> [st : {"none", "waiting", "left", "served"},
                                   who : Members \cup {None}, court : Courts \cup {None}]],
           \A o \in Entries : o # e => entry'[o] = entry[o],
           entry[e].st # "served", entry'[e].st # "served",
           entry'[e].st = "waiting" => entry'[e].who \in Members,
           \A r \in Requests : request[r].offers # e
    PROVE  DeskInv'
<1> USE DEF DeskInv
<1>1. DeskTypes'
  BY DEF DeskTypes
<1>2. Stages' /\ CourtsHeld' /\ ItemsHeld' /\ ClaimsKept'
  BY DEF Stages, StageOf, CourtsHeld, ItemsHeld, ClaimsKept, Creating, Wanted
<1>3. SlotFree' /\ HoldsLooked'
  BY DEF SlotFree, Taken, Live, HoldsLooked, HoldsOf, Entitled, ActiveHolds, Creating
<1>4. StockLooked'
  BY SMTT(30) DEF StockLooked, Reserved, Live, Wanted
<1>5. OffersApart' /\ EntriesOffered' /\ Waiting'
  <2>1. \A r \in Requests : request[r].offers # None => request[r].offers \in Entries
    BY DEF DeskTypes, Request
  <2>2. \A o \in Entries : Offered(o)' = Offered(o)
    BY DEF Offered
  <2>3. QED
    BY <2>1, <2>2 DEF OffersApart, EntriesOffered, Waiting
<1>6. QED
  BY <1>1, <1>2, <1>3, <1>4, <1>5

LEMMA WaitlistStep ==
    ASSUME DeskInv, NEW e \in Entries, JoinWaitlist(e) \/ LeaveWaitlist(e)
    PROVE  DeskInv'
<1>1. CASE JoinWaitlist(e)
  <2>1. PICK w \in Wishes : entry' = [entry EXCEPT ![e] = [st |-> "waiting", who |-> w.who, court |-> w.court]]
    BY <1>1 DEF JoinWaitlist
  <2>2. w.who \in Members /\ w.court \in Courts \cup {None}
    BY WishesAssumption
  <2>3. /\ entry[e].st = "none" /\ UNCHANGED <<request, item, hold, edits>>
        /\ \A r \in Requests : request[r].offers # e
    <3>1. e # None
      BY NoneAssumption DEF Entries
    <3>2. QED
      BY <1>1, <3>1 DEF JoinWaitlist, DeskInv, OffersApart
  <2>4. QED
    BY <2>1, <2>2, <2>3, EntryMoves DEF DeskInv, DeskTypes
<1>2. CASE LeaveWaitlist(e)
  <2>1. /\ entry[e].st = "waiting" /\ UNCHANGED <<request, item, hold, edits>>
        /\ entry' = [entry EXCEPT ![e] = [NoEntry EXCEPT !.st = "left"]]
    BY <1>2 DEF LeaveWaitlist
  <2>2. \A r \in Requests : request[r].offers # e
    BY <1>2, NoneAssumption DEF LeaveWaitlist, EntryFree, DeskInv, Stages, StageOf, Entries
  <2>3. /\ [NoEntry EXCEPT !.st = "left"].st = "left"
        /\ [NoEntry EXCEPT !.st = "left"] \in [st : {"none", "waiting", "left", "served"},
                                who : Members \cup {None}, court : Courts \cup {None}]
    BY DEF NoEntry
  <2>4. QED
    BY <2>1, <2>2, <2>3, EntryMoves DEF DeskInv, DeskTypes
<1>3. QED
  BY <1>1, <1>2

\* A hold that expires stays active for the transactions that began before.
LEMMA HoldExpiresStep == ASSUME DeskInv, NEW h \in DOMAIN hold, HoldExpires(h) PROVE DeskInv'
<1> USE DEF DeskInv
<1>1. /\ hold \in Seq(Hold) /\ hold' = [hold EXCEPT ![h].expired = TRUE]
      /\ UNCHANGED <<request, item, entry, edits>>
  BY DEF HoldExpires, DeskTypes
<1>2. \A k \in DOMAIN hold : hold[k] \in Hold
  BY <1>1
<1>3. /\ DOMAIN hold' = DOMAIN hold
      /\ \A k \in DOMAIN hold :
             /\ hold'[k] \in Hold
             /\ hold'[k].court = hold[k].court /\ hold'[k].who = hold[k].who
             /\ hold'[k].entry = hold[k].entry /\ hold'[k].claimed = hold[k].claimed
  BY <1>1, <1>2 DEF Hold
<1>4. hold' \in Seq(Hold)
  <2>1. PICK n \in Nat : hold \in [1 .. n -> Hold]
    BY <1>1 DEF Seq
  <2>2. hold' \in [1 .. n -> Hold]
    BY <1>1, <1>3, <2>1
  <2>3. QED
    BY <2>2 DEF Seq
<1>5. DeskTypes'
  BY <1>1, <1>4 DEF DeskTypes
<1>6. Stages' /\ CourtsHeld' /\ ItemsHeld'
  BY <1>1, <1>3 DEF Stages, StageOf, CourtsHeld, ItemsHeld, Creating, Wanted
<1>7. SlotFree'
  BY <1>1 DEF SlotFree, Taken, Live, Creating
<1>8. HoldsLooked'
  <2> SUFFICES ASSUME NEW q \in Requests, Creating(q), request[q].at = 4 PROVE HoldsOf(q)'
    BY <1>1 DEF HoldsLooked, Creating
  <2>1. ActiveHolds(q)' = ActiveHolds(q)
    BY <1>1, <1>3 DEF ActiveHolds
  <2>2. QED
    BY <1>1, <1>3, <2>1 DEF HoldsLooked, HoldsOf, Entitled, ActiveHolds
<1>9. ClaimsKept'
  BY <1>1, <1>3 DEF ClaimsKept, Stages, StageOf, Creating
<1>10. StockLooked'
  BY <1>1 DEF StockLooked, Reserved, Live, Wanted
<1>11. OffersApart' /\ EntriesOffered' /\ Waiting'
  <2>1. \A e \in Entries : Offered(e)' = Offered(e)
    BY <1>1, <1>3 DEF Offered
  <2>2. QED
    BY <1>1, <1>3, <2>1 DEF OffersApart, EntriesOffered, Waiting
<1>12. QED
  BY <1>5, <1>6, <1>7, <1>8, <1>9, <1>10, <1>11

\* An item whose row a creation has locked is not edited.
LEMMA EditStep ==
    ASSUME DeskInv, NEW i \in Items, NEW new \in [stock : Nat, active : BOOLEAN], Edit(i, new)
    PROVE  DeskInv'
<1> USE DEF DeskInv
<1>1. /\ item' = [item EXCEPT ![i] = new] /\ edits' = edits + 1
      /\ UNCHANGED <<request, entry, hold>>
      /\ \A q \in Requests : Creating(q) => i \notin request[q].got
  BY DEF Edit, ItemFree, Creating
<1>2. DeskTypes'
  BY <1>1 DEF DeskTypes
<1>3. Stages' /\ CourtsHeld' /\ ItemsHeld' /\ ClaimsKept'
  BY <1>1 DEF Stages, StageOf, CourtsHeld, ItemsHeld, ClaimsKept, Creating, Wanted
<1>4. SlotFree' /\ HoldsLooked'
  BY <1>1 DEF SlotFree, Taken, Live, HoldsLooked, HoldsOf, Entitled, ActiveHolds, Creating
<1>5. StockLooked'
  <2> SUFFICES ASSUME NEW q \in Requests, NEW j \in request[q].got
               PROVE  item'[j].active /\ Reserved(j)' < item'[j].stock
    BY <1>1 DEF StockLooked
  <2>1. j # i /\ j \in Items
    BY <1>1 DEF Stages, StageOf, DeskTypes, Request
  <2>2. item'[j] = item[j] /\ Reserved(j)' = Reserved(j)
    BY <1>1, <2>1 DEF DeskTypes, Reserved, Live, Wanted
  <2>3. QED
    BY <2>2 DEF StockLooked
<1>6. OffersApart' /\ EntriesOffered' /\ Waiting'
  BY <1>1 DEF OffersApart, EntriesOffered, Waiting, Offered
<1>7. QED
  BY <1>2, <1>3, <1>4, <1>5, <1>6

-----------------------------------------------------------------------------
(* The specification *)

LEMMA InitDesk == ASSUME Init PROVE DeskInv
<1> USE DEF Init
<1>1. Idle \in Request /\ Idle.st = "idle" /\ Idle.at = 1 /\ Idle.claims = None /\ Idle.offers = None
      /\ Idle.token = None /\ Idle.gone = {} /\ Idle.got = {} /\ Idle.ask = NoAsk
  BY DEF Idle, Request
<1>2. DeskTypes
  BY <1>1, StockAssumption DEF DeskTypes, NoEntry
<1>3. \A r \in Requests : request[r] = Idle
  OBVIOUS
<1>4. Stages /\ CourtsHeld /\ SlotFree /\ HoldsLooked /\ ClaimsKept /\ ItemsHeld /\ StockLooked /\ OffersApart
  BY <1>1, <1>3 DEF Stages, StageOf, CourtsHeld, SlotFree, HoldsLooked, ClaimsKept, ItemsHeld, StockLooked,
                    OffersApart, Creating, NoAsk
<1>5. EntriesOffered /\ Waiting
  BY DEF EntriesOffered, Offered, Waiting, NoEntry
<1>6. QED
  BY <1>2, <1>4, <1>5 DEF DeskInv

LEMMA StepDesk == ASSUME DeskInv, [Next]_vars PROVE DeskInv'
<1>1. CASE UNCHANGED vars
  <2> USE <1>1 DEF DeskInv, vars
  <2>1. DeskTypes'
    BY DEF DeskTypes
  <2>2. Stages' /\ CourtsHeld' /\ ItemsHeld' /\ ClaimsKept'
    BY DEF Stages, StageOf, CourtsHeld, ItemsHeld, ClaimsKept, Creating, Wanted
  <2>3. SlotFree' /\ HoldsLooked'
    BY DEF SlotFree, Taken, Live, HoldsLooked, HoldsOf, Entitled, ActiveHolds, Creating
  <2>4. StockLooked'
    BY DEF StockLooked, Reserved, Live, Wanted
  <2>5. OffersApart' /\ EntriesOffered' /\ Waiting'
    BY DEF OffersApart, EntriesOffered, Waiting, Offered
  <2>6. QED
    BY <2>1, <2>2, <2>3, <2>4, <2>5
<1>2. ASSUME NEW r \in Requests, Ask(r) \/ Create(r) PROVE DeskInv'
  BY <1>2, AskStep, LockCourtStep, LookBookingsStep, LookHoldsStep, RentItemStep, CommitCreateStep DEF Create
<1>3. ASSUME NEW r \in Requests, CancelLocks(r) \/ CancelCommits(r) \/ CancelFails(r) \/ Release(r)
      PROVE  DeskInv'
  BY <1>3, CancelLocksStep, CancelCommitsStep, CancelFailsStep, OverStep DEF Release
<1>4. ASSUME NEW e \in Edits, UpdateEquipment(e) PROVE DeskInv'
  <2>1. e.item \in Items /\ [stock |-> e.stock, active |-> e.active] \in [stock : Nat, active : BOOLEAN]
    BY StockAssumption
  <2>2. QED
    BY <1>4, <2>1, EditStep DEF UpdateEquipment
<1>5. ASSUME NEW i \in Items, DeleteEquipment(i) PROVE DeskInv'
  <2>1. [item[i] EXCEPT !.active = FALSE] \in [stock : Nat, active : BOOLEAN]
    BY DEF DeskInv, DeskTypes
  <2>2. QED
    BY <1>5, <2>1, EditStep DEF DeleteEquipment
<1>6. QED
  BY <1>1, <1>2, <1>3, <1>4, <1>5, WaitlistStep, HoldExpiresStep DEF Next

LEMMA Desk == Spec => []DeskInv
<1>1. QED
  BY InitDesk, StepDesk, PTL DEF Spec

\* The state of the desk has its type.
THEOREM DeskTyped == Spec => []TypeOK
<1>1. DeskInv => TypeOK
  <2> SUFFICES ASSUME DeskInv PROVE TypeOK
    OBVIOUS
  <2>1. Len(Route) = 4
    BY DEF Route
  <2>2. \A h \in DOMAIN hold : hold[h] \in Hold
    BY DEF DeskInv, DeskTypes
  <2>3. QED
    BY <2>1, <2>2 DEF TypeOK, DeskInv, DeskTypes, Stages, StageOf, Creating, Request, Hold
<1>2. QED
  BY <1>1, Desk, PTL

\* One hold makes one booking, on its court, and one entry of the waitlist gets
\* one hold and is then marked fulfilled, whatever is cancelled, claimed or
\* expires in between (createBooking, offerWaitlistHold).
THEOREM WaitlistServedOnce == Spec => []ServedOnce
<1>1. DeskInv => HoldClaimedOnce
  <2> SUFFICES ASSUME DeskInv, NEW h \in DOMAIN hold
               PROVE  LET C == {r \in Requests : request[r].claims = h /\ request[r].st # "creating"} IN
                      /\ Cardinality(C) <= 1
                      /\ \A r \in C : request[r].st # "over" => request[r].ask.court = hold[h].court
    BY DEF HoldClaimedOnce
  <2> DEFINE C == {r \in Requests : request[r].claims = h /\ request[r].st # "creating"}
  <2>1. h # None
    BY NoneAssumption DEF DeskInv, DeskTypes
  <2>2. \A r, q \in C : r = q
    BY <2>1 DEF DeskInv, ClaimsKept, Creating
  <2>3. Cardinality(C) <= 1
    <3> HIDE DEF C
    <3>1. CASE C = {}
      BY <3>1, FS_EmptySet
    <3>2. CASE C # {}
      <4>1. PICK r \in C : C = {r}
        BY <2>2, <3>2
      <4>2. Cardinality({r}) = 1
        BY FS_Singleton
      <4>3. QED
        BY <4>1, <4>2
    <3>3. QED
      BY <3>1, <3>2
  <2>4. \A r \in C : request[r].st # "over" => request[r].ask.court = hold[h].court
    BY <2>1 DEF DeskInv, ClaimsKept, Creating
  <2>5. QED
    BY <2>3, <2>4
<1>2. DeskInv => EntryServedOnce
  <2> SUFFICES ASSUME DeskInv, NEW e \in Entries
               PROVE  Cardinality(Offered(e)) = IF entry[e].st = "served" THEN 1 ELSE 0
    BY DEF EntryServedOnce, Offered
  <2>1. CASE entry[e].st = "served"
    <3>1. PICK h \in DOMAIN hold : Offered(e) = {h}
      BY <2>1 DEF DeskInv, EntriesOffered
    <3>2. QED
      BY <2>1, <3>1, FS_Singleton
  <2>2. CASE entry[e].st # "served"
    BY <2>2, FS_EmptySet DEF DeskInv, EntriesOffered
  <2>3. QED
    BY <2>1, <2>2
<1>3. QED
  BY <1>1, <1>2, Desk, PTL DEF ServedOnce

\* What a commit of a booking finds: the holds and the stock it looked at.
LEMMA BooksFinds ==
    ASSUME DeskInv, NEW r \in Requests, Books(r)
    PROVE  HoldsOf(r) /\ \A i \in Wanted(r) : item[i].active /\ Reserved(i) < item[i].stock
<1>1. Creating(r) /\ request[r].at = 4
  BY DoingAt DEF Books, DeskInv
<1>2. HoldsOf(r)
  BY <1>1 DEF DeskInv, HoldsLooked
<1>3. Wanted(r) \subseteq request[r].got
  BY DEF Books, Missing
<1>4. QED
  BY <1>2, <1>3 DEF DeskInv, StockLooked

\* A slot held for others is booked only by the member it is held for, or by
\* staff (createBooking: the hold is read once, before the items are locked).
THEOREM FreedSlotKept == Spec => HeldSlotKept
<1>1. ASSUME DeskInv
      PROVE  \A r \in Requests :
                 Books(r) /\ request'[r].st = "booked" /\ ~request[r].ask.desk /\ ActiveHolds(r) # {}
                     => request[r].claims \in ActiveHolds(r) /\ hold[request[r].claims].who = request[r].ask.who
  BY <1>1, BooksFinds DEF HoldsOf, Entitled
<1>2. DeskInv => [\A r \in Requests :
                 Books(r) /\ request'[r].st = "booked" /\ ~request[r].ask.desk /\ ActiveHolds(r) # {}
                     => request[r].claims \in ActiveHolds(r) /\ hold[request[r].claims].who = request[r].ask.who]_vars
  BY <1>1
<1>3. QED
  BY <1>2, Desk, PTL DEF HeldSlotKept

\* A booking is never committed of more than the stock, nor of an item out of
\* the catalogue (createBooking, reserveEquipment).
THEOREM RentalsCovered == Spec => StockCovers
<1>1. ASSUME DeskInv
      PROVE  \A r \in Requests : Books(r) /\ request'[r].st = "booked"
                 => \A i \in Wanted(r) : item[i].active /\ Reserved(i) < item[i].stock
  BY <1>1, BooksFinds
<1>2. DeskInv => [\A r \in Requests : Books(r) /\ request'[r].st = "booked"
                 => \A i \in Wanted(r) : item[i].active /\ Reserved(i) < item[i].stock]_vars
  BY <1>1
<1>3. QED
  BY <1>2, Desk, PTL DEF StockCovers
=============================================================================
