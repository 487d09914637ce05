---------------------------- MODULE CourtSchedule ----------------------------
(***************************************************************************)
(* The writers of a club's calendar, statement by statement: bookings by a *)
(* customer and by staff, weekly subscriptions, blocked periods of a court *)
(* or of the whole club, and training sessions.                            *)
(*                                                                         *)
(* Each request is one READ COMMITTED transaction: it takes its row locks, *)
(* looks for clashes in one table after the other, each look seeing what   *)
(* is committed at that moment, and inserts.  A transaction's inserts      *)
(* appear, and its locks go, when it commits; no database constraint is    *)
(* assumed, so that the exclusion constraint of migration 021 is shown to  *)
(* be the backstop its comment says it is.  What else can refuse a request *)
(* (working hours, slot holds, equipment stock) is the action Abort.       *)
(*                                                                         *)
(* A definition no action uses (CourtLocksNone, UnpaidCapUnlocked,         *)
(* AssertBlockedOnly, CoachUnlocked, SessionCourtNoBookings, ReadyAnyRow,  *)
(* LocksKept) is a wrong version of the one below it: what a property must *)
(* notice if the code were so written.                                     *)
(***************************************************************************)
EXTENDS Integers

CONSTANTS
    Requests,   \* the transactions; a request's id also names the rows it inserts
    Courts,     \* court ids, in the order a scan of the table meets them
    Founding,   \* the courts that exist from the start
    Customers,
    Coaches,
    Demands,    \* what the requests may ask for
    AllCourts,  \* the court of a club-wide block (court_id IS NULL)
    NoCourt,    \* the court of a training session that needs none
    Nobody,
    Hours       \* the time slots whose end comes while a behaviour lasts

Kinds == {"self", "desk", "weekly", "block", "session"}
BookingKinds == {"self", "desk", "weekly"}

\* The start-end ranges of a demand, one per occurrence, as sets of time slots.
Weeks(d) == DOMAIN d.spans

ASSUME CourtsAssumption ==
    /\ Courts \subseteq Nat /\ Founding \subseteq Courts /\ Founding # {}
    /\ AllCourts \notin Courts /\ NoCourt \notin Courts /\ NoCourt # AllCourts

ASSUME NobodyAssumption == Nobody \notin Requests

ASSUME PeopleAssumption ==
    Customers \cap Courts = {} /\ Coaches \cap Courts = {} /\ Customers \cap Coaches = {}

\* Bookings name a court, blocks a court or the club; only a subscription has
\* several occurrences, a week apart and so disjoint.
ASSUME DemandsAssumption ==
    \A d \in Demands :
        /\ d.kind \in Kinds
        /\ d.kind \in BookingKinds => d.court \in Courts /\ d.party \in Customers
        /\ d.kind = "block"   => d.court \in Courts \cup {AllCourts}
        /\ d.kind = "session" => d.court \in Courts \cup {NoCourt} /\ d.party \in Coaches
        /\ Weeks(d) \subseteq Nat \ {0} /\ 1 \in Weeks(d)
        /\ d.kind # "weekly" => Weeks(d) = {1}
        /\ \A i \in Weeks(d) : d.spans[i] \subseteq Nat /\ d.spans[i] # {}
        /\ \A i, j \in Weeks(d) : i # j => d.spans[i] \cap d.spans[j] = {}

\* The time slots the demands are about, in their order.
Slots == UNION UNION {{d.spans[i] : i \in Weeks(d)} : d \in Demands}

ASSUME HoursAssumption == Hours \subseteq Slots

VARIABLES
    open,     \* the courts in the table
    demand,   \* what a request asked for
    phase,    \* where its transaction is
    todo,     \* the statements it has still to execute before its insert
    lock,     \* who holds the row lock of a court or coach, or a customer's advisory lock
    live,     \* the occurrences it inserted that still occupy their slot
    unpaid,   \* bookings.status = 'pending_deposit'
    revived,  \* a cancelled training session was set back to scheduled
    past      \* the time slots that are over: it is the moment after the last of them

vars == <<open, demand, phase, todo, lock, live, unpaid, revived, past>>

Lockable == Courts \cup Customers \cup Coaches
Phases   == {"idle", "running", "committed", "refused"}
NoDemand == [kind |-> "none", court |-> NoCourt, party |-> Nobody, spans |-> <<>>]

-----------------------------------------------------------------------------
(* The statements of a transaction, numbered in the order they execute *)

Lock(at, key)         == [at |-> at, op |-> "lock", key |-> key, span |-> {}]
Count(at, customer, over) == [at |-> at, op |-> "count", key |-> customer, span |-> over]
Ahead(at, span)       == [at |-> at, op |-> "ahead", key |-> Nobody, span |-> span]
Look(at, table, span) == [at |-> at, op |-> table, key |-> Nobody, span |-> span]

\* SELECT ... FROM courts ... FOR UPDATE: the rows its snapshot sees.
CourtLocksNone(d) == {}
CourtLocks(d) ==
    {Lock(2, c) : c \in IF d.court = AllCourts THEN open ELSE {d.court} \cap Courts}

\* A customer books ahead of the start, and one unpaid booking at a time: counted
\* under the customer's own lock, the time being that of the transaction's BEGIN.
UnpaidCapUnlocked(d) == {Ahead(3, d.spans[1]), Count(5, d.party, past)}
UnpaidCap(d) == {Ahead(3, d.spans[1]), Lock(4, d.party), Count(5, d.party, past)}

\* validateBookingSlot, once per occurrence.
ValidateSlot(d) ==
    UNION {{Look(4 + 2 * i, "blocks", d.spans[i]), Look(5 + 2 * i, "bookings", d.spans[i])} :
              i \in Weeks(d)}

AssertBlockedOnly(d) == {Look(6, "blocks", d.spans[1])}
AssertBlockedPeriodFree(d) ==
    {Look(5, "bookings", d.spans[1]), Look(6, "blocks", d.spans[1])}

CoachUnlocked(d) == {Look(1, "coach", d.spans[1])}
CoachFree(d) == {Lock(0, d.party), Look(1, "coach", d.spans[1])}

SessionCourtNoBookings(d) ==
    {Look(5, "blocks", d.spans[1]), Look(7, "sessions", d.spans[1])}
SessionCourtFree(d) ==
    {Look(5, "blocks", d.spans[1]), Look(6, "bookings", d.spans[1]),
     Look(7, "sessions", d.spans[1])}

Program(d) ==
    CourtLocks(d) \cup
    CASE d.kind = "self"               -> UnpaidCap(d) \cup ValidateSlot(d)
      [] d.kind \in {"desk", "weekly"} -> ValidateSlot(d)
      [] d.kind = "block"              -> AssertBlockedPeriodFree(d)
      [] d.kind = "session" ->
            CoachFree(d) \cup (IF d.court = NoCourt THEN {} ELSE SessionCourtFree(d))

\* The statement to execute now; a scan locks its rows one by one, in order.
ReadyAnyRow(r, s) == s \in todo[r] /\ \A t \in todo[r] : s.at <= t.at
Ready(r, s) ==
    /\ s \in todo[r]
    /\ \A t \in todo[r] : s.at <= t.at
    /\ s.at = 2 => \A t \in todo[r] : t.at = 2 => s.key <= t.key

-----------------------------------------------------------------------------
(* What a look finds *)

\* The bookings and blocks that occupy the calendar: what a timetable is made of.
Entries ==
    UNION {{[owner |-> q, week |-> i, court |-> demand[q].court, span |-> demand[q].spans[i]] :
               i \in live[q]} : q \in {r \in Requests : demand[r].kind # "session"}}

Desk == INSTANCE Timetable WITH taken <- Entries

Table == [blocks |-> {"block"}, bookings |-> BookingKinds,
          sessions |-> {"session"}, coach |-> {"session"}]

\* Row i of request q is in the table, and is for demand d's court or coach.
Concerns(q, table, d) ==
    /\ demand[q].kind \in Table[table]
    /\ IF table = "coach" THEN demand[q].party = d.party
                          ELSE Desk!SameCourt(demand[q].court, d.court)

Finds(table, d, span) ==
    \E q \in Requests : Concerns(q, table, d)
                     /\ \E i \in live[q] : Desk!Overlap(demand[q].spans[i], span)

\* The booking's end lies in the past; one without a row has none.
Over(q, slots) == \A i \in Weeks(demand[q]) : demand[q].spans[i] \subseteq slots

\* The customer's bookings in pending_deposit whose end lies ahead.
UnpaidBookings(customer, over) ==
    {q \in Requests : unpaid[q] /\ demand[q].party = customer /\ ~Over(q, over)}

\* What makes a look, a count or the check of the start refuse the request.
InTheWay(r, s) ==
    CASE s.op = "count" -> UnpaidBookings(s.key, s.span) # {}
      [] s.op = "ahead" -> s.span \cap past # {}
      [] OTHER -> Finds(s.op, demand[r], s.span)

-----------------------------------------------------------------------------
(* The system *)

Init ==
    /\ open = Founding
    /\ demand = [r \in Requests |-> NoDemand]
    /\ phase = [r \in Requests |-> "idle"]
    /\ todo = [r \in Requests |-> {}]
    /\ lock = [k \in Lockable |-> Nobody]
    /\ live = [r \in Requests |-> {}]
    /\ unpaid = [r \in Requests |-> FALSE]
    /\ revived = [r \in Requests |-> FALSE]
    /\ past = {}

\* BEGIN, and the snapshot of the first statement.
Arrive(r, d) ==
    /\ phase[r] = "idle"
    /\ d.court \in open \cup {AllCourts, NoCourt}
    /\ demand' = [demand EXCEPT ![r] = d]
    /\ phase' = [phase EXCEPT ![r] = "running"]
    /\ todo' = [todo EXCEPT ![r] = Program(d)]
    /\ UNCHANGED <<open, lock, live, unpaid, revived, past>>

Done(r, s) == todo' = [todo EXCEPT ![r] = @ \ {s}]

TakeLock(r, s) ==
    /\ phase[r] = "running" /\ Ready(r, s) /\ s.op = "lock"
    /\ lock[s.key] = Nobody
    /\ lock' = [lock EXCEPT ![s.key] = r]
    /\ Done(r, s)
    /\ UNCHANGED <<open, demand, phase, live, unpaid, revived, past>>

\* A check, a count or a look that finds nothing in the way.
Pass(r, s) ==
    /\ phase[r] = "running" /\ Ready(r, s) /\ s.op # "lock"
    /\ ~InTheWay(r, s)
    /\ Done(r, s)
    /\ UNCHANGED <<open, demand, phase, lock, live, unpaid, revived, past>>

\* What a transaction's end leaves of the locks.
LocksKept(r) == lock
LocksReleased(r) == [k \in Lockable |-> IF lock[k] = r THEN Nobody ELSE lock[k]]

Rollback(r) ==
    /\ phase' = [phase EXCEPT ![r] = "refused"]
    /\ todo' = [todo EXCEPT ![r] = {}]
    /\ lock' = LocksReleased(r)
    /\ UNCHANGED <<open, demand, live, unpaid, revived, past>>

\* An error: a start gone by, another unpaid booking, or a row in the way.
Refuse(r, s) ==
    /\ phase[r] = "running" /\ Ready(r, s) /\ s.op # "lock"
    /\ InTheWay(r, s)
    /\ Rollback(r)

\* Another check of the request fails, or the process or its connection dies.
Abort(r) == phase[r] = "running" /\ Rollback(r)

\* INSERT and COMMIT.  A customer's booking awaits its deposit; staff may leave
\* one unpaid, too.
Commit(r, awaitsDeposit) ==
    /\ phase[r] = "running" /\ todo[r] = {}
    /\ awaitsDeposit \in CASE demand[r].kind = "self" -> {TRUE}
                           [] demand[r].kind = "desk" -> BOOLEAN
                           [] OTHER -> {FALSE}
    /\ phase' = [phase EXCEPT ![r] = "committed"]
    /\ live' = [live EXCEPT ![r] = Weeks(demand[r])]
    /\ unpaid' = [unpaid EXCEPT ![r] = awaitsDeposit]
    /\ lock' = LocksReleased(r)
    /\ UNCHANGED <<open, demand, todo, revived, past>>

\* A receipt is uploaded or the gateway pays: no longer pending_deposit.
Pay(r) ==
    /\ unpaid[r]
    /\ unpaid' = [unpaid EXCEPT ![r] = FALSE]
    /\ UNCHANGED <<open, demand, phase, todo, lock, live, revived, past>>

\* A booking is cancelled, deleted, revoked, missed or expires, a block is
\* removed, a session is cancelled: none of them locks a court.
Free(r, i) ==
    /\ i \in live[r]
    /\ live' = [live EXCEPT ![r] = @ \ {i}]
    /\ unpaid' = [unpaid EXCEPT ![r] = FALSE]
    /\ UNCHANGED <<open, demand, phase, todo, lock, revived, past>>

\* PATCH /sessions/:id may set any status and checks nothing.
Revive(r) ==
    /\ phase[r] = "committed" /\ demand[r].kind = "session" /\ live[r] = {}
    /\ live' = [live EXCEPT ![r] = {1}]
    /\ revived' = [revived EXCEPT ![r] = TRUE]
    /\ UNCHANGED <<open, demand, phase, todo, lock, unpaid, past>>

\* POST /api/courts: an insert that no lock of another request concerns.
OpenCourt(c) ==
    /\ c \in Courts \ open
    /\ open' = open \cup {c}
    /\ UNCHANGED <<demand, phase, todo, lock, live, unpaid, revived, past>>

\* The next of the hours is over.  Nothing else moves with the clock: the cron job
\* that expires an unpaid booking may come much later (Free).
TimePasses ==
    \E s \in Hours \ past :
        /\ \A t \in Slots \ past : s <= t
        /\ past' = past \cup {s}
        /\ UNCHANGED <<open, demand, phase, todo, lock, live, unpaid, revived>>

Statement(r) ==
    \/ \E s \in todo[r] : TakeLock(r, s) \/ Pass(r, s) \/ Refuse(r, s)
    \/ \E awaitsDeposit \in BOOLEAN : Commit(r, awaitsDeposit)

Next ==
    \/ \E r \in Requests, d \in Demands : Arrive(r, d)
    \/ \E r \in Requests : Statement(r) \/ Abort(r)
    \/ \E r \in Requests : Pay(r) \/ Revive(r)
    \/ \E r \in Requests : \E i \in live[r] : Free(r, i)
    \/ \E c \in Courts : OpenCourt(c)
    \/ TimePasses

Spec == Init /\ [][Next]_vars

\* A transaction that has begun is driven on by its handler, statement by
\* statement; aborting it is nobody's duty.
FairSpec == Spec /\ \A r \in Requests : WF_vars(Statement(r))

-----------------------------------------------------------------------------
(* What the code guarantees *)

Statements ==
    [at : Nat,
     op : {"lock", "ahead", "count", "blocks", "bookings", "sessions", "coach"},
     key : Lockable \cup {Nobody}, span : SUBSET Slots]

\* Types, and no lock outlives its transaction.
TypeOK ==
    /\ open \subseteq Courts
    /\ demand \in [Requests -> Demands \cup {NoDemand}]
    /\ phase \in [Requests -> Phases]
    /\ todo \in [Requests -> SUBSET Statements]
    /\ \A r \in Requests : phase[r] # "running" => todo[r] = {}
    /\ lock \in [Lockable -> Requests \cup {Nobody}]
    /\ \A k \in Lockable : lock[k] # Nobody => phase[lock[k]] = "running"
    /\ live \in [Requests -> SUBSET Nat]
    /\ unpaid \in [Requests -> BOOLEAN]
    /\ revived \in [Requests -> BOOLEAN]
    /\ past \subseteq Slots

\* No two bookings that are still on share a court and a moment, whoever made
\* them and however their transactions interleaved.
NoDoubleBooking ==
    \A q, r \in Requests :
        demand[q].kind \in BookingKinds /\ demand[r].kind \in BookingKinds
        /\ demand[q].court = demand[r].court =>
            \A i \in live[q], j \in live[r] :
                <<q, i>> # <<r, j>> => ~Desk!Overlap(demand[q].spans[i], demand[r].spans[j])

\* A booking and a block of its own court never overlap, nor, on these courts,
\* a booking and a block of the whole club.
ApartOn(courts) ==
    \A q, r \in Requests :
        demand[q].kind = "block" /\ demand[r].kind \in BookingKinds =>
            \A i \in live[q], j \in live[r] :
                Desk!Overlap(demand[q].spans[i], demand[r].spans[j]) =>
                    /\ demand[q].court # demand[r].court
                    /\ demand[q].court = AllCourts => demand[r].court \notin courts

\* A block never lands on a booking nor a booking on a block, the club-wide
\* blocks included, on the courts the club had when it began.
NoBookingOverBlock == ApartOn(Founding)

\* However many requests a customer sends at once, and to whatever courts, at
\* most one booking they made themselves and whose end lies ahead waits for its
\* deposit.  One that is over and not yet expired does not count, and may be one of
\* several.
OneUnpaidPerCustomer ==
    \A q, r \in Requests :
        /\ unpaid[q] /\ demand[q].kind = "self" /\ ~Over(q, past)
        /\ unpaid[r] /\ demand[r].kind = "self" /\ ~Over(r, past)
        /\ demand[q].party = demand[r].party
        => q = r

\* Two sessions of a coach, or on a court, overlap only if one of them was
\* cancelled and set back to scheduled.
SessionsApart ==
    \A q, r \in Requests :
        /\ q # r /\ demand[q].kind = "session" /\ demand[r].kind = "session"
        /\ live[q] # {} /\ live[r] # {}
        /\ Desk!Overlap(demand[q].spans[1], demand[r].spans[1])
        /\ \/ demand[q].party = demand[r].party
           \/ demand[q].court = demand[r].court /\ demand[q].court # NoCourt
        => revived[q] \/ revived[r]

\* When a session is inserted its court is still as free of bookings, and one
\* the club had when it began of blocks, as the earlier statements of the
\* transaction found it.
SessionLandsFree ==
    [][\A r \in Requests :
          /\ phase[r] = "running" /\ phase'[r] = "committed"
          /\ demand[r].kind = "session" /\ demand[r].court # NoCourt
          => /\ ~Finds("bookings", demand[r], demand[r].spans[1])
             /\ demand[r].court \in Founding =>
                    ~Finds("blocks", demand[r], demand[r].spans[1])]_vars

\* The locking, looking and inserting of concurrent requests amounts to handing
\* out the calendar one claim at a time (for a club that opens no new court).
HandsOutCourts == Desk!TSpec

\* No two requests wait for each other: every transaction comes to an end.
AllAnswered ==
    \A r \in Requests : phase[r] = "running" ~> phase[r] \in {"committed", "refused"}

-----------------------------------------------------------------------------
(* What comments promise and the code does not keep *)

\* A booking and a training session on the same court cannot both be accepted.
NoBookingOverSession ==
    \A q, r \in Requests :
        /\ demand[q].kind = "session" /\ demand[r].kind \in BookingKinds
        /\ demand[q].court = demand[r].court /\ live[q] # {}
        => \A j \in live[r] : ~Desk!Overlap(demand[q].spans[1], demand[r].spans[j])
==============================================================================
