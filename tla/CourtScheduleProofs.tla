------------------------ MODULE CourtScheduleProofs ------------------------
(***************************************************************************)
(* Theorems about CourtSchedule for any number of requests, courts and     *)
(* people and any demands.                                                 *)
(*                                                                         *)
(* The argument: a transaction has locked every court it needs before its  *)
(* first look (LooksLast), so whoever could insert a row in the way of a   *)
(* look already passed would have to hold a lock this transaction holds    *)
(* (CourtsLocked); hence what was looked at stays free (LookedFree), and   *)
(* rows are inserted apart from each other (RowsApart).                    *)
(***************************************************************************)
EXTENDS CourtSchedule, TLAPS

CalendarKinds == BookingKinds \cup {"block"}

\* The demands that look at a court's bookings and blocks.
Looking(d) == d.kind \in CalendarKinds \/ (d.kind = "session" /\ d.court # NoCourt)

\* The courts a demand's lock statement is bound to see, and demands with one
\* of them in common.
On(c, x) == c = x \/ (c = AllCourts /\ x \in Founding)
Together(c, d) == \E x \in Courts : On(c, x) /\ On(d, x)

LockPending(r, k) == \E s \in todo[r] : s.op = "lock" /\ s.key = k
LookPending(r, table, i) == \E s \in todo[r] : s.op = table /\ s.span = demand[r].spans[i]
CountPending(r) == \E s \in todo[r] : s.op = "count"

Running(r) == phase[r] = "running"

\* A request that has begun has a demand, one that inserted rows has committed.
Phased ==
    /\ Founding \subseteq open
    /\ \A r \in Requests :
          /\ phase[r] # "idle" => demand[r] \in Demands
          /\ live[r] \subseteq Weeks(demand[r])
          /\ live[r] # {} => phase[r] = "committed"
          /\ unpaid[r] => phase[r] = "committed"

\* Locks come before the cap, and the cap before the looks at a court.
Stages ==
    \A r \in Requests : \A s \in todo[r] :
        /\ s.op = "lock"  => s.at <= 4
        /\ s.op = "count" => s.at = 5 /\ s.key = demand[r].party
                          /\ s.span \subseteq past
        /\ s.op \in {"bookings", "blocks"} => s.at >= 5

CourtsLocked ==
    \A r \in Requests, x \in Courts :
        Running(r) /\ On(demand[r].court, x) /\ ~LockPending(r, x) => lock[x] = r

LooksLast ==
    \A r \in Requests : Running(r) /\ Looking(demand[r]) =>
        \A i \in Weeks(demand[r]), table \in {"bookings", "blocks"} :
            ~LookPending(r, table, i) => \A x \in Courts : ~LockPending(r, x)

LookedFree ==
    \A r \in Requests : Running(r) /\ Looking(demand[r]) =>
        \A i \in Weeks(demand[r]), table \in {"bookings", "blocks"} :
            ~LookPending(r, table, i) =>
                \A q \in Requests : \A j \in live[q] :
                    demand[q].kind \in Table[table]
                    /\ Together(demand[q].court, demand[r].court) =>
                        demand[q].spans[j] \cap demand[r].spans[i] = {}

RowsApart ==
    \A q, r \in Requests :
        demand[q].kind \in CalendarKinds /\ demand[r].kind \in CalendarKinds
        /\ Together(demand[q].court, demand[r].court) =>
            \A i \in live[q], j \in live[r] :
                <<q, i>> # <<r, j>> => demand[q].spans[i] \cap demand[r].spans[j] = {}

CourtInv == TypeOK /\ Phased /\ Stages /\ CourtsLocked /\ LooksLast /\ LookedFree /\ RowsApart

-----------------------------------------------------------------------------
(* What a transaction's statements are *)

\* Its lock statement covers the court it asked for, or every founding court.
LEMMA ProgramLocks ==
    ASSUME NEW d \in Demands, Founding \subseteq open, NEW x \in Courts, On(d.court, x)
    PROVE  \E s \in Program(d) : s.op = "lock" /\ s.key = x
<1>1. Lock(2, x) \in CourtLocks(d)
  BY CourtsAssumption DEF CourtLocks, On
<1>2. Lock(2, x) \in Program(d)
  BY <1>1 DEF Program
<1>3. QED
  BY <1>2 DEF Lock

\* It looks at the bookings and the blocks for each of its occurrences.
LEMMA ProgramLooks ==
    ASSUME NEW d \in Demands, Looking(d), NEW i \in Weeks(d),
           NEW table \in {"bookings", "blocks"}
    PROVE  \E s \in Program(d) : s.op = table /\ s.span = d.spans[i]
<1>1. CASE d.kind \in BookingKinds
  <2>1. /\ Look(4 + 2 * i, "blocks", d.spans[i]) \in ValidateSlot(d)
        /\ Look(5 + 2 * i, "bookings", d.spans[i]) \in ValidateSlot(d)
    BY DEF ValidateSlot
  <2>2. ValidateSlot(d) \subseteq Program(d)
    BY <1>1 DEF Program, BookingKinds
  <2>3. QED
    BY <2>1, <2>2 DEF Look
<1>2. CASE d.kind = "block"
  <2>1. i = 1
    BY <1>2, DemandsAssumption
  <2>2. AssertBlockedPeriodFree(d) \subseteq Program(d)
    BY <1>2 DEF Program
  <2>3. QED
    BY <2>1, <2>2 DEF AssertBlockedPeriodFree, Look
<1>3. CASE d.kind = "session" /\ d.court # NoCourt
  <2>1. i = 1
    BY <1>3, DemandsAssumption
  <2>2. SessionCourtFree(d) \subseteq Program(d)
    BY <1>3 DEF Program
  <2>3. QED
    BY <2>1, <2>2 DEF SessionCourtFree, Look
<1>4. QED
  BY <1>1, <1>2, <1>3 DEF Looking, CalendarKinds

\* A customer's booking takes the customer's lock and counts.
LEMMA ProgramCap ==
    ASSUME NEW d \in Demands, d.kind = "self"
    PROVE  /\ \E s \in Program(d) : s.op = "lock" /\ s.key = d.party
           /\ \E s \in Program(d) : s.op = "count"
<1>1. UnpaidCap(d) \subseteq Program(d)
  BY DEF Program
<1>2. QED
  BY <1>1 DEF UnpaidCap, Lock, Count

\* Its statements have their types and their order.
LEMMA ProgramStatements ==
    ASSUME NEW d \in Demands, open \subseteq Courts, past \subseteq Slots
    PROVE  \A s \in Program(d) :
              /\ s \in Statements
              /\ s.op = "lock"  => s.at <= 4
              /\ s.op = "count" => s.at = 5 /\ s.key = d.party /\ s.span = past
              /\ s.op \in {"bookings", "blocks"} => s.at >= 5
<1> DEFINE Good(s) == /\ s \in Statements
                      /\ s.op = "lock"  => s.at <= 4
                      /\ s.op = "count" => s.at = 5 /\ s.key = d.party /\ s.span = past
                      /\ s.op \in {"bookings", "blocks"} => s.at >= 5
<1>1. \A i \in Weeks(d) : i \in Nat \ {0} /\ d.spans[i] \subseteq Slots
  BY DemandsAssumption DEF Slots
<1>2. 1 \in Weeks(d) /\ {} \subseteq Slots
  BY DemandsAssumption
<1>3. ASSUME NEW at \in Nat, NEW key \in Lockable, at <= 4
      PROVE  Good(Lock(at, key))
  BY <1>2, <1>3 DEF Lock, Statements
<1>4. ASSUME NEW at \in Nat, NEW table \in {"blocks", "bookings", "sessions", "coach"},
             NEW i \in Weeks(d), at >= 5 \/ table = "coach"
      PROVE  Good(Look(at, table, d.spans[i]))
  BY <1>1, <1>4 DEF Look, Statements
<1>5. ASSUME NEW s \in CourtLocks(d)
      PROVE  Good(s)
  BY <1>3 DEF CourtLocks, Lockable
<1>6. ASSUME d.kind = "self", NEW s \in UnpaidCap(d)
      PROVE  Good(s)
  <2>1. d.party \in Customers
    BY <1>6, DemandsAssumption DEF BookingKinds
  <2>2. Good(Lock(4, d.party))
    BY <1>3, <2>1 DEF Lockable
  <2>3. Good(Count(5, d.party, past))
    BY <1>2, <2>1 DEF Count, Statements, Lockable
  <2>4. Good(Ahead(3, d.spans[1]))
    BY <1>1, <1>2 DEF Ahead, Statements
  <2>5. QED
    BY <1>6, <2>2, <2>3, <2>4 DEF UnpaidCap
<1>7. ASSUME NEW s \in ValidateSlot(d)
      PROVE  Good(s)
  <2>1. PICK i \in Weeks(d) : \/ s = Look(4 + 2 * i, "blocks", d.spans[i])
                              \/ s = Look(5 + 2 * i, "bookings", d.spans[i])
    BY <1>7 DEF ValidateSlot
  <2>2. 4 + 2 * i \in Nat /\ 4 + 2 * i >= 5 /\ 5 + 2 * i \in Nat /\ 5 + 2 * i >= 5
    BY <1>1
  <2>3. QED
    BY <1>4, <2>1, <2>2
<1>8. ASSUME NEW s \in AssertBlockedPeriodFree(d) \cup SessionCourtFree(d)
      PROVE  Good(s)
  BY <1>2, <1>4, <1>8 DEF AssertBlockedPeriodFree, SessionCourtFree
<1>9. ASSUME d.kind = "session", NEW s \in CoachFree(d)
      PROVE  Good(s)
  <2>1. d.party \in Lockable
    BY <1>9, DemandsAssumption DEF Lockable
  <2>2. Good(Lock(0, d.party))
    BY <1>3, <2>1
  <2>3. Good(Look(1, "coach", d.spans[1]))
    BY <1>2, <1>4
  <2>4. QED
    BY <1>9, <2>2, <2>3 DEF CoachFree
<1>10. QED
  BY <1>5, <1>6, <1>7, <1>8, <1>9, DemandsAssumption DEF Program, Kinds

-----------------------------------------------------------------------------
(* The invariant holds initially and is kept by every step *)

LEMMA CourtInit == Init => CourtInv
<1> SUFFICES ASSUME Init PROVE CourtInv
  OBVIOUS
<1>1. TypeOK
  BY CourtsAssumption, NobodyAssumption DEF Init, TypeOK, Phases
<1>2. Phased /\ Stages /\ CourtsLocked /\ LooksLast /\ LookedFree /\ RowsApart
  BY DEF Init, Phased, Stages, CourtsLocked, LooksLast, LookedFree, RowsApart, Running
<1>3. QED
  BY <1>1, <1>2 DEF CourtInv

\* The end of a transaction leaves its locks to nobody and the others' alone.
LEMMA ReleaseFacts ==
    ASSUME TypeOK, NEW r \in Requests
    PROVE  /\ LocksReleased(r) \in [Lockable -> Requests \cup {Nobody}]
           /\ \A k \in Lockable : LocksReleased(r)[k] # r
           /\ \A k \in Lockable, q \in Requests :
                 q # r => (LocksReleased(r)[k] = q <=> lock[k] = q)
  BY NobodyAssumption DEF TypeOK, LocksReleased

\* Every step writes values of the variables' types, and releases the locks of
\* the transactions it ends.
LEMMA TypeStep == TypeOK /\ Phased /\ [Next]_vars => TypeOK'
<1> SUFFICES ASSUME TypeOK, Phased, [Next]_vars PROVE TypeOK'
  OBVIOUS
<1> USE DEF TypeOK, Phases
<1>1. ASSUME NEW r \in Requests, NEW d \in Demands, Arrive(r, d)
      PROVE  TypeOK'
  <2>1. Program(d) \subseteq Statements
    BY ProgramStatements
  <2>2. QED
    BY <1>1, <2>1 DEF Arrive
<1>2. ASSUME NEW r \in Requests, NEW s \in todo[r], TakeLock(r, s)
      PROVE  TypeOK'
  BY <1>2, NobodyAssumption DEF TakeLock, Done
<1>3. ASSUME NEW r \in Requests, NEW s \in todo[r], Pass(r, s)
      PROVE  TypeOK'
  BY <1>3 DEF Pass, Done
<1>4. ASSUME NEW r \in Requests, Running(r), Rollback(r)
      PROVE  TypeOK'
  BY <1>4, ReleaseFacts DEF Rollback
<1>5. ASSUME NEW r \in Requests, NEW awaitsDeposit \in BOOLEAN, Commit(r, awaitsDeposit)
      PROVE  TypeOK'
  <2>1. Weeks(demand[r]) \subseteq Nat
    BY <1>5, DemandsAssumption DEF Commit, Phased
  <2>2. QED
    BY <1>5, <2>1, ReleaseFacts DEF Commit
<1>6. ASSUME NEW r \in Requests, Pay(r)
      PROVE  TypeOK'
  BY <1>6 DEF Pay
<1>7. ASSUME NEW r \in Requests, Revive(r)
      PROVE  TypeOK'
  BY <1>7 DEF Revive
<1>8. ASSUME NEW r \in Requests, NEW i \in live[r], Free(r, i)
      PROVE  TypeOK'
  BY <1>8 DEF Free
<1>9. ASSUME NEW c \in Courts, OpenCourt(c)
      PROVE  TypeOK'
  BY <1>9 DEF OpenCourt
<1>10. CASE TimePasses
  BY <1>10, HoursAssumption DEF TimePasses
<1>11. CASE UNCHANGED vars
  BY <1>11 DEF vars
<1>12. QED
  BY ONLY [Next]_vars, <1>1, <1>2, <1>3, <1>4, <1>5, <1>6, <1>7, <1>8, <1>9, <1>10, <1>11
     DEF Next, Statement, Refuse, Abort, Running

CourtInvRest == Phased /\ Stages /\ CourtsLocked /\ LooksLast /\ LookedFree /\ RowsApart

\* A request arrives with every lock and every look before it.
LEMMA ArriveStep ==
    ASSUME CourtInv, NEW r \in Requests, NEW d \in Demands, Arrive(r, d)
    PROVE  CourtInvRest'
<1> USE DEF CourtInv, TypeOK, Arrive
<1>1. Phased'
  BY DEF Phased
<1>2. Stages'
  BY ProgramStatements DEF Stages
<1>3. /\ demand'[r] = d /\ todo'[r] = Program(d)
      /\ \A q \in Requests : q # r => demand'[q] = demand[q] /\ todo'[q] = todo[q]
                                      /\ phase'[q] = phase[q]
      /\ live[r] = {}
  BY DEF Phased
<1>4. CourtsLocked'
  BY <1>3, ProgramLocks DEF CourtsLocked, LockPending, Running, Phased
<1>5. ASSUME Looking(d), NEW i \in Weeks(d), NEW table \in {"bookings", "blocks"}
      PROVE  LookPending(r, table, i)'
  BY <1>3, <1>5, ProgramLooks DEF LookPending
<1>6. LooksLast'
  BY <1>3, <1>5 DEF LooksLast, LookPending, LockPending, Running
<1>7. LookedFree'
  BY <1>3, <1>5 DEF LookedFree, LookPending, Running
<1>8. RowsApart'
  BY <1>3 DEF RowsApart
<1>9. QED
  BY <1>1, <1>2, <1>4, <1>6, <1>7, <1>8 DEF CourtInvRest

\* A lock is taken from nobody, and only the lock's statement leaves the list.
LEMMA TakeLockStep ==
    ASSUME CourtInv, NEW r \in Requests, NEW s \in todo[r], TakeLock(r, s)
    PROVE  CourtInvRest'
<1> USE DEF CourtInv, TypeOK, TakeLock, Done
<1>1. Phased' /\ Stages' /\ RowsApart'
  BY DEF Phased, Stages, RowsApart
<1>2. \A q \in Requests : todo'[q] = IF q = r THEN todo[r] \ {s} ELSE todo[q]
  OBVIOUS
<1>3. CourtsLocked'
  <2> SUFFICES ASSUME NEW q \in Requests, NEW x \in Courts, Running(q)', On(demand[q].court, x),
                      ~LockPending(q, x)'
               PROVE  lock'[x] = q
    BY DEF CourtsLocked
  <2>1. CASE q = r /\ s.key = x
    BY <2>1 DEF Lockable
  <2>2. CASE ~(q = r /\ s.key = x)
    <3>1. ~LockPending(q, x)
      BY <1>2, <2>2 DEF LockPending
    <3>2. lock[x] = q
      BY <3>1 DEF CourtsLocked, Running
    <3>3. QED
      BY <3>2, NobodyAssumption DEF Lockable
  <2>3. QED
    BY <2>1, <2>2
<1>4. \A q \in Requests, table \in {"bookings", "blocks"}, i \in Nat :
          LookPending(q, table, i)' <=> LookPending(q, table, i)
  BY <1>2 DEF LookPending
<1>5. \A q \in Requests, x \in Courts : LockPending(q, x)' => LockPending(q, x)
  BY <1>2 DEF LockPending
<1>6. \A q \in Requests : Running(q) => Weeks(demand[q]) \subseteq Nat
  BY DemandsAssumption DEF Phased, Running
<1>7. LooksLast'
  BY <1>4, <1>5, <1>6 DEF LooksLast, Running
<1>8. LookedFree'
  BY <1>4, <1>6 DEF LookedFree, Running
<1>9. QED
  BY <1>1, <1>3, <1>7, <1>8 DEF CourtInvRest

\* Demands with a court in common concern the same court.
LEMMA TogetherIsSame ==
    ASSUME NEW c, NEW d, Together(c, d)
    PROVE  Desk!SameCourt(c, d)
  BY DEF Together, On, Desk!SameCourt

\* A look that finds nothing comes after all the locks and makes its span free.
LEMMA PassStep ==
    ASSUME CourtInv, NEW r \in Requests, NEW s \in todo[r], Pass(r, s)
    PROVE  CourtInvRest'
<1> USE DEF CourtInv, TypeOK, Pass, Done
<1>1. Phased' /\ Stages' /\ RowsApart'
  BY DEF Phased, Stages, RowsApart
<1>2. \A q \in Requests : todo'[q] = IF q = r THEN todo[r] \ {s} ELSE todo[q]
  OBVIOUS
<1>3. \A q \in Requests, x \in Courts : LockPending(q, x)' <=> LockPending(q, x)
  BY <1>2 DEF LockPending
<1>4. CourtsLocked'
  BY <1>3 DEF CourtsLocked, Running
<1>5. ASSUME NEW q \in Requests, NEW table \in {"bookings", "blocks"},
             NEW i \in Weeks(demand[q]), ~LookPending(q, table, i)', LookPending(q, table, i)
      PROVE  q = r /\ s.op = table /\ s.span = demand[r].spans[i]
  BY <1>2, <1>5 DEF LookPending
<1>6. LooksLast'
  <2> SUFFICES ASSUME NEW q \in Requests, Running(q), Looking(demand[q]),
                      NEW i \in Weeks(demand[q]), NEW table \in {"bookings", "blocks"},
                      ~LookPending(q, table, i)', NEW x \in Courts, LockPending(q, x)
               PROVE  FALSE
    BY <1>3 DEF LooksLast, Running
  <2>1. LookPending(q, table, i)
    BY DEF LooksLast
  <2>2. q = r /\ s.op = table
    BY <1>5, <2>1
  <2>3. s.at >= 5 /\ \A t \in todo[r] : t.at >= s.at
    BY <2>2 DEF Stages, Ready, Statements
  <2>4. PICK t \in todo[r] : t.op = "lock"
    BY <2>2 DEF LockPending
  <2>5. t.at <= 4 /\ t.at \in Nat
    BY <2>4 DEF Stages, Statements
  <2>6. QED
    BY <2>3, <2>5 DEF Statements
<1>7. LookedFree'
  <2> SUFFICES ASSUME NEW q \in Requests, Running(q), Looking(demand[q]),
                      NEW i \in Weeks(demand[q]), NEW table \in {"bookings", "blocks"},
                      ~LookPending(q, table, i)',
                      NEW o \in Requests, NEW j \in live[o], demand[o].kind \in Table[table],
                      Together(demand[o].court, demand[q].court)
               PROVE  demand[o].spans[j] \cap demand[q].spans[i] = {}
    BY DEF LookedFree, Running
  <2>1. CASE ~LookPending(q, table, i)
    BY <2>1 DEF LookedFree
  <2>2. CASE LookPending(q, table, i)
    <3>1. q = r /\ s.op = table /\ s.span = demand[r].spans[i]
      BY <1>5, <2>2
    <3>2. ~Finds(table, demand[r], demand[r].spans[i])
      BY <3>1 DEF InTheWay
    <3>3. Concerns(o, table, demand[r])
      BY <3>1, TogetherIsSame DEF Concerns
    <3>4. QED
      BY <3>1, <3>2, <3>3 DEF Finds, Desk!Overlap
  <2>3. QED
    BY <2>1, <2>2
<1>8. QED
  BY <1>1, <1>4, <1>6, <1>7 DEF CourtInvRest

\* A transaction that gives up takes nothing from the others.
LEMMA RollbackStep ==
    ASSUME CourtInv, NEW r \in Requests, Running(r), Rollback(r)
    PROVE  CourtInvRest'
<1> USE DEF CourtInv, TypeOK, Rollback
<1>1. Phased' /\ Stages' /\ RowsApart'
  BY DEF Phased, Stages, RowsApart, Running
<1>2. \A q \in Requests : Running(q)' =>
          q # r /\ Running(q) /\ todo'[q] = todo[q]
  BY DEF Running
<1>3. CourtsLocked'
  BY <1>2, ReleaseFacts DEF CourtsLocked, LockPending, Lockable
<1>4. LooksLast' /\ LookedFree'
  BY <1>2 DEF LooksLast, LookedFree, LockPending, LookPending
<1>5. QED
  BY <1>1, <1>3, <1>4 DEF CourtInvRest

\* A commit inserts rows where nothing is, and where nobody else has looked.
LEMMA CommitStep ==
    ASSUME CourtInv, NEW r \in Requests, NEW awaitsDeposit \in BOOLEAN,
           Commit(r, awaitsDeposit)
    PROVE  CourtInvRest'
<1> USE DEF CourtInv, TypeOK, Commit
<1>1. Phased' /\ Stages'
  BY DEF Phased, Stages, Phases
<1>2. /\ Running(r) /\ demand[r] \in Demands
      /\ \A q \in Requests : Running(q)' => q # r /\ Running(q)
      /\ \A q \in Requests : live'[q] = IF q = r THEN Weeks(demand[r]) ELSE live[q]
  BY DEF Running, Phased
<1>3. /\ \A i, table : ~LookPending(r, table, i)
      /\ \A x : ~LockPending(r, x)
  BY DEF LookPending, LockPending
<1>4. CourtsLocked'
  BY <1>2, ReleaseFacts DEF CourtsLocked, LockPending, Lockable
<1>5. LooksLast'
  BY <1>2 DEF LooksLast, LockPending, LookPending
<1>6. LookedFree'
  <2> SUFFICES ASSUME NEW q \in Requests, q # r, Running(q), Looking(demand[q]),
                      NEW i \in Weeks(demand[q]), NEW table \in {"bookings", "blocks"},
                      ~LookPending(q, table, i),
                      Together(demand[r].court, demand[q].court)
               PROVE  FALSE
    BY <1>2 DEF LookedFree, LookPending
  <2>1. PICK x \in Courts : On(demand[r].court, x) /\ On(demand[q].court, x)
    BY DEF Together
  <2>2. lock[x] = r
    BY <1>2, <1>3, <2>1 DEF CourtsLocked
  <2>3. ~LockPending(q, x)
    BY DEF LooksLast
  <2>4. lock[x] = q
    BY <2>1, <2>3 DEF CourtsLocked
  <2>5. QED
    BY <2>2, <2>4
<1>7. RowsApart'
  <2>1. ASSUME NEW q \in Requests, q # r, demand[q].kind \in CalendarKinds,
               demand[r].kind \in CalendarKinds, Together(demand[q].court, demand[r].court),
               NEW j \in live[q], NEW i \in Weeks(demand[r])
        PROVE  demand[q].spans[j] \cap demand[r].spans[i] = {}
    <3>1. PICK table \in {"bookings", "blocks"} : demand[q].kind \in Table[table]
      BY <2>1 DEF CalendarKinds, Table
    <3>2. QED
      BY <1>2, <1>3, <2>1, <3>1 DEF LookedFree, Looking
  <2>2. \A c, d : Together(c, d) <=> Together(d, c)
    BY DEF Together
  <2>3. \A i, j \in Weeks(demand[r]) : i # j => demand[r].spans[i] \cap demand[r].spans[j] = {}
    BY <1>2, DemandsAssumption
  <2>4. QED
    <3> SUFFICES ASSUME NEW p \in Requests, NEW q \in Requests,
                        demand[p].kind \in CalendarKinds, demand[q].kind \in CalendarKinds,
                        Together(demand[p].court, demand[q].court),
                        NEW i \in live'[p], NEW j \in live'[q], <<p, i>> # <<q, j>>
                 PROVE  demand[p].spans[i] \cap demand[q].spans[j] = {}
      BY DEF RowsApart
    <3>1. CASE p # r /\ q # r
      BY <1>2, <3>1 DEF RowsApart
    <3>2. CASE p # r /\ q = r
      BY <1>2, <2>1, <3>2
    <3>3. CASE p = r /\ q # r
      BY <1>2, <2>1, <2>2, <3>3
    <3>4. CASE p = r /\ q = r
      BY <1>2, <2>3, <3>4
    <3>5. QED
      BY <3>1, <3>2, <3>3, <3>4
<1>8. QED
  BY <1>1, <1>4, <1>5, <1>6, <1>7 DEF CourtInvRest

LEMMA CourtStep == CourtInv /\ [Next]_vars => CourtInv'
<1> SUFFICES ASSUME CourtInv, [Next]_vars PROVE CourtInvRest'
  BY TypeStep DEF CourtInv, CourtInvRest
<1>1. ASSUME NEW r \in Requests, Pay(r)
      PROVE  CourtInvRest'
  <2>1. /\ UNCHANGED <<open, demand, phase, todo, lock, live, past>>
        /\ \A q \in Requests : unpaid'[q] => unpaid[q]
    BY <1>1 DEF Pay, CourtInv, TypeOK
  <2>2. Phased' /\ Stages'
    BY <2>1 DEF CourtInv, Phased, Stages
  <2>3. QED
    BY <2>1, <2>2 DEF CourtInv, CourtInvRest, CourtsLocked, LooksLast, LookedFree, RowsApart,
                      Running, LookPending, LockPending
<1>2. ASSUME NEW r \in Requests, NEW i \in live[r], Free(r, i)
      PROVE  CourtInvRest'
  <2>1. \A q \in Requests : live'[q] \subseteq live[q] /\ (unpaid'[q] => unpaid[q])
    BY <1>2 DEF Free, CourtInv, TypeOK
  <2>2. Phased'
    BY <1>2, <2>1 DEF Free, Phased, CourtInv
  <2>3. Stages' /\ CourtsLocked' /\ LooksLast' /\ LookedFree' /\ RowsApart'
    BY <1>2, <2>1 DEF Free, CourtInv, Stages, CourtsLocked, LooksLast, LookedFree,
                      RowsApart, Running, LookPending, LockPending
  <2>4. QED
    BY <2>2, <2>3 DEF CourtInvRest
<1>3. ASSUME NEW r \in Requests, Revive(r)
      PROVE  CourtInvRest'
  <2>1. /\ demand[r] \in Demands /\ demand[r].kind = "session"
        /\ \A q \in Requests : live'[q] = IF q = r THEN {1} ELSE live[q]
    BY <1>3 DEF Revive, CourtInv, TypeOK, Phased
  <2>2. Weeks(demand[r]) = {1}
    BY <2>1, DemandsAssumption
  <2>3. Phased'
    BY <1>3, <2>1, <2>2 DEF Revive, Phased, CourtInv
  <2>4. Stages' /\ CourtsLocked' /\ LooksLast'
    BY <1>3 DEF Revive, CourtInv, Stages, CourtsLocked, LooksLast, Running, LookPending,
                LockPending
  <2>5. LookedFree' /\ RowsApart'
    BY <1>3, <2>1 DEF Revive, CourtInv, LookedFree, RowsApart, Running, LookPending,
                      CalendarKinds, BookingKinds, Table
  <2>6. QED
    BY <2>3, <2>4, <2>5 DEF CourtInvRest
<1>4. ASSUME NEW c \in Courts, OpenCourt(c)
      PROVE  CourtInvRest'
  BY <1>4 DEF OpenCourt, CourtInv, CourtInvRest, Phased, Stages, CourtsLocked, LooksLast,
              LookedFree, RowsApart, Running, LookPending, LockPending
<1>5. CASE UNCHANGED vars
  BY <1>5 DEF vars, CourtInv, CourtInvRest, Phased, Stages, CourtsLocked, LooksLast,
              LookedFree, RowsApart, Running, LookPending, LockPending
<1>6. CASE TimePasses
  <2>1. past \subseteq past' /\ UNCHANGED <<open, demand, phase, todo, lock, live, unpaid, revived>>
    BY <1>6 DEF TimePasses
  <2>2. Stages'
    BY <2>1 DEF CourtInv, Stages
  <2>3. QED
    BY <2>1, <2>2 DEF CourtInv, CourtInvRest, Phased, CourtsLocked, LooksLast,
                      LookedFree, RowsApart, Running, LookPending, LockPending
<1>7. QED
  BY <1>1, <1>2, <1>3, <1>4, <1>5, <1>6, ArriveStep, TakeLockStep, PassStep, RollbackStep, CommitStep
     DEF Next, Statement, Refuse, Abort, Running

LEMMA CourtInvariant == Spec => []CourtInv
<1>1. QED
  BY CourtInit, CourtStep, PTL DEF Spec

-----------------------------------------------------------------------------
\* Types are kept, and a lock is only ever held by a transaction under way.
THEOREM TypeCorrect == Spec => []TypeOK
<1>1. CourtInv => TypeOK
  BY DEF CourtInv
<1>2. QED
  BY <1>1, CourtInvariant, PTL

\* No court is ever double-booked, without the help of any database constraint.
THEOREM NeverDoubleBooked == Spec => []NoDoubleBooking
<1>1. CourtInv => NoDoubleBooking
  <2> SUFFICES ASSUME CourtInv, NEW q \in Requests, NEW r \in Requests,
                      demand[q].kind \in BookingKinds, demand[r].kind \in BookingKinds,
                      demand[q].court = demand[r].court,
                      NEW i \in live[q], NEW j \in live[r], <<q, i>> # <<r, j>>
               PROVE  demand[q].spans[i] \cap demand[r].spans[j] = {}
    BY DEF NoDoubleBooking, Desk!Overlap
  <2>1. demand[q].court \in Courts
    BY DemandsAssumption DEF CourtInv, Phased
  <2>2. Together(demand[q].court, demand[r].court)
    BY <2>1 DEF Together, On
  <2>3. QED
    BY <2>2 DEF CourtInv, RowsApart, CalendarKinds
<1>2. QED
  BY <1>1, CourtInvariant, PTL

\* Bookings and blocks keep apart on every court that was there from the start,
\* and on every court if the block is of that court alone.
THEOREM BlocksRespected == Spec => []NoBookingOverBlock
<1>1. CourtInv => NoBookingOverBlock
  <2> SUFFICES ASSUME CourtInv, NEW q \in Requests, NEW r \in Requests,
                      demand[q].kind = "block", demand[r].kind \in BookingKinds,
                      NEW i \in live[q], NEW j \in live[r],
                      demand[q].spans[i] \cap demand[r].spans[j] # {}
               PROVE  /\ demand[q].court # demand[r].court
                      /\ demand[q].court = AllCourts => demand[r].court \notin Founding
    BY DEF NoBookingOverBlock, ApartOn, Desk!Overlap
  <2>1. q # r
    BY DEF BookingKinds
  <2>2. ~Together(demand[q].court, demand[r].court)
    BY <2>1 DEF CourtInv, RowsApart, CalendarKinds
  <2>3. demand[r].court \in Courts
    BY DemandsAssumption DEF CourtInv, Phased
  <2>4. QED
    BY <2>2, <2>3, CourtsAssumption DEF Together, On
<1>2. QED
  BY <1>1, CourtInvariant, PTL

-----------------------------------------------------------------------------
(* The schedule implements the timetable *)

\* A club that opens no court: every court a block concerns is locked by it.
LEMMA SameIsTogether ==
    ASSUME Founding = Courts, CourtInv, NEW q \in Requests, NEW r \in Requests,
           live[q] # {}, live[r] # {},
           demand[q].kind # "session", demand[r].kind # "session",
           Desk!SameCourt(demand[q].court, demand[r].court)
    PROVE  /\ demand[q].kind \in CalendarKinds /\ demand[r].kind \in CalendarKinds
           /\ Together(demand[q].court, demand[r].court)
<1>1. /\ demand[q].kind \in CalendarKinds /\ demand[q].court \in Courts \cup {AllCourts}
      /\ demand[r].kind \in CalendarKinds /\ demand[r].court \in Courts \cup {AllCourts}
  BY DemandsAssumption DEF CourtInv, Phased, CalendarKinds, Kinds, BookingKinds
<1>2. QED
  BY <1>1, CourtsAssumption DEF Together, On, Desk!SameCourt

LEMMA EntriesFree == Founding = Courts /\ CourtInv => Desk!PairwiseFree(Entries)
<1> SUFFICES ASSUME Founding = Courts, CourtInv, NEW e \in Entries, NEW f \in Entries, e # f,
                    Desk!SameCourt(e.court, f.court)
             PROVE  e.span \cap f.span = {}
  BY DEF Desk!PairwiseFree, Desk!Clash, Desk!Overlap
<1>1. PICK q \in Requests : /\ demand[q].kind # "session"
                            /\ \E i \in live[q] :
                                 e = [owner |-> q, week |-> i, court |-> demand[q].court,
                                      span |-> demand[q].spans[i]]
  BY DEF Entries
<1>2. PICK r \in Requests : /\ demand[r].kind # "session"
                            /\ \E j \in live[r] :
                                 f = [owner |-> r, week |-> j, court |-> demand[r].court,
                                      span |-> demand[r].spans[j]]
  BY DEF Entries
<1>3. PICK i \in live[q] : e = [owner |-> q, week |-> i, court |-> demand[q].court,
                                span |-> demand[q].spans[i]]
  BY <1>1
<1>4. PICK j \in live[r] : f = [owner |-> r, week |-> j, court |-> demand[r].court,
                                span |-> demand[r].spans[j]]
  BY <1>2
<1>5. <<q, i>> # <<r, j>>
  BY <1>3, <1>4
<1>6. /\ demand[q].kind \in CalendarKinds /\ demand[r].kind \in CalendarKinds
      /\ Together(demand[q].court, demand[r].court)
  BY <1>1, <1>2, <1>3, <1>4, SameIsTogether
<1>7. QED
  BY <1>3, <1>4, <1>5, <1>6 DEF CourtInv, RowsApart

\* No step both adds entries and removes some.
LEMMA EntriesGrowOrShrink ==
    CourtInv /\ [Next]_vars => Entries \subseteq Entries' \/ Entries' \subseteq Entries
<1> SUFFICES ASSUME CourtInv, [Next]_vars
             PROVE  Entries \subseteq Entries' \/ Entries' \subseteq Entries
  OBVIOUS
<1>1. ASSUME NEW r \in Requests, NEW d \in Demands, Arrive(r, d)
      PROVE  Entries' = Entries
  <2>1. live[r] = {} /\ \A q \in Requests : q # r => demand'[q] = demand[q]
    BY <1>1 DEF Arrive, CourtInv, TypeOK, Phased
  <2>2. QED
    BY <1>1, <2>1 DEF Arrive, Entries
<1>2. ASSUME NEW r \in Requests, NEW awaitsDeposit \in BOOLEAN, Commit(r, awaitsDeposit)
      PROVE  Entries \subseteq Entries'
  <2>1. \A q \in Requests : live[q] \subseteq live'[q]
    BY <1>2 DEF Commit, CourtInv, TypeOK, Phased
  <2>2. QED
    BY <1>2, <2>1 DEF Commit, Entries
<1>3. ASSUME NEW r \in Requests, NEW i \in live[r], Free(r, i)
      PROVE  Entries' \subseteq Entries
  <2>1. \A q \in Requests : live'[q] \subseteq live[q]
    BY <1>3 DEF Free, CourtInv, TypeOK
  <2>2. QED
    BY <1>3, <2>1 DEF Free, Entries
<1>4. ASSUME NEW r \in Requests, Revive(r)
      PROVE  Entries' = Entries
  <2>1. demand[r].kind = "session" /\ \A q \in Requests : q # r => live'[q] = live[q]
    BY <1>4 DEF Revive, CourtInv, TypeOK
  <2>2. QED
    BY <1>4, <2>1 DEF Revive, Entries
<1>5. CASE UNCHANGED <<demand, live>>
  BY <1>5 DEF Entries
<1>6. QED
  BY ONLY [Next]_vars, <1>1, <1>2, <1>3, <1>4, <1>5
     DEF Next, Statement, TakeLock, Pass, Refuse, Abort, Rollback, Pay, OpenCourt, TimePasses, vars

\* Requests that interleave statement by statement hand out the calendar as if
\* each claimed its court and time in one step.
THEOREM ImplementsTimetable == ASSUME Founding = Courts PROVE Spec => HandsOutCourts
<1>1. Init => Desk!TInit
  BY DEF Init, Desk!TInit, Entries
<1>2. CourtInv /\ CourtInv' /\ [Next]_vars => [Desk!TNext]_Entries
  <2> SUFFICES ASSUME CourtInv, CourtInv', [Next]_vars
               PROVE  Desk!Claim \/ Desk!Release
    BY DEF Desk!TNext
  <2>1. CASE Entries \subseteq Entries'
    <3>1. (Founding = Courts)' /\ CourtInv' => Desk!PairwiseFree(Entries)'
      BY EntriesFree, PTL
    <3>2. QED
      BY <2>1, <3>1 DEF Desk!Claim, Desk!PairwiseFree
  <2>2. CASE Entries' \subseteq Entries
    BY <2>2 DEF Desk!Release
  <2>3. QED
    BY <2>1, <2>2, EntriesGrowOrShrink
<1>3. QED
  BY <1>1, <1>2, CourtInvariant, PTL DEF Spec, HandsOutCourts, Desk!TSpec

-----------------------------------------------------------------------------
(* One unpaid booking per customer *)

\* The bookings the cap is about.
Owes(q) == unpaid[q] /\ demand[q].kind = "self" /\ ~Over(q, past)

CapLocked(r) == ~LockPending(r, demand[r].party) => lock[demand[r].party] = r

CapCounted(r) ==
    ~CountPending(r) =>
        /\ ~LockPending(r, demand[r].party)
        /\ \A q \in Requests : Owes(q) => demand[q].party # demand[r].party

OneOwes ==
    \A q, r \in Requests :
        Owes(q) /\ Owes(r) /\ demand[q].party = demand[r].party => q = r

CapInv ==
    /\ \A r \in Requests : Running(r) /\ demand[r].kind = "self" => CapLocked(r) /\ CapCounted(r)
    /\ OneOwes

\* The customer is not locked before the count, nor counted out of turn.
LEMMA CapStep == CourtInv /\ CapInv /\ [Next]_vars => CapInv'
<1> SUFFICES ASSUME CourtInv, CapInv, [Next]_vars PROVE CapInv'
  OBVIOUS
<1> USE DEF CourtInv, TypeOK
<1>1. ASSUME NEW r \in Requests, demand[r].kind = "self", Running(r)
      PROVE  demand[r].party \in Customers /\ demand[r].party \in Lockable
  BY <1>1, DemandsAssumption DEF Phased, Running, BookingKinds, Lockable
<1>2. ASSUME NEW r \in Requests, NEW d \in Demands, Arrive(r, d)
      PROVE  CapInv'
  <2>1. /\ demand'[r] = d /\ todo'[r] = Program(d) /\ unpaid[r] = FALSE
        /\ \A q \in Requests : q # r => demand'[q] = demand[q] /\ todo'[q] = todo[q]
                                        /\ phase'[q] = phase[q]
        /\ UNCHANGED <<lock, unpaid>>
        /\ \A q \in Requests : Owes(q)' => Owes(q) /\ q # r
    BY <1>2 DEF Arrive, Phased, Owes, Over
  <2>2. d.kind = "self" => LockPending(r, d.party)' /\ CountPending(r)'
    BY <2>1, ProgramCap DEF LockPending, CountPending
  <2>3. \A q \in Requests : Running(q)' /\ demand'[q].kind = "self" =>
                                CapLocked(q)' /\ CapCounted(q)'
    BY <2>1, <2>2 DEF CapInv, CapLocked, CapCounted, LockPending, CountPending, Running
  <2>4. OneOwes'
    BY <2>1 DEF CapInv, OneOwes
  <2>5. QED
    BY <2>3, <2>4 DEF CapInv
<1>3. ASSUME NEW r \in Requests, NEW s \in todo[r], TakeLock(r, s)
      PROVE  CapInv'
  <2>1. /\ \A q \in Requests : todo'[q] = IF q = r THEN todo[r] \ {s} ELSE todo[q]
        /\ s.op = "lock" /\ lock[s.key] = Nobody
        /\ \A k \in Lockable : lock'[k] = IF k = s.key THEN r ELSE lock[k]
        /\ UNCHANGED <<demand, phase, unpaid>>
        /\ \A q \in Requests : Owes(q)' => Owes(q)
    BY <1>3 DEF TakeLock, Done, Owes, Over
  <2>2. ASSUME NEW q \in Requests, Running(q), demand[q].kind = "self"
        PROVE  CapLocked(q)'
    <3>1. CASE q = r /\ s.key = demand[q].party
      BY <1>1, <2>1, <2>2, <3>1 DEF CapLocked
    <3>2. CASE ~(q = r /\ s.key = demand[q].party)
      <4>1. LockPending(q, demand[q].party)' <=> LockPending(q, demand[q].party)
        BY <2>1, <3>2 DEF LockPending
      <4>2. QED
        BY <1>1, <2>1, <2>2, <4>1, NobodyAssumption DEF CapLocked, CapInv
    <3>3. QED
      BY <3>1, <3>2
  <2>3. ASSUME NEW q \in Requests, Running(q), demand[q].kind = "self"
        PROVE  CapCounted(q)'
    BY <2>1, <2>3 DEF CapCounted, CapInv, LockPending, CountPending
  <2>4. QED
    BY <2>1, <2>2, <2>3 DEF CapInv, OneOwes, Running
<1>4. ASSUME NEW r \in Requests, NEW s \in todo[r], Pass(r, s)
      PROVE  CapInv'
  <2>1. /\ \A q \in Requests : todo'[q] = IF q = r THEN todo[r] \ {s} ELSE todo[q]
        /\ s.op # "lock" /\ Ready(r, s)
        /\ s.op = "count" => UnpaidBookings(s.key, s.span) = {}
        /\ UNCHANGED <<demand, phase, unpaid, lock>>
        /\ \A q \in Requests : Owes(q)' => Owes(q)
    BY <1>4 DEF Pass, InTheWay, Done, Owes, Over
  <2>2. \A q \in Requests : \A k : LockPending(q, k)' <=> LockPending(q, k)
    BY <2>1 DEF LockPending
  <2>3. ASSUME NEW q \in Requests, Running(q), demand[q].kind = "self"
        PROVE  CapLocked(q)' /\ CapCounted(q)'
    <3>1. CapLocked(q)'
      BY <2>1, <2>2, <2>3 DEF CapLocked, CapInv
    <3>2. CASE CountPending(q) /\ ~CountPending(q)'
      <4>1. q = r /\ s.op = "count"
        BY <2>1, <3>2 DEF CountPending
      <4>2. s.at = 5 /\ s.key = demand[q].party /\ s.span \subseteq past
        BY <4>1 DEF Stages
      <4>3. ~LockPending(q, demand[q].party)
        BY <2>1, <4>1, <4>2 DEF LockPending, Stages, Ready, Statements
      <4>4. UnpaidBookings(demand[q].party, s.span) = {}
        BY <2>1, <4>1, <4>2
      <4>5. QED
        BY <2>1, <2>2, <3>1, <4>2, <4>3, <4>4 DEF CapCounted, UnpaidBookings, Owes, Over
    <3>3. CASE CountPending(q)'
      BY <3>1, <3>3 DEF CapCounted
    <3>4. CASE ~CountPending(q)
      BY <2>1, <2>2, <2>3, <3>1, <3>4 DEF CapCounted, CapInv
    <3>5. QED
      BY <3>2, <3>3, <3>4
  <2>4. QED
    BY <2>1, <2>3 DEF CapInv, OneOwes, Running
<1>5. ASSUME NEW r \in Requests, Running(r), Rollback(r)
      PROVE  CapInv'
  <2>1. \A q \in Requests : Running(q)' => q # r /\ Running(q) /\ todo'[q] = todo[q]
    BY <1>5 DEF Rollback, Running
  <2>2. ASSUME NEW q \in Requests, Running(q)', demand[q].kind = "self"
        PROVE  CapLocked(q)' /\ CapCounted(q)'
    <3>1. CapLocked(q) /\ CapCounted(q) /\ q # r /\ demand[q].party \in Lockable
      BY <1>1, <1>5, <2>1, <2>2 DEF Rollback, CapInv
    <3>2. /\ LockPending(q, demand[q].party)' <=> LockPending(q, demand[q].party)
          /\ CountPending(q)' <=> CountPending(q)
          /\ UNCHANGED <<demand, unpaid>> /\ lock' = LocksReleased(r)
          /\ \A o \in Requests : Owes(o)' => Owes(o)
      BY <1>5, <2>1, <2>2 DEF Rollback, LockPending, CountPending, Owes, Over
    <3>3. CapLocked(q)'
      BY <3>1, <3>2, ReleaseFacts DEF CapLocked
    <3>4. CapCounted(q)'
      BY <3>1, <3>2 DEF CapCounted
    <3>5. QED
      BY <3>3, <3>4
  <2>3. UNCHANGED demand /\ \A q \in Requests : Owes(q)' => Owes(q)
    BY <1>5 DEF Rollback, Owes, Over
  <2>4. QED
    BY <1>5, <2>2, <2>3 DEF Rollback, CapInv, OneOwes
<1>6. ASSUME NEW r \in Requests, NEW awaitsDeposit \in BOOLEAN, Commit(r, awaitsDeposit)
      PROVE  CapInv'
  <2>1. /\ Running(r) /\ lock' = LocksReleased(r) /\ UNCHANGED <<demand, todo>>
        /\ \A q \in Requests : Running(q)' => q # r /\ Running(q)
        /\ \A q \in Requests : unpaid'[q] => q = r \/ unpaid[q]
        /\ ~CountPending(r)
        /\ \A q \in Requests : Owes(q)' => Owes(q) \/ (q = r /\ demand[r].kind = "self")
    BY <1>6 DEF Commit, Running, CountPending, Owes, Over
  <2>2. demand[r].kind = "self" => lock[demand[r].party] = r
    BY <2>1 DEF CapInv, CapLocked, CapCounted
  <2>3. ASSUME NEW q \in Requests, Running(q)', demand[q].kind = "self"
        PROVE  CapLocked(q)'
    BY <1>1, <2>1, <2>3, ReleaseFacts DEF CapInv, CapLocked, LockPending
  <2>4. ASSUME NEW q \in Requests, Running(q)', demand[q].kind = "self"
        PROVE  CapCounted(q)'
    BY <1>1, <2>1, <2>2, <2>4 DEF CapInv, CapLocked, CapCounted, LockPending, CountPending
  <2>5. OneOwes'
    BY <2>1 DEF CapInv, CapCounted, OneOwes
  <2>6. QED
    BY <2>1, <2>3, <2>4, <2>5 DEF CapInv
<1>7. ASSUME UNCHANGED <<demand, phase, todo, lock>>, past \subseteq past',
             \A q \in Requests : unpaid'[q] => unpaid[q]
      PROVE  CapInv'
  <2>1. \A q \in Requests : Owes(q)' => Owes(q)
    BY <1>7 DEF Over, Owes
  <2>2. QED
    BY <1>7, <2>1 DEF CapInv, CapLocked, CapCounted, OneOwes, LockPending,
                      CountPending, Running
<1>8. ASSUME NEW r \in Requests, Pay(r) \/ Revive(r) \/ \E i \in live[r] : Free(r, i)
      PROVE  CapInv'
  BY <1>7, <1>8 DEF Pay, Revive, Free
<1>9. ASSUME NEW c \in Courts, OpenCourt(c)
      PROVE  CapInv'
  BY <1>7, <1>9 DEF OpenCourt
<1>10. CASE TimePasses
  BY <1>7, <1>10 DEF TimePasses
<1>11. CASE UNCHANGED vars
  BY <1>7, <1>11 DEF vars
<1>12. QED
  BY ONLY [Next]_vars, <1>2, <1>3, <1>4, <1>5, <1>6, <1>8, <1>9, <1>10, <1>11
     DEF Next, Statement, Refuse, Abort, Running

\* A customer who fires requests at every court at once gets one of them until it
\* is paid for or its end has come, however far apart two of the requests began.
THEOREM CapHolds == Spec => []OneUnpaidPerCustomer
<1>1. Init => CapInv
  BY DEF Init, CapInv, OneOwes, Owes, Running
<1>2. CapInv => OneUnpaidPerCustomer
  BY DEF CapInv, OneOwes, Owes, OneUnpaidPerCustomer
<1>3. QED
  BY <1>1, <1>2, CapStep, CourtInvariant, PTL DEF Spec

-----------------------------------------------------------------------------
(* Training sessions *)

\* A session whose court is one of the club's own finds every row in its way
\* before the insert, and none of them can come in between.
LEMMA SessionCommit ==
    ASSUME CourtInv, NEW r \in Requests, NEW awaitsDeposit \in BOOLEAN,
           Commit(r, awaitsDeposit), demand[r].kind = "session", demand[r].court # NoCourt
    PROVE  /\ ~Finds("bookings", demand[r], demand[r].spans[1])
           /\ demand[r].court \in Founding =>
                  ~Finds("blocks", demand[r], demand[r].spans[1])
<1>1. demand[r] \in Demands /\ Running(r) /\ todo[r] = {}
  BY DEF Commit, CourtInv, Phased, Running
<1>2. demand[r].court \in Courts /\ 1 \in Weeks(demand[r])
  BY <1>1, DemandsAssumption
<1>3. ASSUME NEW table \in {"bookings", "blocks"}, NEW q \in Requests, NEW j \in live[q],
             demand[q].kind \in Table[table], Together(demand[q].court, demand[r].court)
      PROVE  ~Desk!Overlap(demand[q].spans[j], demand[r].spans[1])
  <2>1. Looking(demand[r]) /\ ~LookPending(r, table, 1)
    BY <1>1 DEF Looking, LookPending
  <2>2. QED
    BY <1>1, <1>2, <1>3, <2>1 DEF CourtInv, LookedFree, Desk!Overlap
<1>4. ASSUME NEW q \in Requests, live[q] # {}, demand[q].kind \in BookingKinds,
             Desk!SameCourt(demand[q].court, demand[r].court)
      PROVE  Together(demand[q].court, demand[r].court)
  <2>1. demand[q].court \in Courts
    BY <1>4, DemandsAssumption DEF CourtInv, Phased
  <2>2. QED
    BY <1>2, <1>4, <2>1, CourtsAssumption DEF Desk!SameCourt, Together, On
<1>5. ASSUME demand[r].court \in Founding, NEW q \in Requests,
             Desk!SameCourt(demand[q].court, demand[r].court)
      PROVE  Together(demand[q].court, demand[r].court)
  BY <1>2, <1>5, CourtsAssumption DEF Desk!SameCourt, Together, On
<1>6. QED
  BY <1>3, <1>4, <1>5 DEF Finds, Concerns, Table

\* A session is inserted into a calendar still as free as its statements found
\* it; nobody but the coach needs to be locked for a session without a court.
THEOREM SessionsLandFree == Spec => SessionLandsFree
<1> DEFINE Lands(r) ==
       /\ phase[r] = "running" /\ phase'[r] = "committed"
       /\ demand[r].kind = "session" /\ demand[r].court # NoCourt
       => /\ ~Finds("bookings", demand[r], demand[r].spans[1])
          /\ demand[r].court \in Founding =>
                 ~Finds("blocks", demand[r], demand[r].spans[1])
<1>1. CourtInv /\ [Next]_vars => [\A r \in Requests : Lands(r)]_vars
  <2> SUFFICES ASSUME CourtInv, [Next]_vars, NEW r \in Requests,
                      phase[r] = "running", phase'[r] = "committed"
               PROVE  \E awaitsDeposit \in BOOLEAN : Commit(r, awaitsDeposit)
    BY SessionCommit
  <2>1. CASE UNCHANGED vars
    BY <2>1 DEF vars
  <2>2. CASE Next
    BY <2>2, ZenonT(30) DEF Next, Statement, Arrive, TakeLock, Pass, Refuse, Abort, Rollback, Commit, Pay,
                Revive, Free, OpenCourt, TimePasses, CourtInv, TypeOK
  <2>3. QED
    BY <2>1, <2>2
<1>2. QED
  BY <1>1, CourtInvariant, PTL DEF Spec, SessionLandsFree

CoachPending(r)   == \E s \in todo[r] : s.op = "coach"
RivalsPending(r)  == \E s \in todo[r] : s.op = "sessions"
IsSession(r)      == demand[r].kind = "session"

\* Sessions that stand and were inserted after their looks.
Settled(q) == IsSession(q) /\ live[q] # {} /\ ~revived[q]

ApartFrom(q, r) == ~Desk!Overlap(demand[q].spans[1], demand[r].spans[1])

\* The coach's lock is a session's first statement, the look at the coach's
\* sessions its second, the look at the court's its last.
SessionStages ==
    \A r \in Requests : IsSession(r) =>
        \A s \in todo[r] :
            /\ s.op = "lock" => \/ s.at = 0 /\ s.key = demand[r].party
                                \/ s.at = 2 /\ s.key \in Courts
            /\ s.op = "coach" => s.at = 1
            /\ s.op = "sessions" => s.at >= 5
            /\ s.op \in {"coach", "sessions"} => s.span = demand[r].spans[1]

CoachLocked(r) == ~LockPending(r, demand[r].party) => lock[demand[r].party] = r

CoachLooked(r) ==
    ~CoachPending(r) =>
        /\ ~LockPending(r, demand[r].party)
        /\ \A q \in Requests :
              Settled(q) /\ demand[q].party = demand[r].party => ApartFrom(q, r)

RivalsLooked(r) ==
    ~RivalsPending(r) /\ demand[r].court # NoCourt =>
        /\ ~LockPending(r, demand[r].court)
        /\ \A q \in Requests :
              Settled(q) /\ demand[q].court = demand[r].court => ApartFrom(q, r)

SessionInv ==
    /\ SessionStages
    /\ \A r \in Requests : Running(r) /\ IsSession(r) =>
           CoachLocked(r) /\ CoachLooked(r) /\ RivalsLooked(r)
    /\ SessionsApart

\* A session's program takes the coach's lock and looks at both kinds of rows.
LEMMA ProgramSession ==
    ASSUME NEW d \in Demands, d.kind = "session", open \subseteq Courts
    PROVE  /\ \E s \in Program(d) : s.op = "lock" /\ s.key = d.party
           /\ \E s \in Program(d) : s.op = "coach"
           /\ d.court # NoCourt => \E s \in Program(d) : s.op = "sessions"
           /\ \A s \in Program(d) :
                 /\ s.op = "lock" => \/ s.at = 0 /\ s.key = d.party
                                     \/ s.at = 2 /\ s.key \in Courts
                 /\ s.op = "coach" => s.at = 1
                 /\ s.op = "sessions" => s.at >= 5
                 /\ s.op \in {"coach", "sessions"} => s.span = d.spans[1]
<1>1. Program(d) = CourtLocks(d) \cup CoachFree(d)
                       \cup (IF d.court = NoCourt THEN {} ELSE SessionCourtFree(d))
  BY DEF Program
<1>2. d.court # AllCourts
  BY DemandsAssumption, CourtsAssumption
<1>3. CourtLocks(d) = {Lock(2, c) : c \in {d.court} \cap Courts}
  BY <1>2 DEF CourtLocks
<1>4. Lock(0, d.party) \in Program(d) /\ Look(1, "coach", d.spans[1]) \in Program(d)
  BY <1>1 DEF CoachFree
<1>5. d.court # NoCourt => Look(7, "sessions", d.spans[1]) \in Program(d)
  BY <1>1 DEF SessionCourtFree
<1>6. ASSUME NEW s \in Program(d)
      PROVE  /\ s.op = "lock" => \/ s.at = 0 /\ s.key = d.party
                                 \/ s.at = 2 /\ s.key \in Courts
             /\ s.op = "coach" => s.at = 1
             /\ s.op = "sessions" => s.at >= 5
             /\ s.op \in {"coach", "sessions"} => s.span = d.spans[1]
  <2>1. CASE s \in CourtLocks(d)
    BY <1>3, <2>1 DEF Lock
  <2>2. CASE s \in CoachFree(d)
    BY <2>2 DEF CoachFree, Lock, Look
  <2>3. CASE s \in SessionCourtFree(d)
    BY <2>3 DEF SessionCourtFree, Look
  <2>4. QED
    BY <1>1, <2>1, <2>2, <2>3
<1>7. QED
  BY <1>4, <1>5, <1>6 DEF Lock, Look

\* A session's coach and court are lockable.
LEMMA SessionKeys ==
    ASSUME CourtInv, NEW r \in Requests, Running(r), IsSession(r)
    PROVE  /\ demand[r].party \in Lockable
           /\ demand[r].court # NoCourt => demand[r].court \in Courts
<1>1. demand[r] \in Demands
  BY DEF CourtInv, Phased, Running
<1>2. QED
  BY <1>1, DemandsAssumption, PeopleAssumption DEF IsSession, Lockable

LEMMA SessionArrives ==
    ASSUME CourtInv, SessionInv, NEW r \in Requests, NEW d \in Demands, Arrive(r, d)
    PROVE  SessionInv'
<1>1. /\ demand'[r] = d /\ todo'[r] = Program(d) /\ live[r] = {} /\ open \subseteq Courts
      /\ \A q \in Requests : q # r => /\ demand'[q] = demand[q] /\ todo'[q] = todo[q]
                                      /\ phase'[q] = phase[q]
      /\ UNCHANGED <<lock, live, revived>>
  BY DEF Arrive, CourtInv, TypeOK, Phased
<1>2. SessionStages'
  BY <1>1, ProgramSession DEF SessionInv, SessionStages, IsSession
<1>3. d.kind = "session" =>
          /\ LockPending(r, d.party)' /\ CoachPending(r)'
          /\ d.court # NoCourt => RivalsPending(r)'
  BY <1>1, ProgramSession DEF LockPending, CoachPending, RivalsPending
<1>4. \A q \in Requests : Settled(q)' => q # r /\ Settled(q)
  BY <1>1 DEF Settled, IsSession
<1>5. ASSUME NEW q \in Requests, Running(q)', IsSession(q)'
      PROVE  CoachLocked(q)' /\ CoachLooked(q)' /\ RivalsLooked(q)'
  <2>1. CASE q = r
    BY <1>1, <1>3, <1>5, <2>1 DEF CoachLocked, CoachLooked, RivalsLooked, IsSession
  <2>2. CASE q # r
    <3>1. Running(q) /\ IsSession(q)
      BY <1>1, <1>5, <2>2 DEF Running, IsSession
    <3>2. CoachLocked(q) /\ CoachLooked(q) /\ RivalsLooked(q)
      BY <3>1 DEF SessionInv
    <3>3. QED
      BY <1>1, <1>4, <2>2, <3>2 DEF CoachLocked, CoachLooked, RivalsLooked, LockPending,
         CoachPending, RivalsPending, ApartFrom
  <2>3. QED
    BY <2>1, <2>2
<1>6. SessionsApart'
  BY <1>1 DEF SessionInv, SessionsApart
<1>7. QED
  BY <1>2, <1>5, <1>6 DEF SessionInv

LEMMA SessionLocks ==
    ASSUME CourtInv, SessionInv, NEW r \in Requests, NEW s \in todo[r], TakeLock(r, s)
    PROVE  SessionInv'
<1>1. /\ \A q \in Requests : todo'[q] = IF q = r THEN todo[r] \ {s} ELSE todo[q]
      /\ s.op = "lock" /\ lock[s.key] = Nobody
      /\ \A k \in Lockable : lock'[k] = IF k = s.key THEN r ELSE lock[k]
      /\ UNCHANGED <<demand, phase, live, revived>>
  BY DEF TakeLock, Done, CourtInv, TypeOK
<1>2. SessionStages' /\ SessionsApart'
  BY <1>1 DEF SessionInv, SessionStages, SessionsApart, IsSession
<1>3. ASSUME NEW q \in Requests, Running(q), IsSession(q)
      PROVE  CoachLocked(q)' /\ CoachLooked(q)' /\ RivalsLooked(q)'
  <2>1. CoachLocked(q) /\ CoachLooked(q) /\ RivalsLooked(q) /\ demand[q].party \in Lockable
    BY <1>3, SessionKeys DEF SessionInv
  <2>2. \A k : LockPending(q, k)' => LockPending(q, k)
    BY <1>1 DEF LockPending
  <2>3. (CoachPending(q)' <=> CoachPending(q)) /\ (RivalsPending(q)' <=> RivalsPending(q))
    BY <1>1 DEF CoachPending, RivalsPending
  <2>4. CoachLocked(q)'
    <3>1. CASE q = r /\ s.key = demand[q].party
      BY <1>1, <2>1, <3>1 DEF CoachLocked
    <3>2. CASE ~(q = r /\ s.key = demand[q].party)
      <4>1. LockPending(q, demand[q].party)' <=> LockPending(q, demand[q].party)
        BY <1>1, <3>2 DEF LockPending
      <4>2. QED
        BY <1>1, <2>1, <4>1, NobodyAssumption DEF CoachLocked
    <3>3. QED
      BY <3>1, <3>2
  <2>5. CoachLooked(q)' /\ RivalsLooked(q)'
    BY <1>1, <2>1, <2>2, <2>3 DEF CoachLooked, RivalsLooked, Settled, IsSession, ApartFrom
  <2>6. QED
    BY <2>4, <2>5
<1>4. QED
  BY <1>1, <1>2, <1>3 DEF SessionInv, Running, IsSession

LEMMA SessionPasses ==
    ASSUME CourtInv, SessionInv, NEW r \in Requests, NEW s \in todo[r], Pass(r, s)
    PROVE  SessionInv'
<1>1. /\ \A q \in Requests : todo'[q] = IF q = r THEN todo[r] \ {s} ELSE todo[q]
      /\ s.op # "lock" /\ Ready(r, s) /\ Running(r)
      /\ s.op \notin {"count", "ahead"} => ~Finds(s.op, demand[r], s.span)
      /\ UNCHANGED <<demand, phase, lock, live, revived>>
  BY DEF Pass, InTheWay, Done, Running, CourtInv, TypeOK
<1>2. SessionStages' /\ SessionsApart'
  BY <1>1 DEF SessionInv, SessionStages, SessionsApart, IsSession
<1>3. \A q \in Requests : \A k : LockPending(q, k)' <=> LockPending(q, k)
  BY <1>1 DEF LockPending
<1>4. \A q \in Requests : Settled(q) =>
          IsSession(q) /\ demand[q] \in Demands /\ live[q] = {1}
  BY DemandsAssumption DEF Settled, IsSession, CourtInv, Phased
<1>5. ASSUME IsSession(r), s.op = "coach"
      PROVE  CoachLooked(r)'
  <2>1. s.at = 1 /\ s.span = demand[r].spans[1]
    BY <1>5 DEF SessionInv, SessionStages
  <2>2. ~LockPending(r, demand[r].party)
    <3> SUFFICES ASSUME NEW t \in todo[r], t.op = "lock", t.key = demand[r].party
                 PROVE  FALSE
      BY DEF LockPending
    <3>1. t.at = 0
      <4>1. demand[r].party \in Coaches
        BY <1>1, <1>5, DemandsAssumption DEF CourtInv, Phased, Running, IsSession
      <4>2. QED
        BY <1>5, <4>1, PeopleAssumption DEF SessionInv, SessionStages
    <3>2. QED
      BY <1>1, <2>1, <3>1 DEF Ready
  <2>3. ASSUME NEW q \in Requests, Settled(q), demand[q].party = demand[r].party
        PROVE  ApartFrom(q, r)
    BY <1>1, <1>4, <1>5, <2>1, <2>3 DEF Finds, Concerns, Table, ApartFrom, IsSession
  <2>4. QED
    BY <1>1, <1>3, <2>2, <2>3 DEF CoachLooked, Settled, IsSession, ApartFrom
<1>6. ASSUME IsSession(r), s.op = "sessions", demand[r].court # NoCourt
      PROVE  RivalsLooked(r)'
  <2>1. s.at >= 5 /\ s.span = demand[r].spans[1]
    BY <1>6 DEF SessionInv, SessionStages
  <2>2. ~LockPending(r, demand[r].court)
    <3> SUFFICES ASSUME NEW t \in todo[r], t.op = "lock"
                 PROVE  FALSE
      BY DEF LockPending
    <3>1. t.at <= 4 /\ t.at \in Nat /\ s.at \in Nat
      BY DEF CourtInv, TypeOK, Stages, Statements
    <3>2. QED
      BY <1>1, <2>1, <3>1 DEF Ready
  <2>3. ASSUME NEW q \in Requests, Settled(q), demand[q].court = demand[r].court
        PROVE  ApartFrom(q, r)
    BY <1>1, <1>4, <1>6, <2>1, <2>3 DEF Finds, Concerns, Table, ApartFrom, IsSession,
       Desk!SameCourt
  <2>4. QED
    BY <1>1, <1>3, <2>2, <2>3 DEF RivalsLooked, Settled, IsSession, ApartFrom
<1>7. ASSUME NEW q \in Requests, Running(q), IsSession(q)
      PROVE  CoachLocked(q)' /\ CoachLooked(q)' /\ RivalsLooked(q)'
  <2>1. CoachLocked(q) /\ CoachLooked(q) /\ RivalsLooked(q)
    BY <1>7 DEF SessionInv
  <2>2. CoachLocked(q)'
    BY <1>1, <1>3, <2>1 DEF CoachLocked
  <2>3. CoachLooked(q)'
    <3>1. CASE q = r /\ s.op = "coach"
      BY <1>5, <1>7, <3>1
    <3>2. CASE ~(q = r /\ s.op = "coach")
      <4>1. CoachPending(q)' <=> CoachPending(q)
        BY <1>1, <3>2 DEF CoachPending
      <4>2. QED
        BY <1>1, <1>3, <2>1, <4>1 DEF CoachLooked, Settled, IsSession, ApartFrom
    <3>3. QED
      BY <3>1, <3>2
  <2>4. RivalsLooked(q)'
    <3>1. CASE q = r /\ s.op = "sessions"
      BY <1>1, <1>6, <1>7, <3>1 DEF RivalsLooked
    <3>2. CASE ~(q = r /\ s.op = "sessions")
      <4>1. RivalsPending(q)' <=> RivalsPending(q)
        BY <1>1, <3>2 DEF RivalsPending
      <4>2. QED
        BY <1>1, <1>3, <2>1, <4>1 DEF RivalsLooked, Settled, IsSession, ApartFrom
    <3>3. QED
      BY <3>1, <3>2
  <2>5. QED
    BY <2>2, <2>3, <2>4
<1>8. QED
  BY <1>1, <1>2, <1>7 DEF SessionInv, Running, IsSession

LEMMA SessionRollsBack ==
    ASSUME CourtInv, SessionInv, NEW r \in Requests, Running(r), Rollback(r)
    PROVE  SessionInv'
<1>1. /\ \A q \in Requests : Running(q)' => q # r /\ Running(q) /\ todo'[q] = todo[q]
      /\ \A q \in Requests : todo'[q] \subseteq todo[q]
      /\ lock' = LocksReleased(r) /\ UNCHANGED <<demand, live, revived>>
  BY DEF Rollback, Running, CourtInv, TypeOK
<1>2. SessionStages' /\ SessionsApart'
  BY <1>1 DEF SessionInv, SessionStages, SessionsApart, IsSession
<1>3. ASSUME NEW q \in Requests, Running(q)', IsSession(q)
      PROVE  CoachLocked(q)' /\ CoachLooked(q)' /\ RivalsLooked(q)'
  <2>1. /\ CoachLocked(q) /\ CoachLooked(q) /\ RivalsLooked(q)
        /\ demand[q].party \in Lockable
    BY <1>1, <1>3, SessionKeys DEF SessionInv
  <2>2. /\ q # r /\ \A k : LockPending(q, k)' <=> LockPending(q, k)
        /\ CoachPending(q)' <=> CoachPending(q)
        /\ RivalsPending(q)' <=> RivalsPending(q)
    BY <1>1, <1>3 DEF LockPending, CoachPending, RivalsPending
  <2>3. CoachLocked(q)'
    BY <1>1, <2>1, <2>2, ReleaseFacts DEF CoachLocked, CourtInv
  <2>4. CoachLooked(q)' /\ RivalsLooked(q)'
    BY <1>1, <2>1, <2>2 DEF CoachLooked, RivalsLooked, Settled, IsSession, ApartFrom
  <2>5. QED
    BY <2>3, <2>4
<1>4. QED
  BY <1>1, <1>2, <1>3 DEF SessionInv, IsSession

LEMMA SessionCommits ==
    ASSUME CourtInv, SessionInv, NEW r \in Requests, NEW awaitsDeposit \in BOOLEAN,
           Commit(r, awaitsDeposit)
    PROVE  SessionInv'
<1>1. /\ Running(r) /\ todo[r] = {} /\ lock' = LocksReleased(r)
      /\ UNCHANGED <<demand, todo, revived>>
      /\ \A q \in Requests : Running(q)' => q # r /\ Running(q)
      /\ \A q \in Requests : q # r => live'[q] = live[q]
  BY DEF Commit, Running, CourtInv, TypeOK
<1>2. /\ \A k : ~LockPending(r, k)
      /\ ~CoachPending(r) /\ ~RivalsPending(r)
  BY <1>1 DEF LockPending, CoachPending, RivalsPending
<1>3. SessionStages'
  BY <1>1 DEF SessionInv, SessionStages, IsSession
<1>4. IsSession(r) => /\ lock[demand[r].party] = r
                      /\ demand[r].court # NoCourt => lock[demand[r].court] = r
  <2>1. IsSession(r) => lock[demand[r].party] = r
    BY <1>1, <1>2 DEF SessionInv, CoachLocked
  <2>2. IsSession(r) /\ demand[r].court # NoCourt => lock[demand[r].court] = r
    BY <1>1, <1>2, SessionKeys DEF CourtInv, CourtsLocked, On
  <2>3. QED
    BY <2>1, <2>2
<1>5. ASSUME NEW q \in Requests, q # r, Running(q), IsSession(q)
      PROVE  CoachLocked(q)' /\ CoachLooked(q)' /\ RivalsLooked(q)'
  <2>1. /\ CoachLocked(q) /\ CoachLooked(q) /\ RivalsLooked(q)
        /\ demand[q].party \in Lockable
    BY <1>5, SessionKeys DEF SessionInv
  <2>2. /\ \A k : LockPending(q, k)' <=> LockPending(q, k)
        /\ CoachPending(q)' <=> CoachPending(q)
        /\ RivalsPending(q)' <=> RivalsPending(q)
    BY <1>1 DEF LockPending, CoachPending, RivalsPending
  <2>3. CoachLocked(q)'
    BY <1>1, <1>5, <2>1, <2>2, ReleaseFacts DEF CoachLocked, CourtInv
  <2>4. CoachLooked(q)'
    <3>1. ~CoachPending(q) => ~(IsSession(r) /\ demand[r].party = demand[q].party)
      BY <1>4, <1>5, <2>1 DEF CoachLooked, CoachLocked
    <3>2. QED
      BY <1>1, <2>1, <2>2, <3>1 DEF CoachLooked, Settled, IsSession, ApartFrom
  <2>5. RivalsLooked(q)'
    <3>1. ~RivalsPending(q) /\ demand[q].court # NoCourt =>
              ~(IsSession(r) /\ demand[r].court = demand[q].court)
      BY <1>4, <1>5, <2>1, SessionKeys DEF RivalsLooked, CourtInv, CourtsLocked, On
    <3>2. QED
      BY <1>1, <2>1, <2>2, <3>1 DEF RivalsLooked, Settled, IsSession, ApartFrom
  <2>6. QED
    BY <2>3, <2>4, <2>5
<1>6. SessionsApart'
  <2>1. ASSUME NEW q \in Requests, q # r, IsSession(q), IsSession(r), live[q] # {}, ~revived[q],
               \/ demand[q].party = demand[r].party
               \/ demand[q].court = demand[r].court /\ demand[q].court # NoCourt
        PROVE  ApartFrom(q, r)
    BY <1>1, <1>2, <2>1 DEF SessionInv, CoachLooked, RivalsLooked, Settled
  <2>2. \A q, p \in Requests : ApartFrom(q, p) <=> ApartFrom(p, q)
    BY DEF ApartFrom, Desk!Overlap
  <2>3. QED
    BY <1>1, <2>1, <2>2 DEF SessionInv, SessionsApart, IsSession, ApartFrom
<1>7. QED
  BY <1>1, <1>3, <1>5, <1>6 DEF SessionInv, IsSession

\* Nothing but an insert or a revival adds to the sessions that stand.
LEMMA SessionStep == CourtInv /\ SessionInv /\ [Next]_vars => SessionInv'
<1> SUFFICES ASSUME CourtInv, SessionInv, [Next]_vars PROVE SessionInv'
  OBVIOUS
<1>1. ASSUME UNCHANGED <<demand, phase, todo, lock>>,
             \A q \in Requests : /\ live'[q] # {} /\ ~revived'[q] => live[q] # {} /\ ~revived[q]
                                 /\ revived[q] => revived'[q]
      PROVE  SessionInv'
  <2>1. SessionStages' /\ \A q \in Requests : Settled(q)' => Settled(q)
    BY <1>1 DEF SessionInv, SessionStages, Settled, IsSession
  <2>2. ASSUME NEW q \in Requests, Running(q), IsSession(q)
        PROVE  CoachLocked(q)' /\ CoachLooked(q)' /\ RivalsLooked(q)'
    BY <1>1, <2>1, <2>2 DEF SessionInv, CoachLocked, CoachLooked, RivalsLooked, LockPending,
       CoachPending, RivalsPending, ApartFrom
  <2>3. SessionsApart'
    BY <1>1 DEF SessionInv, SessionsApart
  <2>4. QED
    BY <1>1, <2>1, <2>2, <2>3 DEF SessionInv, Running, IsSession
<1>2. ASSUME NEW r \in Requests, Pay(r) \/ Revive(r) \/ \E i \in live[r] : Free(r, i)
      PROVE  SessionInv'
  <2>1. UNCHANGED <<demand, phase, todo, lock>>
    BY <1>2 DEF Pay, Revive, Free
  <2>2. ASSUME NEW q \in Requests
        PROVE  /\ live'[q] # {} /\ ~revived'[q] => live[q] # {} /\ ~revived[q]
               /\ revived[q] => revived'[q]
    BY <1>2 DEF Pay, Revive, Free, CourtInv, TypeOK
  <2>3. QED
    BY <1>1, <2>1, <2>2
<1>3. ASSUME NEW c \in Courts, OpenCourt(c)
      PROVE  SessionInv'
  BY <1>1, <1>3 DEF OpenCourt
<1>4. CASE UNCHANGED vars \/ TimePasses
  BY <1>1, <1>4 DEF vars, TimePasses
<1>5. QED
  BY ONLY CourtInv, SessionInv, [Next]_vars, <1>2, <1>3, <1>4, SessionArrives, SessionLocks,
     SessionPasses, SessionRollsBack, SessionCommits
     DEF Next, Statement, Refuse, Abort, Running

\* No coach and no court has two sessions at a time, unless one of them was
\* cancelled and set back to scheduled, which checks nothing.
THEOREM SessionsKeepApart == Spec => []SessionsApart
<1>1. Init => SessionInv
  BY DEF Init, SessionInv, SessionStages, SessionsApart, Running, IsSession
<1>2. SessionInv => SessionsApart
  BY DEF SessionInv
<1>3. QED
  BY <1>1, <1>2, SessionStep, CourtInvariant, PTL DEF Spec
=============================================================================
