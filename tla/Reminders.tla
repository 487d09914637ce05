------------------------------ MODULE Reminders ------------------------------
(***************************************************************************)
(* The reminder job: every minute each replica starts a tick, the advisory *)
(* lock lets one of them in, it selects the bookings whose time has come   *)
(* and are not marked, and for each sends the mail and then marks it.       *)
(*                                                                         *)
(* FreeAlways, which no definition uses, is a wrong version of LockFree.    *)
(***************************************************************************)
EXTENDS Naturals, FiniteSets

CONSTANTS
    Ticks,      \* ticks of any replica, each run again and again
    Bookings,   \* a booking and one of its two reminders, 24 h or 2 h ahead
    NoTick,     \* nobody holds the lock
    MaxMails    \* bound on the mails to one customer

ASSUME NoTickAssumption == NoTick \notin Ticks
ASSUME MailsAssumption == MaxMails \in Nat

VARIABLES
    lock,      \* who holds pg_try_advisory_lock
    tick,      \* per tick: "idle", "in", "sending" or "mailed"
    todo,      \* per tick: the bookings it selected and has not dealt with
    current,   \* per tick: the set holding the booking just mailed, if any
    when,      \* per booking: 0 before its window, 1 in it, 2 after it
    confirmed, \* the confirmed bookings
    marked,    \* those with reminder_sent_at
    mails,     \* per booking: mails delivered
    adrift,    \* the ticks whose lock went with its connection
    mishap     \* history: the bookings a fault may have mailed without a mark

reminderVars == <<lock, tick, todo, current, when, confirmed, marked, mails, adrift, mishap>>

ReminderTypeOK ==
    /\ lock \in Ticks \cup {NoTick}
    /\ tick \in [Ticks -> {"idle", "in", "sending", "mailed"}]
    /\ todo \in [Ticks -> SUBSET Bookings] /\ current \in [Ticks -> SUBSET Bookings]
    /\ when \in [Bookings -> 0 .. 2]
    /\ confirmed \subseteq Bookings /\ marked \subseteq Bookings /\ mishap \subseteq Bookings
    /\ mails \in [Bookings -> 0 .. MaxMails]
    /\ adrift \subseteq Ticks

ReminderInit ==
    /\ lock = NoTick
    /\ tick = [t \in Ticks |-> "idle"]
    /\ todo = [t \in Ticks |-> {}] /\ current = [t \in Ticks |-> {}]
    /\ when = [b \in Bookings |-> 0]
    /\ confirmed = Bookings
    /\ marked = {} /\ mails = [b \in Bookings |-> 0] /\ adrift = {} /\ mishap = {}

-----------------------------------------------------------------------------
FreeAlways(t) == TRUE
LockFree(t)   == lock = NoTick

\* The lock belongs to the session of one connection: only that connection
\* can give it back, and it goes with the session.
Unlocked(t) == IF lock = t THEN NoTick ELSE lock

\* A tick that finds the lock taken does nothing.
TickEnters(t) ==
    /\ tick[t] = "idle" /\ LockFree(t)
    /\ lock' = t
    /\ tick' = [tick EXCEPT ![t] = "in"]
    /\ UNCHANGED <<todo, current, when, confirmed, marked, mails, adrift, mishap>>

DueNow == {b \in confirmed \ marked : when[b] = 1}

Selects(t) ==
    /\ tick[t] = "in"
    /\ todo' = [todo EXCEPT ![t] = DueNow]
    /\ tick' = [tick EXCEPT ![t] = "sending"]
    /\ UNCHANGED <<lock, current, when, confirmed, marked, mails, adrift, mishap>>

Mails(t, b) ==
    /\ tick[t] = "sending" /\ b \in todo[t] /\ mails[b] < MaxMails
    /\ mails' = [mails EXCEPT ![b] = @ + 1]
    /\ todo' = [todo EXCEPT ![t] = @ \ {b}]
    /\ current' = [current EXCEPT ![t] = {b}]
    /\ tick' = [tick EXCEPT ![t] = "mailed"]
    /\ mishap' = IF t \in adrift THEN mishap \cup {b} ELSE mishap
    /\ UNCHANGED <<lock, when, confirmed, marked, adrift>>

\* The send fails, perhaps after the mail went out; the next tick tries again.
MailFails(t, b) ==
    /\ tick[t] = "sending" /\ b \in todo[t]
    /\ todo' = [todo EXCEPT ![t] = @ \ {b}]
    /\ \/ UNCHANGED <<mails, mishap>>
       \/ /\ mails[b] < MaxMails
          /\ mails' = [mails EXCEPT ![b] = @ + 1]
          /\ mishap' = mishap \cup {b}
    /\ UNCHANGED <<lock, tick, current, when, confirmed, marked, adrift>>

Marks(t) ==
    /\ tick[t] = "mailed"
    /\ marked' = marked \cup current[t]
    /\ current' = [current EXCEPT ![t] = {}]
    /\ tick' = [tick EXCEPT ![t] = "sending"]
    /\ UNCHANGED <<lock, todo, when, confirmed, mails, adrift, mishap>>

MarkFails(t) ==
    /\ tick[t] = "mailed"
    /\ mishap' = mishap \cup current[t]
    /\ current' = [current EXCEPT ![t] = {}]
    /\ tick' = [tick EXCEPT ![t] = "sending"]
    /\ UNCHANGED <<lock, todo, when, confirmed, marked, mails, adrift>>

TickEnds(t) ==
    /\ tick[t] = "sending" /\ todo[t] = {}
    /\ lock' = Unlocked(t) /\ adrift' = adrift \ {t}
    /\ tick' = [tick EXCEPT ![t] = "idle"]
    /\ UNCHANGED <<todo, current, when, confirmed, marked, mails, mishap>>

\* The selection fails and the error ends the tick.
SelectFails(t) ==
    /\ tick[t] = "in"
    /\ lock' = Unlocked(t) /\ adrift' = adrift \ {t}
    /\ tick' = [tick EXCEPT ![t] = "idle"]
    /\ UNCHANGED <<todo, current, when, confirmed, marked, mails, mishap>>

-----------------------------------------------------------------------------
(* Faults, the clock and the customers *)

Crash(t) ==
    /\ tick[t] # "idle"
    /\ lock' = IF lock = t THEN NoTick ELSE lock
    /\ adrift' = adrift \ {t}
    /\ mishap' = mishap \cup current[t]
    /\ tick' = [tick EXCEPT ![t] = "idle"]
    /\ todo' = [todo EXCEPT ![t] = {}] /\ current' = [current EXCEPT ![t] = {}]
    /\ UNCHANGED <<when, confirmed, marked, mails>>

\* The connection that holds the lock drops; the tick goes on without it.
LockLost(t) ==
    /\ lock = t
    /\ lock' = NoTick
    /\ adrift' = adrift \cup {t}
    /\ mishap' = mishap \cup current[t]
    /\ UNCHANGED <<tick, todo, current, when, confirmed, marked, mails>>

MinutesPass(b) ==
    /\ when[b] < 2
    /\ when' = [when EXCEPT ![b] = @ + 1]
    /\ UNCHANGED <<lock, tick, todo, current, confirmed, marked, mails, adrift, mishap>>

BookingCancelled(b) ==
    /\ b \in confirmed
    /\ confirmed' = confirmed \ {b}
    /\ UNCHANGED <<lock, tick, todo, current, when, marked, mails, adrift, mishap>>

ReminderNext ==
    \/ \E t \in Ticks :
         \/ TickEnters(t) \/ Selects(t) \/ SelectFails(t) \/ Marks(t) \/ MarkFails(t) \/ TickEnds(t)
         \/ Crash(t) \/ LockLost(t)
         \/ \E b \in Bookings : Mails(t, b) \/ MailFails(t, b)
    \/ \E b \in Bookings : MinutesPass(b) \/ BookingCancelled(b)

ReminderSpec == ReminderInit /\ [][ReminderNext]_reminderVars

-----------------------------------------------------------------------------
\* A customer gets the same reminder twice only when a mark failed, a send
\* that was reported as failed had gone out, or a tick died or lost its lock:
\* replicas ticking at the same minute and minutes that overlap do not do it.
TwiceNeedsMishap == \A b \in Bookings : mails[b] > 1 => b \in mishap

\* The lock is held only by a tick that is running, so a later tick gets in.
LockNeverLeaks == lock # NoTick => tick[lock] # "idle"
=============================================================================
