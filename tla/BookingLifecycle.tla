-------------------------- MODULE BookingLifecycle --------------------------
(***************************************************************************)
(* One court booking from creation to its last state, with the money that  *)
(* hangs on it: the bookings row, its payments row, the refunds table, the *)
(* append-only ledger and the gateway's webhook events.                    *)
(*                                                                         *)
(* Every handler below runs in one database transaction that begins by     *)
(* locking the booking row and then reads only under that lock, so each is *)
(* one action.  The exception is the refund request: its locking statement *)
(* joins the payments row, which it does not lock, so the payment status   *)
(* it sees may be older than the booking it then locks (two actions).      *)
(*                                                                         *)
(* A definition no action uses (AwaitingOrConfirmed, RefundableAnyOpen,    *)
(* UnpaidOrLapsed, SettleableAnytime, DeleteKeepsStatus, ExpireAtStart,    *)
(* RevocableUnpaid, PaymentAfterWord) is a wrong version of the one below  *)
(* it: what a property must notice if the code were so written.            *)
(***************************************************************************)
EXTENDS Integers, FiniteSets, Totals

CONSTANTS
    Bookings,        \* booking ids
    Weekly,          \* the ids that are occurrences of the one subscription
    RefundIds,       \* refund request ids
    Events,          \* the gateway's event ids
    Price,           \* total price of a booking
    DepositPercent,  \* clubs.deposit_percent
    Amounts,         \* sums of money a gateway event or a refund may name
    Quotes           \* the money fields a booking or settlement request may carry

ASSUME BookingAssumption == Bookings # {}
ASSUME WeeklyAssumption  == Weekly \subseteq Bookings
ASSUME RefundsAssumption == IsFiniteSet(RefundIds)
ASSUME PriceAssumption   == Price \in Nat
ASSUME PercentAssumption == DepositPercent \in 0 .. 100
ASSUME AmountsAssumption == Amounts \subseteq Nat
ASSUME QuotesAssumption  ==
    Quotes \subseteq [net : 0 .. Price, dep : Nat, depBy : {"NONE", "DESK"},
                      rem : Nat, remBy : {"NONE", "DESK"}]

VARIABLES
    status,        \* bookings.status, "absent" before the INSERT
    deleted,       \* bookings.deleted_at IS NOT NULL
    money,         \* the price after discount, and the two collected legs
    refundStatus,  \* bookings.refund_status
    payment,       \* payments.status
    refunded,      \* payments.refunded_amount
    refunds,       \* the refunds table and the requests being processed
    ledger,        \* per booking, the sums of REFUND and FORFEIT_INCOME rows
    events,        \* payment_webhook_events, by provider_event_id
    subscription,  \* subscriptions.status of the one subscription
    passed         \* the deadlines that have passed for a booking

vars == <<status, deleted, money, refundStatus, payment, refunded, refunds,
          ledger, events, subscription, passed>>

BookingStatus == {"draft", "pending_deposit", "pending_verification",
                  "confirmed", "checked_in", "completed", "cancelled",
                  "no_show", "expired"}
\* The type and, with "forfeited", what the database admits.
PaymentStatus == {"deposit_pending", "deposit_approved", "deposit_rejected",
                  "remaining_balance_pending", "paid_in_full",
                  "partially_refunded", "fully_refunded", "forfeited"}
Terminal      == {"completed", "cancelled", "no_show", "expired"}

\* The payment statuses on which a refund may be requested.
RefundableAnyOpen == {"deposit_pending", "deposit_approved", "paid_in_full"}
Refundable == {"deposit_approved", "remaining_balance_pending", "paid_in_full"}

\* DESK stands for the methods taken at the desk: CASH, VODAFONE_CASH, INSTAPAY.
Methods   == {"NONE", "DESK", "ONLINE"}
Deadlines == {"expiry", "policy", "start", "grace"}

Money   == [net : Nat, dep : Nat, depBy : Methods, rem : Nat, remBy : Methods]
NoMoney == [net |-> 0, dep |-> 0, depBy |-> "NONE", rem |-> 0, remBy |-> "NONE"]

\* Math.round of a percentage, in the smallest unit.
RequiredDeposit(net) == (2 * net * DepositPercent + 100) \div 200

\* Deposit and remainder count once a method is on file, verified or not.
Collected(b) ==
    (IF money[b].depBy # "NONE" THEN money[b].dep ELSE 0)
  + (IF money[b].remBy # "NONE" THEN money[b].rem ELSE 0)

Refund   == [state : {"absent", "asked", "pending", "approved", "rejected"},
             booking : Bookings, amount : Nat]
RowsOf(b, states) ==
    {r \in RefundIds : refunds[r].booking = b /\ refunds[r].state \in states}
SumOfRows(b, states) == Total(RowsOf(b, states), [r \in RefundIds |-> refunds[r].amount])

RowTypes ==
    /\ status \in [Bookings -> BookingStatus \cup {"absent"}]
    /\ deleted \in [Bookings -> BOOLEAN]
    /\ money \in [Bookings -> Money]
    /\ refundStatus \in [Bookings -> {"NONE", "REFUNDED", "FORFEITED", "NOT_APPLICABLE"}]
    /\ payment \in [Bookings -> PaymentStatus]
    /\ refunds \in [RefundIds -> Refund]
    /\ events \in [Events -> [seen : BOOLEAN, booking : Bookings, amount : Nat]]
    /\ subscription \in {"none", "active", "cancelled"}
    /\ passed \in [Bookings -> SUBSET Deadlines]

SumTypes ==
    /\ refunded \in [Bookings -> Nat]
    /\ ledger \in [Bookings -> [refund : Nat, forfeit : Nat]]

TypeOK == RowTypes /\ SumTypes

AnyBooking == CHOOSE b \in Bookings : TRUE

Init ==
    /\ status = [b \in Bookings |-> "absent"]
    /\ deleted = [b \in Bookings |-> FALSE]
    /\ money = [b \in Bookings |-> NoMoney]
    /\ refundStatus = [b \in Bookings |-> "NONE"]
    /\ payment = [b \in Bookings |-> "deposit_pending"]
    /\ refunded = [b \in Bookings |-> 0]
    /\ refunds = [r \in RefundIds |->
                    [state |-> "absent", booking |-> AnyBooking, amount |-> 0]]
    /\ ledger = [b \in Bookings |-> [refund |-> 0, forfeit |-> 0]]
    /\ events = [e \in Events |->
                    [seen |-> FALSE, booking |-> AnyBooking, amount |-> 0]]
    /\ subscription = "none"
    /\ passed = [b \in Bookings |-> {}]

-----------------------------------------------------------------------------
(* Creation *)

\* A trusted staff member recording enough money IS the verification.
AutoVerified(role, m) ==
    /\ role \in {"owner", "receptionist"}
    /\ m.depBy # "NONE"
    /\ \/ m.dep >= RequiredDeposit(m.net)
       \/ m.dep + m.rem >= m.net

\* POST /api/bookings.  A customer gets no discount and no past slot; staff may
\* record a walk-in after its start.
CreateBooking(b, role, m, late) ==
    /\ status[b] = "absent" /\ b \notin Weekly
    /\ role = "customer" => m.net = Price /\ late \cap {"start", "grace"} = {}
    /\ LET paidUp == m.dep + m.rem >= m.net
       IN /\ status' = [status EXCEPT ![b] =
                CASE AutoVerified(role, m) -> "confirmed"
                  [] ~AutoVerified(role, m) /\ role = "receptionist" -> "draft"
                  [] OTHER -> "pending_deposit"]
          /\ payment' = [payment EXCEPT ![b] =
                CASE AutoVerified(role, m) /\ paidUp -> "paid_in_full"
                  [] AutoVerified(role, m) /\ ~paidUp -> "deposit_approved"
                  [] OTHER -> "deposit_pending"]
    /\ money' = [money EXCEPT ![b] = m]
    /\ passed' = [passed EXCEPT ![b] = late]
    /\ UNCHANGED <<deleted, refundStatus, refunded, refunds, ledger, events, subscription>>

\* Every occurrence of a subscription is born confirmed and unpaid.
CreateSubscription ==
    /\ subscription = "none" /\ Weekly # {}
    /\ subscription' = "active"
    /\ status' = [b \in Bookings |-> IF b \in Weekly THEN "confirmed" ELSE status[b]]
    /\ money' = [b \in Bookings |->
                    IF b \in Weekly THEN [NoMoney EXCEPT !.net = Price] ELSE money[b]]
    /\ UNCHANGED <<deleted, refundStatus, payment, refunded, refunds, ledger, events, passed>>

-----------------------------------------------------------------------------
(* From creation to check-in *)

AwaitingOrConfirmed(b)  == status[b] \in {"pending_verification", "confirmed"}
AwaitingVerification(b) == status[b] = "pending_verification"

\* A re-upload after a rejection puts the payment back in the queue.
UploadReceipt(b) ==
    /\ status[b] \in {"pending_deposit", "pending_verification"}
    /\ status' = [status EXCEPT ![b] = "pending_verification"]
    /\ payment' = [payment EXCEPT ![b] =
                      IF @ = "deposit_rejected" THEN "deposit_pending" ELSE @]
    /\ UNCHANGED <<deleted, money, refundStatus, refunded, refunds, ledger,
                   events, subscription, passed>>

VerifyApprove(b) ==
    /\ AwaitingVerification(b)
    /\ status' = [status EXCEPT ![b] = "confirmed"]
    /\ payment' = [payment EXCEPT ![b] = "deposit_approved"]
    /\ UNCHANGED <<deleted, money, refundStatus, refunded, refunds, ledger,
                   events, subscription, passed>>

\* The booking stays in pending_verification for a re-upload.
VerifyReject(b) ==
    /\ AwaitingVerification(b)
    /\ payment' = [payment EXCEPT ![b] = "deposit_rejected"]
    /\ UNCHANGED <<status, deleted, money, refundStatus, refunded, refunds, ledger,
                   events, subscription, passed>>

\* The unique insert that makes a redelivered event a silent success; an event
\* for a deleted booking is refused and its insert rolled back.
RecordEvent(e, b, amount) ==
    /\ ~events[e].seen
    /\ status[b] # "absent" /\ ~deleted[b]
    /\ events' = [events EXCEPT ![e] = [seen |-> TRUE, booking |-> b, amount |-> amount]]

PaidOnline(m, amount) == [m EXCEPT !.dep = amount, !.depBy = "ONLINE"]

\* The statuses in which a gateway payment changes the booking.
UnpaidOrLapsed == {"pending_deposit", "pending_verification", "expired"}
Unpaid         == {"pending_deposit", "pending_verification"}

WebhookIgnored(e, b, amount) ==
    /\ RecordEvent(e, b, amount)
    /\ status[b] \notin Unpaid
    /\ UNCHANGED <<status, deleted, money, refundStatus, payment, refunded, refunds,
                   ledger, subscription, passed>>

\* Below the deposit on file: the first one puts its own amount on file.
WebhookInsufficient(e, b, amount) ==
    /\ RecordEvent(e, b, amount)
    /\ status[b] \in Unpaid
    /\ amount < money[b].dep
    /\ status' = [status EXCEPT ![b] = "pending_verification"]
    /\ money' = IF status[b] = "pending_deposit"
                THEN [money EXCEPT ![b] = PaidOnline(@, amount)]
                ELSE money
    /\ UNCHANGED <<deleted, refundStatus, payment, refunded, refunds, ledger,
                   subscription, passed>>

WebhookConfirm(e, b, amount) ==
    /\ RecordEvent(e, b, amount)
    /\ status[b] \in Unpaid
    /\ amount >= money[b].dep
    /\ status' = [status EXCEPT ![b] = "confirmed"]
    /\ money' = [money EXCEPT ![b] = PaidOnline(@, amount)]
    /\ payment' = [payment EXCEPT ![b] =
                      IF amount >= money[b].net THEN "paid_in_full" ELSE "deposit_approved"]
    /\ UNCHANGED <<deleted, refundStatus, refunded, refunds, ledger, subscription, passed>>

SettleableAnytime(b) == status[b] # "absent"
Settleable(b)        == status[b] \notin Terminal \cup {"absent"}

\* The money after a settlement: of the two methods only those it names change.
Settled(m, named, old) ==
    [m EXCEPT !.depBy = IF "deposit" \in named THEN @ ELSE old.depBy,
              !.remBy = IF "remainder" \in named THEN @ ELSE old.remBy]

\* PATCH /settle: staff rewrite the money fields of an open booking, down as
\* well as up; status and payment are not touched.
Settle(b, m, named) ==
    /\ Settleable(b)
    /\ money' = [money EXCEPT ![b] = Settled(m, named, @)]
    /\ UNCHANGED <<status, deleted, refundStatus, payment, refunded, refunds, ledger,
                   events, subscription, passed>>

CheckIn(b) ==
    /\ status[b] = "confirmed"
    /\ status' = [status EXCEPT ![b] = "checked_in"]
    /\ UNCHANGED <<deleted, money, refundStatus, payment, refunded, refunds, ledger,
                   events, subscription, passed>>

-----------------------------------------------------------------------------
(* Closing a booking *)

\* Staff may override the deadline policy, a customer never can.
Decision(b, actor, override) ==
    IF actor = "staff" /\ override # "auto" THEN override
    ELSE IF "policy" \in passed[b] THEN "forfeit" ELSE "refund"

Outcome(b, actor, override) ==
    CASE Collected(b) = 0 -> "NOT_APPLICABLE"
      [] Collected(b) > 0 /\ Decision(b, actor, override) = "refund" -> "REFUNDED"
      [] OTHER -> "FORFEITED"

\* PATCH /cancel: frees the slot and settles what was collected, in one
\* transaction.  Routing the slot to the waitlist is left out.
CancelBooking(b, actor, override) ==
    /\ status[b] \notin Terminal \cup {"absent"} /\ ~deleted[b]
    /\ status' = [status EXCEPT ![b] = "cancelled"]
    /\ LET outcome == Outcome(b, actor, override)
       IN /\ refundStatus' = [refundStatus EXCEPT ![b] = outcome]
          /\ payment' = [payment EXCEPT ![b] =
                CASE outcome = "REFUNDED"  -> "fully_refunded"
                  [] outcome = "FORFEITED" -> "forfeited"
                  [] OTHER -> @]
          /\ refunded' = [refunded EXCEPT ![b] =
                IF outcome = "REFUNDED" THEN Collected(b) ELSE @]
          /\ ledger' = CASE outcome = "REFUNDED"  ->
                              [ledger EXCEPT ![b].refund = @ + Collected(b)]
                         [] outcome = "FORFEITED" ->
                              [ledger EXCEPT ![b].forfeit = @ + Collected(b)]
                         [] OTHER -> ledger
    /\ UNCHANGED <<deleted, money, refunds, events, subscription, passed>>

\* Owner's soft delete, from any status, refused when a refund row exists.
DeleteKeepsStatus(b) ==
    /\ status[b] # "absent" /\ ~deleted[b]
    /\ RowsOf(b, {"pending", "approved", "rejected"}) = {}
    /\ deleted' = [deleted EXCEPT ![b] = TRUE]
    /\ UNCHANGED <<status, money, refundStatus, payment, refunded, refunds, ledger,
                   events, subscription, passed>>

DeleteBooking(b) ==
    /\ status[b] # "absent" /\ ~deleted[b]
    /\ RowsOf(b, {"pending", "approved", "rejected"}) = {}
    /\ deleted' = [deleted EXCEPT ![b] = TRUE]
    /\ status' = [status EXCEPT ![b] = "cancelled"]
    /\ UNCHANGED <<money, refundStatus, payment, refunded, refunds, ledger, events,
                   subscription, passed>>

\* The cron jobs' bulk UPDATEs: every row that qualifies, in one statement.
BulkClose(from, deadline, to) ==
    LET due == {b \in Bookings : status[b] = from /\ deadline \in passed[b]}
    IN /\ due # {}
       /\ status' = [b \in Bookings |-> IF b \in due THEN to ELSE status[b]]
       /\ UNCHANGED <<deleted, money, refundStatus, payment, refunded, refunds, ledger,
                      events, subscription, passed>>

ExpireAtStart == BulkClose("pending_deposit", "start", "expired")
ExpirePending == BulkClose("pending_deposit", "expiry", "expired")
ExpireDrafts  == BulkClose("draft", "expiry", "expired")
MarkNoShows   == BulkClose("confirmed", "grace", "no_show")

RevocableUnpaid(b) == status[b] \in {"draft", "pending_deposit", "pending_verification"}
Revocable(b) ==
    status[b] \in {"draft", "pending_deposit", "pending_verification", "confirmed"}

\* Cancels the future occurrences that are not yet played; their money stays.
RevokeSubscription ==
    /\ subscription = "active"
    /\ subscription' = "cancelled"
    /\ status' = [b \in Bookings |->
          IF /\ b \in Weekly /\ ~deleted[b] /\ "start" \notin passed[b]
             /\ Revocable(b)
          THEN "cancelled" ELSE status[b]]
    /\ UNCHANGED <<deleted, money, refundStatus, payment, refunded, refunds, ledger,
                   events, passed>>

-----------------------------------------------------------------------------
(* The refund workflow *)

Became(refund, state) == [refund EXCEPT !.state = state]

\* POST /api/refunds begins: its snapshot joins the booking with its payment,
\* then waits for the booking's row lock.
AskRefund(r, b) ==
    /\ refunds[r].state = "absent"
    /\ status[b] # "absent" /\ payment[b] \in Refundable
    /\ refunds' = [refunds EXCEPT ![r] = [state |-> "asked", booking |-> b, amount |-> 0]]
    /\ UNCHANGED <<status, deleted, money, refundStatus, payment, refunded, ledger,
                   events, subscription, passed>>

\* With the lock: the booking's columns are re-read and the refunds summed
\* afresh, while the payment status is still the snapshot's.
CreateRefund(r, amount) ==
    LET b == refunds[r].booking
    IN /\ refunds[r].state = "asked"
       /\ amount > 0
       /\ amount <= Collected(b) - SumOfRows(b, {"pending", "approved"})
       /\ refunds' = [refunds EXCEPT ![r] =
                        [state |-> "pending", booking |-> b, amount |-> amount]]
       /\ UNCHANGED <<status, deleted, money, refundStatus, payment, refunded, ledger,
                      events, subscription, passed>>

\* The amount exceeds what is available: nothing is written.
RefuseRefund(r) ==
    /\ refunds[r].state = "asked"
    /\ refunds' = [refunds EXCEPT ![r] = Became(@, "absent")]
    /\ UNCHANGED <<status, deleted, money, refundStatus, payment, refunded, ledger,
                   events, subscription, passed>>

\* What the payment's refunded amount and status become on an approval.
RefundedAfter(r) ==
    SumOfRows(refunds[r].booking, {"approved"}) + refunds[r].amount

PaymentAfterWord(r) == "refunded"
PaymentAfter(r) ==
    IF RefundedAfter(r) >= Collected(refunds[r].booking)
    THEN "fully_refunded" ELSE "partially_refunded"

\* PATCH /api/refunds/:id, approve: refund, payment and ledger move together.
ApproveRefund(r) ==
    LET b == refunds[r].booking
    IN /\ refunds[r].state = "pending"
       /\ RefundedAfter(r) <= Collected(b)
       /\ refunds' = [refunds EXCEPT ![r] = Became(@, "approved")]
       /\ payment' = [payment EXCEPT ![b] = PaymentAfter(r)]
       /\ refunded' = [refunded EXCEPT ![b] = RefundedAfter(r)]
       /\ ledger' = [ledger EXCEPT ![b].refund = @ + refunds[r].amount]
       /\ UNCHANGED <<status, deleted, money, refundStatus, events, subscription, passed>>

RejectRefund(r) ==
    /\ refunds[r].state = "pending"
    /\ refunds' = [refunds EXCEPT ![r] = Became(@, "rejected")]
    /\ UNCHANGED <<status, deleted, money, refundStatus, payment, refunded, ledger,
                   events, subscription, passed>>

-----------------------------------------------------------------------------
(* Time.  The policy deadline precedes the start, the start the no-show grace. *)

Earlier == [d \in Deadlines |->
    CASE d = "start" -> {"policy"} [] d = "grace" -> {"policy", "start"} [] OTHER -> {}]

\* Clocks of closed bookings are read by no handler and stand still.
Tick(b, d) ==
    /\ status[b] \notin Terminal \cup {"absent"}
    /\ d \notin passed[b] /\ Earlier[d] \subseteq passed[b]
    /\ passed' = [passed EXCEPT ![b] = @ \cup {d}]
    /\ UNCHANGED <<status, deleted, money, refundStatus, payment, refunded, refunds,
                   ledger, events, subscription>>

\* What has passed when a booking is created.
PassedAtCreation == {{}, {"policy"}, {"policy", "start"}, {"policy", "start", "grace"}}

Next ==
    \/ \E b \in Bookings, role \in {"customer", "owner", "receptionist"},
          m \in Quotes, late \in PassedAtCreation :
            CreateBooking(b, role, m, late)
    \/ CreateSubscription
    \/ \E b \in Bookings : UploadReceipt(b) \/ VerifyApprove(b) \/ VerifyReject(b)
    \/ \E e \in Events, b \in Bookings, amount \in Amounts \ {0} :
            \/ WebhookIgnored(e, b, amount)
            \/ WebhookInsufficient(e, b, amount)
            \/ WebhookConfirm(e, b, amount)
    \/ \E b \in Bookings, m \in Quotes,
          named \in SUBSET {"deposit", "remainder"} : Settle(b, m, named)
    \/ \E b \in Bookings : CheckIn(b) \/ DeleteBooking(b)
    \/ \E b \in Bookings, actor \in {"customer", "staff"},
          override \in {"auto", "refund", "forfeit"} : CancelBooking(b, actor, override)
    \/ ExpirePending \/ ExpireDrafts \/ MarkNoShows
    \/ RevokeSubscription
    \/ \E r \in RefundIds, b \in Bookings : AskRefund(r, b)
    \/ \E r \in RefundIds, amount \in Amounts : CreateRefund(r, amount)
    \/ \E r \in RefundIds : RefuseRefund(r) \/ ApproveRefund(r) \/ RejectRefund(r)
    \/ \E b \in Bookings, d \in Deadlines : Tick(b, d)

Spec == Init /\ [][Next]_vars

\* The cron process keeps ticking and retries a failed tick a minute later;
\* the payment window of a booking runs out.  Nobody else has to act.
FairSpec ==
    /\ Spec
    /\ WF_vars(ExpirePending) /\ WF_vars(ExpireDrafts)
    /\ \A b \in Bookings : WF_vars(Tick(b, "expiry"))

-----------------------------------------------------------------------------
(* What the code guarantees *)

Verified == Refundable \cup {"partially_refunded", "fully_refunded", "forfeited"}

\* Booking and payment rows are written by different handlers but never drift
\* apart: nobody holds, plays or misses a slot (subscriptions aside) unless the
\* deposit was approved, and a booking that is still open to payment, or lapsed
\* without one, has no approved payment.
PaymentFollowsBooking ==
    \A b \in Bookings :
        /\ status[b] \in {"absent", "draft", "pending_deposit", "expired"} =>
               payment[b] = "deposit_pending"
        /\ status[b] = "pending_verification" =>
               payment[b] \in {"deposit_pending", "deposit_rejected"}
        /\ status[b] \in {"confirmed", "checked_in", "no_show"} /\ b \notin Weekly =>
               payment[b] \in Verified

\* A refund row only ever stands against a payment somebody approved, although
\* the request reads the payment status before it holds the booking's lock.
RefundsStandOnVerified ==
    \A r \in RefundIds : refunds[r].state # "absent" =>
        payment[refunds[r].booking] \in Verified

\* Until a cancellation itself pays money back, the ledger's refunds, the
\* payment's refunded amount and the approved refund rows are the same sum.
RefundBooksAgree ==
    \A b \in Bookings : refundStatus[b] # "REFUNDED" =>
        /\ ledger[b].refund = refunded[b]
        /\ refunded[b] = SumOfRows(b, {"approved"})

\* What a cancellation settled stays what the booking says was collected: no
\* later settlement, gateway event or refund rewrites a closed booking's money.
CancelledBooksBalance ==
    \A b \in Bookings :
        /\ refundStatus[b] = "REFUNDED" =>
               ledger[b].refund = Collected(b) + SumOfRows(b, {"approved"})
        /\ ledger[b].forfeit =
               IF refundStatus[b] = "FORFEITED" THEN Collected(b) ELSE 0

\* The three books of the refunds tell one story, before and after a cancellation.
BooksBalance == RefundBooksAgree /\ CancelledBooksBalance

\* A closed booking never reopens, whatever event, upload, retry or cron tick
\* arrives late; only the owner's deletion may still relabel it.
TerminalIsFinal ==
    [][\A b \in Bookings : status[b] \in Terminal =>
          \/ status'[b] = status[b]
          \/ ~deleted[b] /\ deleted'[b]]_vars

\* The statuses that hold a slot against other bookings.
Holding == {"draft", "pending_deposit", "pending_verification", "confirmed", "checked_in"}

\* The subscription's occurrences that hold a slot still to come.
FutureHeld == {b \in Weekly : ~deleted[b] /\ status[b] \in Holding /\ "start" \notin passed[b]}

\* Revoking a subscription frees its future slots but for one kind: check-in has
\* no time guard and the revocation passes over a checked-in booking, so an
\* occurrence checked in ahead of its start keeps its slot.  The revocation
\* leaves no other, and nothing that happens afterwards adds one.
RevokedKeepsOnlyEarlyCheckIns ==
    [][subscription' = "cancelled" =>
          FutureHeld' \subseteq {b \in FutureHeld : status[b] = "checked_in"}]_vars

\* An unpaid slot does not stay blocked: a draft or a booking awaiting its
\* deposit moves on, if only because the cron job expires it.
UnpaidIsReleased ==
    \A b \in Bookings :
        status[b] \in {"draft", "pending_deposit"} ~>
            status[b] \notin {"draft", "pending_deposit"}

-----------------------------------------------------------------------------
(* What the documentation promises and the code does not keep *)

\* The cancellation: refunded_amount reflects the money actually returned.
RefundedIsReturned == \A b \in Bookings : refunded[b] = ledger[b].refund
=============================================================================
