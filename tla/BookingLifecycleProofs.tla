----------------------- MODULE BookingLifecycleProofs -----------------------
(***************************************************************************)
(* Theorems about the club's money (MCMoney): about BookingLifecycle and   *)
(* what CashBook reads from its rows, for any bookings, subscription,      *)
(* refund requests, gateway events and amounts, and about CoachingLedger,  *)
(* for any coaches, terms and sessions.                                    *)
(*                                                                         *)
(* The first part concerns what the handlers of a booking agree on without *)
(* comparing amounts: the statuses, the payment status, the refund         *)
(* requests and the deadlines.  The second adds up money: the columns of a *)
(* booking, the sum of its refund rows and the ledger move together        *)
(* (MoneySettled).  The third is about the sessions: of one it lists, a    *)
(* screen's price and split are the row's for ever; and about sums over    *)
(* the sessions and the coaches.  The sums are TotalProofs'.               *)
(***************************************************************************)
EXTENDS MCMoney, TotalProofs

-----------------------------------------------------------------------------
(* The rows *)

\* The occurrences of the subscription come into being with it, confirmed, and
\* a deleted booking is cancelled.
WeeklyRows ==
    /\ subscription = "none" => \A b \in Weekly : status[b] = "absent"
    /\ \A b \in Weekly :
          status[b] \in {"absent", "confirmed", "checked_in", "cancelled", "no_show"}
    /\ \A b \in Bookings : deleted[b] => status[b] = "cancelled"

\* After a revocation what is still confirmed has begun.
RevokedConfirmsNoFuture ==
    subscription = "cancelled" =>
        \A b \in Weekly : status[b] = "confirmed" => "start" \in passed[b]

\* The strengthening: payments follow bookings only because a refund, which
\* rewrites the payment status, never stands on an unapproved payment.
RowsAgree ==
    /\ WeeklyRows
    /\ PaymentFollowsBooking /\ RefundsStandOnVerified
    /\ RevokedConfirmsNoFuture

RowsInv == RowTypes /\ RowsAgree

-----------------------------------------------------------------------------
\* What the operations write into a row is a row.
LEMMA MoneyTypes ==
    /\ NoMoney \in Money /\ [NoMoney EXCEPT !.net = Price] \in Money
    /\ Quotes \subseteq Money
    /\ \A m \in Quotes, n \in Money : \A named : Settled(m, named, n) \in Money
    /\ \A m \in Money, amount \in Nat : PaidOnline(m, amount) \in Money
<1>1. /\ NoMoney \in Money /\ [NoMoney EXCEPT !.net = Price] \in Money
      /\ Quotes \subseteq Money
  BY PriceAssumption, QuotesAssumption DEF NoMoney, Money, Methods
<1>2. ASSUME NEW m \in Quotes, NEW n \in Money, NEW named
      PROVE  Settled(m, named, n) \in Money
  <2>1. m \in Money
    BY <1>1
  <2>2. QED
    BY <2>1 DEF Settled, Money
<1>3. ASSUME NEW m \in Money, NEW amount \in Nat
      PROVE  PaidOnline(m, amount) \in Money
  BY DEF PaidOnline, Money, Methods
<1>4. QED
  BY <1>1, <1>2, <1>3

LEMMA RefundTypes ==
    \A x \in Refund, state \in {"absent", "approved", "rejected"} :
        Became(x, state) \in Refund /\ Became(x, state).booking = x.booking
                                    /\ Became(x, state).state = state
  BY DEF Refund, Became

\* No booking has anything on file at the start.
LEMMA RowsInit == Init => RowsInv
<1> SUFFICES ASSUME Init PROVE RowsInv
  OBVIOUS
<1>1. RowTypes
  <2>1. AnyBooking \in Bookings
    BY BookingAssumption DEF AnyBooking
  <2>2. NoMoney \in Money
    BY MoneyTypes
  <2>3. QED
    BY <2>1, <2>2 DEF Init, RowTypes, PaymentStatus, Deadlines, Refund
<1>2. WeeklyRows
  BY WeeklyAssumption DEF Init, WeeklyRows
<1>3. PaymentFollowsBooking /\ RefundsStandOnVerified /\ RevokedConfirmsNoFuture
  BY WeeklyAssumption
     DEF Init, PaymentFollowsBooking, RefundsStandOnVerified, RevokedConfirmsNoFuture
<1>4. QED
  BY <1>1, <1>2, <1>3 DEF RowsInv, RowsAgree

\* Every operation writes values of the columns' types.
LEMMA TypesStep == RowTypes /\ [Next]_vars => RowTypes'
<1> SUFFICES ASSUME RowTypes, [Next]_vars PROVE RowTypes'
  OBVIOUS
<1> USE MoneyTypes, RefundTypes, AmountsAssumption
    DEF RowTypes, BookingStatus, PaymentStatus, Deadlines
<1>1. ASSUME NEW b \in Bookings, NEW role \in {"customer", "owner", "receptionist"},
             NEW m \in Quotes, NEW late \in PassedAtCreation,
             CreateBooking(b, role, m, late)
      PROVE  RowTypes'
  BY <1>1 DEF CreateBooking, PassedAtCreation
<1>2. CASE CreateSubscription
  BY <1>2 DEF CreateSubscription
<1>3. ASSUME NEW b \in Bookings, UploadReceipt(b)
      PROVE  RowTypes'
  BY <1>3 DEF UploadReceipt
<1>4. ASSUME NEW b \in Bookings, VerifyApprove(b)
      PROVE  RowTypes'
  BY <1>4 DEF VerifyApprove
<1>5. ASSUME NEW b \in Bookings, VerifyReject(b)
      PROVE  RowTypes'
  BY <1>5 DEF VerifyReject
<1>6. ASSUME NEW e \in Events, NEW b \in Bookings, NEW amount \in Amounts \ {0},
             WebhookIgnored(e, b, amount)
      PROVE  RowTypes'
  BY <1>6 DEF WebhookIgnored, RecordEvent
<1>7. ASSUME NEW e \in Events, NEW b \in Bookings, NEW amount \in Amounts \ {0},
             WebhookInsufficient(e, b, amount)
      PROVE  RowTypes'
  BY <1>7 DEF WebhookInsufficient, RecordEvent
<1>8. ASSUME NEW e \in Events, NEW b \in Bookings, NEW amount \in Amounts \ {0},
             WebhookConfirm(e, b, amount)
      PROVE  RowTypes'
  BY <1>8 DEF WebhookConfirm, RecordEvent
<1>9. ASSUME NEW b \in Bookings, NEW m \in Quotes,
             NEW named \in SUBSET {"deposit", "remainder"}, Settle(b, m, named)
      PROVE  RowTypes'
  BY <1>9 DEF Settle
<1>10. ASSUME NEW b \in Bookings, CheckIn(b)
      PROVE  RowTypes'
  BY <1>10 DEF CheckIn
<1>11. ASSUME NEW b \in Bookings, DeleteBooking(b)
      PROVE  RowTypes'
  BY <1>11 DEF DeleteBooking
<1>12. ASSUME NEW b \in Bookings, NEW actor \in {"customer", "staff"},
             NEW override \in {"auto", "refund", "forfeit"},
             CancelBooking(b, actor, override)
      PROVE  RowTypes'
  BY <1>12 DEF CancelBooking, Outcome
<1>13. CASE ExpirePending
  BY <1>13 DEF ExpirePending, BulkClose
<1>14. CASE ExpireDrafts
  BY <1>14 DEF ExpireDrafts, BulkClose
<1>15. CASE MarkNoShows
  BY <1>15 DEF MarkNoShows, BulkClose
<1>16. CASE RevokeSubscription
  BY <1>16 DEF RevokeSubscription
<1>17. ASSUME NEW r \in RefundIds, NEW b \in Bookings, AskRefund(r, b)
      PROVE  RowTypes'
  BY <1>17 DEF AskRefund, Refund
<1>18. ASSUME NEW r \in RefundIds, NEW amount \in Amounts, CreateRefund(r, amount)
      PROVE  RowTypes'
  BY <1>18 DEF CreateRefund, Refund
<1>19. ASSUME NEW r \in RefundIds, RefuseRefund(r)
      PROVE  RowTypes'
  BY <1>19 DEF RefuseRefund
<1>20. ASSUME NEW r \in RefundIds, ApproveRefund(r)
      PROVE  RowTypes'
  BY <1>20 DEF ApproveRefund, PaymentAfter
<1>21. ASSUME NEW r \in RefundIds, RejectRefund(r)
      PROVE  RowTypes'
  BY <1>21 DEF RejectRefund
<1>22. ASSUME NEW b \in Bookings, NEW d \in Deadlines, Tick(b, d)
      PROVE  RowTypes'
  BY <1>22 DEF Tick
<1>23. CASE UNCHANGED vars
  BY <1>23 DEF vars
<1>24. QED
  BY ONLY [Next]_vars, <1>1, <1>2, <1>3, <1>4, <1>5, <1>6, <1>7, <1>8, <1>9, <1>10, <1>11,
     <1>12, <1>13, <1>14, <1>15, <1>16, <1>17, <1>18, <1>19, <1>20, <1>21,
     <1>22, <1>23 DEF Next

\* Every operation keeps the invariant.
LEMMA RowsStep == RowsInv /\ [Next]_vars => RowsInv'
<1> SUFFICES ASSUME RowsInv, [Next]_vars
             PROVE  RowsAgree'
  BY TypesStep DEF RowsInv
<1> USE WeeklyAssumption, RefundTypes
    DEF RowsInv, RowsAgree, RowTypes, WeeklyRows, PaymentFollowsBooking,
        RefundsStandOnVerified, RevokedConfirmsNoFuture, Verified, Refundable
<1>1. ASSUME NEW b \in Bookings, NEW role \in {"customer", "owner", "receptionist"},
             NEW m \in Quotes, NEW late \in PassedAtCreation,
             CreateBooking(b, role, m, late)
      PROVE  RowsAgree'
  BY <1>1 DEF CreateBooking, PassedAtCreation
<1>2. CASE CreateSubscription
  BY <1>2 DEF CreateSubscription
<1>3. ASSUME NEW b \in Bookings, UploadReceipt(b)
      PROVE  RowsAgree'
  BY <1>3 DEF UploadReceipt
<1>4. ASSUME NEW b \in Bookings, VerifyApprove(b)
      PROVE  RowsAgree'
  BY <1>4 DEF VerifyApprove, AwaitingVerification
<1>5. ASSUME NEW b \in Bookings, VerifyReject(b)
      PROVE  RowsAgree'
  BY <1>5 DEF VerifyReject, AwaitingVerification
<1>6. ASSUME NEW e \in Events, NEW b \in Bookings, NEW amount \in Amounts \ {0},
             WebhookIgnored(e, b, amount)
      PROVE  RowsAgree'
  BY <1>6 DEF WebhookIgnored
<1>7. ASSUME NEW e \in Events, NEW b \in Bookings, NEW amount \in Amounts \ {0},
             WebhookInsufficient(e, b, amount)
      PROVE  RowsAgree'
  BY <1>7 DEF WebhookInsufficient, Unpaid
<1>8. ASSUME NEW e \in Events, NEW b \in Bookings, NEW amount \in Amounts \ {0},
             WebhookConfirm(e, b, amount)
      PROVE  RowsAgree'
  BY <1>8 DEF WebhookConfirm, Unpaid
<1>9. ASSUME NEW b \in Bookings, NEW m \in Quotes,
             NEW named \in SUBSET {"deposit", "remainder"}, Settle(b, m, named)
      PROVE  RowsAgree'
  BY <1>9 DEF Settle
<1>10. ASSUME NEW b \in Bookings, CheckIn(b)
      PROVE  RowsAgree'
  BY <1>10 DEF CheckIn
<1>11. ASSUME NEW b \in Bookings, DeleteBooking(b)
      PROVE  RowsAgree'
  BY <1>11 DEF DeleteBooking
<1>12. ASSUME NEW b \in Bookings, NEW actor \in {"customer", "staff"},
             NEW override \in {"auto", "refund", "forfeit"},
             CancelBooking(b, actor, override)
      PROVE  RowsAgree'
  BY <1>12 DEF CancelBooking
<1>13. CASE ExpirePending
  BY <1>13 DEF ExpirePending, BulkClose
<1>14. CASE ExpireDrafts
  BY <1>14 DEF ExpireDrafts, BulkClose
<1>15. CASE MarkNoShows
  BY <1>15 DEF MarkNoShows, BulkClose
<1>16. CASE RevokeSubscription
  BY <1>16 DEF RevokeSubscription, Revocable
<1>17. ASSUME NEW r \in RefundIds, NEW b \in Bookings, AskRefund(r, b)
      PROVE  RowsAgree'
  BY <1>17 DEF AskRefund, Refund
<1>18. ASSUME NEW r \in RefundIds, NEW amount \in Amounts, CreateRefund(r, amount)
      PROVE  RowsAgree'
  BY <1>18 DEF CreateRefund, Refund
<1>19. ASSUME NEW r \in RefundIds, RefuseRefund(r)
      PROVE  RowsAgree'
  BY <1>19 DEF RefuseRefund
<1>20. ASSUME NEW r \in RefundIds, ApproveRefund(r)
      PROVE  RowsAgree'
  BY <1>20 DEF ApproveRefund, PaymentAfter
<1>21. ASSUME NEW r \in RefundIds, RejectRefund(r)
      PROVE  RowsAgree'
  BY <1>21 DEF RejectRefund
<1>22. ASSUME NEW b \in Bookings, NEW d \in Deadlines, Tick(b, d)
      PROVE  RowsAgree'
  BY <1>22 DEF Tick
<1>23. CASE UNCHANGED vars
  BY <1>23 DEF vars
<1>24. ASSUME \/ \E e \in Events, b \in Bookings, amount \in Amounts \ {0} :
                    \/ WebhookIgnored(e, b, amount)
                    \/ WebhookInsufficient(e, b, amount)
                    \/ WebhookConfirm(e, b, amount)
              \/ \E b \in Bookings, m \in Quotes,
                    named \in SUBSET {"deposit", "remainder"} : Settle(b, m, named)
              \/ \E b \in Bookings : CheckIn(b) \/ DeleteBooking(b)
       PROVE  RowsAgree'
  BY <1>6, <1>7, <1>8, <1>9, <1>10, <1>11, <1>24
<1>25. ASSUME \/ \E r \in RefundIds, b \in Bookings : AskRefund(r, b)
              \/ \E r \in RefundIds, amount \in Amounts : CreateRefund(r, amount)
              \/ \E r \in RefundIds : RefuseRefund(r) \/ ApproveRefund(r) \/ RejectRefund(r)
              \/ \E b \in Bookings, d \in Deadlines : Tick(b, d)
       PROVE  RowsAgree'
  BY <1>17, <1>18, <1>19, <1>20, <1>21, <1>22, <1>25
<1>26. ASSUME \/ \E b \in Bookings, role \in {"customer", "owner", "receptionist"},
                    m \in Quotes, late \in PassedAtCreation : CreateBooking(b, role, m, late)
              \/ \E b \in Bookings : UploadReceipt(b) \/ VerifyApprove(b) \/ VerifyReject(b)
              \/ \E b \in Bookings, actor \in {"customer", "staff"},
                    override \in {"auto", "refund", "forfeit"} : CancelBooking(b, actor, override)
       PROVE  RowsAgree'
  BY <1>1, <1>3, <1>4, <1>5, <1>12, <1>26
<1>27. QED
  BY <1>2, <1>13, <1>14, <1>15, <1>16, <1>23, <1>24, <1>25, <1>26 DEF Next

\* No operation reopens a closed booking; only a deletion relabels it.
LEMMA TerminalStep ==
    RowsInv /\ [Next]_vars =>
        \A b \in Bookings : status[b] \in Terminal =>
            status'[b] = status[b] \/ (~deleted[b] /\ deleted'[b])
<1> SUFFICES ASSUME RowsInv, [Next]_vars, NEW x \in Bookings, status[x] \in Terminal
             PROVE  status'[x] = status[x] \/ (~deleted[x] /\ deleted'[x])
  OBVIOUS
<1> DEFINE Same == status'[x] = status[x] \/ (~deleted[x] /\ deleted'[x])
<1> USE WeeklyAssumption DEF RowsInv, RowsAgree, RowTypes, WeeklyRows, Terminal
<1>1. ASSUME NEW b \in Bookings, NEW role \in {"customer", "owner", "receptionist"},
             NEW m \in Quotes, NEW late \in PassedAtCreation,
             CreateBooking(b, role, m, late)
      PROVE  Same
  BY <1>1 DEF CreateBooking
<1>2. CASE CreateSubscription
  BY <1>2 DEF CreateSubscription
<1>3. ASSUME NEW b \in Bookings, UploadReceipt(b)
      PROVE  Same
  BY <1>3 DEF UploadReceipt
<1>4. ASSUME NEW b \in Bookings, VerifyApprove(b) \/ VerifyReject(b)
      PROVE  Same
  BY <1>4 DEF VerifyApprove, VerifyReject, AwaitingVerification
<1>5. ASSUME NEW e \in Events, NEW b \in Bookings, NEW amount \in Amounts \ {0},
             \/ WebhookIgnored(e, b, amount)
             \/ WebhookInsufficient(e, b, amount)
             \/ WebhookConfirm(e, b, amount)
      PROVE  Same
  BY <1>5 DEF WebhookIgnored, WebhookInsufficient, WebhookConfirm, Unpaid
<1>6. ASSUME NEW b \in Bookings, CheckIn(b)
      PROVE  Same
  BY <1>6 DEF CheckIn
<1>7. ASSUME NEW b \in Bookings, DeleteBooking(b)
      PROVE  Same
  BY <1>7 DEF DeleteBooking
<1>8. ASSUME NEW b \in Bookings, NEW actor \in {"customer", "staff"},
             NEW override \in {"auto", "refund", "forfeit"},
             CancelBooking(b, actor, override)
      PROVE  Same
  BY <1>8 DEF CancelBooking
<1>9. CASE ExpirePending \/ ExpireDrafts \/ MarkNoShows
  BY <1>9 DEF ExpirePending, ExpireDrafts, MarkNoShows, BulkClose
<1>10. CASE RevokeSubscription
  BY <1>10 DEF RevokeSubscription, Revocable
<1>11. CASE UNCHANGED status
  BY <1>11
<1>12. QED
  <2>1. ASSUME NEW b \in Bookings, NEW m \in Quotes,
               NEW named \in SUBSET {"deposit", "remainder"}, Settle(b, m, named)
        PROVE  UNCHANGED status
    BY ONLY <2>1 DEF Settle
  <2>2. ASSUME NEW r \in RefundIds,
               \/ \E b \in Bookings : AskRefund(r, b)
               \/ \E amount \in Amounts : CreateRefund(r, amount)
               \/ RefuseRefund(r) \/ ApproveRefund(r) \/ RejectRefund(r)
        PROVE  UNCHANGED status
    BY ONLY <2>2 DEF AskRefund, CreateRefund, RefuseRefund, ApproveRefund, RejectRefund
  <2>3. ASSUME NEW b \in Bookings, NEW d \in Deadlines, Tick(b, d)
        PROVE  UNCHANGED status
    BY ONLY <2>3 DEF Tick
  <2>4. UNCHANGED vars => UNCHANGED status
    BY ONLY DEF vars
  <2>5. QED
    BY ONLY [Next]_vars, <1>1, <1>2, <1>3, <1>4, <1>5, <1>6, <1>7, <1>8, <1>9, <1>10,
            <1>11, <2>1, <2>2, <2>3, <2>4 DEF Next

-----------------------------------------------------------------------------
LEMMA RowsInvariant == Spec => []RowsInv
<1>1. QED
  BY RowsInit, RowsStep, PTL DEF Spec

\* The statuses, payment statuses, refund requests, events and deadlines that
\* the tables hold are always ones their columns allow.
THEOREM RowTypesCorrect == Spec => []RowTypes
<1>1. RowsInv => RowTypes
  BY DEF RowsInv
<1>2. QED
  BY <1>1, RowsInvariant, PTL

\* Whatever the handlers, the gateway and the cron jobs do, a booking that is
\* held, played or missed has an approved payment, one still open has none.
THEOREM PaymentFollows == Spec => []PaymentFollowsBooking
<1>1. RowsInv => PaymentFollowsBooking
  BY DEF RowsInv, RowsAgree
<1>2. QED
  BY <1>1, RowsInvariant, PTL

\* A refund request never stands against a payment nobody approved, although
\* the payment status it was checked against may be out of date.
THEOREM RefundsStand == Spec => []RefundsStandOnVerified
<1>1. RowsInv => RefundsStandOnVerified
  BY DEF RowsInv, RowsAgree
<1>2. QED
  BY <1>1, RowsInvariant, PTL

\* What one step does to an occurrence of the subscription: it is checked in only
\* by the check-in of a confirmed one, no deadline is taken back, nothing undeleted.
LEMMA OccurrenceStep ==
    ASSUME RowsInv, [Next]_vars, NEW b \in Weekly, subscription = "cancelled"
    PROVE  /\ status'[b] = "checked_in" =>
                  \/ status[b] = "checked_in"
                  \/ status[b] = "confirmed" /\ passed' = passed
           /\ status'[b] # "absent" => passed[b] \subseteq passed'[b]
           /\ deleted[b] => deleted'[b]
<1> DEFINE Fine == /\ status'[b] = "checked_in" =>
                          \/ status[b] = "checked_in"
                          \/ status[b] = "confirmed" /\ passed' = passed
                   /\ status'[b] # "absent" => passed[b] \subseteq passed'[b]
                   /\ deleted[b] => deleted'[b]
<1>0. b \in Bookings /\ status \in [Bookings -> BookingStatus \cup {"absent"}]
      /\ passed \in [Bookings -> SUBSET Deadlines] /\ deleted \in [Bookings -> BOOLEAN]
  BY WeeklyAssumption DEF RowsInv, RowTypes
<1>1. ASSUME NEW c \in Bookings, NEW role \in {"customer", "owner", "receptionist"},
             NEW m \in Quotes, NEW late \in PassedAtCreation,
             CreateBooking(c, role, m, late)
      PROVE  Fine
  BY <1>0, <1>1 DEF CreateBooking
<1>2. ASSUME CreateSubscription PROVE Fine
  BY <1>0, <1>2 DEF CreateSubscription
<1>3. ASSUME NEW c \in Bookings, UploadReceipt(c) \/ VerifyApprove(c) \/ VerifyReject(c)
      PROVE  Fine
  BY <1>0, <1>3 DEF UploadReceipt, VerifyApprove, VerifyReject
<1>4. ASSUME NEW e \in Events, NEW c \in Bookings, NEW amount \in Amounts \ {0},
             \/ WebhookIgnored(e, c, amount)
             \/ WebhookInsufficient(e, c, amount)
             \/ WebhookConfirm(e, c, amount)
      PROVE  Fine
  BY <1>0, <1>4 DEF WebhookIgnored, WebhookInsufficient, WebhookConfirm
<1>5. ASSUME NEW c \in Bookings, NEW m \in Quotes,
             NEW named \in SUBSET {"deposit", "remainder"}, Settle(c, m, named)
      PROVE  Fine
  BY <1>0, <1>5 DEF Settle
<1>6. ASSUME NEW c \in Bookings, CheckIn(c)
      PROVE  Fine
  BY <1>0, <1>6 DEF CheckIn
<1>7. ASSUME NEW c \in Bookings, DeleteBooking(c)
      PROVE  Fine
  BY <1>0, <1>7 DEF DeleteBooking
<1>8. ASSUME NEW c \in Bookings, NEW actor \in {"customer", "staff"},
             NEW override \in {"auto", "refund", "forfeit"}, CancelBooking(c, actor, override)
      PROVE  Fine
  BY <1>0, <1>8 DEF CancelBooking
<1>9. ASSUME ExpirePending \/ ExpireDrafts \/ MarkNoShows PROVE Fine
  BY <1>0, <1>9 DEF ExpirePending, ExpireDrafts, MarkNoShows, BulkClose
<1>10. ASSUME RevokeSubscription PROVE Fine
  BY <1>10 DEF RevokeSubscription
<1>11. ASSUME NEW r \in RefundIds, RefuseRefund(r) \/ ApproveRefund(r) \/ RejectRefund(r)
       PROVE  Fine
  BY <1>0, <1>11 DEF RefuseRefund, ApproveRefund, RejectRefund
<1>12. ASSUME NEW c \in Bookings, NEW d \in Deadlines, Tick(c, d)
       PROVE  Fine
  BY <1>0, <1>12 DEF Tick
<1>13. ASSUME UNCHANGED vars PROVE Fine
  BY <1>0, <1>13 DEF vars
<1>14. ASSUME NEW r \in RefundIds, NEW c \in Bookings, AskRefund(r, c)
       PROVE  Fine
  BY <1>0, <1>14 DEF AskRefund
<1>15. ASSUME NEW r \in RefundIds, NEW amount \in Amounts, CreateRefund(r, amount)
       PROVE  Fine
  BY <1>0, <1>15 DEF CreateRefund
<1> HIDE DEF Fine
<1>16. ASSUME \/ \E b1 \in Bookings, role \in {"customer", "owner", "receptionist"},
                     m \in Quotes, late \in PassedAtCreation : CreateBooking(b1, role, m, late)
              \/ \E b1 \in Bookings : UploadReceipt(b1) \/ VerifyApprove(b1) \/ VerifyReject(b1)
              \/ \E b1 \in Bookings, actor \in {"customer", "staff"},
                    override \in {"auto", "refund", "forfeit"} : CancelBooking(b1, actor, override)
       PROVE  Fine
  BY <1>1, <1>3, <1>8, <1>16
<1>17. ASSUME \/ \E e \in Events, b1 \in Bookings, amount \in Amounts \ {0} :
                     \/ WebhookIgnored(e, b1, amount)
                     \/ WebhookInsufficient(e, b1, amount)
                     \/ WebhookConfirm(e, b1, amount)
              \/ \E b1 \in Bookings, m \in Quotes,
                    named \in SUBSET {"deposit", "remainder"} : Settle(b1, m, named)
              \/ \E b1 \in Bookings : CheckIn(b1) \/ DeleteBooking(b1)
       PROVE  Fine
  BY <1>4, <1>5, <1>6, <1>7, <1>17
<1>18. ASSUME \/ \E r \in RefundIds, b1 \in Bookings : AskRefund(r, b1)
              \/ \E r \in RefundIds, amount \in Amounts : CreateRefund(r, amount)
              \/ \E r \in RefundIds : RefuseRefund(r) \/ ApproveRefund(r) \/ RejectRefund(r)
              \/ \E b1 \in Bookings, d \in Deadlines : Tick(b1, d)
       PROVE  Fine
  BY <1>11, <1>12, <1>14, <1>15, <1>18
<1>19. Fine
  BY <1>2, <1>9, <1>10, <1>13, <1>16, <1>17, <1>18 DEF Next
<1>20. QED
  BY <1>19 DEF Fine

\* Of the future occurrences of a subscription of any length, the revocation
\* leaves only those checked in already, and no later step adds one.
THEOREM RevokedFreesAllButCheckedIn == Spec => RevokedKeepsOnlyEarlyCheckIns
<1>1. ASSUME RowsInv, [Next]_vars, subscription' = "cancelled", vars' # vars,
             NEW b \in FutureHeld'
      PROVE  b \in FutureHeld /\ status[b] = "checked_in"
  <2>1. /\ b \in Weekly /\ b \in Bookings
        /\ ~deleted'[b] /\ status'[b] \in Holding /\ "start" \notin passed'[b]
    BY <1>1, WeeklyAssumption DEF FutureHeld
  <2>2. RowsInv'
    BY <1>1, RowsStep
  <2>3. status'[b] = "checked_in"
    BY <1>1, <2>1, <2>2 DEF RowsInv, RowsAgree, WeeklyRows, RevokedConfirmsNoFuture, Holding
  <2>4. CASE subscription = "cancelled"
    <3>1. /\ \/ status[b] = "checked_in"
             \/ status[b] = "confirmed" /\ passed' = passed
          /\ passed[b] \subseteq passed'[b] /\ ~deleted[b]
      BY <1>1, <2>1, <2>3, <2>4, OccurrenceStep
    <3>2. status[b] # "confirmed" \/ "start" \in passed[b]
      BY <1>1, <2>1, <2>4 DEF RowsInv, RowsAgree, RevokedConfirmsNoFuture
    <3>3. QED
      BY <2>1, <3>1, <3>2 DEF FutureHeld, Holding
  <2>5. CASE subscription # "cancelled"
    <3>1. RevokeSubscription
      BY <1>1, <2>5 DEF Next, CreateBooking, CreateSubscription, UploadReceipt, VerifyApprove,
         VerifyReject, WebhookIgnored, WebhookInsufficient, WebhookConfirm, Settle, CheckIn,
         DeleteBooking, CancelBooking, ExpirePending, ExpireDrafts, MarkNoShows, BulkClose,
         AskRefund, CreateRefund, RefuseRefund, ApproveRefund, RejectRefund, Tick
    <3>2. status \in [Bookings -> BookingStatus \cup {"absent"}]
      BY <1>1 DEF RowsInv, RowTypes
    <3>3. status[b] = "checked_in" /\ passed' = passed /\ deleted' = deleted
      BY <2>1, <2>3, <3>1, <3>2 DEF RevokeSubscription
    <3>4. QED
      BY <2>1, <3>3 DEF FutureHeld, Holding
  <2>6. QED
    BY <2>4, <2>5
<1>2. RowsInv /\ [Next]_vars =>
          [subscription' = "cancelled" =>
              FutureHeld' \subseteq {b \in FutureHeld : status[b] = "checked_in"}]_vars
  BY <1>1
<1>3. QED
  BY <1>2, RowsInvariant, PTL DEF Spec, RevokedKeepsOnlyEarlyCheckIns

\* No booking that is completed, cancelled, missed or expired reopens.
THEOREM TerminalFinal == Spec => TerminalIsFinal
<1>1. RowsInv /\ [Next]_vars =>
          [\A b \in Bookings : status[b] \in Terminal =>
              \/ status'[b] = status[b]
              \/ ~deleted[b] /\ deleted'[b]]_vars
  BY TerminalStep
<1>2. QED
  BY <1>1, RowsInvariant, PTL DEF Spec, TerminalIsFinal

\* The filters of the gross queries let the same bookings through.
LEMMA GrossAgree ==
    RowsInv => \A b \in Bookings :
        /\ SummaryRevenue(b) = Gross(b)
        /\ "ONLINE" \notin {money[b].depBy, money[b].remBy} => SplitByMethod(b) = Gross(b)
<1>1. ASSUME RowsInv, NEW b \in Bookings PROVE SummaryRevenue(b) = Gross(b)
  <2>1. deleted[b] => status[b] = "cancelled"
    BY <1>1 DEF RowsInv, RowsAgree, WeeklyRows
  <2>2. "cancelled" \notin VerifiedStatuses
    BY DEF VerifiedStatuses
  <2>3. QED
    BY <2>1, <2>2 DEF SummaryRevenue, Gross
<1>2. ASSUME RowsInv, NEW b \in Bookings, "ONLINE" \notin {money[b].depBy, money[b].remBy}
      PROVE  SplitByMethod(b) = Gross(b)
  <2>1. money[b] \in Money
    BY <1>2 DEF RowsInv, RowTypes
  <2>2. /\ money[b].depBy \in {"NONE", "DESK"} /\ money[b].remBy \in {"NONE", "DESK"}
        /\ money[b].dep \in Nat /\ money[b].rem \in Nat
    BY <1>2, <2>1 DEF Money, Methods
  <2>3. OfDesk(money[b].depBy, money[b].dep) + OfDesk(money[b].remBy, money[b].rem) = Collected(b)
    BY <2>2 DEF OfDesk, Collected
  <2>4. QED
    BY <2>3 DEF SplitByMethod, Gross
<1>3. QED
  BY <1>1, <1>2

-----------------------------------------------------------------------------
(* The money *)

\* Only a cancellation settles, and what is settled as nothing was nothing.
SettledOnce ==
    \A b \in Bookings :
        /\ refundStatus[b] # "NONE" => status[b] = "cancelled"
        /\ refundStatus[b] = "NOT_APPLICABLE" => Collected(b) = 0

MoneySettled == SumTypes /\ SettledOnce /\ BooksBalance

Approved(b) == SumOfRows(b, {"approved"})

LEMMA SumIsNumber ==
    ASSUME RowTypes, NEW b
    PROVE  Approved(b) \in Nat
<1>1. RowsOf(b, {"approved"}) \in SUBSET RefundIds
  BY DEF RowsOf
<1>2. [r \in RefundIds |-> refunds[r].amount] \in [RefundIds -> Nat]
  BY DEF RowTypes, Refund
<1>3. QED
  BY <1>1, <1>2, RefundsAssumption, TotalType DEF Approved, SumOfRows

LEMMA CollectedIsNumber ==
    ASSUME RowTypes, NEW b \in Bookings
    PROVE  Collected(b) \in Nat
BY DEF RowTypes, Money, Collected

\* A request that is not approved, before or after, changes no sum.
LEMMA ApprovedKept ==
    ASSUME RowTypes, NEW r \in RefundIds, NEW x, refunds' = [refunds EXCEPT ![r] = x],
           refunds[r].state # "approved", x.state # "approved"
    PROVE  \A b : Approved(b)' = Approved(b)
<1> SUFFICES ASSUME NEW b PROVE Approved(b)' = Approved(b)
  OBVIOUS
<1> DEFINE S == RowsOf(b, {"approved"})
           f == [i \in RefundIds |-> refunds[i].amount]
           g == [i \in RefundIds |-> refunds'[i].amount]
<1>1. \A i \in RefundIds : i # r => refunds'[i] = refunds[i]
  BY DEF RowTypes
<1>2. refunds'[r] = x
  BY DEF RowTypes
<1>3. S' = S /\ \A i \in S : i \in RefundIds /\ i # r
  BY <1>1, <1>2 DEF RowsOf
<1>4. \A i \in S : f[i] = g[i]
  BY <1>1, <1>3
<1>5. IsFiniteSet(S)
  BY <1>3, RefundsAssumption, FS_Subset
<1>6. Approved(b)' = Total(S', g) /\ Approved(b) = Total(S, f)
  BY DEF Approved, SumOfRows
<1> HIDE DEF S, f, g
<1>7. QED
  BY <1>3, <1>4, <1>5, <1>6, TotalSame

\* A step that moves no money keeps the books, if it leaves what a cancelled
\* booking has collected alone.
LEMMA BooksKept ==
    ASSUME MoneySettled, UNCHANGED <<refundStatus, refunded, ledger>>,
           \A b : Approved(b)' = Approved(b),
           \A b \in Bookings : status[b] = "cancelled" => status'[b] = "cancelled" /\ money'[b] = money[b]
    PROVE  MoneySettled'
<1> USE DEF MoneySettled, SettledOnce, BooksBalance
<1>1. \A b \in Bookings : status[b] = "cancelled" => Collected(b)' = Collected(b)
  BY DEF Collected
<1>2. SumTypes'
  BY DEF SumTypes
<1>3. SettledOnce'
  BY <1>1
<1>4. RefundBooksAgree'
  BY DEF RefundBooksAgree, Approved
<1>5. CancelledBooksBalance'
  BY <1>1 DEF CancelledBooksBalance, Approved
<1>6. QED
  BY <1>2, <1>3, <1>4, <1>5

\* The refund, the payment and the ledger take the same amount.
LEMMA ApproveKeepsBooks ==
    ASSUME RowsInv, MoneySettled, NEW r \in RefundIds, ApproveRefund(r)
    PROVE  MoneySettled'
<1> DEFINE b == refunds[r].booking
           a == refunds[r].amount
           S(x) == RowsOf(x, {"approved"})
           f == [i \in RefundIds |-> refunds[i].amount]
<1>1. RowTypes /\ b \in Bookings /\ a \in Nat /\ refunds[r].state = "pending"
  BY DEF RowsInv, RowTypes, Refund, ApproveRefund
<1>2. /\ refunds' = [refunds EXCEPT ![r] = Became(@, "approved")]
      /\ refunded' = [refunded EXCEPT ![b] = RefundedAfter(r)]
      /\ ledger' = [ledger EXCEPT ![b].refund = @ + a]
      /\ UNCHANGED <<status, money, refundStatus>>
  BY DEF ApproveRefund
<1>3. /\ refunds'[r].state = "approved" /\ refunds'[r].booking = b /\ refunds'[r].amount = a
      /\ \A i \in RefundIds : i # r => refunds'[i] = refunds[i]
  BY <1>1, <1>2 DEF RowTypes, Refund, Became
<1>4. /\ [i \in RefundIds |-> refunds'[i].amount] = f /\ f \in [RefundIds -> Nat] /\ f[r] = a
      /\ \A x : S(x) \in SUBSET RefundIds /\ Approved(x) = Total(S(x), f)
      /\ \A x : Approved(x)' = Total(RowsOf(x, {"approved"})', f)
  <2>1. [i \in RefundIds |-> refunds'[i].amount] = f /\ f[r] = a
    BY <1>3
  <2>2. f \in [RefundIds -> Nat]
    BY <1>1 DEF RowTypes, Refund
  <2>3. \A x : S(x) \in SUBSET RefundIds /\ Approved(x) = Total(S(x), f)
    BY DEF RowsOf, Approved, SumOfRows
  <2>4. \A x : Approved(x)' = Total(RowsOf(x, {"approved"})', [i \in RefundIds |-> refunds'[i].amount])
    BY DEF Approved, SumOfRows
  <2>5. QED
    BY <2>1, <2>2, <2>3, <2>4
<1>5. \A x : x # b => Approved(x)' = Approved(x)
  <2> SUFFICES ASSUME NEW x, x # b PROVE Approved(x)' = Approved(x)
    OBVIOUS
  <2>1. RowsOf(x, {"approved"})' = RowsOf(x, {"approved"})
    BY <1>1, <1>3 DEF RowsOf
  <2> HIDE DEF f
  <2>2. QED
    BY <1>4, <2>1
<1>6. \A x : x = b => Approved(x)' = Approved(x) + a
  <2> SUFFICES ASSUME NEW x, x = b PROVE Approved(x)' = Approved(x) + a
    OBVIOUS
  <2>1. RowsOf(x, {"approved"})' = S(x) \cup {r} /\ r \notin S(x)
    BY <1>1, <1>3 DEF RowsOf
  <2> HIDE DEF f, S
  <2>2. Total(S(x) \cup {r}, f) = Total(S(x), f) + f[r]
    BY <1>4, <2>1, RefundsAssumption, TotalAdds
  <2>3. QED
    BY <1>4, <2>1, <2>2
<1>7. RefundedAfter(r) = Approved(b) + a /\ Approved(b) \in Nat
  BY <1>1, SumIsNumber DEF RefundedAfter, Approved
<1>8. \A x \in Bookings : Collected(x)' = Collected(x) /\ Collected(x) \in Nat
  BY <1>1, <1>2, CollectedIsNumber DEF Collected
<1> HIDE DEF a, f, S
<1>9. /\ refunded \in [Bookings -> Nat] /\ ledger \in [Bookings -> [refund : Nat, forfeit : Nat]]
  BY DEF MoneySettled, SumTypes
<1>10. /\ refunded'[b] = Approved(b) + a /\ ledger'[b].refund = ledger[b].refund + a
       /\ ledger'[b].forfeit = ledger[b].forfeit
       /\ \A x \in Bookings : x # b => refunded'[x] = refunded[x] /\ ledger'[x] = ledger[x]
  BY <1>1, <1>2, <1>7, <1>9
<1>11. SumTypes'
  <2>1. Approved(b) + a \in Nat
    BY <1>1, <1>7
  <2>2. refunded' \in [Bookings -> Nat]
    BY <1>2, <1>7, <1>9, <2>1
  <2>3. ledger' \in [Bookings -> [refund : Nat, forfeit : Nat]]
    BY <1>1, <1>2, <1>9
  <2>4. QED
    BY <2>2, <2>3 DEF SumTypes
<1>12. SettledOnce'
  BY <1>2, <1>8 DEF MoneySettled, SettledOnce
<1>13. RefundBooksAgree'
  <2> SUFFICES ASSUME NEW x \in Bookings, refundStatus[x] # "REFUNDED"
               PROVE  ledger'[x].refund = refunded'[x] /\ refunded'[x] = Approved(x)'
    BY <1>2 DEF RefundBooksAgree, Approved
  <2>1. ledger[x].refund = refunded[x] /\ refunded[x] = Approved(x)
    BY DEF MoneySettled, BooksBalance, RefundBooksAgree, Approved
  <2>2. CASE x = b
    BY <1>6, <1>10, <2>1, <2>2
  <2>3. CASE x # b
    BY <1>5, <1>10, <2>1, <2>3
  <2>4. QED
    BY <2>2, <2>3
<1>14. CancelledBooksBalance'
  <2> SUFFICES ASSUME NEW x \in Bookings
               PROVE  /\ refundStatus[x] = "REFUNDED" => ledger'[x].refund = Collected(x) + Approved(x)'
                      /\ ledger'[x].forfeit = IF refundStatus[x] = "FORFEITED" THEN Collected(x) ELSE 0
    BY <1>2, <1>8 DEF CancelledBooksBalance, Approved
  <2>1. /\ refundStatus[x] = "REFUNDED" => ledger[x].refund = Collected(x) + Approved(x)
        /\ ledger[x].forfeit = IF refundStatus[x] = "FORFEITED" THEN Collected(x) ELSE 0
    BY DEF MoneySettled, BooksBalance, CancelledBooksBalance, Approved
  <2>2. CASE x = b
    BY <1>1, <1>6, <1>7, <1>8, <1>10, <2>1, <2>2
  <2>3. CASE x # b
    BY <1>5, <1>10, <2>1, <2>3
  <2>4. QED
    BY <2>2, <2>3
<1>15. QED
  BY <1>11, <1>12, <1>13, <1>14 DEF MoneySettled, BooksBalance

\* A cancellation pays back, keeps or finds nothing, once: the booking was open.
LEMMA CancelKeepsBooks ==
    ASSUME RowsInv, MoneySettled, NEW b \in Bookings, NEW actor \in {"customer", "staff"},
           NEW override \in {"auto", "refund", "forfeit"}, CancelBooking(b, actor, override)
    PROVE  MoneySettled'
<1> DEFINE o == Outcome(b, actor, override)
           k == Collected(b)
<1>1. RowTypes /\ refundStatus[b] = "NONE" /\ status[b] # "cancelled"
  BY DEF RowsInv, MoneySettled, SettledOnce, CancelBooking, Terminal
<1>2. /\ refundStatus' = [refundStatus EXCEPT ![b] = o]
      /\ refunded' = [refunded EXCEPT ![b] = IF o = "REFUNDED" THEN k ELSE @]
      /\ ledger' = CASE o = "REFUNDED"  -> [ledger EXCEPT ![b].refund = @ + k]
                      [] o = "FORFEITED" -> [ledger EXCEPT ![b].forfeit = @ + k]
                      [] OTHER -> ledger
      /\ status' = [status EXCEPT ![b] = "cancelled"]
      /\ UNCHANGED <<money, refunds>>
  BY DEF CancelBooking
<1>3. /\ k \in Nat /\ o \in {"NOT_APPLICABLE", "REFUNDED", "FORFEITED"}
      /\ o = "NOT_APPLICABLE" => k = 0
  <2>1. k \in Nat
    BY <1>1, CollectedIsNumber
  <2>2. QED
    BY <2>1 DEF Outcome
<1>4. /\ \A x \in Bookings : Collected(x)' = Collected(x)
      /\ \A x : Approved(x)' = Approved(x)
  BY <1>2 DEF Collected, Approved, SumOfRows, RowsOf
<1> HIDE DEF o
<1>5. /\ refunded \in [Bookings -> Nat] /\ ledger \in [Bookings -> [refund : Nat, forfeit : Nat]]
      /\ refundStatus \in [Bookings -> {"NONE", "REFUNDED", "FORFEITED", "NOT_APPLICABLE"}]
      /\ status \in [Bookings -> BookingStatus \cup {"absent"}]
  BY <1>1 DEF MoneySettled, SumTypes, RowTypes
<1>6. /\ refundStatus'[b] = o /\ status'[b] = "cancelled"
      /\ \A x \in Bookings : x # b =>
             /\ refundStatus'[x] = refundStatus[x] /\ status'[x] = status[x]
             /\ refunded'[x] = refunded[x] /\ ledger'[x] = ledger[x]
  BY <1>2, <1>3, <1>5
<1>7. ledger[b].forfeit = 0 /\ ledger[b].refund = refunded[b] /\ refunded[b] = Approved(b)
      /\ Approved(b) \in Nat
  BY <1>1, SumIsNumber
     DEF MoneySettled, BooksBalance, RefundBooksAgree, CancelledBooksBalance, Approved
<1>8. /\ ledger'[b].refund = IF o = "REFUNDED" THEN Approved(b) + k ELSE Approved(b)
      /\ ledger'[b].forfeit = IF o = "FORFEITED" THEN k ELSE 0
      /\ o # "REFUNDED" => refunded'[b] = refunded[b]
  <2>1. CASE o = "REFUNDED"
    BY <1>2, <1>5, <1>7, <2>1
  <2>2. CASE o = "FORFEITED"
    BY <1>2, <1>3, <1>5, <1>7, <2>2
  <2>3. CASE o = "NOT_APPLICABLE"
    BY <1>2, <1>5, <1>7, <2>3
  <2>4. QED
    BY <1>3, <2>1, <2>2, <2>3
<1>9. SumTypes'
  <2>1. refunded' \in [Bookings -> Nat]
    BY <1>2, <1>3, <1>5
  <2>2. ledger' \in [Bookings -> [refund : Nat, forfeit : Nat]]
    BY <1>2, <1>3, <1>5
  <2>3. QED
    BY <2>1, <2>2 DEF SumTypes
<1>10. SettledOnce'
  <2> SUFFICES ASSUME NEW x \in Bookings
               PROVE  /\ refundStatus'[x] # "NONE" => status'[x] = "cancelled"
                      /\ refundStatus'[x] = "NOT_APPLICABLE" => Collected(x) = 0
    BY <1>4 DEF SettledOnce
  <2>1. CASE x = b
    BY <1>3, <1>6, <2>1
  <2>2. CASE x # b
    BY <1>6, <2>2 DEF MoneySettled, SettledOnce
  <2>3. QED
    BY <2>1, <2>2
<1>11. RefundBooksAgree'
  <2> SUFFICES ASSUME NEW x \in Bookings, refundStatus'[x] # "REFUNDED"
               PROVE  ledger'[x].refund = refunded'[x] /\ refunded'[x] = Approved(x)
    BY <1>4 DEF RefundBooksAgree, Approved
  <2>1. CASE x = b
    BY <1>6, <1>7, <1>8, <2>1
  <2>2. CASE x # b
    BY <1>6, <2>2 DEF MoneySettled, BooksBalance, RefundBooksAgree, Approved
  <2>3. QED
    BY <2>1, <2>2
<1>12. CancelledBooksBalance'
  <2> SUFFICES ASSUME NEW x \in Bookings
               PROVE  /\ refundStatus'[x] = "REFUNDED" => ledger'[x].refund = Collected(x) + Approved(x)
                      /\ ledger'[x].forfeit = IF refundStatus'[x] = "FORFEITED" THEN Collected(x) ELSE 0
    BY <1>4 DEF CancelledBooksBalance, Approved
  <2>1. CASE x = b
    BY <1>3, <1>6, <1>7, <1>8, <2>1
  <2>2. CASE x # b
    BY <1>6, <2>2 DEF MoneySettled, BooksBalance, CancelledBooksBalance, Approved
  <2>3. QED
    BY <2>1, <2>2
<1>13. QED
  BY <1>9, <1>10, <1>11, <1>12 DEF MoneySettled, BooksBalance

LEMMA BooksInit == Init => MoneySettled
<1> SUFFICES ASSUME Init PROVE MoneySettled
  OBVIOUS
<1>1. SumTypes /\ SettledOnce
  BY DEF Init, SumTypes, SettledOnce
<1>2. \A b : Approved(b) = 0
  <2>1. \A b : RowsOf(b, {"approved"}) = {}
    BY DEF Init, RowsOf
  <2>2. QED
    BY <2>1, TotalEmpty DEF Approved, SumOfRows
<1>3. BooksBalance
  BY <1>2 DEF Init, BooksBalance, RefundBooksAgree, CancelledBooksBalance, Approved
<1>4. QED
  BY <1>1, <1>3 DEF MoneySettled

\* Every operation keeps the books; most move no money.
LEMMA BooksStep == RowsInv /\ MoneySettled /\ [Next]_vars => MoneySettled'
<1> SUFFICES ASSUME RowsInv, MoneySettled, [Next]_vars
             PROVE  MoneySettled'
  OBVIOUS
<1> DEFINE Still == \A b \in Bookings : status[b] = "cancelled" =>
                        status'[b] = "cancelled" /\ money'[b] = money[b]
           Moves == UNCHANGED <<refundStatus, refunded, ledger>>
<1>0. RowTypes /\ Weekly \subseteq Bookings /\ WeeklyRows
  BY WeeklyAssumption DEF RowsInv, RowsAgree
\* An operation that touches no refund row.
<1>1. ASSUME UNCHANGED refunds, Moves, Still PROVE MoneySettled'
  <2>1. \A b : Approved(b)' = Approved(b)
    BY <1>1 DEF Approved, SumOfRows, RowsOf
  <2>2. QED
    BY <1>1, <2>1, BooksKept
\* One that touches a refund row, but approves nothing.
<1>2. ASSUME NEW r \in RefundIds, NEW x, refunds' = [refunds EXCEPT ![r] = x],
             refunds[r].state # "approved", x.state # "approved", Moves, UNCHANGED <<status, money>>
      PROVE  MoneySettled'
  <2>1. \A b : Approved(b)' = Approved(b)
    BY <1>0, <1>2, ApprovedKept
  <2>2. QED
    BY <1>2, <2>1, BooksKept
<1>3. ASSUME NEW b \in Bookings, NEW role \in {"customer", "owner", "receptionist"},
             NEW m \in Quotes, NEW late \in PassedAtCreation,
             CreateBooking(b, role, m, late)
      PROVE  MoneySettled'
  BY <1>0, <1>1, <1>3 DEF CreateBooking, RowTypes
<1>4. CASE CreateSubscription
  BY <1>0, <1>1, <1>4 DEF CreateSubscription, RowTypes, WeeklyRows
<1>5. ASSUME NEW b \in Bookings, UploadReceipt(b) \/ VerifyApprove(b) \/ VerifyReject(b)
      PROVE  MoneySettled'
  BY <1>0, <1>1, <1>5 DEF UploadReceipt, VerifyApprove, VerifyReject, AwaitingVerification, RowTypes
<1>6. ASSUME NEW e \in Events, NEW b \in Bookings, NEW amount \in Amounts \ {0},
             \/ WebhookIgnored(e, b, amount)
             \/ WebhookInsufficient(e, b, amount)
             \/ WebhookConfirm(e, b, amount)
      PROVE  MoneySettled'
  BY <1>0, <1>1, <1>6 DEF WebhookIgnored, WebhookInsufficient, WebhookConfirm, Unpaid, RowTypes
<1>7. ASSUME NEW b \in Bookings, NEW m \in Quotes,
             NEW named \in SUBSET {"deposit", "remainder"}, Settle(b, m, named)
      PROVE  MoneySettled'
  BY <1>0, <1>1, <1>7 DEF Settle, Settleable, Terminal, RowTypes
<1>8. ASSUME NEW b \in Bookings, CheckIn(b) \/ DeleteBooking(b)
      PROVE  MoneySettled'
  BY <1>0, <1>1, <1>8 DEF CheckIn, DeleteBooking, RowTypes
<1>9. CASE ExpirePending \/ ExpireDrafts \/ MarkNoShows
  BY <1>0, <1>1, <1>9 DEF ExpirePending, ExpireDrafts, MarkNoShows, BulkClose, RowTypes
<1>10. CASE RevokeSubscription
  BY <1>0, <1>1, <1>10 DEF RevokeSubscription, RowTypes
<1>11. ASSUME NEW r \in RefundIds, NEW b \in Bookings, AskRefund(r, b)
       PROVE  MoneySettled'
  <2> DEFINE x == [state |-> "asked", booking |-> b, amount |-> 0]
  <2>1. /\ refunds' = [refunds EXCEPT ![r] = x] /\ refunds[r].state = "absent" /\ x.state = "asked"
        /\ Moves /\ UNCHANGED <<status, money>>
    BY <1>11 DEF AskRefund
  <2> HIDE DEF x
  <2>2. QED
    BY <1>2, <2>1
<1>12. ASSUME NEW r \in RefundIds, NEW amount \in Amounts, CreateRefund(r, amount)
       PROVE  MoneySettled'
  <2> DEFINE x == [state |-> "pending", booking |-> refunds[r].booking, amount |-> amount]
  <2>1. /\ refunds' = [refunds EXCEPT ![r] = x] /\ refunds[r].state = "asked" /\ x.state = "pending"
        /\ Moves /\ UNCHANGED <<status, money>>
    BY <1>12 DEF CreateRefund
  <2> HIDE DEF x
  <2>2. QED
    BY <1>2, <2>1
<1>13. ASSUME NEW r \in RefundIds, RefuseRefund(r)
       PROVE  MoneySettled'
  <2>1. /\ refunds' = [refunds EXCEPT ![r] = Became(refunds[r], "absent")]
        /\ refunds[r].state = "asked" /\ Became(refunds[r], "absent").state = "absent"
    BY <1>0, <1>13, RefundTypes DEF RefuseRefund, RowTypes
  <2>2. QED
    BY <1>2, <1>13, <2>1 DEF RefuseRefund
<1>14. ASSUME NEW r \in RefundIds, RejectRefund(r)
       PROVE  MoneySettled'
  <2>1. /\ refunds' = [refunds EXCEPT ![r] = Became(refunds[r], "rejected")]
        /\ refunds[r].state = "pending" /\ Became(refunds[r], "rejected").state = "rejected"
    BY <1>0, <1>14, RefundTypes DEF RejectRefund, RowTypes
  <2>2. QED
    BY <1>2, <1>14, <2>1 DEF RejectRefund
<1>15. ASSUME NEW b \in Bookings, NEW d \in Deadlines, Tick(b, d)
       PROVE  MoneySettled'
  BY <1>1, <1>15 DEF Tick
<1>16. CASE UNCHANGED vars
  BY <1>1, <1>16 DEF vars
<1> HIDE DEF Still, Moves
<1>17. QED
  BY ONLY RowsInv, MoneySettled, [Next]_vars, <1>3, <1>4, <1>5, <1>6, <1>7, <1>8, <1>9, <1>10, <1>11,
     <1>12, <1>13, <1>14, <1>15, <1>16, CancelKeepsBooks, ApproveKeepsBooks DEF Next

LEMMA MoneyInvariant == Spec => [](RowsInv /\ MoneySettled)
<1>1. QED
  BY RowsInit, RowsStep, BooksInit, BooksStep, PTL DEF Spec

\* Every row has its type, the money columns and the ledger included.
THEOREM EveryRowTyped == Spec => []TypeOK
<1>1. RowsInv /\ MoneySettled => TypeOK
  BY DEF RowsInv, MoneySettled, TypeOK
<1>2. QED
  BY <1>1, MoneyInvariant, PTL

\* The refund rows that were approved, the refunded amount of the payment and
\* the ledger are one sum, however many refunds there are and whenever the
\* booking is cancelled; and what a cancellation settled is never rewritten
\* (updateRefundStatus, cancelBooking).
THEOREM BooksAgree == Spec => []BooksBalance
<1>1. MoneySettled => BooksBalance
  BY DEF MoneySettled
<1>2. QED
  BY <1>1, MoneyInvariant, PTL

\* The revenue on the day's summary and on the analytics page, the split by method
\* and the court revenue and income of the finance page, one against the other: the
\* refunds approved on open bookings and the forfeits are all that tells them apart
\* (getFinancialSummary, getAnalyticsOverview, getFinancials).
THEOREM ReportsDifferAsNamed == Spec => []ScreensDifferAsNamed
<1>1. ASSUME RowsInv, MoneySettled, NEW b \in Bookings
      PROVE  /\ SummaryRevenue(b) - FinanceRevenue(b) =
                    IF status[b] \in VerifiedStatuses THEN SumOfRows(b, {"approved"}) ELSE 0
             /\ BookingIncome(b) - FinanceRevenue(b) =
                    IF refundStatus[b] = "FORFEITED" THEN Collected(b) ELSE 0
  <2>1. RowTypes /\ Collected(b) \in Nat
    BY <1>1, CollectedIsNumber DEF RowsInv
  <2>2. ledger[b] \in [refund : Nat, forfeit : Nat]
    BY <1>1 DEF MoneySettled, SumTypes
  <2>3. /\ refundStatus[b] # "NONE" => status[b] = "cancelled"
        /\ refundStatus[b] # "REFUNDED" => ledger[b].refund = SumOfRows(b, {"approved"})
        /\ ledger[b].forfeit = IF refundStatus[b] = "FORFEITED" THEN Collected(b) ELSE 0
    BY <1>1, <2>1 DEF MoneySettled, SettledOnce, BooksBalance, RefundBooksAgree, CancelledBooksBalance
  <2>4. SummaryRevenue(b) = Gross(b)
    BY <1>1, GrossAgree
  <2>5. Gross(b) \in Nat /\ RefundsOut(b) \in Nat
    BY <2>1, <2>2 DEF Gross, RefundsOut
  <2>6. RefundsOut(b) = IF status[b] \in VerifiedStatuses THEN SumOfRows(b, {"approved"}) ELSE 0
    BY <2>3 DEF RefundsOut, VerifiedStatuses
  <2>7. FinanceRevenue(b) = Gross(b) - RefundsOut(b) /\ FinanceRevenue(b) \in Int
    BY <2>5 DEF FinanceRevenue
  <2>8. SummaryRevenue(b) - FinanceRevenue(b) = RefundsOut(b)
    BY <2>4, <2>5, <2>7
  <2>9. BookingIncome(b) - FinanceRevenue(b) = ledger[b].forfeit
    BY <2>2, <2>7 DEF BookingIncome
  <2>10. QED
    BY <2>3, <2>6, <2>8, <2>9
<1>2. RowsInv /\ MoneySettled => ScreensDifferAsNamed
  BY <1>1, GrossAgree DEF ScreensDifferAsNamed
<1>3. QED
  BY <1>2, MoneyInvariant, PTL

\* The finance page counts once the money the club kept of every booking, the three
\* kinds the property names apart, and what the other screens show is told from it.
THEOREM MoneyAccountedFor == Spec => []ScreensAccountForMoney
<1>1. ASSUME RowsInv, MoneySettled PROVE FinanceCountsMoneyKept
  <2> SUFFICES ASSUME NEW b \in Bookings,
                      ~deleted[b],
                      refundStatus[b] = "NONE" \/ RowsOf(b, {"approved"}) = {},
                      status[b] \in VerifiedStatuses \/ refundStatus[b] # "NONE"
               PROVE  BookingIncome(b) = Collected(b) - ledger[b].refund
    BY DEF FinanceCountsMoneyKept
  <2>1. RowTypes /\ Collected(b) \in Nat
    BY <1>1, CollectedIsNumber DEF RowsInv
  <2>2. ledger[b] \in [refund : Nat, forfeit : Nat]
    BY <1>1 DEF MoneySettled, SumTypes
  <2>3. /\ refundStatus[b] \in {"NONE", "REFUNDED", "FORFEITED", "NOT_APPLICABLE"}
        /\ refundStatus[b] # "NONE" => status[b] = "cancelled"
        /\ refundStatus[b] = "NOT_APPLICABLE" => Collected(b) = 0
        /\ refundStatus[b] # "REFUNDED" => ledger[b].refund = Approved(b)
        /\ refundStatus[b] = "REFUNDED" => ledger[b].refund = Collected(b) + Approved(b)
        /\ ledger[b].forfeit = IF refundStatus[b] = "FORFEITED" THEN Collected(b) ELSE 0
    BY <1>1, <2>1 DEF MoneySettled, SettledOnce, BooksBalance, RefundBooksAgree, CancelledBooksBalance,
                      Approved, RowTypes
  <2>4. CASE status[b] \in VerifiedStatuses
    <3>1. refundStatus[b] = "NONE"
      BY <2>3, <2>4 DEF VerifiedStatuses
    <3>2. Gross(b) = Collected(b) /\ RefundsOut(b) = ledger[b].refund /\ ledger[b].forfeit = 0
      BY <2>3, <2>4, <3>1 DEF Gross, RefundsOut
    <3>3. QED
      BY <2>1, <2>2, <3>2 DEF BookingIncome, FinanceRevenue
  <2>5. CASE status[b] \notin VerifiedStatuses
    <3>1. Approved(b) = 0
      BY <2>5, TotalEmpty DEF Approved, SumOfRows
    <3>2. Gross(b) = 0 /\ RefundsOut(b) = 0
      BY <2>5 DEF Gross, RefundsOut
    <3>3. QED
      BY <2>1, <2>2, <2>3, <2>5, <3>1, <3>2 DEF BookingIncome, FinanceRevenue
  <2>6. QED
    BY <2>4, <2>5
<1>2. RowsInv /\ MoneySettled => FinanceCountsMoneyKept
  BY <1>1
<1>3. QED
  BY <1>2, MoneyInvariant, ReportsDifferAsNamed, PTL DEF ScreensAccountForMoney

-----------------------------------------------------------------------------
(* The sessions of a coach *)

Cells == [status : {"absent", "scheduled", "completed", "cancelled"}, coach : Trainers \cup {NotLogged.coach},
          price : Int, coachShare : Int, clubShare : Int, paid : BOOLEAN]

\* The types, with integers for the amounts: the split of a price is one.
LedgerTypes ==
    /\ terms \in [Trainers -> [of : Deals, active : BOOLEAN]]
    /\ training \in [Trainings -> Cells]
    /\ collected \in [Trainings -> [times : Int, price : Int, coachShare : Int, clubShare : Int]]
    /\ till \in [terms : [Trainers -> [of : Deals, active : BOOLEAN]],
                  rows : [Trainings -> Cells], current : BOOLEAN]

\* What a screen lists is logged, and has the amounts it was listed with.
ShownAsLogged ==
    \A t \in Trainings : till.rows[t].status # "absent" =>
        /\ t \in Logged
        /\ till.rows[t].price = training[t].price
        /\ till.rows[t].coachShare = training[t].coachShare
        /\ till.rows[t].clubShare = training[t].clubShare

UpToDate == till.current => till.rows = training /\ till.terms = terms

\* The inductive invariant of the ledger.
LedgerInv == LedgerTypes /\ ShownAsLogged /\ UpToDate /\ EachTakenOnce

\* A price and its split are integers.
LEMMA SplitTypes ==
    ASSUME NEW of \in Deals, NEW price \in Int, NEW span \in Spans
    PROVE  /\ of.rate \in Nat /\ of.pct \in 0 .. 100
           /\ Charge(of, span) \in Int
           /\ CoachShare(price, of.pct) \in Int
<1>1. of.rate \in Nat /\ of.pct \in 0 .. 100 /\ span \in Nat
  BY DealsAssumption, PricesAssumption
<1>2. of.rate * span \in Int /\ price * of.pct \in Int
  BY <1>1
<1>3. Charge(of, span) \in Int
  BY <1>2 DEF Charge
<1>4. 2 * price * of.pct \in Int
  BY <1>1
<1>5. CoachShare(price, of.pct) \in Int
  BY <1>4 DEF CoachShare
<1> QED BY <1>1, <1>3, <1>5

\* No session is logged, and the screen is empty.
LEMMA LedgerStart == LedgerInit => LedgerInv
<1> SUFFICES ASSUME LedgerInit PROVE LedgerInv
  OBVIOUS
<1>1. NotLogged \in Cells
  BY DEF Cells, NotLogged
<1>2. terms \in [Trainers -> [of : Deals, active : BOOLEAN]]
  BY DEF LedgerInit
<1>3. LedgerTypes
  BY <1>1, <1>2 DEF LedgerInit, LedgerTypes, NothingYet
<1>4. ShownAsLogged /\ UpToDate /\ EachTakenOnce
  BY DEF LedgerInit, ShownAsLogged, UpToDate, EachTakenOnce, Logged, Paid, NotLogged
<1> QED BY <1>3, <1>4 DEF LedgerInv

\* An operation that leaves the sessions and the amounts alone.
LEMMA TermsStep ==
    ASSUME LedgerInv, UNCHANGED <<training, collected>>, till' = Stale,
           terms' \in [Trainers -> [of : Deals, active : BOOLEAN]]
    PROVE  LedgerInv'
  BY DEF LedgerInv, LedgerTypes, ShownAsLogged, UpToDate, EachTakenOnce, Stale, Logged, Paid

LEMMA CreateStep ==
    ASSUME LedgerInv, NEW t \in Trainings, NEW c \in Trainers, NEW span \in Spans,
           NEW typed \in Prices \cup {ByRate}, NEW of \in Deals, CreateSession(t, c, span, typed, of.pct)
    PROVE  LedgerInv'
<1> DEFINE price == IF typed = ByRate THEN Charge(terms[c].of, span) ELSE typed
           row == SessionRow(c, of.pct, price)
<1> USE DEF LedgerInv
<1>1. price \in Int
  BY SplitTypes, PricesAssumption DEF LedgerTypes
<1>2. CoachShare(price, of.pct) \in Int
  BY <1>1, SplitTypes
<1>3. row \in Cells /\ row.status = "scheduled" /\ row.paid = FALSE
  BY <1>1, <1>2 DEF SessionRow, Cells
<1> HIDE DEF row, price
<1>4. t \notin Logged /\ training' = [training EXCEPT ![t] = row]
  BY Zenon DEF CreateSession, row, price
<1>5. till.rows[t].status = "absent"
  BY <1>4 DEF ShownAsLogged
<1>6. UNCHANGED <<terms, collected>> /\ till' = [till EXCEPT !.current = FALSE]
  BY DEF CreateSession, Stale
<1>7. LedgerTypes'
  BY <1>3, <1>4, <1>6 DEF LedgerTypes
<1>8. ShownAsLogged' /\ UpToDate'
  BY <1>4, <1>5, <1>6 DEF LedgerTypes, ShownAsLogged, UpToDate, Logged
<1>9. EachTakenOnce'
  BY <1>3, <1>4, <1>6 DEF LedgerTypes, EachTakenOnce, Paid, Logged
<1> QED BY <1>7, <1>8, <1>9

LEMMA StatusStep ==
    ASSUME LedgerInv, NEW t \in Trainings, NEW next \in {"scheduled", "completed", "cancelled"},
           UpdateSession(t, next)
    PROVE  LedgerInv'
<1> USE DEF LedgerInv, UpdateSession, Stale
<1>1. LedgerTypes'
  <2>1. training[t] \in Cells
    BY DEF LedgerTypes
  <2>2. [training[t] EXCEPT !.status = next] \in Cells
    BY <2>1 DEF Cells
  <2>3. training' = [training EXCEPT ![t] = [training[t] EXCEPT !.status = next]]
    OBVIOUS
  <2> QED BY <2>2, <2>3 DEF LedgerTypes
<1>2. Logged' = Logged /\ Paid' = Paid
  BY DEF LedgerTypes, Logged, Paid, Cells
<1>3. \A s \in Trainings : /\ training'[s].price = training[s].price
                          /\ training'[s].coachShare = training[s].coachShare
                          /\ training'[s].clubShare = training[s].clubShare
  BY DEF LedgerTypes, Cells
<1>4. ShownAsLogged' /\ UpToDate'
  BY <1>2, <1>3 DEF LedgerTypes, ShownAsLogged, UpToDate
<1>5. EachTakenOnce'
  BY <1>2, <1>3 DEF EachTakenOnce
<1> QED BY <1>1, <1>4, <1>5

\* The row is collected as the screen showed it.
LEMMA PaidStep ==
    ASSUME LedgerInv, NEW t \in Trainings, NEW shown \in Cells, MarkSessionPaid(t, shown),
           shown.price = training[t].price, shown.coachShare = training[t].coachShare,
           shown.clubShare = training[t].clubShare
    PROVE  LedgerInv'
<1> USE DEF LedgerInv, MarkSessionPaid, Collectible, Stale
<1>1. LedgerTypes'
  <2>1. training[t] \in Cells
    BY DEF LedgerTypes
  <2>2. [training[t] EXCEPT !.paid = TRUE] \in Cells
    BY <2>1 DEF Cells
  <2>3. training' = [training EXCEPT ![t] = [training[t] EXCEPT !.paid = TRUE]]
    OBVIOUS
  <2>4. training' \in [Trainings -> Cells]
    BY <2>2, <2>3 DEF LedgerTypes
  <2>5. shown.price \in Int /\ shown.coachShare \in Int /\ shown.clubShare \in Int
    BY DEF Cells
  <2>6. collected' \in [Trainings -> [times : Int, price : Int, coachShare : Int, clubShare : Int]]
    BY <2>5 DEF LedgerTypes
  <2> QED BY <2>4, <2>6 DEF LedgerTypes
<1>2. Logged' = Logged /\ Paid' = Paid \cup {t} /\ t \notin Paid
  BY DEF LedgerTypes, Logged, Paid, Cells
<1>3. \A s \in Trainings : /\ training'[s].price = training[s].price
                          /\ training'[s].coachShare = training[s].coachShare
                          /\ training'[s].clubShare = training[s].clubShare
  BY DEF LedgerTypes, Cells
<1>4. ShownAsLogged' /\ UpToDate'
  BY <1>2, <1>3 DEF LedgerTypes, ShownAsLogged, UpToDate
<1>5. EachTakenOnce'
  <2>1. collected[t] = NothingYet
    BY <1>2 DEF EachTakenOnce
  <2>2. collected'[t] = [times |-> 1, price |-> training[t].price, coachShare |-> training[t].coachShare,
                         clubShare |-> training[t].clubShare]
    BY <2>1 DEF LedgerTypes, Cells, NothingYet
  <2>3. ASSUME NEW s \in Trainings \ {t} PROVE collected'[s] = collected[s]
    BY DEF LedgerTypes
  <2> QED BY <1>2, <1>3, <2>2, <2>3 DEF EachTakenOnce
<1> QED BY <1>1, <1>4, <1>5

LEMMA LedgerStep == LedgerInv /\ [LedgerNext]_ledgerVars => LedgerInv'
<1> SUFFICES ASSUME LedgerInv, [LedgerNext]_ledgerVars PROVE LedgerInv'
  OBVIOUS
<1>1. ASSUME NEW c \in Trainers, NEW of \in Deals, UpdateCoach(c, of) PROVE LedgerInv'
  <2>1. terms' \in [Trainers -> [of : Deals, active : BOOLEAN]]
    BY <1>1 DEF UpdateCoach, UpdateTerms, LedgerInv, LedgerTypes
  <2> QED BY <1>1, <2>1, TermsStep DEF UpdateCoach, UpdateTerms
<1>2. ASSUME NEW c \in Trainers, SetActive(c) PROVE LedgerInv'
  <2>1. terms' \in [Trainers -> [of : Deals, active : BOOLEAN]]
    BY <1>2 DEF SetActive, LedgerInv, LedgerTypes
  <2> QED BY <1>2, <2>1, TermsStep DEF SetActive
<1>3. ASSUME NEW t \in Trainings, NEW c \in Trainers, NEW span \in Spans, NEW typed \in Prices \cup {ByRate},
             LogPressed(t, c, span, typed) \/ \E of \in Deals : CreateSession(t, c, span, typed, of.pct)
      PROVE  LedgerInv'
  <2>1. terms[c].of \in Deals
    BY DEF LedgerInv, LedgerTypes
  <2> QED BY <1>3, <2>1, CreateStep DEF LogPressed
<1>4. ASSUME NEW t \in Trainings, CollectPressed(t) PROVE LedgerInv'
  <2>1. till.rows[t] \in Cells /\ till.rows[t].status # "absent"
    BY <1>4 DEF LedgerInv, LedgerTypes, CollectPressed, Owed
  <2> QED BY <1>4, <2>1, PaidStep DEF LedgerInv, ShownAsLogged, CollectPressed
<1>5. ASSUME NEW t \in Trainings, MarkSessionPaid(t, training[t]) PROVE LedgerInv'
  BY <1>5, PaidStep DEF LedgerInv, LedgerTypes
<1>6. ASSUME NEW t \in Trainings,
             \/ CancelSessionPressed(t)
             \/ \E next \in {"scheduled", "completed", "cancelled"} : UpdateSession(t, next)
      PROVE  LedgerInv'
  BY <1>6, StatusStep DEF CancelSessionPressed
<1>7. CASE LoadLedger
  BY <1>7 DEF LoadLedger, LedgerInv, LedgerTypes, ShownAsLogged, UpToDate, EachTakenOnce, Logged, Paid
<1>8. CASE UNCHANGED ledgerVars
  BY <1>8 DEF ledgerVars, LedgerInv, LedgerTypes, ShownAsLogged, UpToDate, EachTakenOnce, Logged, Paid
<1> QED BY <1>1, <1>2, <1>3, <1>4, <1>5, <1>6, <1>7, <1>8, Zenon DEF LedgerNext

\* A session marked as paid was collected once, for the amounts on its row, from
\* whichever screen and whatever became of the coach's terms meanwhile.
THEOREM TakenOnce == LedgerSpec => []EachTakenOnce
<1>1. LedgerSpec => []LedgerInv
  BY LedgerStart, LedgerStep, PTL DEF LedgerSpec
<1> QED BY <1>1, PTL DEF LedgerInv

\* Two amounts less than a unit apart round to the same or the next one.
LEMMA Rounding ==
    ASSUME NEW a \in Int, NEW b \in Int, b <= a, a - b <= 200
    PROVE  (a + 200) \div 400 - (b + 200) \div 400 \in {0, 1}
  OBVIOUS

\* The form's preview is what the server charges and pays, but for one unit.
LEMMA Preview ==
    ASSUME NEW of \in Deals, NEW span \in Spans, NEW typed \in Prices \cup {ByRate}
    PROVE  LET price == IF typed = ByRate THEN Charge(of, span) ELSE typed
           IN /\ 2 * price - EstPrice(of, span, typed) \in {0, 1}
              /\ CoachShare(price, of.pct) - EstCoach(of, span, typed) \in {0, 1}
<1> DEFINE price == IF typed = ByRate THEN Charge(of, span) ELSE typed
           est == EstPrice(of, span, typed)
           pct == of.pct
<1>1. pct \in 0 .. 100 /\ of.rate * span \in Int
  BY SplitTypes, PricesAssumption
<1>2. price \in Int /\ est \in Int
  BY <1>1, SplitTypes, PricesAssumption DEF EstPrice
<1>3. 2 * price - est \in {0, 1}
  <2>1. CASE typed = ByRate
    <3> DEFINE x == of.rate * span
    <3>1. est = x /\ price = (x + 1) \div 2
      BY <2>1 DEF EstPrice, Charge
    <3>2. x \in Int
      BY <1>1
    <3> HIDE DEF x, est, price
    <3>3. 2 * ((x + 1) \div 2) - x \in {0, 1}
      BY <3>2
    <3> QED BY <3>1, <3>3
  <2>2. CASE typed # ByRate
    <3>1. typed \in Int /\ price = typed /\ est = 2 * typed
      BY <2>2, PricesAssumption DEF EstPrice
    <3> QED BY <3>1
  <2> QED BY <2>1, <2>2
<1>4. CoachShare(price, pct) - EstCoach(of, span, typed) \in {0, 1}
  <2> HIDE DEF price, est, pct
  <2>1. 4 * price * pct \in Int /\ 2 * est * pct \in Int /\ 2 * price * pct \in Int
    BY <1>1, <1>2
  <2>2. \/ 4 * price * pct = 2 * est * pct
        \/ 4 * price * pct = 2 * est * pct + 2 * pct
    <3>1. 2 * price = est \/ 2 * price = est + 1
      BY <1>2, <1>3
    <3>2. CASE 2 * price = est
      <4>1. 4 * price * pct = 2 * (2 * price) * pct
        BY <1>1, <1>2
      <4> QED BY <3>2, <4>1
    <3>3. CASE 2 * price = est + 1
      <4>1. 4 * price * pct = 2 * (2 * price) * pct
        BY <1>1, <1>2
      <4>2. 2 * (est + 1) * pct = 2 * est * pct + 2 * pct
        BY <1>1, <1>2
      <4> QED BY <3>3, <4>1, <4>2
    <3> QED BY <3>1, <3>2, <3>3
  <2>3. (2 * price * pct + 100) \div 200 = (4 * price * pct + 200) \div 400
    BY <1>1, <1>2, <2>1
  <2>4. 0 <= 2 * pct /\ 2 * pct <= 200
    BY <1>1
  <2>5. (4 * price * pct + 200) \div 400 - (2 * est * pct + 200) \div 400 \in {0, 1}
    <3> DEFINE a == 4 * price * pct
               b == 2 * est * pct
    <3>1. a \in Int /\ b \in Int /\ 2 * pct \in Int
      BY <1>1, <2>1
    <3>2. b <= a /\ a - b <= 200
      <4> HIDE DEF a, b
      <4>1. a = b \/ a = b + 2 * pct
        BY <2>2 DEF a, b
      <4> QED BY <3>1, <4>1, <2>4
    <3> HIDE DEF a, b
    <3>3. (a + 200) \div 400 - (b + 200) \div 400 \in {0, 1}
      BY <3>1, <3>2, Rounding
    <3> QED BY <3>3 DEF a, b
  <2>6. /\ CoachShare(price, pct) = (2 * price * pct + 100) \div 200
        /\ EstCoach(of, span, typed) = (2 * est * pct + 200) \div 400
    BY Zenon DEF CoachShare, EstCoach, est, pct
  <2> QED BY <2>3, <2>5, <2>6
<1> QED BY <1>3, <1>4

\* On an up-to-date screen the form's word is the server's, for any rates,
\* commissions, lengths and prices.
THEOREM FormIsHonest == LedgerSpec => []FormIsTrue
<1>1. LedgerInv => FormIsTrue
  <2> SUFFICES ASSUME LedgerInv, till.current, NEW c \in Trainers, NEW span \in Spans,
                      NEW typed \in Prices \cup {ByRate}
               PROVE  LET of    == till.terms[c].of
                          price == IF typed = ByRate THEN Charge(terms[c].of, span) ELSE typed
                      IN /\ Choosable(c) => terms[c].active
                         /\ 2 * price - EstPrice(of, span, typed) \in {0, 1}
                         /\ CoachShare(price, terms[c].of.pct) - EstCoach(of, span, typed) \in {0, 1}
    BY Zenon DEF FormIsTrue
  <2>1. till.terms = terms /\ terms[c].of \in Deals
    BY DEF LedgerInv, LedgerTypes, UpToDate
  <2>2. Choosable(c) => terms[c].active
    BY <2>1 DEF Choosable
  <2> QED BY <2>1, <2>2, Preview
<1>2. LedgerSpec => []LedgerInv
  BY LedgerStart, LedgerStep, PTL DEF LedgerSpec
<1> QED BY <1>1, <1>2, PTL
-----------------------------------------------------------------------------
(* The reports *)

\* What a coach is due lies between nothing and the price.
LEMMA ShareOfPrice ==
    ASSUME NEW price \in Nat, NEW pct \in 0 .. 100
    PROVE  CoachShare(price, pct) \in Nat /\ CoachShare(price, pct) <= price
<1>1. price * pct \in Nat /\ price * pct <= 100 * price
  <2>1. price * pct \in Nat /\ price * (100 - pct) \in Nat
    OBVIOUS
  <2>2. price * (100 - pct) = 100 * price - price * pct
    OBVIOUS
  <2> QED BY <2>1, <2>2
<1>2. 2 * price * pct = 2 * (price * pct)
  OBVIOUS
<1>3. ASSUME NEW x \in Nat, x <= 100 * price
      PROVE  (2 * x + 100) \div 200 \in Nat /\ (2 * x + 100) \div 200 <= price
  BY <1>3
<1> QED BY <1>1, <1>2, <1>3 DEF CoachShare

\* Every row splits its price, and a logged one has a coach of the club.
RowsAddUp ==
    \A t \in Trainings :
        /\ training[t].price \in Nat /\ training[t].coachShare \in Nat /\ training[t].clubShare \in Nat
        /\ training[t].coachShare + training[t].clubShare = training[t].price
        /\ t \in Logged => training[t].coach \in Trainers

LEMMA CreateAddsUp ==
    ASSUME LedgerInv, RowsAddUp, NEW t \in Trainings, NEW c \in Trainers, NEW span \in Spans,
           NEW typed \in Prices \cup {ByRate}, NEW of \in Deals, CreateSession(t, c, span, typed, of.pct)
    PROVE  RowsAddUp'
<1> DEFINE price == IF typed = ByRate THEN Charge(terms[c].of, span) ELSE typed
           row == SessionRow(c, of.pct, price)
<1>1. price \in Nat
  <2>1. terms[c].of \in Deals /\ typed \in Nat \cup {ByRate}
    BY PricesAssumption DEF LedgerInv, LedgerTypes
  <2>2. terms[c].of.rate \in Nat /\ span \in Nat
    BY <2>1, DealsAssumption, PricesAssumption
  <2>3. terms[c].of.rate * span \in Nat
    BY <2>2
  <2>4. Charge(terms[c].of, span) \in Nat
    BY <2>3 DEF Charge
  <2> QED BY <2>1, <2>4
<1>2. of.pct \in 0 .. 100
  BY DealsAssumption
<1>3. CoachShare(price, of.pct) \in Nat /\ CoachShare(price, of.pct) <= price
  BY <1>1, <1>2, ShareOfPrice
<1>4. /\ row.price \in Nat /\ row.coachShare \in Nat /\ row.clubShare \in Nat
      /\ row.coachShare + row.clubShare = row.price /\ row.coach \in Trainers
  <2>1. row.price = price /\ row.coachShare = CoachShare(price, of.pct)
        /\ row.clubShare = price - CoachShare(price, of.pct) /\ row.coach = c
    BY DEF SessionRow
  <2> HIDE DEF row, price
  <2> QED BY <1>1, <1>3, <2>1
<1> HIDE DEF row, price
<1>5. training' = [training EXCEPT ![t] = row]
  BY Zenon DEF CreateSession, row, price
<1>6. training'[t] = row /\ \A s \in Trainings \ {t} : training'[s] = training[s]
  BY <1>5 DEF LedgerInv, LedgerTypes
<1> QED BY <1>4, <1>6 DEF RowsAddUp, Logged

LEMMA AddsUpStep == LedgerInv /\ RowsAddUp /\ [LedgerNext]_ledgerVars => RowsAddUp'
<1> SUFFICES ASSUME LedgerInv, RowsAddUp, [LedgerNext]_ledgerVars PROVE RowsAddUp'
  OBVIOUS
<1>1. ASSUME UNCHANGED training PROVE RowsAddUp'
  BY <1>1 DEF RowsAddUp, Logged
<1>2. ASSUME NEW t \in Trainings, NEW c \in Trainers, NEW span \in Spans, NEW typed \in Prices \cup {ByRate},
             LogPressed(t, c, span, typed) \/ \E of \in Deals : CreateSession(t, c, span, typed, of.pct)
      PROVE  RowsAddUp'
  <2>1. terms[c].of \in Deals
    BY DEF LedgerInv, LedgerTypes
  <2> QED BY <1>2, <2>1, CreateAddsUp DEF LogPressed
<1>3. ASSUME NEW t \in Trainings, t \in Logged,
             \/ training' = [training EXCEPT ![t].paid = TRUE]
             \/ \E next \in {"scheduled", "completed", "cancelled"} :
                    training' = [training EXCEPT ![t].status = next]
      PROVE  RowsAddUp'
  <2>1. \A s \in Trainings : /\ training'[s].price = training[s].price
                            /\ training'[s].coachShare = training[s].coachShare
                            /\ training'[s].clubShare = training[s].clubShare
                            /\ training'[s].coach = training[s].coach
    <3>1. training[t] \in Cells /\ training \in [Trainings -> Cells]
      BY DEF LedgerInv, LedgerTypes
    <3>2. \A s \in Trainings \ {t} : training'[s] = training[s]
      BY <1>3, <3>1
    <3>3. /\ training'[t].price = training[t].price
          /\ training'[t].coachShare = training[t].coachShare
          /\ training'[t].clubShare = training[t].clubShare
          /\ training'[t].coach = training[t].coach
      <4>1. CASE training' = [training EXCEPT ![t].paid = TRUE]
        BY <3>1, <4>1 DEF Cells
      <4>2. ASSUME NEW next, training' = [training EXCEPT ![t].status = next]
            PROVE  /\ training'[t].price = training[t].price
                   /\ training'[t].coachShare = training[t].coachShare
                   /\ training'[t].clubShare = training[t].clubShare
                   /\ training'[t].coach = training[t].coach
        BY <3>1, <4>2 DEF Cells
      <4> QED BY <1>3, <4>1, <4>2
    <3> QED BY <3>2, <3>3
  <2>2. \A s \in Trainings : s \in Logged' => s \in Logged
    BY <1>3 DEF LedgerInv, LedgerTypes, Cells, Logged
  <2> QED BY <2>1, <2>2 DEF RowsAddUp
<1>4. ASSUME NEW t \in Trainings, CollectPressed(t) \/ MarkSessionPaid(t, training[t]) PROVE RowsAddUp'
  BY <1>3, <1>4 DEF CollectPressed, MarkSessionPaid, Collectible
<1>5. ASSUME NEW t \in Trainings,
             \/ CancelSessionPressed(t)
             \/ \E next \in {"scheduled", "completed", "cancelled"} : UpdateSession(t, next)
      PROVE  RowsAddUp'
  BY <1>3, <1>5 DEF CancelSessionPressed, UpdateSession
<1>6. ASSUME NEW c \in Trainers, (\E of \in Deals : UpdateCoach(c, of)) \/ SetActive(c) PROVE RowsAddUp'
  BY <1>1, <1>6 DEF UpdateCoach, UpdateTerms, SetActive
<1>7. CASE LoadLedger \/ UNCHANGED ledgerVars
  BY <1>1, <1>7 DEF LoadLedger, ledgerVars
<1> QED BY <1>2, <1>4, <1>5, <1>6, <1>7, Zenon DEF LedgerNext

LEMMA LedgerHolds == LedgerSpec => [](LedgerInv /\ RowsAddUp)
<1>1. LedgerInit => RowsAddUp
  BY DEF LedgerInit, RowsAddUp, Logged, NotLogged
<1> QED BY <1>1, LedgerStart, LedgerStep, AddsUpStep, PTL DEF LedgerSpec

\* The amounts of the rows and what was collected are numbers a report adds up.
LEMMA RowAmounts ==
    ASSUME LedgerInv, RowsAddUp
    PROVE  /\ [t \in Trainings |-> training[t].price] \in [Trainings -> Nat]
           /\ [t \in Trainings |-> training[t].coachShare] \in [Trainings -> Nat]
           /\ [t \in Trainings |-> training[t].clubShare] \in [Trainings -> Nat]
           /\ Paid \in SUBSET Trainings /\ Owing \in SUBSET Trainings
  BY DEF RowsAddUp, Paid, Owing, Logged

\* What the desks took of one amount is what the report adds up of the paid rows.
LEMMA TakenTotals ==
    ASSUME LedgerInv, RowsAddUp
    PROVE  /\ CollectedTotal = Total(Trainings, [t \in Trainings |-> collected[t].price])
           /\ CoachPayouts = Total(Trainings, [t \in Trainings |-> collected[t].coachShare])
           /\ ClubProfit = Total(Trainings, [t \in Trainings |-> collected[t].clubShare])
<1> DEFINE P == [t \in Trainings |-> training[t].price]
           A == [t \in Trainings |-> training[t].coachShare]
           B == [t \in Trainings |-> training[t].clubShare]
           p == [t \in Trainings |-> collected[t].price]
           a == [t \in Trainings |-> collected[t].coachShare]
           b == [t \in Trainings |-> collected[t].clubShare]
<1>1. ASSUME NEW t \in Paid
      PROVE  /\ collected[t].price = training[t].price
             /\ collected[t].coachShare = training[t].coachShare
             /\ collected[t].clubShare = training[t].clubShare
  <2>1. t \in Trainings
    BY RowAmounts
  <2>2. collected[t] = [times |-> 1, price |-> training[t].price,
                        coachShare |-> training[t].coachShare, clubShare |-> training[t].clubShare]
    BY <2>1, Zenon DEF LedgerInv, EachTakenOnce
  <2> QED BY <2>2
<1>2. ASSUME NEW t \in Trainings \ Paid
      PROVE  /\ collected[t].price = 0
             /\ collected[t].coachShare = 0
             /\ collected[t].clubShare = 0
  <2>1. collected[t] = NothingYet
    BY Zenon DEF LedgerInv, EachTakenOnce
  <2> QED BY <2>1 DEF NothingYet
<1>3. /\ p \in [Trainings -> Nat] /\ a \in [Trainings -> Nat] /\ b \in [Trainings -> Nat]
  BY <1>1, <1>2 DEF RowsAddUp
<1>4. \A t \in Paid : P[t] = p[t] /\ A[t] = a[t] /\ B[t] = b[t]
  BY <1>1, RowAmounts
<1>5. \A t \in Trainings \ Paid : p[t] = 0 /\ a[t] = 0 /\ b[t] = 0
  BY <1>2
<1>6. P \in [Trainings -> Nat] /\ A \in [Trainings -> Nat] /\ B \in [Trainings -> Nat]
      /\ Paid \in SUBSET Trainings
  BY RowAmounts
<1>7. CollectedTotal = Total(Paid, P) /\ CoachPayouts = Total(Paid, A) /\ ClubProfit = Total(Paid, B)
  BY DEF CollectedTotal, CoachPayouts, ClubProfit
<1> HIDE DEF P, A, B, p, a, b
<1>8. Total(Paid, P) = Total(Trainings, p)
  BY <1>3, <1>4, <1>5, <1>6, TotalOfPart, RowsAssumption
<1>9. Total(Paid, A) = Total(Trainings, a)
  BY <1>3, <1>4, <1>5, <1>6, TotalOfPart, RowsAssumption
<1>10. Total(Paid, B) = Total(Trainings, b)
  BY <1>3, <1>4, <1>5, <1>6, TotalOfPart, RowsAssumption
<1> QED BY <1>7, <1>8, <1>9, <1>10 DEF p, a, b

\* The price of the paid rows is what the coaches and the club get of them.
LEMMA SplitTotals ==
    ASSUME LedgerInv, RowsAddUp
    PROVE  CollectedTotal = CoachPayouts + ClubProfit
<1> DEFINE P == [t \in Trainings |-> training[t].price]
           A == [t \in Trainings |-> training[t].coachShare]
           B == [t \in Trainings |-> training[t].clubShare]
<1>1. P \in [Trainings -> Nat] /\ A \in [Trainings -> Nat] /\ B \in [Trainings -> Nat]
      /\ Paid \in SUBSET Trainings
  BY RowAmounts
<1>2. P = [t \in Trainings |-> A[t] + B[t]]
  BY DEF RowsAddUp
<1>3. CollectedTotal = Total(Paid, P) /\ CoachPayouts = Total(Paid, A) /\ ClubProfit = Total(Paid, B)
  BY DEF CollectedTotal, CoachPayouts, ClubProfit
<1> HIDE DEF P, A, B
<1>4. Total(Paid, [t \in Trainings |-> A[t] + B[t]]) = Total(Paid, A) + Total(Paid, B)
  BY <1>1, TotalOfSums, RowsAssumption
<1> QED BY <1>2, <1>3, <1>4

\* Coach by coach, the shares of some logged rows add up to the shares of all of them.
LEMMA ByCoach ==
    ASSUME LedgerInv, RowsAddUp, NEW T \in SUBSET Logged
    PROVE  Total(T, [t \in Trainings |-> training[t].coachShare])
             = Total(Trainers, [c \in Trainers |-> Total({t \in T : training[t].coach = c},
                                                         [t \in Trainings |-> training[t].coachShare])])
<1> DEFINE A == [t \in Trainings |-> training[t].coachShare]
           by == [c \in Trainers |-> Total({t \in T : training[t].coach = c}, A)]
<1>1. A \in [Trainings -> Nat] /\ T \in SUBSET Trainings
  BY RowAmounts DEF Logged
<1>2. CASE T = {}
  <2>1. \A c \in Trainers : {t \in T : training[t].coach = c} = {}
    BY <1>2
  <2>2. by = [c \in Trainers |-> 0]
    BY <2>1, TotalEmpty
  <2>3. Total({}, [c \in Trainers |-> 0]) = Total(Trainers, [c \in Trainers |-> 0])
    <3> DEFINE z == [c \in Trainers |-> 0]
    <3>1. z \in [Trainers -> Nat] /\ \A c \in Trainers : z[c] = 0
      OBVIOUS
    <3> HIDE DEF z
    <3>2. Total({}, z) = Total(Trainers, z)
      BY <3>1, TotalOfPart, RowsAssumption
    <3> QED BY <3>2 DEF z
  <2>4. Total(Trainers, by) = 0
    BY <2>2, <2>3, TotalEmpty
  <2> QED BY <1>2, <2>4, TotalEmpty
<1>3. CASE T # {}
  <2> DEFINE of == [t \in Trainings |-> IF t \in Logged THEN training[t].coach ELSE CHOOSE c \in Trainers : TRUE]
  <2>1. PICK t \in T : training[t].coach \in Trainers
    BY <1>3 DEF RowsAddUp, Logged
  <2>2. of \in [Trainings -> Trainers]
    BY <2>1 DEF RowsAddUp
  <2>3. \A c \in Trainers : {x \in T : of[x] = c} = {x \in T : training[x].coach = c}
    BY <1>1
  <2> HIDE DEF A, of
  <2>4. Total(T, A) = Total(Trainers, [c \in Trainers |-> Total({x \in T : of[x] = c}, A)])
    BY <1>1, <2>2, TotalByGroup, RowsAssumption
  <2>5. [c \in Trainers |-> Total({x \in T : of[x] = c}, A)] = by
    BY <2>3
  <2> QED BY <2>4, <2>5 DEF A
<1> QED BY <1>2, <1>3

\* However terms are edited and from whichever screen a session is collected, the
\* reports add up what the desks took, once, split it as they were told, and pay
\* the coaches what their rosters say; and on an up-to-date screen the buttons
\* are the sessions the headline counts as outstanding, of which the coaches are
\* promised a part; for any sessions, coaches, terms and prices.
THEOREM CoachingSound == LedgerSpec => []CoachingIsSound
<1>1. LedgerInv /\ RowsAddUp => ReportsShowWhatWasTaken
  <2> SUFFICES ASSUME LedgerInv, RowsAddUp PROVE ReportsShowWhatWasTaken
    OBVIOUS
  <2>1. Paid \in SUBSET Logged
    BY DEF Paid
  <2>2. CoachPayouts = Total(Trainers, [c \in Trainers |-> Earned(c)])
    BY <2>1, ByCoach DEF CoachPayouts, Earned
  <2> QED BY <2>2, TakenTotals, SplitTotals DEF ReportsShowWhatWasTaken, LedgerInv
<1>2. LedgerInv /\ RowsAddUp => ButtonsAreTrue
  <2> SUFFICES ASSUME LedgerInv, RowsAddUp, till.current
               PROVE  /\ Outstanding = Total({t \in Trainings : Owed(t)}, [t \in Trainings |-> till.rows[t].price])
                      /\ Total(Trainers, [c \in Trainers |-> PendingShare(c)]) <= Outstanding
                      /\ \A t \in Trainings : Owed(t) => Collectible(t)
    BY DEF ButtonsAreTrue
  <2>1. till.rows = training
    BY DEF LedgerInv, UpToDate
  <2>2. Owing = {t \in Trainings : Owed(t)}
    BY <2>1 DEF LedgerInv, LedgerTypes, Cells, Owing, Owed, Logged
  <2>3. Total(Trainers, [c \in Trainers |-> PendingShare(c)])
          = Total(Owing, [t \in Trainings |-> training[t].coachShare])
    <3>1. Owing \in SUBSET Logged
      BY DEF Owing
    <3> QED BY <3>1, ByCoach DEF PendingShare
  <2>4. Total(Owing, [t \in Trainings |-> training[t].coachShare]) <= Outstanding
    <3> DEFINE P == [t \in Trainings |-> training[t].price]
               A == [t \in Trainings |-> training[t].coachShare]
    <3>1. P \in [Trainings -> Nat] /\ A \in [Trainings -> Nat] /\ Owing \in SUBSET Trainings
      BY RowAmounts
    <3>2. \A t \in Trainings : A[t] <= P[t]
      BY DEF RowsAddUp
    <3> HIDE DEF P, A
    <3>3. Total(Owing, A) <= Total(Owing, P)
      BY <3>1, <3>2, TotalGrows, RowsAssumption
    <3> QED BY <3>3 DEF P, A, Outstanding
  <2>5. \A t \in Trainings : Owed(t) => Collectible(t)
    BY <2>1 DEF LedgerInv, LedgerTypes, Cells, Owed, Collectible, Logged
  <2>6. Outstanding = Total({t \in Trainings : Owed(t)}, [t \in Trainings |-> till.rows[t].price])
    BY <2>1, <2>2 DEF Outstanding
  <2> QED BY <2>3, <2>4, <2>5, <2>6
<1> QED BY <1>1, <1>2, LedgerHolds, FormIsHonest, PTL DEF CoachingIsSound

-----------------------------------------------------------------------------
(* The types of both books *)

\* The amounts a screen shows are those of rows it has loaded.
ShownAmounts ==
    \A t \in Trainings : /\ till.rows[t].price \in Nat
                         /\ till.rows[t].coachShare \in Nat /\ till.rows[t].clubShare \in Nat

LEMMA ShownStep ==
    ASSUME LedgerInv, RowsAddUp, ShownAmounts, [LedgerNext]_ledgerVars
    PROVE  ShownAmounts'
<1>1. CASE till'.rows = till.rows
  BY <1>1 DEF ShownAmounts
<1>2. CASE till'.rows = training
  BY <1>2 DEF ShownAmounts, RowsAddUp
<1>3. till' \in {till, Stale, [terms |-> terms, rows |-> training, current |-> TRUE]}
  BY DEF LedgerNext, UpdateCoach, SetActive, LogPressed, CreateSession, CollectPressed, CancelSessionPressed,
         MarkSessionPaid, UpdateSession, LoadLedger, ledgerVars
<1>4. till'.rows = till.rows \/ till'.rows = training
  BY <1>3 DEF Stale, LedgerInv, LedgerTypes
<1> QED BY <1>1, <1>2, <1>4

LEMMA LedgerTyped ==
    ASSUME LedgerInv, RowsAddUp, ShownAmounts
    PROVE  LedgerTypeOK
<1> DEFINE Rows == [Trainings -> [status : {"absent", "scheduled", "completed", "cancelled"},
                                  coach : Trainers \cup {NotLogged.coach}, price : Nat, coachShare : Nat,
                                  clubShare : Nat, paid : BOOLEAN]]
<1>1. training \in Rows
  BY DEF LedgerInv, LedgerTypes, Cells, RowsAddUp
<1>2. till.rows \in Rows
  BY DEF LedgerInv, LedgerTypes, Cells, ShownAmounts
<1>3. collected \in [Trainings -> [times : Nat, price : Nat, coachShare : Nat, clubShare : Nat]]
  <2>1. \A t \in Trainings : collected[t] \in [times : Nat, price : Nat, coachShare : Nat, clubShare : Nat]
    <3> SUFFICES ASSUME NEW t \in Trainings
                 PROVE  collected[t] \in [times : Nat, price : Nat, coachShare : Nat, clubShare : Nat]
      OBVIOUS
    <3> DEFINE taken == [times |-> 1, price |-> training[t].price,
                         coachShare |-> training[t].coachShare, clubShare |-> training[t].clubShare]
    <3>1. collected[t] = IF t \in Paid THEN taken ELSE NothingYet
      BY Zenon DEF LedgerInv, EachTakenOnce
    <3>2. taken \in [times : Nat, price : Nat, coachShare : Nat, clubShare : Nat]
      BY DEF RowsAddUp
    <3>3. NothingYet \in [times : Nat, price : Nat, coachShare : Nat, clubShare : Nat]
      BY DEF NothingYet
    <3> HIDE DEF taken
    <3> QED BY <3>1, <3>2, <3>3
  <2> QED BY <2>1 DEF LedgerInv, LedgerTypes
<1> QED BY <1>1, <1>2, <1>3 DEF LedgerTypeOK, LedgerInv, LedgerTypes

\* Whichever of the two books a behaviour is about, every row of both has its type:
\* no amount of money is ever negative, for any bookings, refunds, events, coaches,
\* sessions and terms.
THEOREM MoneyTyped == MoneySpec => []MoneyTypeOK
<1> DEFINE Books == RowsInv /\ MoneySettled /\ LedgerInv /\ RowsAddUp /\ ShownAmounts
<1>1. MoneyInit => Books
  <2> SUFFICES ASSUME MoneyInit PROVE Books
    OBVIOUS
  <2>1. RowsInv /\ MoneySettled /\ LedgerInv
    BY RowsInit, BooksInit, LedgerStart DEF MoneyInit
  <2>2. RowsAddUp /\ ShownAmounts
    BY DEF MoneyInit, LedgerInit, RowsAddUp, ShownAmounts, Logged, NotLogged
  <2> QED BY <2>1, <2>2
<1>2. Books /\ [MoneyNext]_<<book, vars, ledgerVars>> => Books'
  <2> SUFFICES ASSUME Books, [MoneyNext]_<<book, vars, ledgerVars>> PROVE Books'
    OBVIOUS
  <2>1. [Next]_vars /\ [LedgerNext]_ledgerVars
    BY DEF MoneyNext
  <2>2. RowsInv' /\ MoneySettled'
    BY <2>1, RowsStep, BooksStep
  <2>3. LedgerInv' /\ RowsAddUp' /\ ShownAmounts'
    BY <2>1, LedgerStep, AddsUpStep, ShownStep
  <2> QED BY <2>2, <2>3
<1>3. Books => MoneyTypeOK
  BY LedgerTyped DEF MoneyTypeOK, TypeOK, RowsInv, MoneySettled
<1> QED BY <1>1, <1>2, <1>3, PTL DEF MoneySpec
=============================================================================
