------------------------------- MODULE Screens -------------------------------
(***************************************************************************)
(* The staff's and the customer's screens of one booking, on top of the    *)
(* handlers of BookingLifecycle.  A screen decides on the copy of the      *)
(* booking it loaded which buttons it offers; the server decides again on  *)
(* the row.  The settlement form is prefilled when it is mounted and saves *)
(* every money field it holds, and a refund is two calls: the request and, *)
(* for an owner, its approval.                                             *)
(*                                                                         *)
(* FormKept, BusyNever and CancellableStale, which no                      *)
(* definition uses, are wrong versions of the definitions below them.      *)
(***************************************************************************)
EXTENDS BookingLifecycle

CONSTANTS
    Clerks, Owners, Customers,   \* who has a screen open
    MaxOpen,                     \* bound on the screens open at a time
    NoRefund                     \* no refund request under way from a screen

Staff == Clerks \cup Owners
Users == Staff \cup Customers

VARIABLES
    screen,   \* per user, what the screen shows and waits for
    fresh,    \* history: the screens whose booking did not change since they loaded it
    left      \* history: the requests left to an owner: a clerk's, or one whose approval failed

screenVars == <<screen, fresh, left>>

Screen ==
    [at : {"closed", "open", "saved", "asking", "approving", "reloading"},
     status : BookingStatus \cup {"absent"}, money : Money,
     refund : RefundIds \cup {NoRefund}]

Closed == [at |-> "closed", status |-> "absent", money |-> NoMoney, refund |-> NoRefund]

ScreensTypeOK ==
    /\ TypeOK
    /\ screen \in [Users -> Screen]
    /\ fresh \subseteq Users
    /\ left \subseteq RefundIds

ScreensInit ==
    /\ Init
    /\ screen = [u \in Users |-> Closed]
    /\ fresh = {}
    /\ left = {}

\* The one booking of the screens.
Row == AnyBooking

\* A method that is not on file is shown, and saved, as cash.
Prefilled(m) ==
    [m EXCEPT !.depBy = IF @ = "NONE" THEN "DESK" ELSE @,
              !.remBy = IF @ = "NONE" THEN "DESK" ELSE @]

Loaded == [Closed EXCEPT !.at = "open", !.status = status[Row], !.money = Prefilled(money[Row])]

\* A refresh drops the loaded booking first, so the form is mounted anew.
FormKept(u)  == [Loaded EXCEPT !.money = screen[u].money]
Refreshed(u) == Loaded

Open(u) ==
    /\ screen[u].at = "closed" /\ status[Row] # "absent" /\ ~deleted[Row]
    /\ Cardinality({w \in Users : screen[w].at # "closed"}) < MaxOpen
    /\ screen' = [screen EXCEPT ![u] = Loaded]
    /\ fresh' = fresh \cup {u}
    /\ UNCHANGED <<vars, left>>

\* The screen of a deleted booking finds nothing and leaves.
Reload(u) ==
    /\ screen[u].at \in {"saved", "reloading"}
    /\ screen' = [screen EXCEPT ![u] = IF deleted[Row] THEN Closed ELSE Refreshed(u)]
    /\ fresh' = fresh \cup {u}
    /\ UNCHANGED <<vars, left>>

Leave(u) ==
    /\ screen[u].at \in {"open", "saved"}
    /\ screen' = [screen EXCEPT ![u] = Closed]
    /\ fresh' = fresh \ {u}
    /\ UNCHANGED <<vars, left>>

-----------------------------------------------------------------------------
(* The buttons a screen offers, on what it shows *)

\* No button acts twice: it is disabled while its call is under way.
BusyNever(u) == screen[u].at # "closed"
Free(u)      == screen[u].at = "open"

CancellableStale(shown) == shown.status \notin {"cancelled", "completed", "no_show"}
Cancellable(shown)      == shown.status \notin Terminal
Receivable(shown)  == shown.status \in {"pending_deposit", "pending_verification"}
Verifiable(shown)  == shown.status = "pending_verification"
Arrivable(shown)   == shown.status = "confirmed"
Repayable(shown)   == shown.status # "cancelled" /\ shown.money.dep + shown.money.rem > 0

-----------------------------------------------------------------------------
(* What happens to the booking makes the other screens outdated *)

Answered(u, at) ==
    /\ screen' = [screen EXCEPT ![u].at = at]
    /\ fresh' = {}
    /\ UNCHANGED left

CancelPressed(u) ==
    /\ Free(u) /\ Cancellable(screen[u])
    /\ \E override \in {"auto", "refund", "forfeit"} :
          CancelBooking(Row, IF u \in Staff THEN "staff" ELSE "customer", override)
    /\ Answered(u, "reloading")

CheckInPressed(u) ==
    /\ Free(u) /\ u \in Staff /\ Arrivable(screen[u])
    /\ CheckIn(Row)
    /\ Answered(u, "reloading")

VerifyPressed(u) ==
    /\ Free(u) /\ u \in Staff /\ Verifiable(screen[u])
    /\ VerifyApprove(Row) \/ VerifyReject(Row)
    /\ Answered(u, "reloading")

ReceiptSent(u) ==
    /\ Free(u) /\ u \in Customers /\ Receivable(screen[u])
    /\ UploadReceipt(Row)
    /\ Answered(u, "reloading")

DeletePressed(u) ==
    /\ Free(u) /\ u \in Owners
    /\ DeleteBooking(Row)
    /\ screen' = [screen EXCEPT ![u] = Closed]
    /\ fresh' = {}
    /\ UNCHANGED left

\* One field edited, or the quick "all in cash"; the rest goes as prefilled.
Edits(shown) ==
    {[shown EXCEPT !.dep = x] : x \in Amounts} \cup {[shown EXCEPT !.rem = x] : x \in Amounts}
        \cup {[shown EXCEPT !.dep = shown.net, !.depBy = "DESK", !.rem = 0]}

\* Until the reload that follows, the form can be saved again.
SettlePressed(u) ==
    /\ u \in Staff /\ screen[u].at \in {"open", "saved"}
    /\ \E m \in Edits(screen[u].money) :
          /\ Settle(Row, m, {"deposit", "remainder"})
          /\ screen' = [screen EXCEPT ![u].at = "saved", ![u].money = m]
          /\ fresh' = IF m = money[Row] THEN fresh ELSE fresh \cap {u}
    /\ UNCHANGED left

-----------------------------------------------------------------------------
(* A refund from the panel: the request, then an owner approves it in the   *)
(* same click.                                                              *)

RefundPressed(u) ==
    /\ Free(u) /\ u \in Staff /\ Repayable(screen[u])
    /\ \E r \in RefundIds :
          /\ AskRefund(r, Row)
          /\ screen' = [screen EXCEPT ![u].at = "asking", ![u].refund = r]
    /\ UNCHANGED <<fresh, left>>

RefundFiled(u) ==
    /\ screen[u].at = "asking"
    /\ \E amount \in Amounts : CreateRefund(screen[u].refund, amount)
    /\ screen' = [screen EXCEPT ![u].at = IF u \in Owners THEN "approving" ELSE "reloading",
                                ![u].refund = IF u \in Owners THEN @ ELSE NoRefund]
    /\ left' = IF u \in Owners THEN left ELSE left \cup {screen[u].refund}
    /\ UNCHANGED fresh

\* The amount asked for exceeds what is available.
RefundRefused(u) ==
    /\ screen[u].at = "asking"
    /\ \E amount \in Amounts :
          amount > Collected(Row) - SumOfRows(Row, {"pending", "approved"})
    /\ RefuseRefund(screen[u].refund)
    /\ screen' = [screen EXCEPT ![u].at = "open", ![u].refund = NoRefund]
    /\ UNCHANGED <<fresh, left>>

RefundApproved(u) ==
    /\ screen[u].at = "approving"
    /\ ApproveRefund(screen[u].refund)
    /\ screen' = [screen EXCEPT ![u].at = "reloading", ![u].refund = NoRefund]
    /\ fresh' = {}
    /\ UNCHANGED left

\* The second call fails: too little is collected by now, or no answer comes.
ApprovalFails(u) ==
    /\ screen[u].at = "approving"
    /\ left' = left \cup {screen[u].refund}
    /\ screen' = [screen EXCEPT ![u].at = "open", ![u].refund = NoRefund]
    /\ UNCHANGED <<vars, fresh>>

-----------------------------------------------------------------------------
(* Everybody else *)

\* The booking desk, a payment in full at the gateway, the cron jobs and the clock.
Elsewhere ==
    /\ \/ \E role \in {"customer", "receptionist", "owner"}, m \in Quotes :
            CreateBooking(Row, role, m, {})
       \/ \E e \in Events : WebhookConfirm(e, Row, Price)
       \/ ExpirePending \/ ExpireDrafts \/ MarkNoShows
    /\ fresh' = {}
    /\ UNCHANGED <<screen, left>>

\* A long time passes: every deadline of the open booking is behind it.
Clock ==
    /\ status[Row] \notin Terminal \cup {"absent"} /\ passed[Row] # Deadlines
    /\ passed' = [passed EXCEPT ![Row] = Deadlines]
    /\ UNCHANGED <<status, deleted, money, refundStatus, payment, refunded, refunds,
                   ledger, events, subscription, screenVars>>

ScreensNext ==
    \/ \E u \in Users :
          \/ Open(u) \/ Reload(u) \/ Leave(u)
          \/ CancelPressed(u) \/ CheckInPressed(u) \/ VerifyPressed(u) \/ ReceiptSent(u)
          \/ DeletePressed(u) \/ SettlePressed(u)
          \/ RefundPressed(u) \/ RefundFiled(u) \/ RefundRefused(u)
          \/ RefundApproved(u) \/ ApprovalFails(u)
    \/ Elsewhere \/ Clock

ScreensSpec == ScreensInit /\ [][ScreensNext]_<<vars, screenVars>>

-----------------------------------------------------------------------------
(* What the screens guarantee *)

\* As long as nobody else touched the booking since a screen loaded it, its
\* form and its status are the row's, whatever was pressed, saved, refused and
\* reloaded in between: only an outdated screen overwrites what it never saw.
FreshFormsAreTrue ==
    \A u \in fresh : screen[u].at \in {"open", "saved"} =>
        /\ screen[u].status = status[Row]
        /\ screen[u].money = Prefilled(money[Row])

\* A button on an up-to-date screen is one the server accepts: the screen's
\* conditions and the handlers' guards, written apart, agree.
OffersAreHonoured ==
    \A u \in fresh : Free(u) =>
        /\ Cancellable(screen[u]) => Settleable(Row) /\ ~deleted[Row]
        /\ Verifiable(screen[u]) => AwaitingVerification(Row)
        /\ Arrivable(screen[u]) => status[Row] = "confirmed"
        /\ Receivable(screen[u]) => status[Row] \in {"pending_deposit", "pending_verification"}

\* An owner's refund is filed and approved in one click: a pending request is
\* a clerk's, is about to be approved, or is one whose approval failed.
OwnersLeaveNothingPending ==
    \A r \in RefundIds : refunds[r].state = "pending" =>
        r \in left \/ \E u \in Owners : screen[u].at = "approving" /\ screen[u].refund = r

\* What a screen lets a user start, it carries through.
ScreensKeepTheirWord == OffersAreHonoured /\ OwnersLeaveNothingPending
=============================================================================
