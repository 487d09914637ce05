------------------------------ MODULE Notices ------------------------------
(***************************************************************************)
(* What leaves the system after a booking's transaction has committed: the *)
(* row of the club's backup spreadsheet, written by reading the sheet and  *)
(* then updating or appending, and the mails and WhatsApp messages to the  *)
(* member.  None is retried after a crash, and a creation's row, an        *)
(* approval's messages and a cancellation's are under way at once.         *)
(*                                                                         *)
(* ClosesEarly, which no other definition uses, is a wrong version of      *)
(* Closes; FoundNever is one of Found.                                     *)
(***************************************************************************)
EXTENDS Integers, Sequences, FiniteSets

CONSTANTS
    Reservations,  \* the bookings
    MaxTries       \* attempts at one message

ASSUME MaxTriesAssumption == MaxTries \in Nat \ {0}

VARIABLES
    fate,      \* per booking, what was last committed
    sheet,     \* the rows of the spreadsheet
    syncing,   \* per booking and status, the sync of its row
    sending,   \* per booking and message, the attempt under way
    told,      \* per booking and channel, the messages that arrived, in order
    noted,     \* per booking, what the approval's sync will put under Channel
    mishaps    \* history: what went wrong or crossed, per booking

noticeVars == <<fate, sheet, syncing, sending, told, noted, mishaps>>

LedgerStatuses == {"PENDING_APPROVAL", "CONFIRMED"}
Channels  == {"mail", "whatsapp"}
Messages  == {"confirmed", "cancelled"} \X Channels
SheetRow       == [ref : Reservations, status : LedgerStatuses, channel : {"", "sent", "failed"}]
Phases    == {"idle", "read", "update", "append", "over"}
Idle      == 0
Over      == MaxTries + 1

NoticesTypeOK ==
    /\ fate \in [Reservations -> {"none", "pending", "approved", "cancelled"}]
    /\ sheet \in Seq(SheetRow)
    /\ syncing \in [Reservations -> [LedgerStatuses -> Phases]]
    /\ sending \in [Reservations -> [Messages -> Idle .. Over]]
    /\ told \in [Reservations -> [Channels -> Seq({"confirmed", "cancelled"})]]
    /\ noted \in [Reservations -> {"", "sent", "failed"}]
    /\ mishaps \in [Reservations -> SUBSET {"overlap", "lost", "failed", "unsynced", "late"}]

NoticesInit ==
    /\ fate = [b \in Reservations |-> "none"] /\ sheet = <<>>
    /\ syncing = [b \in Reservations |-> [s \in LedgerStatuses |-> "idle"]]
    /\ sending = [b \in Reservations |-> [m \in Messages |-> Idle]]
    /\ told = [b \in Reservations |-> [c \in Channels |-> <<>>]]
    /\ noted = [b \in Reservations |-> ""]
    /\ mishaps = [b \in Reservations |-> {}]

Under(b, s)   == syncing[b][s] \in {"read", "update", "append"}
Attempted(b, m) == sending[b][m] \in 1 .. MaxTries
Went(b, what) == mishaps' = [mishaps EXCEPT ![b] = @ \cup what]

-----------------------------------------------------------------------------
(* Commits *)

\* The creation's sync is fired and not awaited.
Create(b) ==
    /\ fate[b] = "none"
    /\ fate' = [fate EXCEPT ![b] = "pending"]
    /\ syncing' = [syncing EXCEPT ![b]["PENDING_APPROVAL"] = "read"]
    /\ UNCHANGED <<sheet, sending, told, noted, mishaps>>

\* An approval mails, then messages, then syncs, one after the other.
ApproveBooking(b) ==
    /\ fate[b] = "pending"
    /\ fate' = [fate EXCEPT ![b] = "approved"]
    /\ sending' = [sending EXCEPT ![b][<<"confirmed", "mail">>] = 1]
    /\ UNCHANGED <<sheet, syncing, told, noted, mishaps>>

\* A cancellation mails and messages at once, and leaves the sheet alone.
CancelBooking(b) ==
    /\ fate[b] \in {"pending", "approved"}
    /\ fate' = [fate EXCEPT ![b] = "cancelled"]
    /\ sending' = [sending EXCEPT ![b][<<"cancelled", "mail">>] = 1,
                                  ![b][<<"cancelled", "whatsapp">>] = 1]
    /\ Went(b, IF fate[b] = "approved" /\ \E c \in Channels : sending[b][<<"confirmed", c>>] # Over
               THEN {"late"} ELSE {})
    /\ UNCHANGED <<sheet, syncing, told, noted>>

-----------------------------------------------------------------------------
(* Messages *)

\* The message whose outcome the sheet's Channel column tells.
ClosesEarly(m) == m = <<"confirmed", "mail">>
Closes(m)      == m = <<"confirmed", "whatsapp">>

\* The approval sends its WhatsApp message after its mail.
Follows(m, n) == n = <<"confirmed", "mail">> /\ m = <<"confirmed", "whatsapp">>

Settled(b, m, outcome) ==
    /\ sending' = [sending EXCEPT ![b] = [n \in Messages |-> IF n = m THEN Over
                                                           ELSE IF Follows(n, m) THEN 1 ELSE @[n]]]
    /\ IF Closes(m)
       THEN /\ noted' = [noted EXCEPT ![b] = outcome]
            /\ syncing' = [syncing EXCEPT ![b]["CONFIRMED"] = "read"]
       ELSE UNCHANGED <<noted, syncing>>

Arrives(b, m) == told' = [told EXCEPT ![b][m[2]] = Append(@, m[1])]

Delivered(b, m) ==
    /\ Attempted(b, m)
    /\ Arrives(b, m) /\ Settled(b, m, "sent")
    /\ UNCHANGED <<fate, sheet, mishaps>>

\* A mail is tried again after any error, a WhatsApp message only when it was
\* refused for the rate.
Retried(b, m) == sending[b][m] < MaxTries
Tries(b, m) ==
    IF Retried(b, m) THEN sending' = [sending EXCEPT ![b][m] = @ + 1] /\ UNCHANGED <<noted, syncing>>
    ELSE Settled(b, m, "failed")

SendRefused(b, m) ==
    /\ Attempted(b, m)
    /\ Tries(b, m)
    /\ Went(b, IF Retried(b, m) THEN {} ELSE {"failed"})
    /\ UNCHANGED <<fate, sheet, told>>

SendUnanswered(b, m) ==
    /\ Attempted(b, m)
    /\ Arrives(b, m)
    /\ IF m[2] = "mail" THEN Tries(b, m) ELSE Settled(b, m, "failed")
    /\ Went(b, {"lost"})
    /\ UNCHANGED <<fate, sheet>>

-----------------------------------------------------------------------------
(* The sheet *)

FoundNever(b) == FALSE
Found(b)      == \E i \in DOMAIN sheet : sheet[i].ref = b
FirstOf(b)    == CHOOSE i \in DOMAIN sheet : sheet[i].ref = b /\ \A j \in 1 .. i - 1 : sheet[j].ref # b

SheetRead(b, s) ==
    /\ syncing[b][s] = "read"
    /\ syncing' = [syncing EXCEPT ![b][s] = IF Found(b) THEN "update" ELSE "append"]
    /\ Went(b, IF \E o \in LedgerStatuses \ {s} : Under(b, o) THEN {"overlap"} ELSE {})
    /\ UNCHANGED <<fate, sheet, sending, told, noted>>

NewRow(b, s) == [ref |-> b, status |-> s, channel |-> IF s = "CONFIRMED" THEN noted[b] ELSE ""]

UpsertByRef(b, s) ==
    /\ \/ syncing[b][s] = "update" /\ sheet' = [sheet EXCEPT ![FirstOf(b)] = NewRow(b, s)]
       \/ syncing[b][s] = "append" /\ sheet' = Append(sheet, NewRow(b, s))
    /\ syncing' = [syncing EXCEPT ![b][s] = "over"]
    /\ UNCHANGED <<fate, sending, told, noted, mishaps>>

SheetFails(b, s) ==
    /\ Under(b, s)
    /\ syncing' = [syncing EXCEPT ![b][s] = "over"]
    /\ Went(b, {"unsynced"})
    /\ UNCHANGED <<fate, sheet, sending, told, noted>>

\* The process dies with everything of a booking that was under way.
NoticesLost(b) ==
    /\ \E s \in LedgerStatuses : Under(b, s)
       \/ \E m \in Messages : Attempted(b, m)
    /\ syncing' = [syncing EXCEPT ![b] = [s \in LedgerStatuses |-> "over"]]
    /\ sending' = [sending EXCEPT ![b] = [m \in Messages |-> Over]]
    /\ Went(b, {"failed", "unsynced"})
    /\ UNCHANGED <<fate, sheet, told, noted>>

NoticesNext ==
    \E b \in Reservations :
        \/ Create(b) \/ ApproveBooking(b) \/ CancelBooking(b) \/ NoticesLost(b)
        \/ \E m \in Messages : Delivered(b, m) \/ SendRefused(b, m) \/ SendUnanswered(b, m)
        \/ \E s \in LedgerStatuses : SheetRead(b, s) \/ UpsertByRef(b, s) \/ SheetFails(b, s)
-----------------------------------------------------------------------------
(* Properties *)

Quiet(b) == /\ \A s \in LedgerStatuses : ~Under(b, s)
            /\ \A m \in Messages : ~Attempted(b, m)

RowsOf(b)     == {i \in DOMAIN sheet : sheet[i].ref = b}
Count(m, seq) == Cardinality({i \in DOMAIN seq : seq[i] = m})

\* Once nothing of a booking is under way, the sheet has one row of it, in
\* the state the owner left it in and with what became of the WhatsApp
\* message, unless a sync failed or the creation's sync met the approval's
\* (sheets.service.ts 140-174, create-booking.usecase.ts 511-531).
SheetIsTrue ==
    \A b \in Reservations : Quiet(b) /\ mishaps[b] \cap {"overlap", "unsynced"} = {} =>
        /\ Cardinality(RowsOf(b)) = IF fate[b] = "none" THEN 0 ELSE 1
        /\ \A i \in RowsOf(b) :
              /\ sheet[i].status = "CONFIRMED" <=> syncing[b]["CONFIRMED"] = "over"
              /\ sheet[i].channel = "sent" => told[b]["whatsapp"] # <<>>
              /\ sheet[i].status = "CONFIRMED" /\ sheet[i].channel # "sent" => mishaps[b] \cap {"lost", "failed"} # {}

\* The last a member hears of a cancelled booking is its cancellation, unless
\* a message failed or the confirmation was still on its way; and each is
\* heard once, unless an answer was lost (cancel-booking.usecase.ts 326-358).
LastWordHolds ==
    \A b \in Reservations, c \in Channels :
        /\ fate[b] = "cancelled" /\ Quiet(b) /\ mishaps[b] \cap {"late", "failed"} = {} =>
              told[b][c] # <<>> /\ told[b][c][Len(told[b][c])] = "cancelled"
        /\ "lost" \notin mishaps[b] => \A m \in {"confirmed", "cancelled"} : Count(m, told[b][c]) <= 1

NoticesAreTrue == SheetIsTrue /\ LastWordHolds
=============================================================================
