# CourtFlow: TLA+ models, checks and proofs

CourtFlow is the booking and operations system of a padel club: customers reserve court time and
pay a deposit, staff verify payments and run the desk, the owner manages courts, money,
tournaments and coaching. The backend (`backend/src`, Express on PostgreSQL) holds the authority;
the frontend (`frontend/src`, Next.js) decides what people are shown and what they are offered.
This directory models both in TLA+, checks the models with TLC and proves the main theorems with
TLAPS. `PROJECT.json` names the source lines of every definition, the runs, the mutants, the
hazards and the theorems.

Paths below are relative to the repository; file names are unique enough to find them.

## 1. Inventory

| Component | State | Operations | What makes it correct | Modules |
|---|---|---|---|---|
| Booking lifecycle (`application/booking`, `booking.controller`) | `bookings`, `payments` | create, upload receipt, verify, settle, check in, cancel, delete | status and payment do not drift apart, closed bookings stay closed, collected money is accounted for | `BookingLifecycle` |
| Refunds and ledger (`refund.controller`, `ledger.service`) | `refunds`, `payments.refunded_amount`, `ledger_entries` | request, approve, reject, post entries | refund rows, payment and ledger tell one sum | `BookingLifecycle` |
| Payment webhook | `payment_webhook_events` | apply an event to a booking or a team's fee | redelivered and late events change nothing twice | `BookingLifecycle`, `TournamentFees` |
| Subscriptions | `subscriptions` and their bookings | create, revoke | nothing over another row, no future slot after revocation but one checked in early | `CourtSchedule`, `BookingLifecycle` |
| Cron jobs (`cron/index`) | advisory locks, reminder marks | expire, mark no-shows, remind | unpaid slots come free, a reminder goes out once | `BookingLifecycle`, `Reminders` |
| Court schedule (`booking.validator`, `court.controller`) | `bookings`, `blocked_periods`, `training_sessions`, court rows as locks | book, block, open and deactivate courts | no double booking, no booking over a block, no deadlock | `Timetable`, `CourtSchedule` |
| Working hours and boards | `working_hours`, pages that draw a day | validate, draw a grid, open a form on a slot | the validator honours the week, a green slot can be had | `OpeningHours`, `SlotBoards` |
| Waitlist, holds, equipment | `waitlist_entries`, `slot_holds`, `equipment`, `booking_equipment` | join, route a freed slot, claim, rent, edit the catalogue | one offer per slot, stock covers what is rented | `BookingDesk` |
| Coaching | `coaches`, `training_sessions`, `users.role` | link logins, log, collect and cancel sessions | collected once, split as announced, links promote | `CoachLogins`, `CoachingLedger` |
| Tournaments | `tournaments`, teams, `matches` | register, draw, record, redraw, fees | sound bracket, fee credited once | `Tournament`, `TournamentFees` |
| Authentication | `users`, `refresh_tokens`, Redis, the cookie, the tabs | register, verify, log in, refresh, log out, suspend, reset | one session per login, no call left hanging, an address gets in where its password fits | `Sessions`, `Accounts`, `StaffPanel` |
| Tenancy and database | pooled connections and their settings, `schema_migrations` | connect, scope, release, migrate | a statement sees its club, a file is recorded when applied | `TenantPool`, `Upgrades` |
| Courts and cache | court rows, one Redis key | list, edit, number | a stale list has a cause, numbers are apart | `CourtCache` |
| Lost and found | items, claims | claim, decide | one owner | `LostFound` |
| Finance, analytics, reports | (reads) `report_jobs` | summaries, nine reports, the paged ledger | the screens account for the club's money, the charts agree with the headline | `CashBook`, `CoachingLedger`, `ReportJobs`, `Overview`, `Listings` |
| Expenses, inventory, desk pages | their tables | a change, then a reload of some lists | a page at rest shows the database | `Consoles` |
| Audit log | `audit_logs` | strict and best-effort entries | an entry tells what was done | `AuditTrail` |
| Notifications and sheets | mails, messages, a spreadsheet | send, upsert | the last notice tells the booking's state | `Notices` |
| HTTP surface | route guards | roles, permissions | the menu offers what the routes let through | `Access` |
| Frontend | profile, forms, loads in flight | menus, settings, screens of a booking | forms are fresh, a late answer does not mislead | `Screens`, `Pages`, `Access`, `Consoles`, `SettingsForm`, `Listings` |
| Receipt encryption | files | encrypt, decrypt | cryptography | none |

**How they meet.** All components share one PostgreSQL database. Transactions are plain `BEGIN`
(`database/client.ts:70`), that is READ COMMITTED, although a comment there calls them
serializable: every statement sees what is committed when it starts, and only row locks (`FOR
UPDATE`) and advisory locks exclude anybody. The cancellation calls the ledger and the waitlist in
its own transaction; the webhook and the cron jobs write the rows the handlers write; bookings,
blocks, subscriptions and training sessions compete for one calendar. Mails, messages and sheet
rows leave after the commit. Pages keep copies of rows and decide on them; the server decides
again.

**What is hard.** Which rows a lock really covers; looks at several tables in sequence; handlers
that are several statements with no transaction; events, uploads and cron ticks that arrive after
a booking moved on; refunds that meet cancellations and settlements; copies that outlive what they
copied (the cache, a form, a page of a list, a menu); two calls of one click. `PROJECT.json`
lists each hazard at its line with the properties that watch it, or the reason none does.

## 2. Modules

A module has one VARIABLE per column, copy or thing in flight, and one action per handler,
statement or event. The grain is the code's: a handler that locks its row first and reads only
under the lock is one action; a handler without a transaction is one action per statement; a
call of a page is a request, an answer and what the page does with it. Definitions carry the
names of the functions they model.

A few definitions in each module are used by no action. Each is a wrong version of another (a
missing lock, a dropped guard, an off-by-one), named in the module's header; replacing the right
one by it makes the property `PROJECT.json` pairs them with fail, which is evidence that the
property says something about that line of the code.

**Bookings and money.**
- `BookingLifecycle`: bookings with their payments, refunds, ledger sums, gateway events and a
  subscription. `status`, `payment`, `refunded`, `refunds`, `ledger`, `events` are the columns;
  `passed` says which deadlines lie behind the clock. A refund request is two actions, because its
  `SELECT … FOR UPDATE OF b` joins a payment row it does not lock.
- `CashBook`: the queries by which the day's summary, the analytics and the finance page compute a
  booking's income, and by what they differ.
- `CoachingLedger`: a session's split, its collection from a screen that may be out of date, and
  the totals of every report. `MCMoney` runs it beside the bookings.
- `Totals`: a sum over a finite set, which both ledgers use.
- `Screens`: the staff's and the customer's screens of one booking over the handlers.
- `BookingDesk`: creation with courts, holds and item locks, against cancellations that promise
  the slot to the waitlist.

**The calendar.** `Timetable` is the promise: a court handed out one indivisible claim at a time.
`CourtSchedule` is the code, statement by statement: `Arrive`, `TakeLock`, `Pass`, `Refuse`,
`Commit`, `Abort`; its `HandsOutCourts` is the refinement. Time is a set of slots, and `past` those that are
over; two spans overlap when they share a slot. The exclusion constraint of migration 021 is *not* modelled, so that the
locking is shown to be enough without it. `OpeningHours` is the validator's merging of three days'
windows against a plain reading of the week; `SlotBoards` are the pages that draw it, what a day of
the schedule loads and where a booking or a block lies in its rows, and the forms they open.

**Accounts.** `Sessions` (token rotation, reuse, the interceptor's queue in two tabs), `Accounts`
(registration of members and clubs, links, sign-in over several clubs), `StaffPanel`, `CoachLogins`,
`Access` (the guards of all routes against what menus and pages offer, two tabs, changing roles).

**Around them.** `Tournament`, `TournamentFees`, `LostFound`, `CourtCache`, `Reminders`,
`TenantPool`, `Notices`, `AuditTrail`, `Upgrades`, `ReportJobs` (a revenue report sums prices),
`Overview` (the headline, charts and customers of the analytics: a count is the set of bookings it runs
over, a revenue the sum of what was collected on them), and the pages: `Pages` (the order of answers,
and reloads of the choice a button was pressed under), `Consoles` (ten pages' lists after a change or
another choice), `SettingsForm`, `Listings` (LIMIT and OFFSET over a table that changes).

**MC modules.** `MCMoney`, `MCLifecycle`, `MCSchedule`, `MCDesk`, `MCSessions`, `MCStaffPanel`
instantiate; `MCServices` and `MCScreens` run parts that share no row: a variable `running` picks
the part of a behaviour, the others stand still. Their product would only multiply states that
cannot meet, and every part is explored in full.

**Proofs.** `TotalProofs` (what a sum over a finite set is), `BookingLifecycleProofs` (with the coaches'
ledger), `BookingDeskProofs`, `CourtScheduleProofs`, `SessionsProofs`, `ScreensProofs` (the parts of
`MCScreens`), `ClubProofs` (the bracket, the opening hours, the boards, the reports and charts, the
notices) and `ServicesProofs` (the other parts of `MCServices`, and all of them together). Each part
is proved over its own next-state relation.

## 3. Runs that pass

| Run | Instance | Distinct states | Shows |
|---|---|---|---|
| `money` | 1 booking, 2 refund requests, 1 event, price 2, deposit 50 %; 2 sessions of a coach | 530 485 | payment follows booking, refunds stand on verified payments, the books balance, the screens account for the money kept, sessions are collected once; `TerminalIsFinal` as an action property |
| `release` | a booking and a weekly one, cron with fairness | 180 441 | a revoked subscription keeps only early check-ins; unpaid slots come free (liveness) |
| `calendar` | 3 requests out of 10 demands, 2 courts, 2 slots, 1 of which ends meanwhile, 2 customers, 2 coaches | 378 047 | refinement of `Timetable`, one unpaid booking that lies ahead per customer, sessions apart |
| `new_court` | 3 requests out of 6 demands, a court opened on the way, fairness | 135 318 | no double booking, no booking over a block; every request answered (liveness) |
| `sessions` | 2 tabs, 2 calls at once, 3 tokens, 1 incident, fairness | 245 182 | rotation and reset sound; every call settles (liveness) |
| `desk` | 3 requests, 2 courts, 2 items, 2 wishes, 1 catalogue edit, fairness | 411 686 | holds kept and served once, stock covers; every request answered (liveness) |
| `screens` | six parts, see `MCScreens.cfg` | 1 588 654 | fresh forms are true, pages keep their word |
| `services` | fifteen parts, see `MCServices.cfg` | 1 036 798 | one property per part |

What the composite properties say, part by part:

- `PagesKeepTheirWord`: buttons of a fresh screen are accepted and refused ones leave no trace
  (`Screens`); what a menu offers passes the routes unless the profile is out of date
  (`AccessIsSound`); a page that has come to rest shows the database's rows of what is chosen, but
  for the crossings and the one list it names (`ConsolesShowTheTruth`); a save stores what was typed
  over what was loaded, and hours nobody wrote only where the week did not load or had days without a
  row (`SettingsAreSound`); one account per club and address, opened by its own link and password
  (`AccountsAreSound`); walking the pages of a list shows each row once, unless a row entered or
  left meanwhile or shares its time with others (`ListsAreTrue`).
- `WhatIsToldIsTrue`: a green slot can be had, and the schedule has every booking but the morning's
  (`BoardsAreTrue`); the last notice of a booking and
  the sheet's row tell its state, unless one of the listed mishaps befell them (`NoticesAreTrue`);
  a strict operation stands if and only if all its entries do, another lacks one only where the
  log failed, only one written before its commit can leave an entry of what never
  happened, and no connection returns to the pool in the writer's role (`TrailIsTrue`); in a database the runner
  managed from the start each file took effect once and is recorded, in the order of the names but
  for files shipped late, and a run fails only for a cause (`UpgradesAreSound`); the nine reports count each booking
  in one period, agree with one another over one window, and a document is named for what it
  holds (`PapersAreTrue`); the charts split the headline's bookings and its revenue without gap or
  overlap, a bar of the revenue chart and the day's report differ by exactly what is owed of the
  prices, collected above them and kept of no-shows, a customer counted as returning had come before,
  and the customers' page has the same bookings and, beside what was collected, what is on file
  without a method (`OverviewIsTrue`).
- `ScreensAccountForMoney`: the finance page counts every pound kept once; the day's summary and the
  analytics show the gross, the split by method what of it was not paid online, and the finance page
  differs from them by the refunds approved and the deposits forfeited, and by nothing else.
- `LoginsAreSound`, `BracketIsSound`, `FeesAreSound`, `OneOwner`, `HoursHonoured`,
  `MisleadingTakesHaste`, `StaleCopyNeedsCause`, `TwiceNeedsMishap`, `EveryStatementSeesItsScope`:
  the part the name says.

Several properties have the form *this goes wrong only if that happened*, with history variables
(`hasty`, `mishaps`, `moved`, `stale`): the code does let it go wrong, and the property says exactly when.

**Why these bounds are enough.** Handlers touch one booking, so one booking meets every
interleaving of its own writers; the bulk updates are checked with two. Two refund requests are
the least that compete for one sum; one event is redelivered or late at any moment. Price 2 with a
50 % deposit has a payment below, at and above the deposit and a discounted price whose deposit
rounds. Three requests let the third run between two statements of the other two; two courts are
the least for locks in an order, two slots for spans that overlap in part. Two tabs, two desks, two
ticks, two migration runs are the least that race; three tokens let one be rotated twice. A
tournament of three teams draws a bye, a fourth fills it and a fifth is one over the cap. The week of `OpeningHours` has a day before and
a day after the booking's, and rows of eight kinds, every one the settings page can write. A list
of four rows has two pages of two with a subscription's rows across their border. Reports have a
booking at three at night and one at nine, whose club days, and whose UTC days, differ; the
charts run over one day and over two, with one court retired and one customer who came twice, and with
a receipt above the price of one, with an amount that has no method, and nothing paid of the other;
the boards have a row before noon, one over midnight and one after it. One of two slots ends
while requests run, so that an unpaid booking may be over before it expires. Symmetry is
used only in runs without liveness. Every counter is bounded by a named constant (`MaxOpen`,
`MaxLoads`, `MaxReloads`, `MaxAsks`, `MaxUnderWay`, `MaxVersions`, `MaxTries`, `MaxIncidents`, `MaxRowEdits`, …).

Deadlock is not checked: with finitely many names every instance ends in a state in which all
is answered. That requests do not wait for each other for good is checked as `AllAnswered`,
`EveryRequestAnswered` and `EveryCallSettles`, which is stronger.

**Fairness.** `BookingLifecycle!FairSpec` lets the clock reach a booking's expiry and the two expiry
jobs run when they have something to do: `node-cron` ticks every few minutes and a failed tick is
repeated by the next. No customer and no staff member is assumed to act. `CourtSchedule!FairSpec`
and `BookingDesk!FairSpec` let a transaction that can execute its next statement execute it: the
handler awaits one query after the other; nothing forces an `Abort`. `Sessions!FairSpec` lets the
server answer what reached it and the event loop run what it was handed. All is weak fairness; the
parts of `MCServices` and `MCScreens` assume none.

## 4. Runs that find a disagreement

Each checks one sentence of a comment, and TLC finds the behaviour of the code that contradicts it.

| Run | Promise | What the code does |
|---|---|---|
| `returned` | `refunded_amount` reflects the money returned (`cancel-booking.usecase.ts:191`) | a cancellation returns the whole collected sum on top of refunds approved before or after it |
| `session` | a booking and a session cannot both pass on a court (`coaching.controller.ts:363`) | bookings never look at `training_sessions` |
| `two_tabs` | a rotated token presented again means theft (`auth.controller.ts:553`) | two honest tabs of one browser do it, and lose all sessions |
| `last_owner` | never the last active owner is removed (`auth.controller.ts:890`) | two owners remove or suspend each other at once |

### Met on the way, without a run

*Bookings and money.* Cancelling a checked-in booking writes a status the state machine has no edge
for; a late cancellation turns a fully refunded payment into kept money; a first insufficient gateway payment replaces the deposit the second is compared with; a
refund request that waited for a cancellation is stored although the payment is no longer
approved; a settlement may lower collected money below what was refunded. The settle form turns
NONE into CASH when an unpaid form is saved; the owner's refund may fail after its first call, and
no screen approves a clerk's pending refund. The screens do not agree on revenue, though
`analytics/revenue.ts:2-4` and `analytics.controller.ts:19-22` say so: the finance page takes refunds off
(`finance.controller.ts:207`) and adds forfeited deposits, the day's summary, the analytics and the
finance page's own six months do neither; `ScreensAccountForMoney` says by how much they differ. A
revocation cancels "every future, non-terminal occurrence" (`subscription.controller.ts:142`), but one
checked in before its start, which `booking.controller.ts:511` allows at any time, is not in its list and
keeps its slot.

*Calendar.* A club-wide block neither locks nor sees a court opened meanwhile; a cancelled session is
set back to `scheduled` unchecked. Of several overlapping holds only the oldest is compared; an
expired unclaimed hold is not offered again. A club whose hours open and close at one time never
closes for the validator (`booking.validator.ts:170`), while the schedule draws a single row of its
day (`schedule/page.tsx:518`); the block form cannot end at midnight. The week calendar hides
what lies after midnight; the booking page reads an hour before six as the next day and the desk's
panel does not. `getCourtAvailability` leaves out drafts. A booking awaiting payment whose end has passed
and which the cron job has not expired does not count against the customer's next one
(`create-booking.usecase.ts:143`). The schedule draws rows from the opening hour but loads a day from
noon to six (`court.controller.ts:334`): what begins at six or later and is over by noon is on no day
of it.

*Accounts.* "Register again to get a fresh link" (`verify-email/page.tsx:74`) is refused for a known
address, and nothing sends the link again. The mail leaves before the commit. Two registrations of
one address answer 500; concurrent failures lose counts of the lockout. A reset whose answer was lost
calls its link invalid on the retry. Logout does not revoke the refresh row reliably, because the
cookie's path is `/api/auth/refresh`.

*Screens.* The member's "Pay online" for a tournament is always refused by the route. The audit page
swallows a failed load and shows an empty log. When the week cannot be loaded the settings page
shows 08:00–23:00 with Save enabled, while a club that cannot be loaded disables it; a week that loads
but lacks a day's row is filled the same way and saved with the rest (`settings/page.tsx:124`). A
button's handler loads again what was chosen when it was pressed: of the finances, the courts, the
tournaments and the claims on a found item the page may then show another choice's rows, with no load
under way when the choice was made. Pages that keep the old rows under an error clear the error when a
form opens. The expenses have no spinner, so a new range has the old one's rows until its own
arrive. After an account is made or removed the staff page reloads without waiting, and a late
answer undoes, on the screen, a switch set meanwhile (`staff/page.tsx:203`, `221`). The coaching
roster's session count is not reloaded when a session is cancelled. The bookings page has no way
beyond the first 25 rows, and its search looks at those only; the sidebar's badge stops at 50. A
subscription's payments share one `created_at` and the ledger sorts by nothing else, so paging over
them may repeat one and miss another although nothing changed; after a failed load of the ledger a
successful reload leaves the error on the page.

*Notices.* A creation's sheet row may be written after the approval's and put PENDING back;
bookings confirmed by staff or by the gateway stay pending in the sheet and cancellations never
reach it; a confirmation can arrive after the cancellation.

*Reports.* The date fields are midnight UTC: from and to on one day give an empty report, against
"Revenue breakdown for a specific date" (`reports/page.tsx:14`), and the last day is always left
out. A download is built again, with today's window when the dates were left empty, although both
paths "always agree" (`report.controller.ts:64`). A failed build leaves its job queued for ever. The
analytics' split leaves out the gateway's ONLINE money, and court revenue leaves out deactivated
courts. The owner's revenue report leaves out the deposits kept of no-shows, which
`analytics/revenue.ts` counts, and sums `payments.total_amount`, the price before any discount
(`report.controller.ts:148`), where the charts sum what was collected; the reports do not leave out
soft-deleted bookings, which stay in the history and the customers' report, and among the
cancellations if they were cancelled first; the customers' page adds up
deposit and remainder even where no method says that they were paid (`auth.controller.ts:698`). The
first month of the customers' growth begins at midnight UTC and
misses the club's first hours of that month.

*Platform.* A best-effort audit entry written inside a transaction survives its rollback; an entry
after the commit is lost when the cache call before it throws. A database set up by its container
has no `schema_migrations` rows, and the runner then stops at the first file that cannot be executed
twice (the file says so). `generateBracket` uses a bare connection with no tenant setting.

## 5. Proved

All theorems are for any values of the constants that satisfy the named assumptions: any number of
bookings, requests, courts, people, connections, any amounts. Each rests on an inductive invariant
that TLC checked first.

**The calendar (`CourtScheduleProofs`).** `CourtInv` is `TypeOK` and six parts. `Stages` and `Phased` pin a
transaction's program counter. `LooksLast`: once a look is passed no court lock is pending;
`CourtsLocked`: a request holds every court lock that is not pending; hence `LookedFree`: what a
look found free is still free, because whoever inserted a row in the way would have held a lock
this request holds; hence `RowsApart`. `NoDoubleBooking` alone is not inductive: it says nothing
of a request between its look and its insert. Theorems: `TypeCorrect`, `NeverDoubleBooked`,
`BlocksRespected` (on the courts the club started with), `CapHolds` (time only takes bookings out of the
count, and what a transaction counted by the clock of its BEGIN stays a bound), and `ImplementsTimetable`, the
refinement, assuming `Founding = Courts`; without that it is false, since a club-wide block does not
see a court opened meanwhile. `SessionsLandFree`: a training session lands on no booking and no
block. `SessionsKeepApart` needs a second chain of the same kind, `SessionInv`, over the coach's
lock, the court's and the look at rival sessions, and says of every overlap which session had been
cancelled and revived.

**The desk (`BookingDeskProofs`).** Two creations never hold one court or one item; a creation that
found its court unbooked keeps it so, and then no cancellation can hand out another hold on that
court, so what it read of the holds stays true; an item whose lock is held is neither edited nor
reserved. `DeskInv` says this of every request between two of its statements. Theorems: `DeskTyped`,
`WaitlistServedOnce`, `FreedSlotKept`, `RentalsCovered`.

**Bookings and money (`BookingLifecycleProofs`).** `RowsInv` is the row types,
`PaymentFollowsBooking`, `RefundsStandOnVerified`, `RevokedKeepsOnlyEarlyCheckIns` and `WeeklyRows`, which
need each other. Theorems: `RowTypesCorrect`, `PaymentFollows`, `RefundsStand`,
`RevokedFreesAllButCheckedIn`, `TerminalFinal`. The sums rest on `TotalProofs`: `Total` folds over a set by
a choice of elements, and that the fold exists, is unique and does not depend on the choice is
proved by induction on the set's size (induction over a set of numbers, which needs no operator
parameter); hence adding, removing and changing one element changes the sum by as much. With it
`MoneySettled`: a booking is settled at most once, and its columns, the sum of its refund rows and
its ledger move together. Theorems: `EveryRowTyped`, `BooksAgree`, `ReportsDifferAsNamed`
(a refund row approved on a booking that still counts is in its ledger, and nothing else is),
`MoneyAccountedFor`.

**Coaching (also `BookingLifecycleProofs`).** `TakenOnce` and `FormIsHonest`: a session is collected for the
amounts on its row, and an up-to-date form announces them but for one rounded unit (the invariant
says what a screen may hold). `CoachingSound` adds the sums: the coaches' shares, grouped by coach,
and the club's add up to the prices collected, by induction over the coaches. `MoneyTyped`: the types
of both books, whichever a behaviour is about.

**Sessions (`SessionsProofs`).** `Descent`: every row of a login hangs on its first one, and a rotation
under way owns the row it exchanges, so at most one row of a login lives. `OneLeader` and `Quiet`: in
a browser with one tab, no thief and no lost answer, what is presented is the newest row, so the
alarm needs a mishap. `SweptOrLate`: a live row has the current password, came of a login that read
the old one, or is still to be swept. `RowsLeft` counts what is under way against the rows not yet
used, so that no step lacks a row. Theorems: `SessionsTyped`, `RotationSound`, `ResetSound`.

**The parts beside them (`ServicesProofs`).** Each invariant ties what is in flight to the tables.
- `FeesSound`: a desk credits no more than it read as owed. `OnlyHasteMisleads`: a load not dropped,
  or a press whose reload is to come, is of the selection, or haste is recorded.
- `StaleExplained`, `NumbersApart`: a reader's copy equals the table or its crossing is recorded.
- `SentOnce`, `LockComesBack`: a mail sent and not marked belongs to the tick that holds the lock, or
  a fault is recorded. `ScopeHolds`, `CleanPool`: a connection in the pool is clean and one in use
  carries its call's club.
- `NoStrayPromotion`: no refused link makes a member a coach (what a link has read). `OneOwnerTold`:
  a first decision sees every claim of its item. `SwitchesTell`: calls are numbered, and the last one
  under way of a switch carries what its panel shows; a reload that is not late has read what the
  table still holds. `LoginsSound` takes the last two to `MCServices`.
- `TrailHolds`: each manner of logging has books of its own, of how far a transaction is and how many
  entries it left. `UpgradesHold`: a run that passed a file over found it recorded, so what is still
  before it in its list is unrecorded or another run's.
- `ServicesTyped` puts the types of all fifteen parts together. They need facts of their own: a team
  beyond the cap of a tournament is a registration that read it while there was room, a draw seats
  teams that are registered, a page's loads are numbered below the next, the first start of a database
  runs each file shipped at its rank (by counting, the ranks being a bijection), and a file is named
  only after its request.
- `HoursKept` and `TruthTold` take the theorems of `ClubProofs` to `MCServices`: with them every
  property of the run `services` is a theorem.

**The club (`ClubProofs`).**
- *The bracket.* `BracketInv`: the first round is the draw's and its byes are decided (`TreeKept`); a
  team stands only in a place its branch leads to, unless a redraw came between the reading and the
  storing of a result; unless two results of a match crossed or one was cut short, the winner of a match
  stands above it or its result is about to put it there (`MovedUp`), and a match under way has one
  recorder (`Decides`). `BracketIsSound` alone is not inductive: it does not say where a result under
  way leads. The draw itself needs lemmas about `SeedOrder`, by induction over the rounds: the order of
  a tree of k rounds is a bijection on its 2^k slots in which the seeds of a first match add up to
  2^k + 1, so that a match never lacks both teams and the byes fall to the lowest seeds; and the
  branches of a match's two sides make up the branch of the match. `BracketHolds` says all this of a
  tournament of any size.
- *Opening hours.* The spans the validator merges stay apart and in order, and cover what the windows
  of the three days cover (`MergedIs`). A booking starts on the middle day and is no longer than a
  day, so at every moment of it those windows say what the plain reading of the week says
  (`CoversNear`, `OpenIs`). An interval of time covered by spans that stay apart lies within one of
  them (`OneSpan`), hence `HoursHold`.
- *The boards.* `BoardsInv`: bookings are of whole hours and none that holds its slot lies under a
  closure; a grid that is up to date shows the rows of its day, and a form that is up to date and still
  on the slot clicked asks for that slot, which is free. A cell of an hour meets a booking of whole hours
  only if it lies inside it, so the grid and the calendar show every row at its hour, and the schedule
  draws where it is all it loads, which is all but the morning: `BoardsHold`.
- *Reports and charts.* `ReportsInv`: a document built and not outdated is one of those its request
  asks for, a file is named for its request, a job's row follows its request. That each report counts
  a booking in one period with its price, and that the headline, the charts and the customers agree on
  what was collected and differ from the report as named, is proved of
  every table of bookings by pairing off: the bars of a chart are disjoint, cover the bookings of the
  headline, and their counts and sums add up (`CountedOnce`, `TotalBySlice` of `TotalProofs`). Days, months and the club's day are quotients, about which `DivIs` is
  enough. Theorem: `ReportsHold`.
- *Notices.* `NoticesHold`: without a crash an approval mails, then messages, then syncs (`InOrder`); until a
  message is settled its channel has not heard it, but for a lost answer (`HeardRight`); the creation's
  sync appends the row and the approval's finds it (`RowRight`), unless the two met.

**The screens (`ScreensProofs`).** Each part of `MCScreens` has an invariant over its own next-state
relation, and the three theorems, `BrowserTyped`, `FormsAreFresh` and `WordKept`, put them together:
they state all that the run `screens` checks.
- *A booking's screens.* `FormsSound`: a screen nobody went behind shows the row's status and money,
  also while its refund is asked for and approved, which ends on the form it began from.
- *Menus.* `Honest`: each page offers no more than the guards of its routes let in, role by role;
  `OneSession`: unless two sign-ins crossed, one session is behind the cookie, what is kept, the
  refreshes under way and every tab that asked after it.
- *Lists of a page.* `ListSound`: a list on which nothing crossed has one load under way, or one
  change that the page follows itself, or a change that will load it, or shows what is in the
  database; what a load or a change is to bring is of the choice it was started under. That a handler loads all it moves (`HandlerSound`) is proved page by page.
- *The settings page.* `FormKnows`, `SaveCarries`, `SaysSaved`: what a form shows, default hours of
  missing days included, what a save under way carries, and what a page that says "saved" left in the tables.
- *Accounts.* `RegistrationSound`: before its commit a registration has the club's place to itself,
  after it the account. `SignInSound`: what a sign-in read stays true, but for passwords.
- *Paged lists.* `WalkSound`: on the pages read so far are the rows with fewer newer ones than those
  pages hold, on the next ones the others, as long as rows only come or only leave; the rows of one
  time are the exception. `SliceCut` counts what LIMIT and OFFSET cut out of a finite set. Without
  haste the one load under way is of what the page asks for (`RestSound`).

**Only model-checked.** Liveness, which is out of the prover's reach: unpaid slots come free, every
request of the schedule and of the desk is answered, every call of a tab settles. Every invariant and
every action property of a passing run is stated by a theorem.

## 6. Assumptions of the models

- READ COMMITTED as described above; a statement's snapshot and its locks are one step, except for
  the refund request and the refresh, where the code's comment depends on the difference.
- A webhook event is applied at most once per id, by the unique index on `provider_event_id`;
  signature and replay window are checked before any state is read.
- An advisory lock excludes while its connection lives; the reminders let it be lost.
- Rows of one sort key come in any order.
- The named assumptions on constants: prices and amounts are naturals, a percentage is between 0 and
  100, the tables summed over are finite (`RefundsAssumption`, `RowsAssumption`), as are the tabs and
  calls of one account (`FiniteAssumption`) and the clubs (`FoundedAssumption`); a placeholder (`None`, `NoTick`, `Blank`, `Vacant`, …) is none of
  the things it stands beside; what is asked for names things there are (`AsksAssumption`,
  `WishesAssumption`, `DemandsAssumption`); a booking lasts an hour at least and a day at most
  (`SpanAssumption`; `MAX_DURATION_MINUTES` is twelve hours, `booking.validator.ts:30`), a page
  loads once at least (`LoadsAssumption`), the entrants and the bookings of the reports are finitely
  many, and the club's clock is ahead of UTC by no more than its day begins after midnight
  (`ReportsAssumption`; Cairo is ahead by two or three hours and the day begins at six), prices and
  receipts are naturals with no more collected than is on file; the hours that end are among those
  asked for (`HoursAssumption`). No theorem
  assumes a bound on any of them to be small.
- The boards' bookings start on a full hour and last whole hours, as every form asks for them. The
  route would take others; a page of hours cannot show those apart.
- A window opens on its own day, so the three windows a booking is compared with come in the order the
  validator sorts them into.
- A provider (mail, WhatsApp, sheet, gateway) is a call that succeeds, fails or takes its time.
- Daylight saving is left out; the club's clock has a fixed offset. No code sets
  `clubs.is_active` to false, so every club stays active.
- Detection of deadlocks by PostgreSQL is left out: the models show there is none to detect, or
  that locks are taken in one order.

## 7. Not modelled, and why

Receipt encryption, password hashes, token and webhook signatures are cryptography. Body schemas,
rate limits and headers only refuse. The policies of row-level security are a filter on every
statement: `TenantPool` models the setting they read. The courts' occupancy, the audit listing and
the profile are read-only SQL over rows the other modules own, as is the deposits column of the daily
report. Layout, animation, toasts, the showcase and the marketing pages are presentation.
Wording, formatting and the columns of messages, sheets and files are text.

## 8. Plan

Done: the models and runs above, and theorems for every safety property the runs check. Left:

1. An abstract session (live or ended) that `Sessions` implements, and an abstract stock that
   `BookingDesk` implements, with their refinements proved as that of `Timetable` is.
2. Larger instances of `desk` (three courts) and `calendar` (three slots), for the liveness that no
   theorem covers.
3. A court whose opening hours change while a page or a form is open (`SlotBoards` over a week that
   stands still), and bookings off the hour on the boards.

## 9. Running

    tlc -config MCMoney.cfg MCMoney                  # money
    tlc -config MCLifecycleRelease.cfg MCLifecycle   # release
    tlc -config MCScheduleCalendar.cfg MCSchedule    # calendar
    tlc -config MCScheduleNewCourt.cfg MCSchedule    # new_court
    tlc -config MCSessions.cfg MCSessions            # sessions
    tlc -config MCDesk.cfg MCDesk                    # desk
    tlc -config MCScreens.cfg MCScreens              # screens
    tlc -config MCServices.cfg MCServices            # services
    tlc -config MCLifecycleReturned.cfg MCLifecycle  # returned  (finds a violation)
    tlc -config MCScheduleSession.cfg MCSchedule     # session   (finds a violation)
    tlc -config MCSessionsTabs.cfg MCSessions        # two_tabs  (finds a violation)
    tlc -config MCStaffOwner.cfg MCStaffPanel        # last_owner (finds a violation)
    tlapm CourtScheduleProofs.tla                    # and the other seven *Proofs.tla
