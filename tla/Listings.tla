------------------------------- MODULE Listings -------------------------------
(***************************************************************************)
(* The owner's ledger of payments and the staff's list of bookings: a       *)
(* filter, and pages of the rows by LIMIT and OFFSET.  The ledger has Prev  *)
(* and Next, a search box that waits a moment, and headline numbers that    *)
(* a second statement reads; the bookings have the first page only.         *)
(* Nothing drops the answer to a choice that has passed.  The payments of a *)
(* subscription are made in one transaction and have one created_at, and    *)
(* rows of one time come in any order.                                      *)
(*                                                                         *)
(* OffsetPast and PageKept, which no other definition uses, are wrong       *)
(* versions of OffsetOf and PageAfterFilter.                                *)
(***************************************************************************)
EXTENDS Naturals, FiniteSets

CONSTANTS
    FirstRows,      \* the rows at first, 1 .. FirstRows
    Subscribed,   \* those that one subscription made, if any did
    MaxEntries,   \* bound on the rows
    PageSize,     \* LIMIT
    Filters,      \* the buttons, "all" among them
    Finds,        \* the rows that match what is typed into the search box
    MaxAsks,      \* bound on the loads
    MaxUnderWay,  \* bound on the loads at once
    MaxRowEdits      \* bound on the changes of the table

Entry == 1 .. MaxEntries
Terms == DOMAIN Finds

ASSUME ListingsAssumption ==
    /\ FirstRows \in Nat /\ MaxEntries \in Nat /\ FirstRows <= MaxEntries
    /\ PageSize \in Nat \ {0} /\ MaxAsks \in Nat \ {0} /\ MaxUnderWay \in Nat \ {0} /\ MaxRowEdits \in Nat
    /\ \E e \in Entry : Subscribed = {d \in Entry : d <= e /\ e <= FirstRows}
    /\ "all" \in Filters /\ Filters \subseteq {"all", "paid", "partial", "pending", "refunded"}
    /\ Finds \in [Terms -> SUBSET Entry] /\ \E t \in Terms : Finds[t] = Entry

\* LEDGER_STATUS_SQL
LedgerStatus ==
    [partially_refunded |-> "refunded", fully_refunded |-> "refunded", paid_in_full |-> "paid",
     deposit_approved |-> "partial", remaining_balance_pending |-> "partial",
     deposit_rejected |-> "rejected", deposit_pending |-> "pending"]

VARIABLES
    paged,    \* the ledger, or the bookings
    made,     \* how many rows there have been
    bornAt,   \* per row, its created_at
    standing, \* per row, its status, or "deleted"
    rowEdits,    \* how often the table changed
    filter, query, page,   \* what the page asks for
    sought, timer,          \* what is in the search box, and whether it waits
    listed,    \* the answer the page shows
    spinner, alarm,        \* whether it shows a skeleton, an error
    listLoads,     \* the loads under way
    askedSo,  \* how many so far
    mishaps,  \* history since the first page was last asked for
    walk      \* history: the pages read one after the other

listVars == <<paged, made, bornAt, standing, rowEdits, filter, query, page, sought, timer,
              listed, spinner, alarm, listLoads, askedSo, mishaps, walk>>
tableVars == <<made, bornAt, standing, rowEdits>>

ListChoice == [filter : Filters, query : Terms, page : 1 .. MaxAsks + 1]
Answer == [of : ListChoice, nr : 0 .. MaxAsks, rows : SUBSET Entry, total : 0 .. MaxEntries, rowsAt : 0 .. MaxRowEdits, totalAt : 0 .. MaxRowEdits]

ListingsTypeOK ==
    /\ paged \in BOOLEAN /\ timer \in BOOLEAN /\ spinner \in BOOLEAN /\ alarm \in BOOLEAN
    /\ made \in 0 .. MaxEntries /\ bornAt \in [Entry -> 0 .. MaxEntries]
    /\ standing \in [Entry -> DOMAIN LedgerStatus \cup {"deleted", "none"}]
    /\ [filter |-> filter, query |-> query, page |-> page] \in ListChoice /\ sought \in Terms
    /\ rowEdits \in 0 .. MaxRowEdits /\ askedSo \in 0 .. MaxAsks
    /\ listed \in Answer
    /\ \A a \in listLoads : a.answer \in Answer /\ a.stage \in {"asked", "read", "answering"}
    /\ mishaps \subseteq {"haste", "departure"}
    /\ walk.seen \subseteq Entry /\ walk.twice \subseteq walk.seen /\ walk.steady \subseteq Entry
    /\ spinner => listLoads # {}   \* a skeleton has an end

-----------------------------------------------------------------------------
(* listPayments, listBookings *)

MatchesOf(table, f, q) ==
    {e \in Finds[q] : /\ table[e] \notin {"none", "deleted"}
                      /\ f = "all" \/ LedgerStatus[table[e]] = f}
Matches(f, q) == MatchesOf(standing, f, q)

OffsetPast(p) == p * PageSize
OffsetOf(p)   == (p - 1) * PageSize

\* The first n of the rows, the latest first.
Firsts(rows, n) ==
    {S \in SUBSET rows : /\ Cardinality(S) = IF Cardinality(rows) <= n THEN Cardinality(rows) ELSE n
                         /\ \A x \in S, y \in rows \ S : bornAt[x] >= bornAt[y]}
Slices(rows, offset) == UNION {Firsts(rows \ skipped, PageSize) : skipped \in Firsts(rows, offset)}

-----------------------------------------------------------------------------
(* The page *)

NoAnswer == [of |-> [filter |-> "all", query |-> CHOOSE t \in Terms : Finds[t] = Entry, page |-> 1],
             nr |-> 0, rows |-> {}, total |-> 0, rowsAt |-> 0, totalAt |-> 0]
NoWalk   == [at |-> 0, seen |-> {}, twice |-> {}, steady |-> {}, came |-> FALSE, left |-> FALSE, done |-> FALSE]

AskFor(c) == [stage |-> "asked", answer |-> [NoAnswer EXCEPT !.of = c, !.nr = askedSo + 1]]

ListingsInit ==
    /\ paged \in BOOLEAN
    /\ made = FirstRows
    /\ \E batch \in {{}, Subscribed} :
          bornAt = [e \in Entry |-> IF e > FirstRows THEN 0 ELSE IF e \in batch THEN Cardinality(batch) ELSE e]
    /\ standing = [e \in Entry |-> IF e > FirstRows THEN "none"
                                  ELSE CASE e = 1 -> "paid_in_full" [] e = 2 -> "deposit_approved"
                                         [] OTHER -> "deposit_pending"]
    /\ rowEdits = 0 /\ askedSo = 1
    /\ filter = "all" /\ query = NoAnswer.of.query /\ page = 1
    /\ sought = query /\ timer = paged
    /\ listed = NoAnswer /\ spinner = TRUE /\ alarm = FALSE
    /\ listLoads = {[stage |-> "asked", answer |-> [NoAnswer EXCEPT !.nr = 1]]}
    /\ mishaps = {} /\ walk = NoWalk

\* A load of choice c, which forgets what happened if it is alone and of the first page.
Loads(c) ==
    /\ askedSo < MaxAsks /\ askedSo' = askedSo + 1
    /\ Cardinality(listLoads) < MaxUnderWay
    /\ listLoads' = listLoads \cup {AskFor(c)}
    /\ mishaps' = IF listLoads # {} THEN mishaps \cup {"haste"} ELSE IF c.page = 1 THEN {} ELSE mishaps

\* What the page asks for is set, and loaded when it is new.
Chooses(f, q, p) ==
    LET c == [filter |-> f, query |-> q, page |-> p]
    IN  /\ filter' = f /\ query' = q /\ page' = p
        /\ IF c = [filter |-> filter, query |-> query, page |-> page]
           THEN UNCHANGED <<spinner, alarm, listLoads, askedSo, mishaps>>
           ELSE Loads(c) /\ spinner' = TRUE /\ alarm' = FALSE

PageKept(p)        == p
PageAfterFilter(p) == 1
SetFilter(f) ==
    /\ paged \/ f # filter
    /\ Chooses(f, query, PageAfterFilter(page))
    /\ UNCHANGED <<tableVars, paged, sought, timer, listed, walk>>

NextPage ==
    /\ paged /\ Cardinality(listed.rows) >= PageSize
    /\ Chooses(filter, query, page + 1)
    /\ UNCHANGED <<tableVars, paged, sought, timer, listed, walk>>

PrevPage ==
    /\ paged /\ page > 1
    /\ Chooses(filter, query, page - 1)
    /\ UNCHANGED <<tableVars, paged, sought, timer, listed, walk>>

\* The ledger's box; the bookings' looks through the rows shown.
TypeSearch(t) ==
    /\ paged
    /\ sought' = t /\ timer' = TRUE
    /\ UNCHANGED <<tableVars, paged, filter, query, page, listed, spinner, alarm, listLoads, askedSo, mishaps, walk>>

\* 350 ms after the last key, and after the page opened.
TimerFires ==
    /\ timer /\ timer' = FALSE
    /\ Chooses(filter, sought, 1)
    /\ UNCHANGED <<tableVars, paged, sought, listed, walk>>

\* A booking's panel, opened over the ledger, changed something.
ReloadList ==
    /\ paged
    /\ Loads([filter |-> filter, query |-> query, page |-> page])
    /\ UNCHANGED <<tableVars, paged, filter, query, page, sought, timer, listed, spinner, alarm, walk>>

\* The walk goes on with the next page of one choice, and starts at the first.
Walked(a, rows) ==
    LET goesOn == walk.at > 0 /\ a.of = [walk.of EXCEPT !.page = walk.at + 1] /\ ~walk.done
        short  == Cardinality(rows) < PageSize
    IN  CASE a.of.page = 1 -> [at |-> 1, of |-> a.of, seen |-> rows, twice |-> {}, came |-> FALSE, left |-> FALSE,
                               steady |-> Matches(a.of.filter, a.of.query), done |-> short]
          [] a.of.page # 1 /\ goesOn -> [walk EXCEPT !.at = @ + 1, !.seen = @ \cup rows, !.twice = @ \cup (walk.seen \cap rows), !.done = short]
          [] OTHER -> NoWalk

ReadRows(a) ==
    /\ a.stage = "asked"
    /\ LET c == a.answer.of
       IN  \E rows \in Slices(Matches(c.filter, c.query), OffsetOf(c.page)) :
              /\ listLoads' = (listLoads \ {a}) \cup {[stage |-> IF paged THEN "read" ELSE "answering",
                                             answer |-> [a.answer EXCEPT !.rows = rows, !.rowsAt = rowEdits]]}
              /\ walk' = Walked(a.answer, rows)
    /\ UNCHANGED <<tableVars, paged, filter, query, page, sought, timer, listed, spinner, alarm, askedSo, mishaps>>

ReadSummary(a) ==
    /\ a.stage = "read"
    /\ listLoads' = (listLoads \ {a}) \cup {[stage |-> "answering",
                  answer |-> [a.answer EXCEPT !.totalAt = rowEdits, !.total = Cardinality(Matches(a.answer.of.filter, a.answer.of.query))]]}
    /\ UNCHANGED <<tableVars, paged, filter, query, page, sought, timer, listed, spinner, alarm, askedSo, mishaps, walk>>

ListLoaded(a) ==
    /\ a.stage = "answering"
    /\ listed' = [a.answer EXCEPT !.nr = 0] /\ listLoads' = listLoads \ {a} /\ spinner' = FALSE
    /\ UNCHANGED <<tableVars, paged, filter, query, page, sought, timer, alarm, askedSo, mishaps, walk>>

\* The rows stay.
ListFails(a) ==
    /\ listLoads' = listLoads \ {a} /\ spinner' = FALSE /\ alarm' = TRUE
    /\ mishaps' = mishaps \cup {"haste"}
    /\ UNCHANGED <<tableVars, paged, filter, query, page, sought, timer, listed, askedSo, walk>>

-----------------------------------------------------------------------------
(* The table *)

\* What a change does to the walk and to the pages ahead.
Noticed ==
    LET walked == IF walk.at = 0 THEN {} ELSE Matches(walk.of.filter, walk.of.query)
        are    == IF walk.at = 0 THEN {} ELSE MatchesOf(standing', walk.of.filter, walk.of.query)
    IN  /\ mishaps' = IF Matches(filter, query) \subseteq MatchesOf(standing', filter, query) THEN mishaps
                     ELSE mishaps \cup {"departure"}
        /\ walk' = [walk EXCEPT !.came = @ \/ ~(are \subseteq walked), !.left = @ \/ ~(walked \subseteq are),
                                !.steady = @ \cap are]

\* A booking makes one payment, a subscription several at once.
PaymentsMade(n) ==
    /\ made + n <= MaxEntries /\ rowEdits < MaxRowEdits
    /\ made' = made + n /\ rowEdits' = rowEdits + 1
    /\ bornAt' = [e \in Entry |-> IF e \in made + 1 .. made + n THEN made + n ELSE bornAt[e]]
    /\ standing' = [e \in Entry |-> IF e \in made + 1 .. made + n THEN "deposit_pending" ELSE standing[e]]

\* Approved, settled, or its booking deleted.
PaymentMoves(e) ==
    /\ rowEdits < MaxRowEdits /\ rowEdits' = rowEdits + 1
    /\ \E next \in {<<"deposit_pending", "deposit_approved">>, <<"deposit_approved", "paid_in_full">>}
                     \cup {<<s, "deleted">> : s \in DOMAIN LedgerStatus} :
          standing[e] = next[1] /\ standing' = [standing EXCEPT ![e] = next[2]]
    /\ UNCHANGED <<made, bornAt>>

TableChanges ==
    /\ (\E n \in 1 .. 2 : PaymentsMade(n)) \/ (\E e \in Entry : PaymentMoves(e))
    /\ Noticed
    /\ UNCHANGED <<paged, filter, query, page, sought, timer, listed, spinner, alarm, listLoads, askedSo>>

ListingsNext ==
    \/ \E f \in Filters : SetFilter(f)
    \/ NextPage \/ PrevPage \/ TimerFires \/ ReloadList
    \/ \E t \in Terms : TypeSearch(t)
    \/ \E a \in listLoads : ReadRows(a) \/ ReadSummary(a) \/ ListLoaded(a) \/ ListFails(a)
    \/ TableChanges
-----------------------------------------------------------------------------
(* Properties *)

Tied(e) == \E d \in Entry \ {e} : bornAt[d] = bornAt[e]

\* Going from page to page, a row comes twice only if another came into the
\* list before it, and is passed over only if another left, or if it shares
\* its time with others (payment.controller.ts 60-82, query-params.ts 30-44).
WalkIsWhole ==
    walk.at > 0 =>
       /\ ~walk.came => \A e \in walk.twice : Tied(e)
       /\ walk.done /\ ~walk.left => \A e \in walk.steady \ walk.seen : Tied(e)

\* At rest the page shows the rows of what it says it shows, unless they
\* changed since or a choice was made before the answer to the one before it;
\* it is no further than its rows go, unless rows left or the same haste; and
\* its headline counts the rows under it, unless the table changed between
\* the two statements (payments/page.tsx 56-106 and 246-254, bookings/page.tsx
\* 40-64 and 100-110, payment.controller.ts 60-106).
ListsAreTrue ==
    /\ WalkIsWhole
    /\ listLoads = {} /\ ~alarm /\ "haste" \notin mishaps /\ listed.rowsAt = rowEdits =>
          /\ listed.of = [filter |-> filter, query |-> query, page |-> page]
          /\ listed.rows \in Slices(Matches(filter, query), (page - 1) * PageSize)
    /\ mishaps = {} => (page - 1) * PageSize <= Cardinality(Matches(filter, query))
    /\ paged /\ listed.totalAt = listed.rowsAt /\ listed.rows # {} =>
          LET last == (listed.of.page - 1) * PageSize + Cardinality(listed.rows)
          IN  listed.total >= last /\ (Cardinality(listed.rows) < PageSize => listed.total = last)
=============================================================================
