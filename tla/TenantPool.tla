------------------------------ MODULE TenantPool ------------------------------
(***************************************************************************)
(* The pool of database connections that requests of every club share.  A   *)
(* call made for a club opens a transaction and sets the club in it, and    *)
(* row-level security hides the other clubs' rows while the setting lasts;  *)
(* a call made for no club sets nothing and must see every row.             *)
(*                                                                         *)
(* LeftOver, which no definition uses, is a wrong version of Ended.         *)
(***************************************************************************)
EXTENDS Naturals, FiniteSets

CONSTANTS
    Clubs,        \* the tenants
    NoClub,       \* a call outside any tenant, and a setting never made
    Calls,        \* calls under way at one time
    Connections,  \* the pool
    NoConnection, \* a call that holds none
    MaxStatements \* bound on the statements of one transaction

ASSUME NoClubAssumption == NoClub \notin Clubs
ASSUME NoConnectionAssumption == NoConnection \notin Connections
ASSUME StatementsAssumption == MaxStatements \in Nat \ {0}

VARIABLES
    call,     \* per call: where it is, for whom, of what kind, on which connection
    setting,  \* per connection: app.current_club_id
    opened,   \* the connections with an open transaction
    misled    \* history: the calls one of whose statements ran in another scope

poolVars == <<call, setting, opened, misled>>

\* "single" is db.query, "whole" is withTransaction.
Kinds  == {"single", "whole"}
States == {"idle", "waiting", "holding", "begun", "scoped"}
CallRow == [at : States, club : Clubs \cup {NoClub}, kind : Kinds,
            on : Connections \cup {NoConnection}, statements : 0 .. MaxStatements]

PoolTypeOK ==
    /\ call \in [Calls -> CallRow]
    /\ setting \in [Connections -> Clubs \cup {NoClub}]
    /\ opened \subseteq Connections /\ misled \subseteq Calls

NoCall == [at |-> "idle", club |-> NoClub, kind |-> "single",
           on |-> NoConnection, statements |-> 0]

PoolInit ==
    /\ call = [k \in Calls |-> NoCall]
    /\ setting = [c \in Connections |-> NoClub]
    /\ opened = {} /\ misled = {}

Unused == Connections \ {call[k].on : k \in Calls}

\* Only a context-less db.query goes to the connection as it is.
Transacted(k) == call[k].kind = "whole" \/ call[k].club # NoClub

-----------------------------------------------------------------------------
Arrive(k, g, kind) ==
    /\ call[k].at = "idle"
    /\ call' = [call EXCEPT ![k] = [NoCall EXCEPT !.at = "waiting", !.club = g, !.kind = kind]]
    /\ UNCHANGED <<setting, opened, misled>>

\* Within the connection timeout of five seconds, or the call fails.
Connect(k, c) ==
    /\ call[k].at = "waiting" /\ c \in Unused
    /\ call' = [call EXCEPT ![k].at = "holding", ![k].on = c]
    /\ UNCHANGED <<setting, opened, misled>>

ConnectTimesOut(k) ==
    /\ call[k].at = "waiting" /\ Unused = {}
    /\ call' = [call EXCEPT ![k] = NoCall]
    /\ UNCHANGED <<setting, opened, misled>>

Begin(k) ==
    /\ call[k].at = "holding" /\ Transacted(k)
    /\ call' = [call EXCEPT ![k].at = "begun"]
    /\ opened' = opened \cup {call[k].on}
    /\ UNCHANGED <<setting, misled>>

ApplyTenantContext(k) ==
    /\ call[k].at = "begun"
    /\ call' = [call EXCEPT ![k].at = "scoped"]
    /\ setting' = IF call[k].club = NoClub THEN setting
                  ELSE [setting EXCEPT ![call[k].on] = call[k].club]
    /\ UNCHANGED <<opened, misled>>

Statement(k) ==
    /\ call[k].at = IF Transacted(k) THEN "scoped" ELSE "holding"
    /\ call[k].statements < (IF call[k].kind = "whole" THEN MaxStatements ELSE 1)
    /\ call' = [call EXCEPT ![k].statements = @ + 1]
    /\ misled' = IF setting[call[k].on] = call[k].club THEN misled ELSE misled \cup {k}
    /\ UNCHANGED <<setting, opened>>

\* The setting is local to the transaction: COMMIT and ROLLBACK discard it.
LeftOver(c) == setting
Ended(c)    == [setting EXCEPT ![c] = NoClub]

Release(k) == call' = [call EXCEPT ![k] = NoCall]

\* COMMIT after the statements, or ROLLBACK after any step of the transaction
\* that failed; the connection goes back either way.
TransactionEnds(k) ==
    /\ call[k].on \in opened
    /\ setting' = Ended(call[k].on)
    /\ opened' = opened \ {call[k].on}
    /\ Release(k)
    /\ UNCHANGED misled

PlainEnds(k) ==
    /\ call[k].at = "holding" /\ ~Transacted(k) /\ call[k].statements = 1
    /\ Release(k)
    /\ UNCHANGED <<setting, opened, misled>>

\* The connection drops under the call; the pool opens a new one in its place.
ConnectionDrops(k) ==
    /\ call[k].on # NoConnection
    /\ setting' = [setting EXCEPT ![call[k].on] = NoClub]
    /\ opened' = opened \ {call[k].on}
    /\ Release(k)
    /\ UNCHANGED misled

PoolNext ==
    \E k \in Calls :
      \/ \E g \in Clubs \cup {NoClub}, kind \in Kinds : Arrive(k, g, kind)
      \/ \E c \in Connections : Connect(k, c)
      \/ ConnectTimesOut(k) \/ Begin(k) \/ ApplyTenantContext(k) \/ Statement(k)
      \/ TransactionEnds(k) \/ PlainEnds(k) \/ ConnectionDrops(k)

PoolSpec == PoolInit /\ [][PoolNext]_poolVars

-----------------------------------------------------------------------------
\* Whatever ran on the connection before, and however it ended, each statement
\* of a club's call is narrowed to that club and each statement of a call for
\* no club to none.
EveryStatementSeesItsScope == misled = {}

\* A connection nobody holds carries no transaction and no club, and no two
\* calls hold one connection.
PoolIsClean ==
    /\ \A c \in Unused : c \notin opened /\ setting[c] = NoClub
    /\ \A j, k \in Calls : j # k /\ call[j].on = call[k].on => call[j].on = NoConnection
=============================================================================
