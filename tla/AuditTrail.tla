------------------------------ MODULE AuditTrail ------------------------------
(***************************************************************************)
(* What the audit log tells of an operation that runs in a transaction.    *)
(* An operation writes its rows in one of three manners: strictly, on its  *)
(* own connection, which takes the writer's role for that one statement;   *)
(* on the audit pool's connection while its transaction is open; or there, *)
(* after the commit.  The last two swallow their failures.                 *)
(*                                                                         *)
(* RoleKeptOn, which no other definition uses, is a wrong version of       *)
(* RoleAfter.                                                              *)
(***************************************************************************)
EXTENDS Naturals

CONSTANTS
    Operations,    \* transactions that leave an audit row
    Entries        \* the steps of one, each with a row of its own

ASSUME EntriesAssumption == Entries \in Nat \ {0}

VARIABLES
    manner,    \* per operation, how it writes to the log
    at,        \* per operation, where it is
    left,      \* per operation, the steps it has to take
    session,   \* per operation, the role its connection acts as
    pending,   \* per operation, the rows in its open transaction
    trail,     \* per operation, the rows of the log that readers see
    causes     \* history: per operation, what went wrong

auditVars == <<manner, at, left, session, pending, trail, causes>>

\* "app" is courtflow_app, "writer" audit_writer.
Privileges == [app    |-> {"select audit", "write tables"},
               writer |-> {"insert audit"}]
May(o, what) == what \in Privileges[session[o]]

InTransaction == {"open", "worked", "assumed", "inserted"}
Resting       == {"idle", "over", "undone"}

AuditTypeOK ==
    /\ manner \in [Operations -> {"strict", "inside", "after"}]
    /\ at \in [Operations -> InTransaction \cup Resting \cup {"committed"}]
    /\ left \in [Operations -> 0 .. Entries]
    /\ session \in [Operations -> DOMAIN Privileges]
    /\ pending \in [Operations -> 0 .. Entries] /\ trail \in [Operations -> 0 .. Entries]
    /\ causes \in [Operations -> SUBSET {"statement", "audit", "crash"}]

AuditInit ==
    /\ manner \in [Operations -> {"strict", "inside", "after"}]
    /\ at = [o \in Operations |-> "idle"] /\ left = [o \in Operations |-> Entries]
    /\ session = [o \in Operations |-> "app"]
    /\ pending = [o \in Operations |-> 0] /\ trail = pending
    /\ causes = [o \in Operations |-> {}]

Step(o, from, to) == at[o] = from /\ at' = [at EXCEPT ![o] = to]
Blame(o, what)    == causes' = [causes EXCEPT ![o] = @ \cup what]

-----------------------------------------------------------------------------
(* The operation *)

BeginWork(o) ==
    /\ Step(o, "idle", "open")
    /\ UNCHANGED <<manner, left, session, pending, trail, causes>>

\* A rollback ends SET LOCAL with everything else.
RolledBack(o, what) ==
    /\ at' = [at EXCEPT ![o] = "undone"]
    /\ session' = [session EXCEPT ![o] = "app"] /\ pending' = [pending EXCEPT ![o] = 0]
    /\ Blame(o, what)
    /\ UNCHANGED <<manner, left, trail>>

\* A table the role has no grant on fails the transaction.
Work(o) ==
    /\ at[o] = "open" /\ left[o] > 0
    /\ IF May(o, "write tables")
       THEN /\ at' = [at EXCEPT ![o] = "worked"] /\ left' = [left EXCEPT ![o] = @ - 1]
            /\ UNCHANGED <<manner, session, pending, trail, causes>>
       ELSE RolledBack(o, {})

StatementFails(o) == at[o] \in InTransaction /\ RolledBack(o, {"statement"})
AuditCrash(o)     == at[o] \in InTransaction /\ RolledBack(o, {"crash"})

CommitAll(o) ==
    /\ left[o] = 0
    /\ Step(o, "open", IF manner[o] = "after" THEN "committed" ELSE "over")
    /\ trail' = [trail EXCEPT ![o] = @ + pending[o]]
    /\ pending' = [pending EXCEPT ![o] = 0]
    /\ session' = [session EXCEPT ![o] = "app"]
    /\ UNCHANGED <<manner, left, causes>>

-----------------------------------------------------------------------------
(* auditLogStrict *)

SetLocalRole(o) ==
    /\ manner[o] = "strict" /\ Step(o, "worked", "assumed")
    /\ session' = [session EXCEPT ![o] = "writer"]
    /\ UNCHANGED <<manner, left, pending, trail, causes>>

AuditLogStrict(o) ==
    /\ May(o, "insert audit") /\ Step(o, "assumed", "inserted")
    /\ pending' = [pending EXCEPT ![o] = @ + 1]
    /\ UNCHANGED <<manner, left, session, trail, causes>>

RoleKeptOn(o) == session[o]
RoleAfter(o)  == "app"

ResetRole(o) ==
    /\ Step(o, "inserted", "open")
    /\ session' = [session EXCEPT ![o] = RoleAfter(o)]
    /\ UNCHANGED <<manner, left, pending, trail, causes>>

-----------------------------------------------------------------------------
(* auditLog, on a connection of the audit pool that commits by itself *)

Logged(o) ==
    \/ trail' = [trail EXCEPT ![o] = @ + 1] /\ UNCHANGED causes
    \/ Blame(o, {"audit"}) /\ UNCHANGED trail

AuditLogInside(o) ==
    /\ manner[o] = "inside" /\ Step(o, "worked", "open") /\ Logged(o)
    /\ UNCHANGED <<manner, left, session, pending>>

NotYetLogged(o) ==
    /\ manner[o] = "after" /\ Step(o, "worked", "open")
    /\ UNCHANGED <<manner, left, session, pending, trail, causes>>

AuditLogAfter(o) ==
    /\ Step(o, "committed", "over") /\ Logged(o)
    /\ UNCHANGED <<manner, left, session, pending>>

\* The process dies, or a call in between fails: a cache's key is deleted first.
CrashBeforeLog(o) ==
    /\ Step(o, "committed", "over") /\ Blame(o, {"crash"})
    /\ UNCHANGED <<manner, left, session, pending, trail>>

AuditNext ==
    \E o \in Operations :
        \/ BeginWork(o) \/ Work(o) \/ StatementFails(o) \/ AuditCrash(o) \/ CommitAll(o)
        \/ SetLocalRole(o) \/ AuditLogStrict(o) \/ ResetRole(o)
        \/ AuditLogInside(o) \/ NotYetLogged(o) \/ AuditLogAfter(o) \/ CrashBeforeLog(o)
-----------------------------------------------------------------------------
(* Properties *)

\* A strict operation stands if and only if all its rows do; of the others,
\* one that stands lacks a row only where the log failed, and only one that
\* writes before its commit can leave a row of what never happened.  Nothing
\* is undone but by a failure, so no statement meets the writer's role, which
\* no connection brings back to the pool (audit.service.ts 36-55, 63-95).
TrailIsTrue ==
    \A o \in Operations :
        /\ at[o] \in Resting => session[o] = "app"
        /\ at[o] = "undone" => causes[o] # {}
        /\ manner[o] = "strict" => trail[o] = IF at[o] = "over" THEN Entries ELSE 0
        /\ manner[o] = "after" /\ trail[o] > 0 => at[o] = "over"
        /\ at[o] = "over" /\ causes[o] = {} => trail[o] = IF manner[o] = "after" THEN 1 ELSE Entries
=============================================================================
