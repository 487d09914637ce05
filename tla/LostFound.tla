------------------------------ MODULE LostFound ------------------------------
(***************************************************************************)
(* One item of the lost and found, the customers who claim it and the      *)
(* staff who decide the claims.  Every statement commits on its own: a     *)
(* claim reads the item before it is inserted, and an approval is three    *)
(* updates another request, or a crash, may come between.                  *)
(*                                                                         *)
(* RivalsNone, which no action uses, is a wrong version of Rivals.         *)
(***************************************************************************)
EXTENDS Naturals, FiniteSets

CONSTANTS
    Claimants,
    Staff,      \* decisions under way at once
    Nothing

ASSUME NothingAssumption == Nothing \notin Claimants

VARIABLES
    item,      \* lost_found_items.status
    claim,     \* lost_found_claims.status by claimant; "asked" has read the item, not inserted
    decision,  \* approvals under way: the claim, and whether the item is marked
    late       \* a claim joined an approved item, or an approval crossed another or was cut short (history)

itemVars == <<item, claim, decision, late>>

NoDecision == [claim |-> Nothing, marked |-> FALSE]

LostInit ==
    /\ item = "unclaimed"
    /\ claim = [c \in Claimants |-> "none"]
    /\ decision = [s \in Staff |-> NoDecision]
    /\ late = FALSE

Approved == {c \in Claimants : claim[c] = "approved"}
Deciding == {s \in Staff : decision[s] # NoDecision}

SubmitReads(c) ==
    /\ claim[c] = "none" /\ item # "returned"
    /\ claim' = [claim EXCEPT ![c] = "asked"]
    /\ UNCHANGED <<item, decision, late>>

SubmitInserts(c) ==
    /\ claim[c] = "asked"
    /\ claim' = [claim EXCEPT ![c] = "pending"]
    /\ late' = (late \/ Approved # {})
    /\ UNCHANGED <<item, decision>>

Decidable(c) == claim[c] = "pending"

Reject(c) ==
    /\ Decidable(c)
    /\ claim' = [claim EXCEPT ![c] = "rejected"]
    /\ UNCHANGED <<item, decision, late>>

Approve(s, c) ==
    /\ decision[s] = NoDecision /\ Decidable(c)
    /\ claim' = [claim EXCEPT ![c] = "approved"]
    /\ decision' = [decision EXCEPT ![s] = [claim |-> c, marked |-> FALSE]]
    /\ late' = (late \/ Deciding # {})
    /\ UNCHANGED item

ApproveMarks(s) ==
    /\ decision[s] # NoDecision /\ ~decision[s].marked
    /\ item' = "claimed"
    /\ decision' = [decision EXCEPT ![s].marked = TRUE]
    /\ UNCHANGED <<claim, late>>

RivalsNone(s) == {}
Rivals(s) == {c \in Claimants : claim[c] = "pending"}

ApproveCloses(s) ==
    /\ decision[s].marked
    /\ claim' = [c \in Claimants |-> IF c \in Rivals(s) THEN "rejected" ELSE claim[c]]
    /\ decision' = [decision EXCEPT ![s] = NoDecision]
    /\ UNCHANGED <<item, late>>

DecisionLost(s) ==
    /\ decision[s] # NoDecision
    /\ decision' = [decision EXCEPT ![s] = NoDecision]
    /\ late' = TRUE
    /\ UNCHANGED <<item, claim>>

\* Staff set any status by hand.
UpdateItem(to) ==
    /\ item' = to
    /\ UNCHANGED <<claim, decision, late>>

LostNext ==
    \/ \E c \in Claimants : SubmitReads(c) \/ SubmitInserts(c) \/ Reject(c)
    \/ \E s \in Staff : \/ \E c \in Claimants : Approve(s, c)
                        \/ ApproveMarks(s) \/ ApproveCloses(s) \/ DecisionLost(s)
    \/ \E to \in {"unclaimed", "claimed", "returned"} : UpdateItem(to)

\* One owner at most is told to come for the item, unless a claim joined after
\* an approval, two approvals crossed, or one was cut short.
OneOwner == ~late => Cardinality(Approved) <= 1
=============================================================================
