---------------------------- MODULE PublishBudget ----------------------------
(***************************************************************************)
(* How often an event is published.  The relay keeps no count of its       *)
(* publish() calls: retry_count sees only those whose transaction was      *)
(* committed, and the requeue command resets it.  Two history variables    *)
(* count them all; they watch PollingRelay and restrict none of its steps. *)
(***************************************************************************)
EXTENDS PollingRelay

VARIABLES
    calls,     \* history: event -> publish() calls made for it, by any relay
    requeues   \* history: event -> times it was requeued

budgetVars == <<vars, calls, requeues>>

BudgetTypeOK ==
    /\ calls \in [Events -> Nat]
    /\ requeues \in [Events -> Nat]

BudgetInit ==
    /\ Init
    /\ calls = [e \in Events |-> 0]
    /\ requeues = [e \in Events |-> 0]

(* This step calls publish() for event e.                                  *)
CallsPublish(e) == \E r \in Relays : cur[r] # e /\ cur'[r] = e

(* This step gives a dead-letter another life.                             *)
Revives(e) ==
    /\ rows[e] # NoRow /\ rows[e].status = "failed"
    /\ rows'[e] # NoRow /\ rows'[e].status = "pending"

BudgetNext ==
    /\ Next
    /\ calls' = [e \in Events |-> IF CallsPublish(e) THEN calls[e] + 1 ELSE calls[e]]
    /\ requeues' = [e \in Events |-> IF Revives(e) THEN requeues[e] + 1 ELSE requeues[e]]

BudgetSpec == BudgetInit /\ [][BudgetNext]_budgetVars

FairBudgetSpec == BudgetSpec /\ Fairness

-----------------------------------------------------------------------------
(* A broken attempt costs a fault: however many relays, with NATS failing  *)
(* as it likes and with metrics charging every delivery, an event is       *)
(* published at most max_retries times per life, plus once for each crash, *)
(* lost connection or failed gauge query.                                  *)
PublishesBounded ==
    \A e \in Events : calls[e] <= MaxRetries * (requeues[e] + 1) + faults

-----------------------------------------------------------------------------
(* Why: a call is paid for by the row's retry_count once its transaction   *)
(* is committed, by the fault that broke its transaction, or, for the      *)
(* time in between, by the one relay that holds the row's lock.  A relay   *)
(* that was cut off before it made a call may still make it: the fault     *)
(* that cut it off pays for that in advance.                               *)

(* What the row accounts for.  Nothing but a fault can cost more once it   *)
(* is settled.                                                             *)
Paid(e) ==
    IF e \notin staged THEN 0
    ELSE IF rows[e] # NoRow /\ rows[e].status = "pending"
         THEN rows[e].retry_count ELSE MaxRetries

(* The relay has called publish() in a transaction it can still commit.    *)
HasOpenCall(r, e) ==
    /\ e \in held[r]
    /\ phase[r] # "doomed"
    /\ e \in todo[r] => cur[r] = e

(* The relay will call publish() without the lock.                         *)
IsAdrift(r, e) == e \in todo[r] \ held[r] /\ cur[r] # e

CallOpen(e) == \E r \in Relays : HasOpenCall(r, e)
Adrift(e)   == {r \in Relays : IsAdrift(r, e)}

(* What was spent on an event, now or in advance, and what this life of    *)
(* the event has to show for it.                                           *)
Debit(e)  == calls[e] + Cardinality(Adrift(e))
Credit(e) == Paid(e) + (IF CallOpen(e) THEN 1 ELSE 0) + faults

Balanced(e) ==
    /\ IsFiniteSet(Adrift(e))
    /\ Debit(e) <= MaxRetries * requeues[e] + Credit(e)

BudgetInv ==
    /\ BudgetTypeOK
    /\ \A e \in Events : Balanced(e)

=============================================================================
