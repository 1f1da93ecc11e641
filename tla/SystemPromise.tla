---------------------------- MODULE SystemPromise ----------------------------
(***************************************************************************)
(* What the whole chain promises, from POST /users to the consumers'       *)
(* databases, with nothing in between in sight: an address is registered   *)
(* once, and each consumer group applies a user that exists once, in a     *)
(* step of its own and for good.  OutboxSystem is shown to implement this  *)
(* specification.                                                          *)
(***************************************************************************)
EXTENDS Naturals

CONSTANTS Groups, Requests, EmailOf

VARIABLES
    users,      \* requests whose user exists
    effects     \* how often each group has applied each user

vars == <<users, effects>>

Init ==
    /\ users = {}
    /\ effects = [k \in Groups \X Requests |-> 0]

Create(r) ==
    /\ \A q \in users : EmailOf[q] # EmailOf[r]
    /\ users' = users \union {r}
    /\ UNCHANGED effects

Apply(g, r) ==
    /\ r \in users
    /\ effects[<<g, r>>] = 0
    /\ effects' = [effects EXCEPT ![<<g, r>>] = 1]
    /\ UNCHANGED users

Next == \E r \in Requests : Create(r) \/ \E g \in Groups : Apply(g, r)

Spec == Init /\ [][Next]_vars

=============================================================================
