------------------------- MODULE MCOutboxTransaction -------------------------
(***************************************************************************)
(* Constants for model-checking OutboxTransaction: the second block is a   *)
(* retry of the first with the same event_id, the third is unrelated.      *)
(***************************************************************************)
EXTENDS OutboxTransaction, TLC

CONSTANTS b1, b2, b3, id1, id2

MCEventId == (b1 :> id1) @@ (b2 :> id1) @@ (b3 :> id2)

SessionSymmetry == Permutations(Sessions)

=============================================================================
