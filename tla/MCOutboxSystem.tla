---------------------------- MODULE MCOutboxSystem ----------------------------
(***************************************************************************)
(* Constants for model-checking OutboxSystem: the second request is a      *)
(* client's retry of the first; the stream may come to hold the event of   *)
(* the first twice.                                                        *)
(***************************************************************************)
EXTENDS OutboxSystem, TLC

CONSTANTS s1, r1, r2, c1, c2, m1, m2, m3, ann, billing

MCEmailOf == (r1 :> ann) @@ (r2 :> ann)
MCGroupOf == (c1 :> billing) @@ (c2 :> billing)
MCEventOf == (m1 :> r1) @@ (m2 :> r1) @@ (m3 :> r2)

=============================================================================
