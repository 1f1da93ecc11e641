------------------------------- MODULE MCInbox -------------------------------
(***************************************************************************)
(* Constants for model-checking Inbox: two consumers share a group, a      *)
(* third has its own; the stream holds one event twice and another once.   *)
(***************************************************************************)
EXTENDS Inbox, TLC

CONSTANTS c1, c2, c3, billing, analytics, e1, e2, m1, m2, m3

MCGroupOf == (c1 :> billing) @@ (c2 :> billing) @@ (c3 :> analytics)
MCEventOf == (m1 :> e1) @@ (m2 :> e1) @@ (m3 :> e2)

=============================================================================
