--------------------------- MODULE MCPublishBudget ---------------------------
(***************************************************************************)
(* Constants for model-checking PublishBudget: those of MCPollingRelay.    *)
(***************************************************************************)
EXTENDS MCPollingRelay, PublishBudget

=============================================================================
