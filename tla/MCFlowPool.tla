----------------------------- MODULE MCFlowPool -----------------------------
(* Five keys compete for four entries and may be deleted at any time.      *)
EXTENDS FlowPool
=============================================================================
