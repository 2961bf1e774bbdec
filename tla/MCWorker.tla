------------------------------ MODULE MCWorker ------------------------------
(* Three buffers, bursts of two, a TX queue with room for two.             *)
EXTENDS Worker
=============================================================================
