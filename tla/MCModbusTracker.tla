-------------------------- MODULE MCModbusTracker --------------------------
(* Four identifiers compete for three slots; two contents of a request.    *)
EXTENDS ModbusTracker, TLC

Symmetry == Permutations(Keys) \cup Permutations(Requests)
=============================================================================
