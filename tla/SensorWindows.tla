--------------------------- MODULE SensorWindows ---------------------------
(***************************************************************************)
(* What the ICS profile promises of a tracked sensor: its readings, in the *)
(* order they arrive, are cut into consecutive windows of exactly Window   *)
(* readings, and each complete window is handed on once.                   *)
(***************************************************************************)
EXTENDS Integers, Sequences

CONSTANTS Sensors, Values, Window, NoWindow

VARIABLES open,      \* sensor -> readings of the window being filled
          complete   \* the window the last reading completed, or NoWindow

vars == <<open, complete>>

Init == /\ open = [k \in Sensors |-> <<>>]
        /\ complete = NoWindow

Read(k, v) ==
    LET w == Append(open[k], v)
    IN  IF Len(w) < Window
          THEN /\ open' = [open EXCEPT ![k] = w]
               /\ complete' = NoWindow
          ELSE /\ open' = [open EXCEPT ![k] = <<>>]
               /\ complete' = [sensor |-> k, window |-> w]

Next == \E k \in Sensors, v \in Values : Read(k, v)

Spec == Init /\ [][Next]_vars
=============================================================================
