---------------------------- MODULE MCIcsProfile ----------------------------
(* Two transaction ids and two start addresses that can clash, one place in *)
(* the tracker and in the queue, registers that pair up or are negative,    *)
(* addresses that wrap, a configured window longer than the array; six      *)
(* packets complete a sensor's first window, begin its second, and drop     *)
(* part of a response; the clock stands still, goes on and goes back.       *)
EXTENDS IcsProfile

MCClock == <<0, 0, 5, 5, 5, 0>>
=============================================================================
