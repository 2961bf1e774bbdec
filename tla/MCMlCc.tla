------------------------------- MODULE MCMlCc -------------------------------
(* A clock of 22 bits, a limit that reaches 0 after three doublings and a  *)
(* count that wraps after eight; the default settings and the lowest ones; *)
(* the forest of the code and three malformed ones.                        *)
EXTENDS MlCc

MCParams ==
    { [ALPHA |-> 16384, NEW_RATE |-> 1048576, MIN_RATE |-> 64, MAX_DELAY |-> 150000],
      [ALPHA |-> 65536, NEW_RATE |-> 1, MIN_RATE |-> 1, MAX_DELAY |-> 150000] }

Loop == << Split("RELATIVE_RTT", 0, 0, 0) >>

MCForests == { ml_cc_forest, << <<CcLeaf(200000)>> >>, << <<CcLeaf(-200000)>> >>, <<Loop>> }

\* Each point of the clock has another less than 3/8 of a turn before it.
MCTimes == {0, 1398101, 2796202}

\* 8 us; 200 us, when the minimum starts over; 20 us across the clock's wrap.
MCAnswers == { <<1000, 9001>>, <<0, 200192>>, <<4194000, 20000>> }
=============================================================================
