---------------------------- MODULE MCBenchModbus ----------------------------
(* A ring of two places that both may hold the one identifier, asked for   *)
(* two start addresses; five readings, so that one sensor completes a      *)
(* second window while another has a reading; fewer entries than sensors,  *)
(* and an address at the end of the space.                                 *)
EXTENDS BenchModbus
=============================================================================
