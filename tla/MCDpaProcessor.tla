--------------------------- MODULE MCDpaProcessor ---------------------------
(* Two flows of one index, one of them in both directions, a flow of the   *)
(* other index, and a frame that is not tracked, for its IP options leave  *)
(* no room for the ports; rings of two; counters that wrap after four.     *)
EXTENDS DpaProcessor

Frame(s, d, p, h, n) == [src |-> s, dst |-> d, proto |-> p, ihl |-> h, size |-> n]

MCFrames == {Frame(1, 2, 6, 20, 1500), Frame(2, 1, 6, 24, 100),
             Frame(3, 2, 6, 20, 1500), Frame(1, 2, 17, 60, 1300),
             Frame(1, 2, 6, 60, 77)}

MCFlowIndex(flow) == IF flow[3] = 6 THEN 0 ELSE 1
=============================================================================
