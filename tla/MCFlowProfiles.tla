--------------------------- MODULE MCFlowProfiles ---------------------------
(* Three endpoints: connections across hosts and inside one, one with port *)
(* 443 on both sides, more connections than entries, and some that are     *)
(* steered to the other queue; five packets complete two windows of a flow *)
(* and let another flow's packet come between them.                        *)
EXTENDS FlowProfiles

\* One connection.
TwoEndpoints == {<<1, 5>>, <<1, 443>>}

ThreeEndpoints == {<<1, 443>>, <<1, 5>>, <<2, 443>>}

ASSUME \E a, b, c \in ThreeEndpoints : Queue(a, b) = 0 /\ Queue(b, c) = 1
=============================================================================
