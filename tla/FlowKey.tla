------------------------------ MODULE FlowKey ------------------------------
(***************************************************************************)
(* The key of a TCP connection (struct flow_key5 in src/include/common.h). *)
(* An endpoint is an <<address, port>> pair.                               *)
(***************************************************************************)
EXTENDS Integers

CONSTANT Endpoints   \* the ends of the connections

Ports == 0 .. 65535

ASSUME EndpointsAssumption == Endpoints \subseteq Nat \X Ports

FlowKeys == Endpoints \X Endpoints

Connections == {{a, b} : a, b \in Endpoints}

\* Wrong: the ports of a connection inside one host are not compared.
CanonicalByAddress(src, dst) ==
    IF src[1] > dst[1] THEN <<dst, src>> ELSE <<src, dst>>

\* flow_key5_canonicalize on a key built by flow_key5_from_packet: the
\* smaller end comes first.
Canonical(src, dst) ==
    IF src[1] > dst[1] \/ (src[1] = dst[1] /\ src[2] > dst[2])
      THEN <<dst, src>>
      ELSE <<src, dst>>
=============================================================================
