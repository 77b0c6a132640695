----------------------------- MODULE MCTopology -----------------------------
(* Instances of Topology.  Ports are numbered 10 * switch + port number.    *)
EXTENDS Topology

PeerOf(wire) ==
  [p \in {w[1] : w \in wire} \cup {w[2] : w \in wire} |->
     CHOOSE q \in 1..99 : <<p, q>> \in wire \/ <<q, p>> \in wire]

\* A triangle, and one switch with a host port.
TrianglePeer == PeerOf({<<11, 21>>, <<12, 31>>, <<22, 32>>})
TriangleSwitch == 1..3
TrianglePort == DOMAIN TrianglePeer
TriangleAt == [p \in TrianglePort |-> p \div 10]

SomeSwitchBlocked == {{}, {2}, {2, 3}}
Negative == {-1}
Attractive == {-4}
=============================================================================
