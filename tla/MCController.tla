---------------------------- MODULE MCController ----------------------------
(* Instances of Controller.  Ports are numbered 10 * switch + port number;  *)
(* the host of switch s has MAC 100 + s and port 10 * s + 9.                *)
EXTENDS Controller

PeerOf(wire) ==
  [p \in {w[1] : w \in wire} \cup {w[2] : w \in wire} |->
     CHOOSE q \in 1..99 : <<p, q>> \in wire \/ <<q, p>> \in wire]

\* A triangle.
TrianglePeer == PeerOf({<<11, 21>>, <<12, 31>>, <<22, 32>>})
TriangleSwitch == 1..3

\* A line of three.
LineSwitch == 1..3
LinePeer == PeerOf({<<11, 21>>, <<22, 31>>})

HostPorts(M) == [m \in M |-> 10 * (m - 100) + 9]
OneMac == {103}
TwoMacs == {101, 103}

MCPort == Cabled \cup {HostPort[m] : m \in Mac}
MCAt == [p \in Port |-> p \div 10]
OneMacPort == HostPorts(OneMac)
TwoMacsPort == HostPorts(TwoMacs)
=============================================================================
