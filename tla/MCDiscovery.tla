---------------------------- MODULE MCDiscovery ----------------------------
(* Instances of Discovery: a line of three.  Ports are numbered 10 * switch +    *)
(* port number.                                                             *)
EXTENDS Discovery

LinePeer ==
  LET wire == {<<11, 21>>, <<22, 31>>}
  IN  [p \in {w[1] : w \in wire} \cup {w[2] : w \in wire} |->
         CHOOSE q \in 1..99 : <<p, q>> \in wire \/ <<q, p>> \in wire]
LineSwitch == 1..3
LinePort == DOMAIN LinePeer
LineAt == [p \in LinePort |-> p \div 10]
=============================================================================
