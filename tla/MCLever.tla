------------------------------ MODULE MCLever ------------------------------
(* An instance of Lever: a line 1, 2, 3 with two cables between 1 and 2,    *)
(* whose speeds are known, and one between 2 and 3, whose speed is not.     *)
(* Ports are numbered 10 * switch + port number.                            *)
EXTENDS Lever

PeerOf(wire) ==
  [p \in {w[1] : w \in wire} \cup {w[2] : w \in wire} |->
     CHOOSE q \in 1..99 : <<p, q>> \in wire \/ <<q, p>> \in wire]

LinePeer == PeerOf({<<11, 21>>, <<12, 22>>, <<23, 31>>})
LineSwitch == 1..3
LinePort == DOMAIN LinePeer
LineAt == [p \in LinePort |-> p \div 10]
LineSpeed == {11, 22}

Extremes == {-1, 1}
=============================================================================
