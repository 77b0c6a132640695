------------------------------ MODULE MCReward ------------------------------
(* An instance of Reward: a line 1, 2, 3 with batteries on switches 1 and 2 *)
(* and a host on switch 1.  Port 10 * s + u of switch s leads to switch u.  *)
EXTENDS Reward

LineSwitch == 1..3
LinePort == {12, 21, 23, 19}
LineAt == [p \in LinePort |-> p \div 10]
LinePeer == [p \in LinePort |-> IF p = 19 THEN 0 ELSE p % 10]
LineOrder == {<<1, 2>>, <<2, 3>>}
LineCapacity == [p \in LinePort |-> IF p = 23 THEN 8 ELSE 4]
LineInitial == <<13, 9, -1>>
SomeDeliveries == {<<10, 8>>}
AllPresets == {"BALANCED", "THROUGHPUT", "ENERGY"}
=============================================================================
