------------------------------ MODULE MCEnergy ------------------------------
(* An instance of Energy: a line 1, 2, 3 whose middle switch is a cut vertex *)
(* if both cables are discovered in time.  Switch 3 has no battery.         *)
EXTENDS Energy

LineSwitch == 1..3
LineCable == {{1, 2}, {2, 3}}
LineInitial == <<2, 3, -1>>
=============================================================================
