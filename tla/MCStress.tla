------------------------------ MODULE MCStress ------------------------------
(* An instance of StressEvents: three failure links among four switches.    *)
(* Device 10 * s + i is port i of switch s; switch 2, which goes dark, is an *)
(* end of two of the links and has a host on port 9.                        *)
EXTENDS StressEvents

MCLink == {"a", "b", "c"}
MCEnds == [a |-> <<11, 21>>, b |-> <<22, 31>>, c |-> <<12, 41>>]
MCDevice == {11, 12, 21, 22, 29, 31, 41}
MCLoss == [a |-> 2, b |-> 0, c |-> 0]
DarkSwitch == {21, 22, 29}
\* The window of a run with the default options, and a longer one.
TwoWindows == {54, 200}
LowOrHigh == {-1, 1}
=============================================================================
