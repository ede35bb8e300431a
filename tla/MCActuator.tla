---------------------------- MODULE MCActuator ----------------------------
(* Instances of Actuator for TLC: two passes and two devices.  d1 has a     *)
(* verify contract and two attempts; what d2 is, each configuration says.   *)
EXTENDS Actuator, TLC

CONSTANTS p1, p2, d1, d2

MCPasses   == {p1, p2}
MCDevices  == {d1, d2}
MCOrder    == (d1 :> 1) @@ (d2 :> 2)
MCAttempts == (d1 :> 2) @@ (d2 :> 1)
OnlyD1     == {d1}
OnlyD2     == {d2}
Nobody     == {}

\* The passes are interchangeable.
MCSymmetry == Permutations(MCPasses)
=============================================================================
