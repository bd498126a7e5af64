---------------------------- MODULE MCLimitsSync ----------------------------
(* A small instance of LimitsSync: two fragments to a reply, two attempts;  *)
(* one half answers at times with the poles of another motor.               *)
EXTENDS LimitsSync
MCConfig(l, p) == [limit |-> l, poles |-> p]
MCAnswers == [n \in Nodes |-> IF n = First THEN {MCConfig(2, 30)}
                                          ELSE {MCConfig(1, 30), MCConfig(1, 14)}]
MCContents == UNION {MCAnswers[n] : n \in Nodes}
MCNothing == MCConfig(0, 0)
=============================================================================
