--------------------------- MODULE MCCommandQueue ---------------------------
(* Two lanes: the main lane, whose limit the gateway configures, with enough *)
(* commands for two to wait while one runs, and a session lane.              *)
EXTENDS CommandQueue, TLC

CONSTANTS s1, m1, m2, m3, session, main, none

MCLaneOf == [c \in {s1, m1, m2, m3} |-> IF c = s1 THEN session ELSE main]

MCSymmetry == Permutations({m1, m2, m3})
=============================================================================
