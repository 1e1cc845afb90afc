---------------------------- MODULE MCRoundRobin ----------------------------
(* Two workers and one urgent task, slices of one and two timer periods. *)
EXTENDS TKRoundRobin

CONSTANTS hi, w1, w2

ThreeTasks == {hi, w1, w2}
=============================================================================
