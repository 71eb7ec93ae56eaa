---------------------------- MODULE MCNodeAgent ----------------------------
(* One node with a job that repeats safely and one that does not.          *)
EXTENDS NodeAgent

TwoAttempts == [j \in Jobs |-> 2]
=============================================================================
