----------------------------- MODULE MCJobStore -----------------------------
(* Values of JobStore's constants for two instances: two jobs of one node, *)
(* where job 1 repeats safely and job 2 does not, and one job followed     *)
(* through all of its attempts.                                            *)
EXTENDS JobStore

OneNode == [j \in Jobs |-> "n1"]
TwoAttempts == [j \in Jobs |-> 2]
FourAttempts == [j \in Jobs |-> 4]
ShortBackoff == <<1, 2>>
SteepBackoff == <<1, 4>>
=============================================================================
