--------------------------- MODULE MCJobLifecycle ---------------------------
EXTENDS JobLifecycleProofs
TwoAttempts == [j \in Jobs |-> 2]
=============================================================================
