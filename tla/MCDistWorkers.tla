---------------------------- MODULE MCDistWorkers ----------------------------
EXTENDS DistWorkers
MCOneJob == {"base"}
MCOneDeps == [j \in MCOneJob |-> {}]
MCOnePriority == [j \in MCOneJob |-> 1]
CONSTANTS w1, m1
=============================================================================
