---------------------------- MODULE MCDistProof -----------------------------
EXTENDS DistProofProperties
MCTwoJobs == {"base", "top"}
MCTwoDeps == [j \in MCTwoJobs |-> IF j = "top" THEN {"base"} ELSE {}]
MCTwoPriority == [j \in MCTwoJobs |-> IF j = "top" THEN 2 ELSE 1]
MCOneJob == {"base"}
MCOneDeps == [j \in MCOneJob |-> {}]
MCOnePriority == [j \in MCOneJob |-> 1]
CONSTANTS w1, w2, m1
=============================================================================
