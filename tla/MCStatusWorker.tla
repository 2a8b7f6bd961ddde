-------------------------- MODULE MCStatusWorker --------------------------
EXTENDS StatusWorker

CONSTANTS j1, j2

MCOneJob == {j1}
MCTwoJobs == {j1, j2}

MCAllKinds == ClusterKinds \cup QueueKinds
=============================================================================
