---------------------------- MODULE MCQuotaLedger ----------------------------
EXTENDS QuotaLedger

CONSTANTS j1, j2

MCOneJob == {j1}
MCTwoJobs == {j1, j2}

\* Either of two launches fits into the quota, but not both.
MCMinutes == [j \in MCTwoJobs |-> IF j = j1 THEN 2 ELSE 3]
MCOneMinutes == [j \in MCOneJob |-> 2]
=============================================================================
