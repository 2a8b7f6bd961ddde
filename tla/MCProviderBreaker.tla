-------------------------- MODULE MCProviderBreaker --------------------------
EXTENDS ProviderBreaker

CONSTANTS j1, j2, j3, p1, p2

MCJobs == {j1, j2, j3}
MCProviders == {p1, p2}

\* Two jobs share a provider.
MCShared == [j \in MCJobs |-> IF j = j3 THEN p2 ELSE p1]
=============================================================================
