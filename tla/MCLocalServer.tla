--------------------------- MODULE MCLocalServer ---------------------------
EXTENDS LocalServer

CONSTANTS j1, j2

MCJobs == {j1, j2}
MCHoldJobs == {}
MCInteractive == {j2}
=============================================================================
