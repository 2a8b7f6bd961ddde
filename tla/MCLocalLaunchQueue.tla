------------------------- MODULE MCLocalLaunchQueue -------------------------
EXTENDS LocalLaunchQueue

CONSTANTS j1, j2, j3

MCJobs == {j1, j2, j3}
MCHoldJobs == {j1, j2}
MCInteractive == {j2}

\* Database calls about one of the jobs may raise.
MCFaultyJobs == {j1}

\* A job with a hold and one without; the job whose calls raise is left alone.
MCUserJobs == {j2, j3}

\* Jobs differ in what they hold, so no symmetry; statuses written by users
\* only matter through what the queue overwrites.
=============================================================================
