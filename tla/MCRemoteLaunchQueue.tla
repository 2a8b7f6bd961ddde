------------------------- MODULE MCRemoteLaunchQueue -------------------------
(* Two jobs share one launch slot.  The one with the hold is the one that users *)
(* end, that is lost and that others charge; its rival only takes the slot and  *)
(* its place in the queue.                                                      *)
EXTENDS RemoteLaunchQueue

CONSTANTS j1, j2

MCTwoJobs == {j1, j2}
MCHoldJobs == {j1}
MCInteractive == {j2}

MCNext ==
    \/ Loop \/ CycleFails \/ Tick \/ Crash
    \/ \E j \in HoldJobs : UserWrites(j) \/ JobLost(j) \/ Charge(j)
    \/ \E j \in Jobs : Enqueue(j) \/ Task(j)

MCSpec == Init /\ [][MCNext]_vars /\ Fairness
=============================================================================
