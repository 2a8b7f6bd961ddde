--------------------------- MODULE MCCloudLaunch ---------------------------
(* The two ends of a launch: the task it is made from, and its machine.  They  *)
(* share no state, so the initial states choose one of them to run.            *)
EXTENDS CloudLaunch, Tasks, TLC

CONSTANTS l1, l2, a1, a2, x, y, r1, r2

MCLaunches == {l1, l2}
MCOne      == {l1}
MCTasks    == {a1, a2}
MCTitles   == {x, y}
MCCalls    == {r1, r2}

\* A zip's own index, in which file_mounts is as good as unset: it is set next.
MCZips     == [id : MCTasks \cup {NoId}, title : MCTitles, mounts : {"no"}]

\* The launches are not interchangeable (Stoppable).
MCSymmetry ==
    {p @@ q @@ s : p \in Permutations(MCTasks),
                   q \in Permutations(MCTitles), s \in Permutations(MCCalls)}

VARIABLE area

MCInit ==
    /\ area \in {"tasks", "machines"}
    /\ Init /\ (area # "machines" => kind = "AWS")
    /\ TasksInit /\ (area # "tasks" => known = {})

\* A bound: the last request waits for the others to end.
LastAlone ==
    asked < MaxTaskCalls /\ asked' = MaxTaskCalls => \A c \in TaskCalls : work[c] = NoTaskCall

MCNext ==
    /\ UNCHANGED area
    /\ \/ area = "machines" /\ Next /\ UNCHANGED taskVars
       \/ area = "tasks" /\ TasksNext /\ LastAlone /\ UNCHANGED vars

MCSpec == MCInit /\ [][MCNext]_<<area, vars, taskVars>>
=============================================================================
