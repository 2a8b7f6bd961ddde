-------------------------- MODULE MCServerWorkers --------------------------
(* Two processes.  The three kinds of work share nothing but them, so the     *)
(* initial states have one of them to do each: jobs to watch, directories to  *)
(* move, or setups to run.                                                    *)
EXTENDS ServerWorkers

CONSTANTS p1, p2, j1, d1, d2, s1, s2

MCProcs  == {p1, p2}
MCJobs   == {j1}
MCDirs   == {d1, d2}
MCSetups == {s1, s2}

NoJobs   == watched = {}
NoDirs   == (\A d \in Dirs : src[d] = "none") /\ kind = "tasks" /\ lasting
NoSetups == \A s \in Setups : asks[s] = "nothing"

MCInit ==
    /\ WorkersInit
    /\ \/ NoJobs /\ NoDirs
       \/ NoJobs /\ NoSetups
       \/ NoDirs /\ NoSetups

MCSpec == MCInit /\ [][WorkersNext]_workerVars /\ WorkersFairness
=============================================================================
