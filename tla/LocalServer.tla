---------------------------- MODULE LocalServer ----------------------------
(***************************************************************************)
(* Local jobs from request to end: the launch queue hands an item to the   *)
(* local provider, whose thread starts a process; users stop the job or    *)
(* its cluster; the status worker polls it; the server shuts down, or      *)
(* crashes, and comes back.                                                *)
(***************************************************************************)
EXTENDS LocalLaunchQueue

VARIABLES phase, proc, pidFile, registered, killing, closing, poll, cut

P == INSTANCE LocalProvider

endVars    == <<killing, closing>>
provVars   == <<phase, proc, pidFile, registered, endVars, poll, cut>>
serverVars == <<vars, provVars>>

ServerInit == Init /\ P!ProviderInit

\* What is left of vars when the provider writes a status.
notStatus == <<queueVars, taskVars, hold, usage, request, histVars>>

\* A delete is to the provider what a stop is to the queue: nothing.
Request(j) == /\ Submit(j) \/ Enqueue(j) \/ Stop(j)
              /\ UNCHANGED provVars

\* The queue's steps before and after the call of launch_cluster.  The provider
\* row exists here; the queue's own run also has the launches it refuses.
TaskAlone(t) ==
    /\ Announce(t) \/ Settle(t) \/ Settled(t) \/ Drain(t)
    /\ UNCHANGED provVars

Launch(t)   == StartLaunch(t) /\ P!Begin(item[t])
Launched(t) == /\ LaunchSucceeds(t) /\ phase[item[t]] = "returned"
               /\ UNCHANGED provVars
NotLaunched(t) == /\ LaunchRaises(t) /\ phase[item[t]] = "raised"
                  /\ UNCHANGED provVars

Task(t) == TaskAlone(t) \/ Launch(t) \/ Launched(t) \/ NotLaunched(t)

\* The executor's threads: a launch, or a stop; and kill_all, which terminates
\* on the event loop itself.
Thread(j)   == (P!LaunchStep(j) \/ P!Terminate(j)) /\ UNCHANGED vars
Process(j)  == P!ProcessEnds(j) /\ UNCHANGED vars
UserStop(j) == j \in UserJobs /\ P!StopCluster(j) /\ UNCHANGED vars
Look(j)     == P!Look(j) /\ UNCHANGED vars
Judge       == P!Write /\ UNCHANGED notStatus

KillAll  == restarts < MaxRestarts /\ P!EmptyRegistry /\ UNCHANGED vars
ShutDown == Restart /\ P!ShutDown
Crash    == Restart /\ P!Crash

OnLoop(j) == Request(j) \/ Task(j) \/ Look(j)

\* kill_all terminates on the event loop, where nothing else runs meanwhile; only
\* db.close follows.
ServerNext ==
    \/ \E j \in Jobs : \/ ~ closing /\ OnLoop(j)
                       \/ Thread(j) \/ Process(j) \/ UserStop(j)
    \/ Judge \/ KillAll \/ ShutDown \/ Crash

\* The event loop and the launch thread go on, and a worker cycle reaches every
\* polled job.  Processes, users and restarts are not fair.
ServerFairness ==
    /\ \A j \in Jobs : /\ WF_serverVars(~ closing /\ Task(j))
                       /\ WF_serverVars(Thread(j))
                       /\ SF_serverVars(~ closing /\ Look(j))
    /\ WF_serverVars(Judge) /\ WF_serverVars(ShutDown)

ServerSpec == ServerInit /\ [][ServerNext]_serverVars /\ ServerFairness

-----------------------------------------------------------------------------
(* Properties. *)

\* Every process that is running, once the thread that started it is through,
\* has its entry in the registry, so that the next shutdown kills it, or whoever
\* took the entry out, a stop or kill_all, has yet to terminate it; also a
\* process started by a launch that outlives the server that began it.  Only a
\* crash that falls between Popen and register, or between the removal of an
\* entry and the termination, or an I/O error loses one.
AliveIsRegistered ==
    \A j \in Jobs : proc[j] = "alive" /\ phase[j] = "returned" /\ j \notin cut
                        => j \in registered \cup killing

\* A job that is STOPPING while nothing runs for it, because its process is gone
\* or none was ever started, leaves that status, or a launch that was under way
\* starts its process after all.
StopIsAnswered ==
    \A j \in Jobs : status[j] = "STOPPING" /\ proc[j] # "alive"
                        ~> status[j] # "STOPPING" \/ proc[j] = "alive"

=============================================================================
