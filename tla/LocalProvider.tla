--------------------------- MODULE LocalProvider ---------------------------
(***************************************************************************)
(* The local compute provider (backend/transformerlab/compute_providers/   *)
(* local.py), the registry of the processes it starts (services/           *)
(* process_registry.py) and what the status worker makes of them           *)
(* (services/remote_job_status_service.py, provider type LOCAL).           *)
(*                                                                         *)
(* launch_cluster runs in a thread: it starts a detached process, writes   *)
(* its pid to a file, and registers it.  Stops, polls, shutdowns and       *)
(* crashes come in between.  A job starts one process, so the job stands   *)
(* for its pid, its workspace and its registry key.                        *)
(***************************************************************************)
EXTENDS FiniteSets

CONSTANTS
    Jobs,
    Interactive,  \* jobs whose subtype is "interactive"
    NoJob

VARIABLES
    status,       \* status[j] on disk, shared with the launch queue
    phase,        \* phase[j]: where the launch_cluster call for j is
    proc,         \* proc[j]: the process of j
    pidFile,      \* pidFile[j]: "none", "empty" (created, not yet written), "pid"
    registered,   \* procs and workspace_index of process_registry.json
    killing,      \* processes that a stop, or kill_all, is about to terminate
    closing,      \* kill_all has begun, and the server process not yet ended
    poll,         \* what the status worker is doing
    cut           \* history: jobs whose launch, or kill, was cut short

endVars == <<killing, closing>>
providerVars == <<phase, proc, pidFile, registered, endVars, poll, cut>>

Phases  == {"idle", "setup", "spawned", "written", "returned", "raised"}
Polled  == {"LAUNCHING", "RUNNING", "STOPPING", "INTERACTIVE"}
Idle    == [job |-> NoJob, verdict |-> "none"]

Starting == {"spawned", "written"}

ProviderInit ==
    /\ phase = [j \in Jobs |-> "idle"]
    /\ proc = [j \in Jobs |-> "none"]
    /\ pidFile = [j \in Jobs |-> "none"]
    /\ registered = {}
    /\ killing = {} /\ closing = FALSE
    /\ poll = Idle
    /\ cut = {}

ProviderTypeOK ==
    /\ phase \in [Jobs -> Phases]
    /\ proc \in [Jobs -> {"none", "alive", "dead"}]
    /\ pidFile \in [Jobs -> {"none", "empty", "pid"}]
    /\ registered \subseteq Jobs
    /\ killing \subseteq Jobs /\ closing \in BOOLEAN
    /\ poll \in [job : Jobs \cup {NoJob},
                 verdict : {"none", "STOPPED", "FAILED", "COMPLETE"}]
    /\ cut \subseteq Jobs

-----------------------------------------------------------------------------
(* launch_cluster, in the executor thread. *)

Move(j, from, to) ==
    /\ phase[j] = from
    /\ phase' = [phase EXCEPT ![j] = to]

Begin(j) ==
    /\ Move(j, "idle", "setup")
    /\ UNCHANGED <<proc, pidFile, registered, endVars, poll, cut>>

\* The base environment exists, the venv was built from it and the setup script
\* succeeded: Popen with start_new_session, then open("pid", "w"), which creates
\* an empty file; the pid reaches it at close.
Spawn(j) ==
    /\ Move(j, "setup", "spawned")
    /\ proc' = [proc EXCEPT ![j] = "alive"]
    /\ pidFile' = [pidFile EXCEPT ![j] = "empty"]
    /\ UNCHANGED <<registered, endVars, poll, cut>>

WritePid(j) ==
    /\ Move(j, "spawned", "written")
    /\ pidFile' = [pidFile EXCEPT ![j] = "pid"]
    /\ UNCHANGED <<proc, registered, endVars, poll, cut>>

\* Mutant: the registry file is written from a state read before another
\* thread's entry, as it would be without its two locks.
RegisterOver(j) ==
    /\ Move(j, "written", "returned")
    /\ registered' = {j}
    /\ UNCHANGED <<proc, pidFile, endVars, poll, cut>>

Register(j) ==
    /\ Move(j, "written", "returned")
    /\ registered' = registered \cup {j}
    /\ UNCHANGED <<proc, pidFile, endVars, poll, cut>>

\* The environment, the venv or the setup script fails; or, once the process
\* runs, writing the pid file or the registry does, and the process stays.
Raise(j) ==
    /\ phase[j] \in {"setup"} \cup Starting
    /\ phase' = [phase EXCEPT ![j] = "raised"]
    /\ cut' = IF phase[j] \in Starting THEN cut \cup {j} ELSE cut
    /\ UNCHANGED <<proc, pidFile, registered, endVars, poll>>

LaunchStep(j) ==
    Spawn(j) \/ WritePid(j) \/ Register(j) \/ Raise(j)

\* The command ends, or the job's own process obeys a stop.
ProcessEnds(j) ==
    /\ proc[j] = "alive"
    /\ proc' = [proc EXCEPT ![j] = "dead"]
    /\ UNCHANGED <<phase, pidFile, registered, endVars, poll, cut>>

-----------------------------------------------------------------------------
(* stop_cluster, in a thread: nothing to do without a pid file, or with one  *)
(* it cannot read.  Otherwise kill pops the registry entry, if there is one,  *)
(* and writes the file, and then the process tree gets SIGTERM and, three     *)
(* seconds later, SIGKILL.                                                    *)

StopCluster(j) ==
    /\ pidFile[j] = "pid" /\ (proc[j] = "alive" \/ j \in registered)
    /\ registered' = registered \ {j}
    /\ killing' = killing \cup {j}
    /\ UNCHANGED <<phase, proc, pidFile, closing, poll, cut>>

\* By the pid in the entry that was removed, or in the pid file.
Terminate(j) ==
    /\ j \in killing
    /\ proc' = [proc EXCEPT ![j] = "dead"]
    /\ killing' = killing \ {j}
    /\ UNCHANGED <<phase, pidFile, registered, closing, poll, cut>>

-----------------------------------------------------------------------------
(* The status worker. *)

\* get_cluster_status.  int() of an empty file raises ValueError: DOWN.
StatusOf(j) ==
    IF pidFile[j] = "none" THEN "noPid"
    ELSE IF pidFile[j] = "pid" /\ proc[j] = "alive" THEN "up" ELSE "down"

\* Mutant: a job without a pid file is left alone even while it is STOPPING.
EndsNoPidRule(listed, answer) == answer = "down"

Ends(listed, answer) ==
    \/ answer = "down"
    \/ answer = "noPid" /\ listed = "STOPPING"

Verdict(j, listed) ==
    IF listed = "STOPPING" THEN "STOPPED"
    ELSE IF j \in Interactive THEN "FAILED" ELSE "COMPLETE"

\* A cycle lists the job, asks the provider and decides.  Where that ends
\* nothing, it changes nothing.
Look(j) ==
    /\ poll = Idle
    /\ status[j] \in Polled /\ Ends(status[j], StatusOf(j))
    /\ poll' = [job |-> j, verdict |-> Verdict(j, status[j])]
    /\ UNCHANGED <<phase, proc, pidFile, registered, endVars, cut>>

\* The verdict on the listed record is written over the present one.
Write ==
    /\ poll # Idle
    /\ status' = [status EXCEPT ![poll.job] = poll.verdict]
    /\ poll' = Idle
    /\ UNCHANGED <<phase, proc, pidFile, registered, endVars, cut>>

-----------------------------------------------------------------------------
(* The end of the server process. *)

\* lifespan after its yield: the workers are stopped, then kill_all writes an
\* empty registry and only then terminates, one by one, what was in it.
EmptyRegistry ==
    /\ ~ closing
    /\ closing' = TRUE
    /\ killing' = killing \cup registered
    /\ registered' = {}
    /\ poll' = Idle
    /\ UNCHANGED <<phase, proc, pidFile, cut>>

\* Executor threads are not interrupted, the interpreter joins them: launches
\* and stops that are under way go on.
ShutDown ==
    /\ closing /\ killing = {}
    /\ closing' = FALSE
    /\ UNCHANGED <<phase, proc, pidFile, registered, killing, poll, cut>>

\* The threads die; the processes are sessions of their own and live on.
Crash ==
    /\ phase' = [j \in Jobs |-> IF phase[j] \in {"setup"} \cup Starting
                                THEN "raised" ELSE phase[j]]
    /\ cut' = cut \cup {j \in Jobs : phase[j] \in Starting} \cup killing
    /\ killing' = {} /\ closing' = FALSE
    /\ poll' = Idle
    /\ UNCHANGED <<proc, pidFile, registered>>

=============================================================================
