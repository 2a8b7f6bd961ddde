---------------------------- MODULE ApiProcesses ----------------------------
(***************************************************************************)
(* The API processes of one server (uvicorn workers) and the election of   *)
(* the one that runs the background workers: shared/worker_leader.py, and  *)
(* lifespan in backend/api.py.                                             *)
(***************************************************************************)
EXTENDS Naturals

CONSTANTS
    Procs,     \* the API processes the supervisor keeps
    NoProc,
    MaxEnds    \* bound on the ends of processes, graceful or not

ASSUME ProcAssumption == NoProc \notin Procs /\ MaxEnds \in Nat

VARIABLES
    up,        \* up[p]: "down", "starting" or "up"
    leads,     \* leads[p]: _leader in process p
    flock,     \* the process whose descriptor holds .worker_leader.lock
    ends       \* ends of processes so far

procVars == <<up, leads, flock, ends>>

ProcTypeOK ==
    /\ up \in [Procs -> {"down", "starting", "up"}]
    /\ leads \in [Procs -> BOOLEAN]
    /\ flock \in Procs \cup {NoProc}
    /\ ends \in 0 .. MaxEnds

ProcInit ==
    /\ up = [p \in Procs |-> "down"]
    /\ leads = [p \in Procs |-> FALSE]
    /\ flock = NoProc
    /\ ends = 0

\* Directories, cache, credentials and database, before the election.
Start(p) ==
    /\ up[p] = "down"
    /\ up' = [up EXCEPT ![p] = "starting"]
    /\ UNCHANGED <<leads, flock, ends>>

\* Mutant: the lock is taken without looking whether somebody holds it.
ElectOver(p) ==
    /\ up[p] = "starting"
    /\ up' = [up EXCEPT ![p] = "up"]
    /\ flock' = p
    /\ leads' = [leads EXCEPT ![p] = TRUE]
    /\ UNCHANGED ends

\* try_acquire_leadership, once: LOCK_EX | LOCK_NB, then the workers are started
\* in the process that got it.
Elect(p) ==
    /\ up[p] = "starting"
    /\ up' = [up EXCEPT ![p] = "up"]
    /\ flock' = IF flock = NoProc THEN p ELSE flock
    /\ leads' = [leads EXCEPT ![p] = flock = NoProc]
    /\ UNCHANGED ends

\* Mutant: a lock that outlives the process that held it.
EndLocked(p) ==
    /\ up[p] # "down" /\ ends < MaxEnds
    /\ up' = [up EXCEPT ![p] = "down"]
    /\ leads' = [leads EXCEPT ![p] = FALSE]
    /\ ends' = ends + 1
    /\ UNCHANGED flock

\* The workers are cancelled, and the lock goes with the process; a crash does
\* the same to them at whatever step they are.
End(p) ==
    /\ up[p] # "down" /\ ends < MaxEnds
    /\ up' = [up EXCEPT ![p] = "down"]
    /\ leads' = [leads EXCEPT ![p] = FALSE]
    /\ flock' = IF flock = p THEN NoProc ELSE flock
    /\ ends' = ends + 1

\* What a background worker needs to take a step.
RunsWorkers(p) == up[p] = "up" /\ leads[p]

=============================================================================
