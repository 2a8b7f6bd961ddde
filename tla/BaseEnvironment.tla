-------------------------- MODULE BaseEnvironment --------------------------
(***************************************************************************)
(* The conda environment all local jobs are built from:                    *)
(* ensure_base_venv_and_requirements in compute_providers/local.py, its    *)
(* flock and its "ready" file, and the setups users start and watch        *)
(* through services/compute_provider/local_setup_service.py.               *)
(*                                                                         *)
(* Every launch of a local job calls it too, in any API process.           *)
(***************************************************************************)
EXTENDS ApiProcesses

CONSTANTS
    Setups,    \* calls of ensure_base_venv_and_requirements
    NoSetup

ASSUME BaseAssumption == NoSetup \notin Setups

VARIABLES
    asks,      \* asks[s]: "launch", "setup", "refresh", or "nothing"
    at,        \* at[s]: where the call is
    host,      \* host[s]: the process that runs it
    baseLock,  \* the call that holds _base_setup_lock
    env,       \* the environment directory
    ready,     \* the state file says ready
    shown,     \* the setup status file of the provider is on disk
    torn       \* history: a refresh died, or failed, before it removed the state file

baseVars == <<asks, at, host, baseLock, env, ready, shown, torn>>

Ends == {"built", "ensured", "failed", "cut"}

BaseTypeOK ==
    /\ asks \in [Setups -> {"launch", "setup", "refresh", "nothing"}]
    /\ at \in [Setups -> {"none", "wait", "locked", "cleaning", "install", "build"} \cup Ends]
    /\ host \in [Setups -> Procs \cup {NoProc}]
    /\ baseLock \in {NoSetup} \cup {s \in Setups : at[s] \in {"locked", "cleaning", "install"}}
    /\ env \in {"none", "part", "whole"}
    /\ ready \in BOOLEAN /\ torn \in BOOLEAN /\ shown \in BOOLEAN

BaseInit ==
    /\ asks \in [Setups -> {"launch", "setup", "refresh", "nothing"}]
    /\ at = [s \in Setups |-> "none"]
    /\ host = [s \in Setups |-> NoProc]
    /\ baseLock = NoSetup
    /\ env = "none" /\ ready = FALSE
    /\ shown = FALSE /\ torn = FALSE

\* The status file, written at the start of a user's setup and with each phase of
\* it, and deleted at its end.
Shows(s) == shown' = (shown \/ asks[s] # "launch")
Hides(s) == shown' = (shown /\ asks[s] = "launch")

Go(s, from, to) == at[s] = from /\ at' = [at EXCEPT ![s] = to]

\* setup_provider writes the status file and creates the task.
Ask(p, s) ==
    /\ up[p] = "up" /\ asks[s] # "nothing"
    /\ Go(s, "none", "wait")
    /\ host' = [host EXCEPT ![s] = p]
    /\ Shows(s)
    /\ UNCHANGED <<asks, baseLock, env, ready, torn>>

TakeLock(s) ==
    /\ baseLock = NoSetup
    /\ Go(s, "wait", "locked")
    /\ baseLock' = s
    /\ UNCHANGED <<asks, host, env, ready, shown, torn>>

\* A user's setup is through here; a launch goes on to build its venv, without
\* the lock.
After(s) == IF asks[s] = "launch" THEN "build" ELSE "ensured"

Reuse(s) ==
    /\ asks[s] # "refresh" /\ ready
    /\ Go(s, "locked", After(s))
    /\ baseLock' = NoSetup /\ Hides(s)
    /\ UNCHANGED <<asks, host, env, ready, torn>>

\* rmtree of the environment, then of the log, the config and the state file.
RemoveEnv(s) ==
    /\ asks[s] = "refresh"
    /\ Go(s, "locked", "cleaning")
    /\ env' = "none"
    /\ Shows(s)
    /\ UNCHANGED <<asks, host, baseLock, ready, torn>>

\* Mutant: the state file survives the cleaning.
RemoveMarkerNot(s) ==
    /\ Go(s, "cleaning", "install")
    /\ env' = "part"
    /\ Shows(s)
    /\ UNCHANGED <<asks, host, baseLock, ready, torn>>

\* The unlinking may fail, and goes unnoticed then.
RemoveMarker(s) ==
    /\ Go(s, "cleaning", "install")
    /\ \E gone \in BOOLEAN :
          /\ ready' = (ready /\ ~gone)
          /\ torn' = (torn \/ ~gone)
    /\ env' = "part"
    /\ Shows(s)
    /\ UNCHANGED <<asks, host, baseLock>>

\* The install script begins over whatever is there.
BeginInstall(s) ==
    /\ asks[s] # "refresh" /\ ~ready
    /\ Go(s, "locked", "install")
    /\ env' = IF env = "whole" THEN "whole" ELSE "part"
    /\ Shows(s)
    /\ UNCHANGED <<asks, host, baseLock, ready, torn>>

\* Install and configuration succeed; the state file is the last thing written.
Installed(s) ==
    /\ Go(s, "install", After(s))
    /\ env' = "whole" /\ ready' = TRUE
    /\ torn' = FALSE
    /\ baseLock' = NoSetup /\ Hides(s)
    /\ UNCHANGED <<asks, host>>

InstallFails(s) ==
    /\ Go(s, "install", "failed")
    /\ baseLock' = NoSetup /\ Hides(s)
    /\ UNCHANGED <<asks, host, env, ready, torn>>

\* _ensure_job_venv_from_base; a refresh may take the environment away under it.
Build(s) ==
    /\ Go(s, "build", IF env = "whole" THEN "built" ELSE "failed")
    /\ UNCHANGED <<asks, host, baseLock, env, ready, shown, torn>>

SetupStep(s) ==
    \/ Reuse(s) \/ RemoveEnv(s) \/ RemoveMarker(s) \/ BeginInstall(s)
    \/ Installed(s) \/ InstallFails(s) \/ Build(s)

\* The kernel frees the lock of a dead process; status files stay.
BaseCut(p) ==
    LET mine == {s \in Setups : host[s] = p /\ at[s] \notin Ends}
    IN  /\ at' = [s \in Setups |-> IF s \in mine THEN "cut" ELSE at[s]]
        /\ baseLock' = IF baseLock \in mine THEN NoSetup ELSE baseLock
        /\ torn' = (torn \/ \E s \in mine : at[s] = "cleaning")
        /\ UNCHANGED <<asks, host, env, ready, shown>>

=============================================================================
