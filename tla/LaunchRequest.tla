--------------------------- MODULE LaunchRequest ---------------------------
(***************************************************************************)
(* A launch, from the request to the provider                              *)
(* (services/compute_provider/launch_template.py and                       *)
(* remote_job_endpoints_service.py).                                       *)
(*                                                                         *)
(* The request makes the job first and writes its record in several steps; *)
(* a write that fails is logged and forgotten.  A remote launch is queued  *)
(* as a row, and the queue's worker has only the record to go by; a local  *)
(* one is queued in memory; a resumed one is launched by the request.      *)
(***************************************************************************)
EXTENDS Naturals, FiniteSets

CONSTANTS Launches,    \* requests
          MaxLost      \* bound on the launches whose record a write misses

ASSUME LaunchesAssumption == MaxLost \in Nat

VARIABLES
    provider,      \* the provider's row: "on", "disabled" or "gone"
    req,           \* req[l]: what is launched
    at,            \* at[l]: how far the launch is
    state,         \* state[l]: job status, "LIVE" for all that are under way
    record,        \* record[l]: what job_data on disk says
    hold,          \* hold[l]: quota hold
    machine,       \* launches that the provider has taken
    lost           \* history: launches with a write that failed

launchVars == <<provider, req, at, state, record, hold, machine, lost>>

Kinds  == {"remote", "local", "resume"}
Fields == {"provider", "cluster", "hold", "config"}
Points == {"none", "create", "hold", "fields", "build", "command", "queue",
           "row", "item", "launch", "over"}

LaunchInit ==
    /\ provider = "on"
    /\ req \in [Launches -> [kind : Kinds, minutes : BOOLEAN, command : BOOLEAN]]
    \* A job that can be resumed has a command, and no minutes are asked for it.
    /\ \A l \in Launches : req[l].kind = "resume" => req[l].command /\ ~ req[l].minutes
    /\ at = [l \in Launches |-> "none"]
    /\ state = [l \in Launches |-> "none"]
    /\ record = [l \in Launches |-> {}]
    /\ hold = [l \in Launches |-> "none"]
    /\ machine = {} /\ lost = {}

Move(l, from, to) == at[l] = from /\ at' = [at EXCEPT ![l] = to]

\* job_update_job_data_insert_key_values: what fails is printed.
WriteRecord(l, fields) ==
    \/ record' = [record EXCEPT ![l] = @ \cup fields] /\ UNCHANGED lost
    \/ /\ l \in lost \/ Cardinality(lost) < MaxLost
       /\ lost' = lost \cup {l} /\ UNCHANGED record

\* The launch is given up: the job fails, and the hold may be released.  (What
\* the ledger does about a failed job is in QuotaLedger.)
GiveUp(l, release) ==
    /\ at' = [at EXCEPT ![l] = "over"]
    /\ state' = [state EXCEPT ![l] = "FAILED"]
    /\ hold' = [hold EXCEPT ![l] = IF release /\ @ = "held" THEN "released" ELSE @]

-----------------------------------------------------------------------------
\* The provider is enabled, the secrets are there, and the quota suffices.
\* A resume asks for the row only.
Admit(l) ==
    /\ \/ provider = "on"
       \/ provider = "disabled" /\ req[l].kind = "resume"
    /\ Move(l, "none", "create")
    /\ UNCHANGED <<provider, req, state, record, hold, machine, lost>>

\* job_create.
CreateJob(l) ==
    /\ Move(l, "create", IF req[l].kind = "resume" THEN "fields" ELSE "hold")
    /\ state' = [state EXCEPT ![l] = "LIVE"]
    /\ UNCHANGED <<provider, req, record, hold, machine, lost>>

\* create_quota_hold and its commit.
HoldMinutes(l) ==
    /\ Move(l, "hold", "build")
    /\ hold' = [hold EXCEPT ![l] = IF req[l].minutes THEN "held" ELSE @]
    /\ UNCHANGED <<provider, req, state, record, machine, lost>>

\* The fields of the old job; a provider that cannot be built fails the job.
CopyFields(l) ==
    \/ /\ Move(l, "fields", "build")
       /\ WriteRecord(l, {"provider"})
       /\ UNCHANGED <<provider, req, state, hold, machine>>
    \/ /\ at[l] = "fields" /\ GiveUp(l, FALSE)
       /\ UNCHANGED <<provider, req, record, machine, lost>>

\* What was put together is written to the record, unless something in it raised,
\* which ends the request and no more.
Written(l, next, fields) ==
    \/ /\ Move(l, "build", next)
       /\ WriteRecord(l, fields)
       /\ UNCHANGED <<provider, req, state, hold, machine>>
    \/ /\ Move(l, "build", "over")
       /\ UNCHANGED <<provider, req, state, record, hold, machine, lost>>

\* Secrets, credentials, setup, files and command of a launch.
Build(l) ==
    /\ req[l].kind # "resume"
    /\ Written(l, "command", {"provider", "cluster"} \cup
                            (IF req[l].minutes THEN {"hold"} ELSE {}))

\* The same of a resume, from the old record; its config is not stored.
BuildResumed(l) ==
    /\ req[l].kind = "resume"
    /\ Written(l, "launch", {"provider", "cluster"})

\* Only now a missing command is refused; the job and its hold stay.
CheckCommand(l) ==
    \/ /\ ~ req[l].command /\ Move(l, "command", "over")
       /\ UNCHANGED <<provider, req, state, record, hold, machine, lost>>
    \/ /\ req[l].command /\ Move(l, "command", "queue")
       /\ WriteRecord(l, {"config"})
       /\ UNCHANGED <<provider, req, state, hold, machine>>

\* enqueue_remote_launch, which the database may refuse; enqueue_local_launch.
Queue(l) ==
    /\ \/ req[l].kind = "remote" /\ (Move(l, "queue", "row") \/ Move(l, "queue", "over"))
       \/ req[l].kind = "local" /\ Move(l, "queue", "item")
    /\ UNCHANGED <<provider, req, state, record, hold, machine, lost>>

-----------------------------------------------------------------------------
\* Mutant: the config is all that is needed.
ConfigSuffices(l) == "config" \in record[l]

\* _reconstruct_work_item.
Reconstructs(l) == {"provider", "cluster", "config"} \subseteq record[l]

\* The remote queue goes by the record, the local one by what it was given.
TakeUp(l) ==
    \/ /\ \/ Move(l, "row", "launch") /\ Reconstructs(l)
          \/ Move(l, "item", "launch")
       /\ UNCHANGED <<provider, req, state, record, hold, machine, lost>>
    \/ /\ at[l] = "row" /\ ~ Reconstructs(l) /\ GiveUp(l, FALSE)
       /\ UNCHANGED <<provider, req, record, machine, lost>>

\* launch_cluster: the provider takes the launch, or it is given up.
Launched(l) ==
    /\ Move(l, "launch", "over")
    /\ machine' = machine \cup {l}
    /\ UNCHANGED <<provider, req, state, record, hold, lost>>

NotLaunched(l, release) ==
    /\ at[l] = "launch" /\ GiveUp(l, release)
    /\ UNCHANGED <<provider, req, record, machine, lost>>

\* A queue reads the provider's row again, and releases the hold of what fails.
CallProvider(l) ==
    /\ req[l].kind # "resume"
    /\ (provider # "gone" /\ Launched(l)) \/ NotLaunched(l, TRUE)

\* A resume has its provider, and no hold.
CallResumed(l) ==
    /\ req[l].kind = "resume"
    /\ Launched(l) \/ NotLaunched(l, FALSE)

-----------------------------------------------------------------------------
\* PATCH and DELETE of the provider.
ChangeProvider ==
    /\ provider # "gone"
    /\ provider' \in {"on", "disabled", "gone"} \ {provider}
    /\ UNCHANGED <<req, at, state, record, hold, machine, lost>>

\* The server stops: rows stay, whatever is in memory is gone.
CutLaunches ==
    /\ at' = [l \in Launches |-> IF at[l] \in {"none", "row"} THEN at[l] ELSE "over"]
    /\ UNCHANGED <<provider, req, state, record, hold, machine, lost>>

LaunchNext ==
    \/ \E l \in Launches :
          \/ Admit(l) \/ CreateJob(l) \/ HoldMinutes(l) \/ CopyFields(l)
          \/ Build(l) \/ BuildResumed(l) \/ CheckCommand(l) \/ Queue(l) \/ TakeUp(l)
          \/ CallProvider(l) \/ CallResumed(l)
    \/ ChangeProvider \/ CutLaunches

LaunchSpec == LaunchInit /\ [][LaunchNext]_launchVars

-----------------------------------------------------------------------------
LaunchTypeOK ==
    /\ provider \in {"on", "disabled", "gone"}
    /\ req \in [Launches -> [kind : Kinds, minutes : BOOLEAN, command : BOOLEAN]]
    /\ at \in [Launches -> Points]
    /\ state \in [Launches -> {"none", "LIVE", "FAILED"}]
    /\ record \in [Launches -> SUBSET Fields]
    /\ hold \in [Launches -> {"none", "held", "released"}]
    /\ machine \subseteq Launches /\ lost \subseteq Launches

\* A machine that a provider has taken can be found by the record of its job: by
\* the status worker that polls it, by the user who stops it, and by whoever
\* releases its minutes.  A remote launch keeps this even when the writes of its
\* record failed; the local queue and a resume go by what is in memory.
LaunchIsRecorded ==
    \A l \in machine :
        \/ /\ {"provider", "cluster"} \subseteq record[l]
           /\ hold[l] = "held" => "hold" \in record[l]
        \/ l \in lost /\ req[l].kind # "remote"
=============================================================================
