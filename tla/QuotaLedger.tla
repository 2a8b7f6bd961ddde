----------------------------- MODULE QuotaLedger -----------------------------
(***************************************************************************)
(* The minutes of one user in one team                                     *)
(* (backend/transformerlab/services/quota_service.py and the parts of      *)
(* job_service.py and launch_template.py that move them).  A launch checks *)
(* the quota and then holds the minutes it asked for; when its job is over *)
(* the minutes it ran are recorded and the hold is converted; when the     *)
(* launch fails the hold is released.  Database transactions are atomic;   *)
(* everything between two of them interleaves.                             *)
(***************************************************************************)
EXTENDS Integers, Functions

CONSTANTS
    Jobs,          \* launch requests of the user
    Minutes,       \* Minutes[j]: minutes_requested
    Total,         \* team quota and override
    MaxClock,      \* bound on the clock, in minutes
    MaxCrashes     \* bound on server crashes

ASSUME LedgerAssumption == /\ Minutes \in [Jobs -> Nat \ {0}]
                           /\ Total \in Nat
                           /\ MaxClock \in Nat
                           /\ MaxCrashes \in Nat

VARIABLES
    stage,         \* stage[j]: how far the launch of j is
    hold,          \* hold[j]: status of its QuotaHold row, "NONE" before it
    usage,         \* usage[j]: minutes of its QuotaUsage row, or Unknown
    status,        \* status[j]: job status
    start, end,    \* start[j], end[j]: job_data.start_time, end_time, or Unknown
    tasks,         \* quota tasks not yet run, each with the record it was given
    clock, crashes

rows    == <<hold, usage>>
records == <<status, start, end>>
vars    == <<stage, rows, records, tasks, clock, crashes>>

Unknown == -1
Times   == 0..MaxClock

Stages   == {"none", "created", "held", "live", "launched", "failed"}
Holds    == {"NONE", "HELD", "RELEASED", "CONVERTED"}
\* FAILED stands for STOPPED too: the ledger treats them alike.
Final    == {"COMPLETE", "FAILED"}
Statuses == Final \cup {"LIVE", "DELETED"}

\* get_available_quota: total less what is used and what is held.
Available ==
    Total - FoldFunction(LAMBDA m, n : m + n, 0,
                [j \in Jobs |-> (IF usage[j] # Unknown THEN usage[j] ELSE 0)
                              + (IF hold[j] = "HELD" THEN Minutes[j] ELSE 0)])

Init ==
    /\ stage = [j \in Jobs |-> "none"]
    /\ hold = [j \in Jobs |-> "NONE"]
    /\ usage = [j \in Jobs |-> Unknown]
    /\ status = [j \in Jobs |-> "LIVE"]
    /\ start = [j \in Jobs |-> Unknown]
    /\ end = [j \in Jobs |-> Unknown]
    /\ tasks = {}
    /\ clock = 0
    /\ crashes = 0

Tick ==
    /\ clock < MaxClock
    /\ clock' = clock + 1
    /\ UNCHANGED <<stage, rows, records, tasks, crashes>>

Advance(j, from, to) ==
    /\ stage[j] = from
    /\ stage' = [stage EXCEPT ![j] = to]
    /\ UNCHANGED <<tasks, clock, crashes>>

-----------------------------------------------------------------------------
(* A launch request. *)

\* check_quota_available lets the request through, and the job is created.
Check(j) ==
    /\ Available >= Minutes[j]
    /\ Advance(j, "none", "created")
    /\ UNCHANGED <<rows, records>>

\* create_quota_hold and its commit.
Hold(j) ==
    /\ Advance(j, "created", "held")
    /\ hold' = [hold EXCEPT ![j] = "HELD"]
    /\ UNCHANGED <<usage, records>>

\* job_data is written, with start_time, and the launch is queued.
Start(j) ==
    /\ Advance(j, "held", "live")
    /\ start' = [start EXCEPT ![j] = clock]
    /\ UNCHANGED <<rows, status, end>>

\* The launch goes through and the launcher writes the job's status, whatever
\* it has become meanwhile.
Launch(j) ==
    /\ Advance(j, "live", "launched")
    /\ status' = [status EXCEPT ![j] = "LIVE"]
    /\ UNCHANGED <<rows, start, end>>

-----------------------------------------------------------------------------
(* Charging a job. *)

Converted(j) == IF hold[j] = "HELD" THEN "CONVERTED" ELSE hold[j]
Released(j)  == IF hold[j] = "HELD" THEN "RELEASED" ELSE hold[j]

\* Mutant: the usage is recorded and the hold stays.
ChargeOnly(j, minutes) ==
    /\ usage' = [usage EXCEPT ![j] = minutes]
    /\ UNCHANGED hold

\* Usage and conversion are one transaction.
Charge(j, minutes) ==
    /\ usage' = [usage EXCEPT ![j] = minutes]
    /\ hold' = [hold EXCEPT ![j] = Converted(j)]

\* Mutant: no unique index on (job, team).
RecordAgain(j, from, to) ==
    IF to >= from THEN Charge(j, to - from) ELSE UNCHANGED rows

\* Mutant: a job that never started is ignored.
RecordStarted(j, from, to) ==
    IF from # Unknown /\ usage[j] = Unknown /\ to >= from
    THEN Charge(j, to - from)
    ELSE UNCHANGED rows

\* _record_quota_usage_internal: a job that never started gives its hold back;
\* a second row for a job is refused by the unique index and rolled back.
Record(j, from, to) ==
    CASE from = Unknown
            -> hold' = [hold EXCEPT ![j] = Released(j)] /\ UNCHANGED usage
      [] from # Unknown /\ usage[j] = Unknown /\ to >= from
            -> Charge(j, to - from)
      [] OTHER
            -> UNCHANGED rows

\* job_update_status with a final status: the record is read, and a task that
\* will charge it is started.
EndByServer(j, s, e) ==
    /\ status' = [status EXCEPT ![j] = s]
    /\ end' = [end EXCEPT ![j] = e]
    /\ tasks' = tasks \cup {[job |-> j, start |-> start[j], end |-> e]}
    /\ UNCHANGED <<stage, rows, start, clock, crashes>>

\* The status worker, which writes end_time first.
WorkerEnds(j) ==
    /\ stage[j] \in {"live", "launched"}
    /\ \E s \in Final : EndByServer(j, s, clock)

\* The jobs/update route.
UserEnds(j) ==
    /\ stage[j] # "none"
    /\ \E s \in Final \cup {"DELETED"} : EndByServer(j, s, end[j])

\* The job's own process ends the job through the SDK: nobody is told.
JobEnds(j) ==
    /\ stage[j] = "launched" /\ status[j] = "LIVE"
    /\ \E s \in Final : status' = [status EXCEPT ![j] = s]
    /\ end' = [end EXCEPT ![j] = clock]
    /\ UNCHANGED <<stage, rows, start, tasks, clock, crashes>>

\* job_delete writes the record only.
Delete(j) ==
    /\ stage[j] # "none" /\ status[j] # "DELETED"
    /\ status' = [status EXCEPT ![j] = "DELETED"]
    /\ UNCHANGED <<stage, rows, start, end, tasks, clock, crashes>>

\* The launch fails: in one transaction the hold is released by its id and the
\* job, now FAILED, is charged; if it was charged before all is rolled back.
LaunchFails(j) ==
    /\ Advance(j, "live", "failed")
    /\ status' = [status EXCEPT ![j] = "FAILED"]
    /\ IF usage[j] = Unknown
       THEN /\ usage' = [usage EXCEPT ![j] =
                            (IF end[j] = Unknown THEN clock ELSE end[j]) - start[j]]
            /\ hold' = [hold EXCEPT ![j] = "RELEASED"]
       ELSE UNCHANGED rows
    /\ UNCHANGED <<start, end>>

\* _track_quota_for_job_status_change.
Track(t) ==
    /\ t \in tasks
    /\ tasks' = tasks \ {t}
    /\ Record(t.job, t.start, IF t.end = Unknown THEN clock ELSE t.end)
    /\ UNCHANGED <<stage, records, clock, crashes>>

TrackJob(j) == \E t \in tasks : t.job = j /\ Track(t)

\* ensure_quota_recorded_for_completed_job, on request of a client.
Ensure(j) ==
    /\ status[j] # "LIVE" /\ usage[j] = Unknown
    /\ \/ start[j] = Unknown \/ end[j] # Unknown
       \/ status[j] = "COMPLETE"
    /\ Record(j, start[j], IF end[j] = Unknown THEN clock ELSE end[j])
    /\ UNCHANGED <<stage, records, tasks, clock, crashes>>

\* A crash loses the tasks.
Crash ==
    /\ crashes < MaxCrashes
    /\ crashes' = crashes + 1
    /\ tasks' = {}
    /\ UNCHANGED <<stage, rows, records, clock>>

-----------------------------------------------------------------------------
Ends(j) == WorkerEnds(j) \/ UserEnds(j) \/ JobEnds(j) \/ Delete(j) \/ LaunchFails(j)

Next ==
    \/ Tick \/ Crash
    \/ \E j \in Jobs : \/ Check(j) \/ Hold(j) \/ Start(j) \/ Launch(j)
                       \/ Ends(j) \/ TrackJob(j) \/ Ensure(j)

\* The event loop runs every task.
Spec == Init /\ [][Next]_vars /\ \A j \in Jobs : WF_vars(TrackJob(j))

-----------------------------------------------------------------------------
(* Properties. *)

Snapshots == [job : Jobs, start : Times \cup {Unknown}, end : Times \cup {Unknown}]

TypeOK ==
    /\ stage \in [Jobs -> Stages]
    /\ hold \in [Jobs -> Holds]
    /\ usage \in [Jobs -> Times \cup {Unknown}]
    /\ status \in [Jobs -> Statuses]
    /\ start \in [Jobs -> Times \cup {Unknown}]
    /\ end \in [Jobs -> Times \cup {Unknown}]
    /\ tasks \subseteq Snapshots
    /\ clock \in Times
    /\ crashes \in 0..MaxCrashes

\* A job's minutes are never counted twice against the quota, as used and as
\* held, whoever charges it first and whatever is lost in a crash.
CountedOnce == \A j \in Jobs : usage[j] # Unknown => hold[j] # "HELD"

\* A job is charged once: the status worker, a route, a failing launch and a
\* client's request to record may all try, in any order.
ChargedOnce == [][\A j \in Jobs : usage[j] # Unknown => usage'[j] = usage[j]]_vars

\* A job that the server ended stops blocking quota, whatever else happens to
\* it, unless the server crashes before the task has run.
TrackedIsFreed ==
    \A j \in Jobs : (\E t \in tasks : t.job = j) ~> (hold[j] # "HELD" \/ crashes > 0)

\* A hold is only made of minutes that are available.
HoldWithinQuota ==
    [][\A j \in Jobs :
          hold[j] = "NONE" /\ hold'[j] = "HELD" => Available >= Minutes[j]]_vars

=============================================================================
