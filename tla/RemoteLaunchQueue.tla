-------------------------- MODULE RemoteLaunchQueue --------------------------
(***************************************************************************)
(* The persistent queue that launches jobs on remote providers             *)
(* (backend/transformerlab/services/remote_provider_queue.py): a table of  *)
(* rows, one worker loop that polls it and starts a task per row, and at   *)
(* most Capacity tasks that launch at the same time.  The table survives a *)
(* crash of the server; the loop, its batch and the tasks do not.          *)
(***************************************************************************)
EXTENDS Naturals, Sequences, FiniteSets

CONSTANTS
    Jobs,          \* jobs launched on a remote provider; one row each
    HoldJobs,      \* those with a quota hold
    Interactive,   \* those whose subtype is "interactive"
    Capacity,      \* TFL_MAX_CONCURRENT_REMOTE_LAUNCHES
    MaxClock,      \* bound on the seconds told apart by created_at
    MaxFaults,     \* bound on database errors in a worker cycle
    MaxCrashes     \* bound on server crashes

ASSUME QueueAssumption == /\ IsFiniteSet(Jobs)
                          /\ HoldJobs \subseteq Jobs
                          /\ Interactive \subseteq Jobs
                          /\ Capacity \in Nat \ {0}
                          /\ MaxClock \in Nat
                          /\ MaxFaults \in Nat
                          /\ MaxCrashes \in Nat

VARIABLES
    row,           \* row[j]: JobQueue.status of j's row, "none" before it
    created,       \* created[j]: its created_at
    clock,
    batch,         \* rows of this cycle's poll still to handle: Seq(Jobs)
    at,            \* what the loop does next for the first of them
    task,          \* task[j]: where the launch task of j is
    status,        \* status[j]: job status on disk
    hold, usage,   \* quota hold and number of usage rows of j
    readable,      \* readable[j]: job_get finds j and its launch context
    launches,      \* history: launch_cluster calls made for j
    picked,        \* history: jobs in the order they were marked DISPATCHED
    rolledBack,    \* history: jobs whose release a database fault took back
    faults, crashes

rowVars   == <<row, created, clock>>
loopVars  == <<batch, at>>
jobVars   == <<status, hold, usage, readable>>
countVars == <<faults, crashes>>
vars      == <<rowVars, loopVars, task, jobVars, launches, picked, rolledBack,
               countVars>>

Rows      == {"none", "PENDING", "DISPATCHED", "FAILED"}
Places    == {"mark", "load", "missing", "broken", "report"}
TaskSteps == {"none", "ready", "inside", "launching", "started", "done",
              "refused", "released", "settling", "closing",
              "abandon", "unsettled", "gaveUp", "crashed"}
Statuses  == {"LAUNCHING", "INTERACTIVE", "USER", "FAILED"}
Holds     == {"NONE", "HELD", "RELEASED", "CONVERTED"}

InitialStatus(j) == IF j \in Interactive THEN "INTERACTIVE" ELSE "LAUNCHING"

\* Mutant: a task that crashed keeps its slot.
InsideLeaks == {j \in Jobs : task[j] \notin {"none", "ready", "done", "gaveUp"}}

\* Tasks that hold the semaphore.
Inside == {j \in Jobs : task[j] \notin {"none", "ready", "done", "gaveUp", "crashed"}}

-----------------------------------------------------------------------------
Init ==
    /\ row = [j \in Jobs |-> "none"]
    /\ created = [j \in Jobs |-> 0]
    /\ clock = 0
    /\ batch = <<>>
    /\ at = "mark"
    /\ task = [j \in Jobs |-> "none"]
    /\ status = [j \in Jobs |-> InitialStatus(j)]
    /\ hold = [j \in Jobs |-> IF j \in HoldJobs THEN "HELD" ELSE "NONE"]
    /\ usage = [j \in Jobs |-> 0]
    /\ readable = [j \in Jobs |-> TRUE]
    /\ launches = [j \in Jobs |-> 0]
    /\ picked = <<>>
    /\ rolledBack = {}
    /\ faults = 0
    /\ crashes = 0

\* enqueue_remote_launch: created_at is the database's clock, in seconds.
Enqueue(j) ==
    /\ row[j] = "none"
    /\ row' = [row EXCEPT ![j] = "PENDING"]
    /\ created' = [created EXCEPT ![j] = clock]
    /\ UNCHANGED <<clock, loopVars, task, jobVars, launches, picked, rolledBack, countVars>>

Tick ==
    /\ clock < MaxClock
    /\ clock' = clock + 1
    /\ UNCHANGED <<row, created, loopVars, task, jobVars, launches, picked,
                   rolledBack, countVars>>

\* job_stop (STOPPING) and job_delete (DELETED), here one status USER, are
\* written whatever the status was.
UserWrites(j) ==
    /\ status' = [status EXCEPT ![j] = "USER"]
    /\ UNCHANGED <<rowVars, loopVars, task, hold, usage, readable, launches,
                   picked, rolledBack, countVars>>

\* The job's directory is removed or damaged, or cannot be read any more.
JobLost(j) ==
    /\ readable[j]
    /\ readable' = [readable EXCEPT ![j] = FALSE]
    /\ UNCHANGED <<rowVars, loopVars, task, status, hold, usage, launches,
                   picked, rolledBack, countVars>>

-----------------------------------------------------------------------------
(* The worker loop. *)

Pending == {j \in Jobs : row[j] = "PENDING"}

\* All orders of S by created_at; rows of the same second come in any order.
ByCreation(S) ==
    {s \in [1..Cardinality(S) -> S] :
        \A a, b \in DOMAIN s : a < b => /\ s[a] # s[b]
                                        /\ created[s[a]] <= created[s[b]]}

\* Mutant: the query has no ORDER BY.
PollUnordered ==
    /\ batch = <<>> /\ Pending # {}
    /\ batch' \in {s \in [1..Cardinality(Pending) -> Pending] :
                       \A a, b \in DOMAIN s : a # b => s[a] # s[b]}
    /\ at' = "mark"
    /\ UNCHANGED <<rowVars, task, jobVars, launches, picked, rolledBack, countVars>>

\* _poll_pending_remote_entries.
Poll ==
    /\ batch = <<>> /\ Pending # {}
    /\ batch' \in ByCreation(Pending)
    /\ at' = "mark"
    /\ UNCHANGED <<rowVars, task, jobVars, launches, picked, rolledBack, countVars>>

Entry == Head(batch)
AtEntry(place) == batch # <<>> /\ at = place
NextEntry == batch' = Tail(batch) /\ at' = "mark"

\* Mutant: the row stays PENDING until the launch task is running.
MarkLater ==
    /\ AtEntry("mark")
    /\ at' = "load"
    /\ picked' = Append(picked, Entry)
    /\ UNCHANGED <<rowVars, batch, task, jobVars, launches, rolledBack, countVars>>

\* _mark_entry_dispatched, before anything else is known of the job.
Mark ==
    /\ AtEntry("mark")
    /\ row' = [row EXCEPT ![Entry] = "DISPATCHED"]
    /\ at' = "load"
    /\ picked' = Append(picked, Entry)
    /\ UNCHANGED <<created, clock, batch, task, jobVars, launches, rolledBack, countVars>>

\* job_get and _reconstruct_work_item: the job is gone (or could not be read),
\* its launch context is unusable, or a task is started.
Load ==
    /\ AtEntry("load")
    /\ \/ /\ readable[Entry]
          /\ task' = [task EXCEPT ![Entry] = "ready"]
          /\ NextEntry
       \/ /\ ~ readable[Entry]
          /\ at' \in {"missing", "broken"}
          /\ UNCHANGED <<task, batch>>
    /\ UNCHANGED <<rowVars, jobVars, launches, picked, rolledBack, countVars>>

\* _mark_entry_failed.
MarkFailed ==
    /\ AtEntry("missing") \/ AtEntry("broken")
    /\ row' = [row EXCEPT ![Entry] = "FAILED"]
    /\ IF at = "missing" THEN NextEntry ELSE at' = "report" /\ UNCHANGED batch
    /\ UNCHANGED <<created, clock, task, jobVars, launches, picked, rolledBack, countVars>>

\* The job whose context is unusable is set to FAILED, outside the context of
\* its organisation: the write may miss the job.  Its charge comes later.
Report ==
    /\ AtEntry("report")
    /\ UNCHANGED status \/ status' = [status EXCEPT ![Entry] = "FAILED"]
    /\ NextEntry
    /\ UNCHANGED <<rowVars, task, hold, usage, readable, launches, picked, rolledBack, countVars>>

\* A database error ends the cycle: what is left of the batch is polled again.
CycleFails ==
    /\ faults < MaxFaults
    /\ faults' = faults + 1
    /\ AtEntry("mark") \/ AtEntry("missing") \/ AtEntry("broken")
    /\ batch' = <<>>
    /\ at' = "mark"
    /\ UNCHANGED <<rowVars, task, jobVars, launches, picked, rolledBack, crashes>>

-----------------------------------------------------------------------------
(* The launch task of j: _process_launch_item. *)

Step(j, from, to) ==
    /\ task[j] = from
    /\ task' = [task EXCEPT ![j] = to]
    /\ UNCHANGED <<rowVars, loopVars, picked, countVars>>

Enter(j) ==
    /\ Cardinality(Inside) < Capacity
    /\ Step(j, "ready", "inside")
    /\ UNCHANGED <<jobVars, launches, rolledBack>>

\* The provider row is gone.
ProviderMissing(j) ==
    /\ Step(j, "inside", "abandon")
    /\ UNCHANGED <<jobVars, launches, rolledBack>>

\* Reading the provider, building its instance, a release or a commit raises:
\* nothing catches it, the exception is only logged, and the session is closed
\* with what it had not committed.
TaskCrashes(j) ==
    /\ \E from \in {"inside", "refused", "settling", "unsettled"} :
           Step(j, from, "crashed")
    /\ UNCHANGED <<jobVars, launches, rolledBack>>

\* The provider's check fails: no launch.
Unreachable(j) ==
    /\ Step(j, "inside", "refused")
    /\ UNCHANGED <<jobVars, launches, rolledBack>>

Launch(j) ==
    /\ Step(j, "inside", "launching")
    /\ launches' = [launches EXCEPT ![j] = @ + 1]
    /\ UNCHANGED <<jobVars, rolledBack>>

LaunchReturns(j) ==
    /\ Step(j, "launching", "started") \/ Step(j, "launching", "refused")
    /\ UNCHANGED <<jobVars, launches, rolledBack>>

\* What release_quota_hold(hold_id) makes of the hold, whatever it was.
Freed(j) == [hold EXCEPT ![j] = IF @ = "NONE" THEN @ ELSE "RELEASED"]

\* What convert_quota_hold makes of it.
Converted(j) == [hold EXCEPT ![j] = IF @ = "HELD" THEN "CONVERTED" ELSE @]

\* Mutant: the release is a transaction of its own.
ReleaseAtOnce(j) ==
    /\ Step(j, "refused", "released")
    /\ hold' = Freed(j)
    /\ UNCHANGED <<status, usage, readable, launches, rolledBack>>

\* After a failed launch the hold is released first, in the session only.
Release(j) ==
    /\ Step(j, "refused", "released")
    /\ UNCHANGED <<jobVars, launches, rolledBack>>

\* job_update_status writes FAILED to a job that can still be read.
MarkJob(j) ==
    status' = IF readable[j] THEN [status EXCEPT ![j] = "FAILED"] ELSE status

\* Then it charges the job in the session it was given.  Nothing may come of it
\* (no job, no user, no time to count); the release is still not committed.
NotCharged(j) ==
    /\ Step(j, "released", "settling") \/ Step(j, "abandon", "unsettled")
    /\ MarkJob(j)
    /\ UNCHANGED <<hold, usage, readable, launches, rolledBack>>

\* The usage is committed, and with it the release; a hold that was not
\* released is converted.
Charged(j) ==
    /\ readable[j] /\ usage[j] = 0
    /\ \/ Step(j, "released", "closing") /\ hold' = Freed(j)
       \/ Step(j, "abandon", "unsettled") /\ hold' = Converted(j)
    /\ MarkJob(j)
    /\ usage' = [usage EXCEPT ![j] = 1]
    /\ UNCHANGED <<readable, launches, rolledBack>>

\* A second usage row is refused by the unique index: the rollback takes the
\* release back too.
ChargeRefused(j) ==
    /\ readable[j] /\ usage[j] = 1
    /\ Step(j, "released", "closing") \/ Step(j, "abandon", "unsettled")
    /\ MarkJob(j)
    /\ UNCHANGED <<hold, usage, readable, launches, rolledBack>>

\* So does a database fault.
RolledBack(j) ==
    /\ readable[j] /\ faults < MaxFaults
    /\ task[j] = "released"
    /\ task' = [task EXCEPT ![j] = "closing"]
    /\ MarkJob(j)
    /\ faults' = faults + 1
    /\ rolledBack' = rolledBack \cup {j}
    /\ UNCHANGED <<rowVars, loopVars, hold, usage, readable, launches, picked, crashes>>

\* The last commit, or, when the provider was missing, the release and its
\* commit, which come after the charge.
Settle(j) ==
    /\ Step(j, "settling", "gaveUp") \/ Step(j, "unsettled", "gaveUp")
    /\ hold' = Freed(j)
    /\ UNCHANGED <<status, usage, readable, launches, rolledBack>>

\* There is nothing left to commit.
Close(j) ==
    /\ Step(j, "closing", "gaveUp")
    /\ UNCHANGED <<jobVars, launches, rolledBack>>

\* The launch went through: LAUNCHING or INTERACTIVE, whatever the job has
\* become meanwhile.
Announce(j) ==
    /\ Step(j, "started", "done")
    /\ status' = [status EXCEPT ![j] = InitialStatus(j)]
    /\ UNCHANGED <<hold, usage, readable, launches, rolledBack>>

\* A job that ended is charged by somebody else: the background task of
\* job_update_status, or ensure_quota_recorded_for_completed_job.  Usage and
\* conversion are one transaction; it waits for a release under way.
Charge(j) ==
    /\ status[j] \in {"USER", "FAILED"} /\ usage[j] = 0
    /\ task[j] \notin {"released", "settling"}
    /\ usage' = [usage EXCEPT ![j] = 1]
    /\ hold' = Converted(j)
    /\ UNCHANGED <<rowVars, loopVars, task, status, readable, launches, picked,
                   rolledBack, countVars>>

-----------------------------------------------------------------------------
\* The server dies and comes back: the loop and the tasks are gone, and with
\* them what was not committed.
Crash ==
    /\ crashes < MaxCrashes
    /\ crashes' = crashes + 1
    /\ batch' = <<>>
    /\ at' = "mark"
    /\ task' = [j \in Jobs |-> IF task[j] \in {"none", "done", "gaveUp"} THEN task[j]
                                                             ELSE "crashed"]
    /\ UNCHANGED <<rowVars, jobVars, launches, picked, rolledBack, faults>>

Loop == Poll \/ Mark \/ Load \/ MarkFailed \/ Report
GiveUp(j) == \/ Release(j) \/ NotCharged(j) \/ Charged(j) \/ ChargeRefused(j)
             \/ RolledBack(j) \/ Settle(j) \/ Close(j)
Task(j) == \/ Enter(j) \/ ProviderMissing(j) \/ TaskCrashes(j) \/ Unreachable(j)
           \/ Launch(j) \/ LaunchReturns(j) \/ GiveUp(j) \/ Announce(j)

Next ==
    \/ Loop \/ CycleFails \/ Tick \/ Crash
    \/ \E j \in Jobs : Enqueue(j) \/ UserWrites(j) \/ JobLost(j) \/ Charge(j) \/ Task(j)

\* The event loop runs every ready task, the semaphore is handed over in FIFO
\* order, and provider calls return.
Fairness == WF_vars(Loop) /\ \A j \in Jobs : WF_vars(Task(j)) /\ SF_vars(Enter(j))

Spec == Init /\ [][Next]_vars /\ Fairness

-----------------------------------------------------------------------------
(* Properties. *)

TypeOK ==
    /\ row \in [Jobs -> Rows]
    /\ created \in [Jobs -> 0..MaxClock]
    /\ clock \in 0..MaxClock
    /\ batch \in Seq(Jobs)
    /\ at \in Places
    /\ task \in [Jobs -> TaskSteps]
    /\ status \in [Jobs -> Statuses]
    /\ hold \in [Jobs -> Holds]
    /\ usage \in [Jobs -> {0, 1}]
    /\ readable \in [Jobs -> BOOLEAN]
    /\ launches \in [Jobs -> Nat]
    /\ picked \in Seq(Jobs)
    /\ rolledBack \subseteq Jobs
    /\ faults \in 0..MaxFaults
    /\ crashes \in 0..MaxCrashes

\* A job is launched at most once, whatever cycle fails and whenever the server
\* crashes: no second cluster is paid for.
AtMostOneLaunch == \A j \in Jobs : launches[j] <= 1

\* A row says FAILED only of a job that was never launched, and PENDING only of
\* one that no task works on.
RowsTellTheTruth ==
    \A j \in Jobs : row[j] # "DISPATCHED" => launches[j] = 0 /\ task[j] = "none"

\* Rows are dispatched in the order they were created, to the second, whatever
\* arrives or fails in between.
DispatchInOrder ==
    \A a, b \in 1..Len(picked) :
        a < b => created[picked[a]] <= created[picked[b]]

\* The job and its hold are settled together.  A launch that was given up no
\* longer blocks quota, even when the job has disappeared or was charged by
\* somebody else meanwhile, unless a database fault took the release back; and
\* no hold is given back to the user while the job still looks like launching,
\* wherever the server crashes or a commit fails.
GivenUpIsSettled ==
    \A j \in Jobs :
        /\ task[j] = "gaveUp" => hold[j] # "HELD" \/ j \in rolledBack
        /\ hold[j] = "RELEASED" => status[j] \in {"FAILED", "USER"} \/ ~ readable[j]

\* Every row is dispatched, whatever fails a bounded number of times, and every
\* launch task ends, with Capacity slots to share.
EveryLaunchEnds ==
    \A j \in Jobs :
        /\ row[j] = "PENDING" ~> row[j] # "PENDING"
        /\ task[j] = "ready" ~> task[j] \in {"done", "gaveUp", "crashed"}

=============================================================================
