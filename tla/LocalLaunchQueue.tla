-------------------------- MODULE LocalLaunchQueue --------------------------
(***************************************************************************)
(* The in-memory queue that launches jobs on the local provider            *)
(* (backend/transformerlab/services/local_provider_queue.py).              *)
(*                                                                         *)
(* A request that finds the queue idle starts a drain task (an asyncio     *)
(* task) with its own item; a request that finds it busy buffers the item. *)
(* The drain task launches its item, then takes the next buffered item, or *)
(* ends.  A drain task is identified by the job whose request created it.  *)
(*                                                                         *)
(* Steps are the code between two awaits: the event loop runs one task at  *)
(* a time, and user requests (stop, delete) interleave at every await.     *)
(***************************************************************************)
EXTENDS Naturals, Sequences, FiniteSets

CONSTANTS
    Jobs,         \* job ids (uuids, never reused)
    HoldJobs,     \* jobs launched with minutes_requested > 0
    Interactive,  \* jobs whose subtype is "interactive"
    NoJob,        \* a task that holds no item
    FaultyJobs,   \* jobs whose database calls may raise
    UserJobs,     \* bound: the jobs that users stop or delete
    MaxRestarts   \* bound on the number of server restarts

ASSUME JobsAssumption == /\ HoldJobs \subseteq Jobs
                         /\ Interactive \subseteq Jobs
                         /\ NoJob \notin Jobs
                         /\ FaultyJobs \subseteq Jobs
                         /\ UserJobs \subseteq Jobs
                         /\ MaxRestarts \in Nat

VARIABLES
    queue,        \* _local_launch_queue: Seq(Jobs)
    processing,   \* the module global _processing
    pc,           \* pc[t]: where drain task t is, "none" when it does not exist
    item,         \* item[t]: the item the drain task t is working on
    todo,         \* todo[t]: what is left of a failed item's settlement
    status,       \* status[j]: job status on disk, "NONE" before job_create
    hold,         \* hold[j]: the QuotaHold row of j
    usage,        \* usage[j]: number of QuotaUsage rows of j (unique: 0 or 1)
    request,      \* request[j]: where the launch request of j is
    restarts,     \* number of restarts so far
    arrived,      \* history: jobs enqueued since the process started
    taken         \* history: jobs a drain task picked up since then

taskVars == <<pc, item, todo>>
jobVars  == <<status, hold, usage>>
histVars == <<restarts, arrived, taken>>
queueVars == <<queue, processing>>
vars     == <<queueVars, taskVars, jobVars, request, histVars>>

\* "STOPPED" and "COMPLETE" come from the status worker.
Statuses  == {"NONE", "WAITING", "LAUNCHING", "INTERACTIVE", "STOPPING",
              "FAILED", "DELETED", "STOPPED", "COMPLETE"}
Holds     == {"NONE", "HELD", "RELEASED", "CONVERTED"}
Work      == {"release", "lastRelease", "fail", "charge"}
TaskSteps == {"none", "picked", "launch", "running", "settle", "drain"}

Requests  == {"none", "submitted", "enqueued", "dead"}

LiveTasks    == {t \in Jobs : pc[t] # "none"}

InitialStatus(j) == IF j \in Interactive THEN "INTERACTIVE" ELSE "LAUNCHING"

-----------------------------------------------------------------------------
(* Requests. *)

Init ==
    /\ queue = <<>>
    /\ processing = FALSE
    /\ pc = [t \in Jobs |-> "none"]
    /\ item = [t \in Jobs |-> NoJob]
    /\ todo = [t \in Jobs |-> <<>>]
    /\ status = [j \in Jobs |-> "NONE"]
    /\ hold = [j \in Jobs |-> "NONE"]
    /\ usage = [j \in Jobs |-> 0]
    /\ request = [j \in Jobs |-> "none"]
    /\ restarts = 0
    /\ arrived = <<>>
    /\ taken = <<>>

\* launch_template_on_provider for a LOCAL provider, up to the enqueue: the job
\* is created WAITING and its hold is committed.
Submit(j) ==
    /\ request[j] = "none"
    /\ request' = [request EXCEPT ![j] = "submitted"]
    /\ status' = [status EXCEPT ![j] = "WAITING"]
    /\ hold' = [hold EXCEPT ![j] = IF j \in HoldJobs THEN "HELD" ELSE "NONE"]
    /\ UNCHANGED <<queueVars, taskVars, usage, histVars>>

\* A request that fails after the job exists (no run command, a template error)
\* or whose server died: the job and its hold stay as they are.
Abort(j) ==
    /\ request[j] = "submitted"
    /\ request' = [request EXCEPT ![j] = "dead"]
    /\ UNCHANGED <<queueVars, taskVars, jobVars, histVars>>

\* Mutant: the flag is not set.
EnqueueForgetsFlag(j) ==
    /\ request[j] = "submitted"
    /\ request' = [request EXCEPT ![j] = "enqueued"]
    /\ arrived' = Append(arrived, j)
    /\ taken' = Append(taken, j)
    /\ pc' = [pc EXCEPT ![j] = "picked"]
    /\ item' = [item EXCEPT ![j] = j]
    /\ UNCHANGED <<queueVars, todo, jobVars, restarts>>

\* enqueue_local_launch: the body under _dispatch_lock does not await (the
\* asyncio.Queue is unbounded), so test, put and task creation are one step.
Enqueue(j) ==
    /\ request[j] = "submitted"
    /\ request' = [request EXCEPT ![j] = "enqueued"]
    /\ arrived' = Append(arrived, j)
    /\ \/ /\ processing
          /\ queue' = Append(queue, j)
          /\ UNCHANGED <<processing, taskVars, taken>>
       \/ /\ ~ processing
          /\ processing' = TRUE
          /\ pc' = [pc EXCEPT ![j] = "picked"]
          /\ item' = [item EXCEPT ![j] = j]
          /\ taken' = Append(taken, j)
          /\ UNCHANGED <<queue, todo>>
    /\ UNCHANGED <<jobVars, restarts>>

\* job_stop and job_delete write the status whatever it was.
SetByUser(j, s) ==
    /\ j \in UserJobs /\ status[j] # "NONE"
    /\ status' = [status EXCEPT ![j] = s]
    /\ UNCHANGED <<queueVars, taskVars, hold, usage, request, histVars>>

Stop(j)   == SetByUser(j, "STOPPING")
Delete(j) == SetByUser(j, "DELETED")

-----------------------------------------------------------------------------
(* The drain task t: _run_and_drain and _process_launch_item. *)

Goto(t, from, to) ==
    /\ pc[t] = from
    /\ pc' = [pc EXCEPT ![t] = to]

\* What is written, in order, for an item that cannot be launched.  The outer
\* handler repeats the release when the first one raised.
MissingWork == <<"fail", "charge", "release">>
UnchargedWork == <<"release", "fail">>                             \* mutant
RaisedWork  == <<"release", "fail", "charge">>
OuterWork   == <<"lastRelease", "fail", "charge">>

BeginSettle(t, work) ==
    /\ pc' = [pc EXCEPT ![t] = "settle"]
    /\ todo' = [todo EXCEPT ![t] = work]
    /\ UNCHANGED <<queueVars, item, jobVars, request, histVars>>

\* The provider row is gone: FAILED first (with its usage), then the release.
ProviderMissing(t) == pc[t] = "picked" /\ BeginSettle(t, MissingWork)

\* The provider instance is built and job_update_status(initial_status) takes
\* the job from WAITING to LAUNCHING or INTERACTIVE, whatever it has become.
Announce(t) ==
    /\ Goto(t, "picked", "launch")
    /\ status' = [status EXCEPT ![item[t]] = InitialStatus(item[t])]
    /\ UNCHANGED <<queueVars, item, todo, hold, usage, request, histVars>>

\* Building the instance raises, or a database call before the launch does.
PrepareFails(t) ==
    /\ pc[t] = "picked" \/ (item[t] \in FaultyJobs /\ pc[t] = "launch")
    /\ BeginSettle(t, OuterWork)

\* Acquire _worker_lock and hand launch_cluster to the executor thread.
StartLaunch(t) ==
    /\ \A u \in Jobs : pc[u] # "running"
    /\ Goto(t, "launch", "running")
    /\ UNCHANGED <<queueVars, item, todo, jobVars, request, histVars>>

\* launch_cluster returns; the job keeps its status.
LaunchSucceeds(t) ==
    /\ Goto(t, "running", "drain")
    /\ UNCHANGED <<queueVars, item, todo, jobVars, request, histVars>>

LaunchRaises(t) == pc[t] = "running" /\ BeginSettle(t, RaisedWork)

\* release_quota_hold(hold_id) and commit: by id, whatever the row's status.
ReleaseHold(t) ==
    LET j == item[t] IN
    /\ Head(todo[t]) \in {"release", "lastRelease"}
    /\ hold' = [hold EXCEPT ![j] = IF j \in HoldJobs THEN "RELEASED" ELSE @]
    /\ UNCHANGED <<status, usage>>

\* job_update_status(FAILED): the status on disk ...
MarkFailed(t) ==
    /\ Head(todo[t]) = "fail"
    /\ status' = [status EXCEPT ![item[t]] = "FAILED"]
    /\ UNCHANGED <<hold, usage>>

\* ... then its quota tracking in the same session.  start_time is in job_data
\* before the enqueue, so the job is charged; the unique index on (job, team)
\* rejects a second row, and the transaction with it.
ChargeFailed(t) ==
    LET j == item[t] IN
    /\ Head(todo[t]) = "charge"
    /\ \/ /\ usage[j] = 0
          /\ usage' = [usage EXCEPT ![j] = 1]
          /\ hold' = [hold EXCEPT ![j] = IF @ = "HELD" THEN "CONVERTED" ELSE @]
       \/ /\ usage[j] # 0 \/ j \in FaultyJobs
          /\ UNCHANGED <<usage, hold>>
    /\ UNCHANGED status

Settle(t) ==
    /\ pc[t] = "settle" /\ todo[t] # <<>>
    /\ ReleaseHold(t) \/ MarkFailed(t) \/ ChargeFailed(t)
    /\ todo' = [todo EXCEPT ![t] = Tail(todo[t])]
    /\ UNCHANGED <<queueVars, pc, item, request, histVars>>

\* A release that raises lands in the outer handler, whose own release, when it
\* raises too, ends the item: _run_and_drain logs the error and goes on.
ReleaseRaises(t) ==
    /\ item[t] \in FaultyJobs
    /\ pc[t] = "settle" /\ todo[t] # <<>>
    /\ Head(todo[t]) \in {"release", "lastRelease"}
    /\ todo' = [todo EXCEPT ![t] = IF Head(todo[t]) = "release" THEN OuterWork
                                                               ELSE <<>>]
    /\ UNCHANGED <<queueVars, pc, item, jobVars, request, histVars>>

Settled(t) ==
    /\ todo[t] = <<>>
    /\ Goto(t, "settle", "drain")
    /\ UNCHANGED <<queueVars, item, todo, jobVars, request, histVars>>

\* Mutant: the flag stays set.
DrainForgetsFlag(t) ==
    /\ queue = <<>>
    /\ Goto(t, "drain", "none")
    /\ item' = [item EXCEPT ![t] = NoJob]
    /\ UNCHANGED <<queueVars, todo, jobVars, request, histVars>>

\* Under _dispatch_lock: take the next buffered item, or end and go idle.
Drain(t) ==
    /\ pc[t] = "drain"
    /\ \/ /\ queue # <<>>
          /\ pc' = [pc EXCEPT ![t] = "picked"]
          /\ item' = [item EXCEPT ![t] = Head(queue)]
          /\ queue' = Tail(queue)
          /\ taken' = Append(taken, Head(queue))
          /\ UNCHANGED processing
       \/ /\ queue = <<>>
          /\ pc' = [pc EXCEPT ![t] = "none"]
          /\ item' = [item EXCEPT ![t] = NoJob]
          /\ processing' = FALSE
          /\ UNCHANGED <<queue, taken>>
    /\ UNCHANGED <<todo, jobVars, request, restarts, arrived>>

-----------------------------------------------------------------------------
(* A server restart loses the queue, the tasks and the pending requests.     *)
(* Nothing reads WAITING jobs back.                                          *)

Restart ==
    /\ restarts < MaxRestarts
    /\ restarts' = restarts + 1
    /\ queue' = <<>>
    /\ processing' = FALSE
    /\ pc' = [t \in Jobs |-> "none"]
    /\ item' = [t \in Jobs |-> NoJob]
    /\ todo' = [t \in Jobs |-> <<>>]
    /\ request' = [j \in Jobs |-> IF request[j] = "submitted" THEN "dead"
                                                              ELSE request[j]]
    /\ arrived' = <<>>
    /\ taken' = <<>>
    /\ UNCHANGED jobVars

TaskStep(t) ==
    \/ ProviderMissing(t) \/ Announce(t) \/ PrepareFails(t)
    \/ StartLaunch(t) \/ LaunchSucceeds(t) \/ LaunchRaises(t)
    \/ Settle(t) \/ ReleaseRaises(t) \/ Settled(t) \/ Drain(t)

UserStep(j) == Submit(j) \/ Abort(j) \/ Enqueue(j) \/ Stop(j) \/ Delete(j)

Next ==
    \/ \E j \in Jobs : UserStep(j) \/ TaskStep(j)
    \/ Restart

\* The event loop runs every ready task, and launch_cluster ends (its setup has
\* a timeout).  Users and restarts are not fair.
Fairness == \A t \in Jobs : WF_vars(TaskStep(t))

Spec == Init /\ [][Next]_vars /\ Fairness

-----------------------------------------------------------------------------
(* Properties. *)

TypeOK ==
    /\ queue \in Seq(Jobs)
    /\ processing \in BOOLEAN
    /\ pc \in [Jobs -> TaskSteps]
    /\ item \in [Jobs -> Jobs \cup {NoJob}]
    /\ todo \in [Jobs -> Seq(Work)]
    /\ status \in [Jobs -> Statuses]
    /\ hold \in [Jobs -> Holds]
    /\ usage \in [Jobs -> {0, 1}]
    /\ request \in [Jobs -> Requests]
    /\ restarts \in 0..MaxRestarts
    /\ arrived \in Seq(Jobs)
    /\ taken \in Seq(Jobs)

\* At most one drain task exists, and the flag the requests test says exactly
\* whether it does: a request never starts a second launcher next to a live
\* one, and never buffers its item behind a launcher that has gone.
OneLauncher ==
    /\ \A t, u \in LiveTasks : t = u
    /\ processing <=> LiveTasks # {}

\* Every request that arrived was picked up or is still buffered, once, and
\* the jobs are picked up in the order in which the requests arrived.
FifoNoLoss == arrived = taken \o queue

\* The buffer is never left with items and nobody to launch them.
NoStrandedItem == ~ processing => queue = <<>>

\* A job the queue gave up on is charged, and its hold no longer blocks quota,
\* once its settlement is over.  (Not so when the server dies half-way, or the
\* database does: see Restart and FaultyJobs.)
FailedIsSettled ==
    restarts = 0 =>
        \A j \in Jobs \ FaultyJobs :
            (status[j] = "FAILED" /\ \A t \in LiveTasks : item[t] # j)
                => usage[j] = 1 /\ hold[j] # "HELD"

\* The queue does what SerialLauncher promises: one launch at a time, in order of
\* arrival, and every one buffered is taken up unless the server restarts.
Launcher == INSTANCE SerialLauncher WITH
    started <- Len(taken), idle <- ~ processing
Refinement == Launcher!Spec
RefinementSafety == Launcher!Init /\ [][Launcher!Next]_(Launcher!vars)

=============================================================================
