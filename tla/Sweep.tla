------------------------------- MODULE Sweep -------------------------------
(***************************************************************************)
(* A parameter sweep: one parent job and a child job per configuration.    *)
(* A background task launches the children one after the other             *)
(* (services/compute_provider/launch_sweep.py) while the sweep status      *)
(* worker counts them (services/sweep_status_service.py), their processes  *)
(* and the job status worker move them, and users stop and delete them.    *)
(* Results are aggregated on request (sweep_job_service.py).               *)
(***************************************************************************)
EXTENDS Integers, FiniteSets

CONSTANTS
    N,            \* sweep_total: the number of configurations
    Metrics,      \* values of the sweep metric
    MaxUserActs,  \* bound on the users' stops and deletes
    MaxRestarts   \* bound on server restarts

ASSUME SweepAssumption == /\ N \in Nat \ {0} /\ Metrics \subseteq Int
                          /\ MaxUserActs \in Nat /\ MaxRestarts \in Nat

Children == 1 .. N

VARIABLES
    parent,     \* the parent's record: status, sweep_job_ids and the counts
    child,      \* child[i]: status of the i-th child, "none" before job_create
    metric,     \* metric[i]: the sweep metric in the child's job data
    launcher,   \* launch_sweep_jobs: where it is, and at which child
    worker,     \* the sweep status worker within refresh_sweep_parent
    query,      \* a request for the results: lower_is_better, the child it reads
                \* next, of how many, and the best so far with its metric;
                \* history: the children that were scored when it began
    acts,       \* stops and deletes so far
    restarts

vars == <<parent, child, metric, launcher, worker, query, acts, restarts>>

None    == 0      \* no metric, no best job: metrics are positive in the runs
Active  == {"RUNNING", "LAUNCHING"}               \* also RUNNING_CHILD_STATUSES
Failed  == {"FAILED", "STOPPED", "DELETED"}       \* counted as sweep_failed
Ended   == Failed \cup {"COMPLETE"}
Statuses == {"none", "QUEUED", "STOPPING"} \cup Active \cup Ended

NoCounts == [completed |-> 0, running |-> 0, failed |-> 0, queued |-> 0]
NoQuery  == [at |-> "rest", prefer |-> "lower", i |-> 1, last |-> 0,
             best |-> None, value |-> None, scored |-> {}]
Resting  == [at |-> "rest", seen |-> <<>>, old |-> NoCounts, all |-> FALSE]

\* What the children were, for those that were read.
Reads == UNION {[S -> Statuses] : S \in SUBSET Children}

Tallies == [completed : 0 .. N, running : 0 .. N, failed : 0 .. N, queued : 0 .. N]

SweepTypes ==
    /\ parent \in [status : {"RUNNING", "STOPPING", "COMPLETE", "DELETED"},
                   recorded : BOOLEAN, counts : Tallies]
    /\ child \in [Children -> Statuses]
    /\ metric \in [Children -> Metrics \cup {None}]
    /\ launcher \in [at : {"create", "launch", "mark", "ids", "running", "over"},
                     i : 1 .. N + 1]
    /\ launcher.at \in {"create", "launch", "mark"} => launcher.i \in Children
    /\ worker \in [at : {"rest", "fetch", "status"}, seen : Reads, old : Tallies,
                   all : BOOLEAN]
    /\ acts \in 0 .. MaxUserActs
    /\ restarts \in 0 .. MaxRestarts

QueryTypes ==
    query \in [at : {"rest", "read"}, prefer : {"lower", "higher"}, i : 1 .. N + 1,
               last : {0, N}, best : 0 .. N, value : Metrics \cup {None},
               scored : SUBSET Children]

TypeOK == SweepTypes /\ QueryTypes

\* The request returned: the parent exists and the background task was created.
Init ==
    /\ parent = [status |-> "RUNNING", recorded |-> FALSE, counts |-> NoCounts]
    /\ child = [i \in Children |-> "none"]
    /\ metric = [i \in Children |-> None]
    /\ launcher = [at |-> "create", i |-> 1]
    /\ worker = Resting
    /\ query = NoQuery
    /\ acts = 0
    /\ restarts = 0

-----------------------------------------------------------------------------
(* launch_sweep_jobs *)

SetChild(i, s) == child' = [child EXCEPT ![i] = s]

\* After the last child come the two writes to the parent.
NextChild(i) == [at |-> IF i = N THEN "ids" ELSE "create", i |-> i + 1]

\* The provider is gone, or an exception outside the inner try (storage,
\* secrets, task files): the task ends there and only the log knows.
GiveUp ==
    /\ launcher.at \in {"create", "launch"}
    /\ launcher' = [launcher EXCEPT !.at = "over"]
    /\ UNCHANGED <<parent, child, metric, worker, query, acts, restarts>>

\* Mutant: the child's id is on the parent as soon as the child exists.
CreateChildRecorded ==
    /\ launcher.at = "create"
    /\ SetChild(launcher.i, "QUEUED")
    /\ parent' = [parent EXCEPT !.recorded = TRUE]
    /\ launcher' = [launcher EXCEPT !.at = "launch"]
    /\ UNCHANGED <<metric, worker, query, acts, restarts>>

CreateChild ==
    /\ launcher.at = "create"
    /\ SetChild(launcher.i, "QUEUED")
    /\ launcher' = [launcher EXCEPT !.at = "launch"]
    /\ UNCHANGED <<parent, metric, worker, query, acts, restarts>>

\* launch_cluster returns; until the next step the child runs unmarked.
LaunchReturns ==
    /\ launcher.at = "launch"
    /\ launcher' = [launcher EXCEPT !.at = "mark"]
    /\ UNCHANGED <<parent, child, metric, worker, query, acts, restarts>>

MarkLaunching ==
    /\ launcher.at = "mark"
    /\ SetChild(launcher.i, "LAUNCHING")
    /\ launcher' = NextChild(launcher.i)
    /\ UNCHANGED <<parent, metric, worker, query, acts, restarts>>

LaunchFails ==
    /\ launcher.at \in {"launch", "mark"}
    /\ SetChild(launcher.i, "FAILED")
    /\ launcher' = NextChild(launcher.i)
    /\ UNCHANGED <<parent, metric, worker, query, acts, restarts>>

RecordIds ==
    /\ launcher.at = "ids"
    /\ parent' = [parent EXCEPT !.recorded = TRUE]
    /\ launcher' = [launcher EXCEPT !.at = "running"]
    /\ UNCHANGED <<child, metric, worker, query, acts, restarts>>

\* sweep_running = len(child_job_ids), whatever was counted meanwhile.
RecordRunning ==
    /\ launcher.at = "running"
    /\ parent' = [parent EXCEPT !.counts.running = N]
    /\ launcher' = [launcher EXCEPT !.at = "over"]
    /\ UNCHANGED <<child, metric, worker, query, acts, restarts>>

Launcher ==
    \/ CreateChild \/ LaunchReturns \/ MarkLaunching \/ LaunchFails
    \/ RecordIds \/ RecordRunning

-----------------------------------------------------------------------------
(* The children: their processes and the job status worker. *)

\* The job reports that it runs: from its launch on, marked or not.
ChildRuns(i) ==
    /\ \/ child[i] = "LAUNCHING"
       \/ child[i] = "QUEUED" /\ launcher = [at |-> "mark", i |-> i]
    /\ SetChild(i, "RUNNING")
    /\ UNCHANGED <<parent, metric, launcher, worker, query, acts, restarts>>

\* It ends by itself, or it does not start and its cluster goes down.
ChildEnds(i) ==
    /\ child[i] \in Active
    /\ \E m \in Metrics \cup {None}, s \in {"COMPLETE", "FAILED"} :
          /\ s = "FAILED" => m = None   \* its metric would not be looked at
          /\ SetChild(i, s)
          /\ metric' = [metric EXCEPT ![i] = m]
    /\ UNCHANGED <<parent, launcher, worker, query, acts, restarts>>

ChildStops(i) ==
    /\ child[i] = "STOPPING"
    /\ SetChild(i, "STOPPED")
    /\ UNCHANGED <<parent, metric, launcher, worker, query, acts, restarts>>

\* job_stop and job_delete take any job in any status.
UserAct == acts < MaxUserActs /\ acts' = acts + 1

UserChild(i) ==
    /\ UserAct
    /\ child[i] # "none"
    /\ \E s \in {"STOPPING", "DELETED"} \ {child[i]} : SetChild(i, s)
    /\ UNCHANGED <<parent, metric, launcher, worker, query, restarts>>

UserParent ==
    /\ UserAct
    /\ \E s \in {"STOPPING", "DELETED"} \ {parent.status} :
          parent' = [parent EXCEPT !.status = s]
    /\ UNCHANGED <<child, metric, launcher, worker, query, restarts>>

-----------------------------------------------------------------------------
(* The sweep status worker. *)

\* A sweep that is listed as active is refreshed from the listed record.
List ==
    /\ worker.at = "rest"
    /\ parent.status \in Active /\ parent.recorded
    /\ worker' = [Resting EXCEPT !.at = "fetch", !.old = parent.counts]
    /\ UNCHANGED <<parent, child, metric, launcher, query, acts, restarts>>

\* The children are read at once, so one by one in any order; a child whose
\* read failed would be left out of the counts until the next cycle.
Fetch(i) ==
    /\ worker.at = "fetch" /\ i \notin DOMAIN worker.seen
    /\ worker' = [worker EXCEPT !.seen =
                    [k \in DOMAIN @ \cup {i} |-> IF k = i THEN child[i] ELSE @[k]]]
    /\ UNCHANGED <<parent, child, metric, launcher, query, acts, restarts>>

\* Mutant: a deleted child counts as nothing.
CountsSkipDeleted(seen) ==
    LET In(S) == Cardinality({i \in DOMAIN seen : seen[i] \in S})
    IN  [completed |-> In({"COMPLETE"}), running |-> In(Active),
         failed |-> In(Failed \ {"DELETED"}), queued |-> In({"QUEUED"})]

\* compute_parent_sweep_counts: a STOPPING child is in none of the counts.
Counts(seen) ==
    LET In(S) == Cardinality({i \in DOMAIN seen : seen[i] \in S})
    IN  [completed |-> In({"COMPLETE"}), running |-> In(Active),
         failed |-> In(Failed), queued |-> In({"QUEUED"})]

AllComplete(c) == c.completed + c.failed = N

\* Only counts that differ from the listed record's are written.
Written(stored, old, fresh) ==
    [f \in DOMAIN stored |-> IF fresh[f] # old[f] THEN fresh[f] ELSE stored[f]]

WriteCounts ==
    /\ worker.at = "fetch" /\ DOMAIN worker.seen = Children
    /\ LET fresh == Counts(worker.seen)
       IN  /\ parent' = [parent EXCEPT !.counts = Written(@, worker.old, fresh)]
           /\ worker' = [Resting EXCEPT !.at = "status", !.all = AllComplete(fresh)]
    /\ UNCHANGED <<child, metric, launcher, query, acts, restarts>>

\* The listed status was active; the present one is not read again.
WriteStatus ==
    /\ worker.at = "status"
    /\ parent' = IF worker.all THEN [parent EXCEPT !.status = "COMPLETE"] ELSE parent
    /\ worker' = Resting
    /\ UNCHANGED <<child, metric, launcher, query, acts, restarts>>

Worker == List \/ (\E i \in Children : Fetch(i)) \/ WriteCounts \/ WriteStatus

-----------------------------------------------------------------------------
(* get_sweep_results: the ids are read from the parent, then the children one  *)
(* by one, while they move.                                                    *)

Scored(i) == child[i] = "COMPLETE" /\ metric[i] # None

\* lower_is_better is what the request that made the sweep said.
AskResults ==
    /\ query.at = "rest"
    /\ \E p \in {"lower", "higher"} :
          query' = [at |-> "read", prefer |-> p, i |-> 1, best |-> None, value |-> None,
                    last |-> IF parent.recorded THEN N ELSE 0,
                    scored |-> IF parent.recorded THEN {i \in Children : Scored(i)} ELSE {}]
    /\ UNCHANGED <<parent, child, metric, launcher, worker, acts, restarts>>

\* Mutant: lower_is_better is not looked at.
LowerIsBetter(prefer, m, incumbent) == m < incumbent
Better(prefer, m, incumbent) == IF prefer = "lower" THEN m < incumbent ELSE m > incumbent

ReadChild ==
    /\ query.at = "read" /\ query.i <= query.last
    /\ query' = IF /\ Scored(query.i)
                   /\ query.best # None => Better(query.prefer, metric[query.i], query.value)
                THEN [query EXCEPT !.best = query.i, !.value = metric[query.i], !.i = @ + 1]
                ELSE [query EXCEPT !.i = @ + 1]
    /\ UNCHANGED <<parent, child, metric, launcher, worker, acts, restarts>>

\* sweep_results is written to the parent and returned; nothing reads it there.
Answer ==
    /\ query.at = "read" /\ query.i > query.last
    /\ query' = NoQuery
    /\ UNCHANGED <<parent, child, metric, launcher, worker, acts, restarts>>

Results == AskResults \/ ReadChild \/ Answer

\* The process dies: the launcher, the worker's cycle and the request with it.
Restart ==
    /\ restarts < MaxRestarts
    /\ restarts' = restarts + 1
    /\ launcher' = [launcher EXCEPT !.at = "over"]
    /\ worker' = Resting
    /\ query' = NoQuery
    /\ UNCHANGED <<parent, child, metric, acts>>

-----------------------------------------------------------------------------
Next ==
    \/ Launcher \/ GiveUp \/ Worker \/ Results \/ UserParent \/ Restart
    \/ \E i \in Children : ChildRuns(i) \/ ChildEnds(i) \/ ChildStops(i) \/ UserChild(i)

\* The event loop runs the launcher and the worker's cycles, and the job status
\* worker settles every child that has a cluster.
Fairness ==
    /\ WF_vars(Launcher) /\ WF_vars(Worker)
    /\ \A i \in Children : WF_vars(ChildEnds(i)) /\ WF_vars(ChildStops(i))

Spec == Init /\ [][Next]_vars /\ Fairness

-----------------------------------------------------------------------------
(* Properties. *)

\* A sweep is COMPLETE only when no child is waiting, launching or running: the
\* ids are recorded after the last child was marked, and no child that ended
\* after that starts again, so the reads of one cycle may be of different times.
\* And its counts account for every configuration, also when the server died
\* between the worker's two writes.
CompleteIsOver ==
    parent.status = "COMPLETE" =>
        /\ \A i \in Children : child[i] \notin Active \cup {"none", "QUEUED"}
        /\ AllComplete(parent.counts)

\* The results name a child that completed with the metric they give for it, and
\* no child that was COMPLETE when they were asked for, and still is, beats it,
\* although children end, are stopped and deleted while they are read.  A sweep
\* whose ids are not recorded yet has no best child.
BestIsBest ==
    query.at = "read" /\ query.i > query.last =>
        /\ query.best # None => /\ metric[query.best] = query.value
                                /\ child[query.best] \in {"COMPLETE", "STOPPING"} \cup Failed
        /\ \A i \in query.scored :
              Scored(i) => /\ query.best # None
                           /\ query.prefer = "lower" => query.value <= metric[i]
                           /\ query.prefer = "higher" => query.value >= metric[i]
        /\ ~ parent.recorded => query.best = None

\* Once its children are recorded, a running sweep ends, whatever users stop or
\* delete, also after a restart.
RecordedSweepEnds ==
    parent.recorded /\ parent.status = "RUNNING" ~> parent.status # "RUNNING"

=============================================================================
