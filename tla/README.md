# A verification of RantAI-LLMOps

RantAI-LLMOps is a server (`backend/transformerlab`, FastAPI and asyncio) with a web frontend
(`src/`, Next.js). Its core is the life of a *job*: a user asks for a training, evaluation or
interactive task; the server creates a job, holds quota for it, hands it to a launch queue, a compute
provider runs it, a worker finds out what became of it, and the minutes it used are charged. Around
it the server keeps records that many requests share: teams, secrets, SSH keys, providers, versions of
datasets. Several actors write to the same record with no lock between them, the calls between them
take minutes, and parts of the state are lost with the process. That is what this directory models in
TLA+, checks with TLC and, for the safety properties that matter most, proves with TLAPS for all
values of the constants.

Paths are relative to `backend/transformerlab/` unless they say otherwise.

## 1. Inventory

| Part | State | Operations | Talks to |
|---|---|---|---|
| Launch request and resume, `services/compute_provider/launch_template.py`, `remote_job_endpoints_service.py` | job record, hold | check, create the job, hold, write the record, queue or launch | quota, job records, both queues |
| Local launch queue, `services/local_provider_queue.py` | `_local_launch_queue`, `_processing`, two locks (in memory) | enqueue, drain task, settlement of failures | quota, job records, local provider |
| Remote launch queue, `services/remote_provider_queue.py` | `JobQueue` rows (database), semaphore | enqueue, poll, mark, launch task | quota, job records, cloud providers |
| Local compute provider and process registry, `compute_providers/local.py`, `services/process_registry.py` | pid file, registry file, base environment with lock, state file and status file | launch, stop, status, set up, kill all at shutdown | local queue, status worker |
| Cloud providers, `compute_providers/*.py` | what is in the account: machines, addresses, keys, roles; the exit trap on the machine | launch, stop, status | remote queue, status worker |
| Remote job status worker and its circuit breaker, `services/remote_job_status_service.py` | counters in `job_data`, snapshot per cycle, `_provider_failures` | list, check by wrapper / cluster / queue, write, back off | providers, job records, quota |
| Sweeps, `services/compute_provider/launch_sweep.py`, `sweep_job_service.py`, `services/sweep_status_service.py` | parent record, child jobs | launch children, count, complete, aggregate | remote queue, status worker |
| Job service and job cache, `services/job_service.py`, `services/cache_service.py` | record on disk, cached record, tags | read-through, edit, delete, status update | every other part |
| Quota ledger, `services/quota_service.py`, parts of `job_service.py`, `launch_template.py` | `QuotaHold`, `QuotaUsage` rows | check, hold, release, convert, charge, backfill | launch requests, queues, status worker |
| Worker leadership and lifespan, `shared/worker_leader.py`, `backend/api.py` | file lock | elect at startup, run the workers, shut down | all workers |
| Notifications, `services/notification_service.py` | `notification_sent` in the job | announce endings | job records |
| Layout migrations, `services/migrate_*_to_experiment_dirs.py` | job and task directories | move, remove | storage |
| Asset registry and uploads, `services/asset_version_service.py`, `asset_upload_service.py`, `upload_service.py`, `routers/data.py` | index and version list of a group, directories, staging directory | upload, save from a job, edit, tag, delete | jobs, storage |
| Teams, roles, invitations, `services/team_service.py`, `db/team.py` | membership, team and invitation rows | create, delete, leave, remove, change role, invite, accept | every request |
| Secrets, same service | two JSON files | PUT regular, PUT special, read at launch | launches |
| SSH keys, `services/ssh_key_service.py` | `status.json`, two key files | get or create, rename, rotate, read | launches |
| Team providers, `services/provider_service.py` | provider rows | create, update, delete, default, background setup | launches, local setup |
| Tasks and the team's gallery, `routers/experiment/task.py`, `services/task_service.py`, `shared/galleries.py` | `index.json`, `task.yaml` and files of a task; the gallery file and its directories | create, edit, upload, delete, export, import | launches, uploads |
| Frontend, `src/src` | engines, adapter manifest, run store | serve, reconcile, run pipelines | server API |

PROJECT.json lists every part with its status.

What is hard about them:

- **Interleaving.** Requests, drain tasks, launch tasks, the status worker, the job's own process and
  the user all write one record. Every `await` is a point at which the others run, and nearly every
  service reads a row or file, decides, and writes later.
- **Stale state.** The status worker decides on a record it listed before calls that take minutes; a
  reader caches what it read before a delete; a launch passes a quota check before another's hold; the
  role of the other owner is read before it changes.
- **Failure.** Launches fail on three paths, each with its own order of release, FAILED and charge;
  cloud calls do their work and lose the answer; writes of the record are logged and forgotten.
- **Crash and restart.** The local queue is memory, the remote queue is a table; files are truncated
  before they are written; nothing of a cloud launch is written down before it has ended.
- **Liveness.** A buffered launch must be taken up; a job that is gone must leave the polled statuses;
  a provider that is backed off must be tried again; a sweep must end; an end must be announced.

## 2. Modules

| Module | Models | Main correspondence |
|---|---|---|
| `LocalLaunchQueue` | local queue | `queue`, `processing` are the two module globals; `pc[t]`, `item[t]`, `todo[t]` are the locals of the asyncio task that request `t` started. One action per stretch of code between awaits. The three failure paths are work lists (`MissingWork`, `RaisedWork`, `OuterWork`) that `Settle` writes one commit at a time |
| `SerialLauncher` | what the local queue promises | abstract: jobs in order of arrival, how many were started, idle or not |
| `LocalProvider`, `LocalServer` | local provider; its composition with the queue, users, worker polls, shutdown and crash | `phase` is the launch thread, `proc` the process, `pidFile` and `registered` the two files; a kill takes the entry out of the registry (`StopCluster`, `ShutDown`) before it ends the process (`Terminate`), which `killing` remembers; `LocalServer` EXTENDS the queue and INSTANCEs the provider |
| `RemoteLaunchQueue` | remote queue | `row`, `created` are the table; `batch`, `at` the worker loop between two database calls; `task[j]` the launch task. Giving a launch up is the release, which is not committed, the read and write of the job's status in the same session, with the rollback of its failure path, and the commit: steps of their own, with charges of the job by others in between |
| `ProviderAnswers` | what the ten providers answer | an answer is the set of states reported; `Missing...` operators hold the five ways to say "not there" |
| `StatusWorker` | status worker | `snap` is the listed record, `left` the jobs the cycle has still to check, `cur` and `verdict` what is about to be written. `Debounced`, `Resets`, `EndsStopping` are the per-provider tables hidden in the code's `if` chains |
| `ProviderBreaker` | circuit breaker | `failures`, `skip` are `_provider_failures`; `todo` is the cycle's loop |
| `CloudLaunch` | launch, stop and end of a machine on ten cloud providers | per provider a plan of calls; `account` is what exists, each call may fail before or after its effect, `Cut` is the end of the server. A SkyPilot request is sent again when the SDK raised, an Azure launch goes on to the next image after an error that may speak of one, and a stop answers what the code reads, which need not be what became of the machine (`blind`); "gone" is gone or going, as a delete on GCP is answered before it is done |
| `Sweep` | a parent and its children | launcher task, worker that reads the children one by one, and a request for the results (`query`), which reads those that the parent records, one by one, for the lowest metric or the highest |
| `LaunchRequest` | launch and resume | one action per step between two failures the code survives; `record[l]` is what is on disk |
| `Tasks` | tasks and the team's gallery | `index`, `yaml`, `extra` are a task's directory, `dir` and `gallery` those of the gallery; a task.yaml is none, good or refused by the parser, `file_mounts` is unset, `True` or the former map, an index that is empty or has no id goes by `NoId`; `work[c]` is what a request has read and still has to write |
| `JobCache` | job cache | `disk`, `cache` and what each request in flight holds (`val`) |
| `QuotaLedger` | quota | `hold`, `usage` are the two tables, `tasks` the background charges; a database transaction is one step |
| `ApiProcesses` | API processes and the leader's lock | extended by the next three and composed by `ServerWorkers` |
| `Notifications`, `Migration`, `BaseEnvironment`, `ServerWorkers` | the leader's workers and the shared conda environment | `ServerWorkers.End(p)` ends a process at any step of theirs and frees its lock |
| `Uploads`, `AssetRegistry` | chunked uploads; groups, versions and tags of datasets | a request is a list of steps; files are read, changed and written in steps of their own |
| `Teams`, `TeamSecrets`, `SshKeys`, `TeamProviders` | the records of a team | `ask[r]` is what a request has read and will write; commits and file writes are steps of their own; a file of the keys is emptied (`Torn`, `Blank`) and then written |

`MC*` modules give the constants finite values; their `.cfg` files are the runs. `*Proofs` modules
hold theorems. Definitions marked "Mutant" are faulty variants of the definition below them: replacing
the one by the other must make a run fail, which shows that the property depends on the code.

Data are abstracted to what the properties tell apart: a provider's answer is a set of states, a
record is its status and counters, a key pair is the number of the generation that made it, a config is
the set of settings in it, statuses written by a stop and a delete are one value where the reader
treats them alike.

## 3. Runs

All passing runs explore their state space completely.

| Run | Instance | Shows |
|---|---|---|
| `local_queue` | 3 jobs, one with failing database calls, one the user acts on, 1 restart | one launcher, failed launches settled, refinement of `SerialLauncher`: first come first launched, none stranded |
| `local_server` | 2 jobs, stops of one of them and polls at every step, 1 shutdown or crash | a running process is one the registry knows, or somebody is about to kill it, or a crash cut off its launch or its kill; every stop is answered |
| `status_worker` | 1 job on any of the ten providers, threshold 3 | interactive sessions never COMPLETE, endings have evidence, stopping and lost jobs end |
| `sweep` | 2 children, 2 user actions, 1 restart | a COMPLETE sweep is over and fully counted, the child that is answered as the best is COMPLETE, and no child that counted when the request began and was recorded is better; a recorded sweep ends |
| `server_workers` | 2 processes, 2 ends; one kind of work per initial state: 1 job, 2 directories, or 2 setups | an end is announced, and once; a directory is moved and never lost; a ready environment is installed |
| `breaker` | 3 jobs on 2 providers, limit 3, back-off 3 | a provider backed off is queried again |
| `cloud_launch` | 2 launches on any of ten types, 2 faults, 1 cut, 1 user stop | one machine per launch, each can end itself, failed launches leave nothing they can remove, leftovers of a cut launch never block the next, a stop that reports success is final where the code can know it, answers are what the worker expects. Or 2 tasks, 2 titles, 2 requests at a time and a third on what they left, each cut anywhere: a task at rest goes by its own id and says that it has files, and what the gallery lists has a task.yaml that parses |
| `remote_queue` | 2 jobs, 1 slot, 1 failing cycle, 1 crash, 2 clock values | no double launch, dispatch in order of creation, job and hold of a given-up launch settled together whatever commit fails and whoever charges the job meanwhile, every task ends |
| `registry` | 2 requests at a time, 3 in all, 2 groups, 1 tag; 2 uploads, or 1 and a crash (`MCBudget`) | a listed version is whole, labels and tags are unique, one group per name unless requests overlap |
| `quota` | 1 job, 3 clock values, 1 crash | counted once, charged once, freed when tracked |
| `quota_race` | 2 launches that each fit, but not together | violation, see section 4 |
| `records` | one of six parts per initial state | every team that has members has an owner unless two owners leave at once or an invitation outlived the members; special secrets survive; the key that is kept opens every machine, wherever a call is cut, unless calls overlap or a removal was cut between its two files; provider rows agree; whatever is launched is on record; an edit nobody overlaps is seen |

The exact conditions are in the comments above the properties; the words "unless ..." there are the
races of section 4, written as history variables so that everything outside them is still checked.

**Why the bounds are enough.** Three jobs on the local queue give a running item, a buffered one and one
that overtakes or is dropped; a second restart repeats the first from a state reached without it. In the
remote queue two jobs compete for one slot and make a batch with a rest, which is what a failing cycle
loses. Only one of the two has a hold, and it alone is ended, lost or charged by others; its rival takes
the slot and a place in the order. The status worker shares nothing between jobs except the order of its
loop, so one job on every provider covers what a job can see; its threshold is a setting, 15 by default,
that counters are only compared with, so 3 (the first miss, one in between, the last) tells as much. Two
children give a sweep a first and a last; a user can stop one and delete the other. Of the two jobs of
the local server users stop one, and the other keeps the queue, the registry and the shutdown busy. Two
processes give a leader and a successor, and two ends the successor of the successor; the old directory
may be there when empty, or go with its content (`lasting`, an object store). The breaker has a shared
provider and one of its own, and the limits written in the code. Two launches are a team's first two, at
once or in a row; two faults are a failure and the failure of its clean-up. Two tasks are an original
and its copy, two titles a rename between two exports (`MaxTaskCalls` = 3: make, change or export,
import; the third starts when the others have ended, `LastAlone`). What an `index.json` in a zip says of
`file_mounts` is overwritten at once, so zips say nothing of it (`MCZips`). In the registry two requests
at a time make every overlap of two, the third finds what they left; one chunk suffices for "all or not
all". In the ledger the jobs of a user meet only in `Available`, which `Check` alone reads; the race of
two checks is its own run. In `records` two requests overlap and a third one sees the result
(`MaxRequests`, `MaxPuts`, `MaxCalls`, `MaxEdits` = 3; four writes for the cache); `TeamCap` = 1 is the
limit on teams a user creates; one invitation ages (`MaxAged`), one write of a record is lost
(`MaxLost`). `Max...` constants are the only bounds on counters. The proofs hold for all values of them.

The six parts of `records` share no state, so its initial state chooses one (`area`) and the others
stand still, and its runs end where two calls on the keys have muddled the files, or two writes of the
providers have crossed, of which nothing is claimed; `cloud_launch` does the same with tasks and
machines, and `server_workers` with its three kinds of work, which share the processes. Symmetry is used
only in `registry`, `records` and `cloud_launch`, which check no temporal property.

Deadlock checking is off where the system may stop: all jobs launched, a bound used up.

**Fairness.** The event loop runs every ready task, and every thread goes on: weak fairness of the
drain task, the launch thread, the launch tasks, the worker loops, the migrations and the charge of
each job. `launch_cluster` ends, because local setup has a timeout and provider clients do. The launch
semaphore wakes its waiters in order, so a waiting task gets a slot (`SF(Enter)`), and so does the
`flock` of the base environment (`SF(Lock)`). A poll of a job by the status worker comes again and
again (`SF(Look)`), and a provider that is asked again and again does not raise every time
(`SF(AskProvider)`). In `Sweep` the children's processes end and stopped children become STOPPED,
which is what `status_worker` and `local_server` show of jobs. A process that ended is started again
by its supervisor (`WF` of `Live` in `ServerWorkers`). Users, crashes, restarts of the whole server,
and the cloud are never fair.

## 4. Where the code and its comments part

One run checks a statement of the repository and finds it false of the code: `HoldWithinQuota`
(`launch_template.py:182` against `quota_service.py:185`). Check and hold are separate steps, so two
launches can together hold more than there is.

The models reach the following too. Where a property would have been about them, it says "unless",
and a history variable marks the state.

*Jobs.* On Lambda and Nebius, and on Azure outside STOPPING, a missing instance ends only a job that is
being stopped; a RUNNING one is polled for ever, against the docstring at
`remote_job_status_service.py:285`. The worker writes its verdict on the listed record over a stop or
delete made in between: a deleted job comes back (`:533`). A listing that read the record before a
delete caches it after the invalidation, for seven days (`job_service.py:339`). A job deleted while it
runs is never charged and never gives its hold back (`job_service.py:388`), and the backfill refuses it
for want of an `end_time`. A pid file opened and not yet written reads as "down"
(`compute_providers/local.py:652`), so the worker may complete a job that is running. A remote launch
row marked before a crash is never launched (`remote_provider_queue.py:201`). The breaker counts jobs,
not cycles: a provider with three polled jobs is backed off for one cycle
(`remote_job_status_service.py:84` against the comment at 32). An exception that escapes
`_process_launch_item` before its own handlers is only logged. The process registry takes an entry out
before it ends the process, and `kill_all` takes out all of them first (`process_registry.py:168`,
`:199`): a server that dies in between leaves a process that nothing knows of. When the write of a
given-up job's status fails, the rollback takes the release of its hold along (`job_service.py:719`).

*Launch and resume.* A launch refused with 400 or 500 after `job_create` leaves its job in the first
status with its hold (`launch_template.py:648`). A write of the record that fails is printed and
forgotten (`job_service.py:436`); `LaunchIsRecorded` says what survives that. A resume makes no check of
a disabled provider, takes no hold, is not wrapped with `tfl-remote-trap`, stores no `cluster_config`,
and launches on the local provider without its queue.

*Cloud providers.* Two first launches of a team may both create what they share, and one is refused. A
SkyPilot launch whose SDK call raised is sent again, also when the first was taken
(`compute_providers/skypilot.py:199`); on Azure any error that contains "image", "sku" or "not found"
leads to the next image, also after the machine was created (`azure.py:545`). A SkyPilot stop whose
result cannot be decoded, or is an error, reports success with the cluster up (`skypilot.py:252`);
Azure's does so when it did not find the machine. A status the client library has no name for becomes
UNKNOWN, which no branch of the worker ends.

*Tasks.* A task.yaml that does not parse is written before it is refused, and differs from the index
from then on (`routers/experiment/task.py:1070`). An edit that overlaps an upload may lose the mark that
launches bring the files along. A zip that holds an `index.json` replaces the task's, id included
(uploads refuse the name, creation and edit do not), and an imported index keeps the experiment id of
its source. The former map of `file_mounts` keeps an upload from marking the task, and launches bring
only what the map names (`task.py:390`, `launch_template.py:276`). A task.yaml that was refused after it
was saved is exported as it is, and the entry cannot be imported (`task.py:1658`). An import cut before
its last write leaves a task that goes by the id of the one it was copied from. A gallery file that
cannot be read counts as empty, so the next export writes a gallery of one entry; a write of it that
fails is reported as success (`shared/galleries.py:141`). Directories of deleted entries stay.

*Migration.* Where no old jobs directory is left, an old `jobs.json` stays for good
(`services/migrate_jobs_to_experiment_dirs.py:144`); a listing that fails counts as an empty one.

*Registry.* A save into an existing group is refused when its version "v1" is taken and the directories
say otherwise. An upload answers "complete" during, and after, an assembly that was cut. Two simultaneous
first uploads make two groups of one name. A registration looks for its group, not for its version
(`routers/data.py:803`).

*Teams.* The last owner may leave while an invitation is pending, and who accepts it joins a team
without an owner; two owners may leave or demote each other at once. The personal team is recognised by
its name. `delete_team` leaves the team's row and its providers; `create_team` commits the team before
its owner. Two simultaneous `GET /users/me/teams` make two personal teams; two overlapping invitations
make every later one fail, since the query expects at most one row. A cut PUT of secrets leaves an empty
file, then 500 on reads and "Missing secrets" at launches. Two first launches make two key pairs or mix
them; renaming a key at the wrong moment brings back one that was replaced. A write of `status.json`
that is cut leaves it empty, and every later call raises (`ssh_key_service.py:46`); a public key file
left empty is refused and never generated again (`:182`). A removal cut between the two files, and then
a generation cut between its own, leave the public key of one pair beside the private key of another,
and launches go on with it. Two PATCHes make two default providers or two of one name; a provider
"Local" is made at every start even if another has that name. The route for Nebius credentials changes
`provider.config` in place, which the ORM does not see as a change.

Hazards that no property covers have a note in PROJECT.json.

## 5. Proofs

`tlapm` checks every proof to its leaves. Each module states an inductive invariant, one lemma per
action that it is kept, and the theorems that follow. None assumes more of the constants than the
module's `ASSUME`: no bound on the number of jobs, requests, slots, faults, crashes or the clock.

| Module | Theorems | Argument |
|---|---|---|
| `LocalLaunchQueueProofs` (queue) | `QueueTypeOK`, `QueueOneLauncher`, `QueueFifoNoLoss`, `QueueRefinesLauncher`, `QueueFailedIsSettled` | `IInv` adds that a live task holds an item, that nothing is buffered when idle (`NoStrandedItem`) and that whatever arrived was enqueued by a request. Without `NoStrandedItem` an idle queue with a buffered item would let the next request overtake it. The refinement maps `started` to the number of items taken and `idle` to `~ processing`; only `Enqueue`, `Drain` and `Restart` are not stutters. `SettleInv`: until a restart a FAILED job was picked up, once (`ArrivedOnce`), so no other task works on it; and what is left of a task's work list pays for its job, or it is paid (`TaskSettles`) |
| `LocalLaunchQueueProofs` (server) | `ProcessesKeepTypes`, `AliveStaysRegistered`, `ServerRefinesLauncher` | with the types, `AliveIsRegistered` is inductive: a thread ends with the entry, an entry is removed only by who will kill its process, and a crash marks what it cuts. Every step of the server is a step of the queue, or leaves it alone, or is the worker writing a status, which the queue's invariant and `SerialLauncher` do not look at: so the refinement carries over to the composition |
| `RemoteLaunchQueueProofs` | `RemoteTypeOK`, `RemoteAtMostOneLaunch`, `RemoteRowsTellTheTruth`, `RemoteGivenUpIsSettled`, `RemoteDispatchInOrder` | A second launch needs a second task, a task comes from `Load`, and the entry that is loaded was marked: `BatchIsDistinct` and `BatchIsPending` say that a batch has every row once and only rows not yet marked, `EntryIsFree` that the marked entry has no task, `NotYetLaunched` that a task before its launch has made none. A crash keeps the rows, so it cannot make a marked row PENDING. `GivenUpIsSettled` is the last of many steps: `SettledInv` says at each step of the task what of status, hold and usage has been written, what is still to be, and what others may have charged meanwhile; a rollback is marked, and a task that crashes keeps its hold. `OrderInv`: what was dispatched is older than what waits, and what a poll listed is older than the rest, in its own order (`PickedFirst`, `BatchInOrder`, `RestIsLater`) |
| `StatusWorkerProofs` | `WorkerTypeOK`, `WorkerInteractiveNeverComplete`, `WorkerCountsConsecutive`, `WorkerEndedOnEvidence` | `ListedCount`: the counters of a job still to be checked are those that were listed, so counting on the stale record is sound; `OthersCountNothing`: a provider that never counts has no count to keep when its resource is seen; `AnswerFacts` goes through the ten providers |
| `WorkerProofs` (processes) | `WorkersKeepTypes`, `JobsAreAnnouncedOnce`, `MigratedIsKept`, `ReadyStaysInstalled` | `WorkersInv`: who leads holds the lock, so one does (`OneLeader`); what was posted is marked, about to be, or lost with its process (`PostsAccounted`, `DoingUnsent`); a directory is removed only after its copy is whole (`RemovedIsCopied`); who works on the environment holds its lock (`LockIsHeld`), and a ready file without an environment is about to be removed by the holder (`ReadyIsTrue`) |
| `WorkerProofs` (sweeps) | `SweepsKeepTypes`, `CompletesAreOver`, `BestStaysBest` | `SweepInv`: a child read as ended has ended or is being stopped when the worker writes, and nobody else counts the ended ones (`ReadsStand`), so the verdict still holds between its two writes (`VerdictStands`). `BestStaysBest` follows a request through its reads (`QueryStands`): the best so far was COMPLETE when it was read and has the value kept, and of the children it has passed none that counted at the start, and still counts, is better. A child that is over, or being stopped, stays so (`OversStay`) and keeps its metric (`OversKeepScore`), else a later change could make one that was passed the better one |
| `WorkerProofs` (breaker) | `BreakerTypeOK`, `BreakerTripsOnConsecutive` | a provider is backed off only after the limit of failures with no answer between; its count returns to zero where it trips, where it is skipped and where it answers |
| `CloudLaunchProofs` (machines) | `LaunchesKeepTypes`, `OneMachineEach`, `MachinesEndThemselves`, `FailuresStayForgotten`, `StopsStayFinal`, `AnswersStayAsPolled` | `CloudInv` says of each launch where its machine may stand at each step (`Placed`), how often one was asked for (`Counted`: twice only by a request sent again after a fault), what of its own it is rid of after a failure (`Cleared`), that one that fails on a plan was disturbed by a fault or by another launch (`Blamed`, `Alone`), that a machine whose stop succeeded is gone if the stop looked (`Over`), and that the calls it still has to make fit the account: each finds what it needs, none creates what is there, and together they supply the rights of the machine (`Planned` and its `Apart`, `Ordered` and `Leads`, over `Needs`, `Duty` and `Promise` of a call; `Granted`) |
| `CloudLaunchProofs` (tasks) | `TasksKeepTypes`, `TasksStayWhole`, `EntriesStayImportable` | `TasksAreWhole` speaks of idle tasks only; `OwnIds` and `FilesBrought` (in `TasksInv`) say of every task that what it lacks is still to be done by a request (`DueId`, `DueFiles`) or in a history. An id is new to the disk when it is first used (`TasksKnown`), and a copy without an index has no files (`BareCopies`), else a create or an import would find files nobody accounts for. For the gallery, the lists that requests have read and not yet written are held to the same as the file (`ListsGood`), and a task.yaml that does not parse was refused or is just being saved (`YamlsKnown`), and copies of it are known (`CopiesKnown`; together `GalleryInv`): a directory once importable stays so until an export of it clears it |
| `QuotaLedgerProofs` | `LedgerTypeOK`, `LedgerCountedOnce`, `LedgerChargedOnce` | `StartAfterHold` and `TasksAfterHold`: only a job whose hold was made has a start, in its record or in a task's copy, so no charge precedes the hold it has to convert. `OneCharge` says what any of the three charging steps may do, and both the invariant and the action property follow from it |
| `AssetRegistryProofs` | `RegistryKeepsTypes`, `AnsweredUploadsAreWhole`, `VersionsStayWhole`, `NamesStayResolved` | `Real` says of what a version stands for that it is whole; whole things stay so or are marked (`Kept`), so it is enough that `Real` holds of what each request is about to list (`Grounded`), of what it read, and of the lists. A request takes its file from an upload that was answered: `UploadsInv` follows the assembling thread chunk by chunk, through removals and new uploads. `Changed` keeps a list sound (`ChangedFacts`); an overwritten list is another sound one. For names, the only busy request in a calm registry found no other group of the name it is about to write (`Chosen`) |
| `RecordProofs` (job cache) | `CacheTypeOK`, `CacheUndisturbedEdit`, `CacheLags` | what a request holds is never ahead of the disk, and equal to it while `settled` |
| `RecordProofs` (teams) | `TeamsKeepTypes`, `TeamsHaveOwners` | `HasOwner` is not inductive: `ChecksHold` says that each request that takes a role away has read another owner who is still there unless the team is marked raced, `TouchedHadMembers` that a team an invitation or request is about has or had members |
| `RecordProofs` (secrets) | `SecretsKeepTypes`, `SecretsSurvive` | `PutsAgree`: a PUT between its read and its write holds the special secrets that are in the file, unless another write came between |
| `RecordProofs` (keys) | `KeysKeepTypes`, `MachinesStayOpen` | `KeysInv`: unless the files were muddled, a call under way works on the current key, and what it has already removed, emptied or written is so, the private key first (`CallsFit`); while `status.json` is empty and its writer alive there is no other call (`TornAlone`); a public key is that of the private key beside it, or blank, unless its key is being removed (`PairsMatch`); and machines have the current pair (`MachinesHaveCurrent`), which no call under way is about to replace |
| `RecordProofs` (providers) | `ProvidersKeepTypes`, `ProvidersStayAgreed` | `ReadsHold`: unless writes crossed, what a request read of the rows is still so when it writes; ids are used once (`IdsTaken`), and only rows that are there were patched (`OnlyRowsPatched`) |
| `RecordProofs` (launch) | `LaunchKeepsTypes`, `LaunchesAreRecorded` | `HoldIsWritten`: only a launch with minutes has a hold, and the write that stores its cluster stores its hold, so the row a remote launch is queued by exists only when what it needs is on record |

Type invariants are stated by a theorem of their own in every part, since the other arguments rest on
them; five theorems (`QueueFifoNoLoss`, `RemoteRowsTellTheTruth`, `WorkerCountsConsecutive`,
`BreakerTripsOnConsecutive`, `CacheLags`) are about invariants that the runs do not check again, since
the theorem is the stronger statement.

Every safety property of the passing runs is proved; the action property
`ChargedOnce` follows from the invariant of its part. Only model-checked:
the liveness properties (`StopIsAnswered`, `StoppingEnds`, `LossIsNoticed`, `RecordedSweepEnds`,
`EndIsAnnounced`, `MigrationEnds`, `QueriedAgain`, `EveryLaunchEnds`, `TrackedIsFreed`) and the liveness
half of the refinement (`QueueRefinesLauncher` and `ServerRefinesLauncher` are about `RefinementSafety`;
the run checks `Refinement`), because fairness and ENABLED are out of the prover's reach.

## 6. Assumptions and omissions

- Database transactions are atomic, and code between two awaits runs without interruption: one event
  loop; one leader runs the workers (`server_workers` shows what happens when it ends).
- `FailedIsSettled` is stated without restarts and database errors: with them the code promises
  nothing.
- The ledger is one user in one team within one quota period, and the job machine's clock agrees
  with the server's.
- The job's process, its wrapper (the `lab` package) and the cloud accounts are external. They are
  modelled by what `src/` relies on: `lab.finish`, `lab.error`, `live_status`, and what each
  provider client returns.
- Registry: one file per dataset, one staging directory, a client that goes on only when the assembly
  was answered, index writes that are whole (the version list is not), a list as a set, groups made with
  an id. Models follow the same service and differ in the copy.
- A task's files are a task.yaml and "others", all or none; index writes and directory copies of the
  `lab` package are single steps, those that the server makes itself are not (`TearIndex`, `OpenYaml`,
  `OpenGallery`). Lists of `file_mounts`, bodies of wrong types or that name an id, and the lookup of the
  provider by an import are left out, and the file routes do not delete an index.
- A remote job has its start time before its row is queued, as the launch request writes it first.
- Between two reads of one call on the SSH keys nothing is lost by taking them as one step: a change in
  between muddles the files, and of those nothing is claimed.
- A whole request reads the rows it decides from together (`Teams`, `TeamProviders`); commits and
  file writes are apart.

**Not modelled.** Most lines of the repository change no state that two actors share: the trainers and
the example galleries (`src/trainers`, `galleries/examples`: one script per run, its only protocol with
the server is the progress it reports), the evaluation scripts, log readers and parsers, option and
price lists of the cloud providers, the building of commands and environments, record keeping of
experiments, models, documents and users in single requests on single rows, and the pages of the
frontend. A model of them would restate assignments. For that reason the share of the implementation
that the map covers stays below a third, and well below it as a share of all lines; of the services,
queues, workers and providers that hold the protocols it covers most.
