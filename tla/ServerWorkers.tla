--------------------------- MODULE ServerWorkers ---------------------------
(***************************************************************************)
(* The API processes with what runs in them: the notification worker and   *)
(* the migrations in the leader, the setups of the base environment in     *)
(* any.  A process ends at any step of theirs, and what it held is freed   *)
(* for the next one.                                                       *)
(***************************************************************************)
EXTENDS Notifications, Migration, BaseEnvironment

workerVars == <<procVars, noteVars, migVars, baseVars>>

WorkersInit == ProcInit /\ NoteInit /\ MigInit /\ BaseInit

Live(p) ==
    /\ Start(p) \/ Elect(p)
    /\ UNCHANGED <<noteVars, migVars, baseVars>>

Dies(p) == End(p) /\ NoteCut(p) /\ MigCut(p) /\ BaseCut(p)

Note(p) ==
    /\ Mark(p) \/ \E j \in Jobs : Announce(p, j)
    /\ UNCHANGED <<procVars, migVars, baseVars>>

Job == /\ \E j \in Jobs : JobEnds(j) \/ JobIsBack(j)
       /\ UNCHANGED <<procVars, migVars, baseVars>>

Move(p) == Migrate(p) /\ UNCHANGED <<procVars, noteVars, baseVars>>

Storage(p) ==
    \/ (Fault(p) \/ ListFails(p)) /\ UNCHANGED <<procVars, noteVars, baseVars>>
    \/ MarkFails(p) /\ UNCHANGED <<procVars, migVars, baseVars>>

Request == /\ \E p \in Procs, s \in Setups : Ask(p, s)
           /\ UNCHANGED <<procVars, noteVars, migVars>>

Lock(s) == TakeLock(s) /\ UNCHANGED <<procVars, noteVars, migVars>>

Setup(s) == SetupStep(s) /\ UNCHANGED <<procVars, noteVars, migVars>>

WorkersNext ==
    \/ \E p \in Procs : Live(p) \/ Dies(p) \/ Note(p) \/ Move(p) \/ Storage(p)
    \/ Job \/ Request
    \/ \E s \in Setups : Lock(s) \/ Setup(s)

\* The supervisor starts processes again (compose: restart unless-stopped; a
\* uvicorn parent does it for its workers), the event loops run the workers, and
\* flock is fair to those that wait.  Requests and ends are not fair.
WorkersFairness ==
    /\ \A p \in Procs : /\ WF_workerVars(Live(p))
                        /\ WF_workerVars(Note(p))
                        /\ WF_workerVars(Move(p))
    /\ \A s \in Setups : SF_workerVars(Lock(s)) /\ WF_workerVars(Setup(s))

WorkersSpec == WorkersInit /\ [][WorkersNext]_workerVars /\ WorkersFairness

-----------------------------------------------------------------------------
(* Properties. *)

WorkersTypeOK == ProcTypeOK /\ NoteTypeOK /\ MigTypeOK /\ BaseTypeOK

\* A job is announced once, but for the announcements whose mark is lost, with the
\* process that posted them or to a storage error: never by two processes, nor
\* after a failed delivery, nor when a job that was announced ends a second time.
AnnouncedOnce == \A j \in Jobs : posts[j] <= 1 + lost[j]

\* A watched job that ends and stays so is announced, also when the leader dies
\* and another process has to be started before anybody leads again.
EndIsAnnounced == \A j \in Jobs : j \in over ~> (posts[j] > 0 \/ j \notin over)

\* Wherever a migration is cut, or a copy or removal fails, each directory is
\* complete in the old place or in the new one.
NothingIsLost == \A d \in Dirs : src[d] = "whole" \/ dest[d] = "whole"

\* The jobs.json files go in the end, also where an interrupted migration left
\* directories that no later one moves.  What keeps them for good is a storage
\* error, or that there is no old directory any more, as after a migration in an
\* object store that was cut when its last directory had gone.
MigrationEnds == <>[](index => faults > 0 \/ ~ OldDir)

\* While nobody holds the lock, a state file that says ready stands for a whole
\* environment, whatever refreshes and installs failed before; only a refresh that
\* could not remove that file leaves another state, until the next install.
ReadyIsInstalled == ready /\ baseLock = NoSetup => env = "whole" \/ torn

\* Every setup that was asked for ends, however many wait for the lock.
SetupEnds == \A s \in Setups : at[s] = "wait" ~> at[s] \in Ends

=============================================================================
