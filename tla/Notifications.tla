--------------------------- MODULE Notifications ---------------------------
(***************************************************************************)
(* The worker that tells users by webhook that a job has ended:            *)
(* services/notification_service.py.  It runs in the leading process; a    *)
(* job is announced once, and the announcement is remembered in the job's  *)
(* data (notification_sent).                                               *)
(***************************************************************************)
EXTENDS ApiProcesses

CONSTANTS
    Jobs,
    NoJob,
    MaxLost      \* bound on marks that storage errors lose

ASSUME NoteAssumption == NoJob \notin Jobs /\ MaxLost \in Nat

VARIABLES
    watched,   \* jobs with created_by_user_id and a webhook that is enabled
    over,      \* jobs in COMPLETE, FAILED or STOPPED
    sent,      \* jobs with notification_sent
    doing,     \* doing[p]: the job process p has posted and not yet marked
    posts,     \* history: posts[j], how often j was announced
    lost       \* history: lost[j], how often a mark was lost

noteVars == <<watched, over, sent, doing, posts, lost>>

NoteTypeOK ==
    /\ watched \subseteq Jobs /\ over \subseteq Jobs /\ sent \subseteq Jobs
    /\ doing \in [Procs -> Jobs \cup {NoJob}]
    /\ posts \in [Jobs -> Nat] /\ lost \in [Jobs -> Nat]

NoteInit ==
    /\ watched \in SUBSET Jobs
    /\ over = {} /\ sent = {}
    /\ doing = [p \in Procs |-> NoJob]
    /\ posts = [j \in Jobs |-> 0]
    /\ lost = [j \in Jobs |-> 0]

JobEnds(j) ==
    /\ j \in watched \ over
    /\ over' = over \cup {j}
    /\ UNCHANGED <<watched, sent, doing, posts, lost>>

\* A launcher writes LAUNCHING over the end of a job.
JobIsBack(j) ==
    /\ j \in over
    /\ over' = over \ {j}
    /\ UNCHANGED <<watched, sent, doing, posts, lost>>

\* Listed by status, read again, not yet sent: the POST, delivered or not.
Announce(p, j) ==
    /\ RunsWorkers(p) /\ doing[p] = NoJob
    /\ j \in over \ sent
    /\ posts' = [posts EXCEPT ![j] = @ + 1]
    /\ doing' = [doing EXCEPT ![p] = j]
    /\ UNCHANGED <<watched, over, sent, lost>>

\* Marked always, even on delivery failure.
Mark(p) ==
    /\ doing[p] # NoJob
    /\ sent' = sent \cup {doing[p]}
    /\ doing' = [doing EXCEPT ![p] = NoJob]
    /\ UNCHANGED <<watched, over, posts, lost>>

\* Writing the job fails; the error is printed and swallowed.
MarkFails(p) ==
    /\ doing[p] # NoJob /\ lost[doing[p]] < MaxLost
    /\ lost' = [lost EXCEPT ![doing[p]] = @ + 1]
    /\ doing' = [doing EXCEPT ![p] = NoJob]
    /\ UNCHANGED <<watched, over, sent, posts>>

\* A POST that is never followed by its mark: the process ended in between.
NoteCut(p) ==
    /\ lost' = IF doing[p] = NoJob THEN lost ELSE [lost EXCEPT ![doing[p]] = @ + 1]
    /\ doing' = [doing EXCEPT ![p] = NoJob]
    /\ UNCHANGED <<watched, over, sent, posts>>

=============================================================================
