---------------------------- MODULE StatusWorker ----------------------------
(***************************************************************************)
(* The background worker that polls compute providers for the status of    *)
(* REMOTE jobs (backend/transformerlab/services/                           *)
(* remote_job_status_service.py).                                          *)
(*                                                                         *)
(* A cycle lists every job, and then, one job at a time, decides from the  *)
(* LISTED record and the provider's answer what the job has become, and    *)
(* writes it.  Users, the job's own process and its wrapper write to the   *)
(* same record between the listing and the write.                          *)
(***************************************************************************)
EXTENDS ProviderAnswers

CONSTANTS
    Jobs,
    Kinds,        \* the provider types the jobs may run on
    Threshold,    \* EMPTY_PROVIDER_JOBS_TERMINAL_THRESHOLD
    Nobody        \* no job is being checked

ASSUME WorkerAssumption == /\ Kinds \subseteq ClusterKinds \cup QueueKinds
                           /\ Threshold \in Nat \ {0}
                           /\ Nobody \notin Jobs

VARIABLES
    kind,         \* kind[j]: provider type of j
    interactive,  \* jobs whose job_data.subtype is "interactive"
    status,       \* status[j] on disk
    live,         \* live[j]: job_data.live_status
    polls,        \* polls[j]: job_data.provider_empty_jobs_polls
    seen,         \* seen[j]: job_data.provider_jobs_seen_once
    gone,         \* gone[j]: the cloud resource of j no longer exists
    snap,         \* snap[j]: the record of j as this cycle listed it
    left,         \* jobs this cycle has still to check
    cur,          \* the job whose verdict is about to be written, or Nobody
    verdict,      \* that verdict
    answer,       \* history: the provider's last answer about cur
    missed        \* history: missed[j] answers in a row did not show j

jobVars   == <<status, live, polls, seen>>
cycleVars == <<snap, left, cur, verdict>>
history   == <<answer, missed>>
fixed     == <<kind, interactive>>
vars      == <<fixed, jobVars, gone, cycleVars, history>>

Polled   == {"LAUNCHING", "RUNNING", "STOPPING", "INTERACTIVE"}
Terminal == {"COMPLETE", "FAILED", "STOPPED"}
Statuses == Polled \cup Terminal \cup {"DELETED"}

\* The answers of the provider of j: see ProviderAnswers.
Answers(j) == IF gone[j] THEN {IfGone(kind[j])}
              ELSE IF kind[j] \in QueueKinds THEN QueueAnswers
              ELSE ClusterAnswers \cup {IfGone(kind[j])}

-----------------------------------------------------------------------------
(* What the worker concludes. *)

\* Mutant: Azure's ResourceNotFound is not listed.
EndsStoppingNoAzure(k) ==
    CASE k \in {"RUNPOD", "VASTAI", "NEBIUS", "LAMBDA"} -> {Unknown, Missing}
      [] k = "LOCAL"                                    -> {Missing}
      [] OTHER                                          -> {}

\* Answers that end a job the user asked to stop.
EndsStopping(k) ==
    CASE k \in {"RUNPOD", "VASTAI", "NEBIUS", "LAMBDA"} -> {Unknown, Missing}
      [] k \in {"LOCAL", "AZURE"}                       -> {Missing}
      [] OTHER                                          -> {}

\* Mutant: Vast.ai only counts while the user is stopping the job.
DebouncedNoVast(k, s) ==
    CASE k = "AZURE" /\ s = "STOPPING"            -> {Unknown}
      [] k = "GCP" \/ k \in QueueKinds            -> {Missing}
      [] k = "RUNPOD" /\ s # "STOPPING"           -> {Missing}
      [] OTHER                                    -> {}

\* Answers that are only believed when repeated.
Debounced(k, s) ==
    CASE k = "AZURE" /\ s = "STOPPING"                -> {Unknown}
      [] k = "GCP" \/ k \in QueueKinds                -> {Missing}
      [] k \in {"RUNPOD", "VASTAI"} /\ s # "STOPPING" -> {Missing}
      [] OTHER                                        -> {}

\* Answers that show the resource again and reset the counter.
Resets(k) ==
    CASE k \in {"RUNPOD", "VASTAI", "GCP"} -> ClusterAnswers
      [] k = "AZURE"                       -> ClusterAnswers \ {Unknown}
      [] k \in QueueKinds                  -> QueueAnswers \ {Missing}
      [] OTHER                             -> {}

Visible(a) == a \notin {Unknown, Missing}

\* The counter after answer a.  It only matters whether it reaches Threshold.
NextPolls(j, a) ==
    LET k == kind[j]  n == snap[j].polls IN
    IF a \in Debounced(k, snap[j].status) THEN IF n < Threshold THEN n + 1 ELSE n
    ELSE IF a \in Resets(k) THEN 0 ELSE polls[j]

Believed(j, a) == a \in Debounced(kind[j], snap[j].status)
                     => NextPolls(j, a) >= Threshold

\* Mutant: a session whose cluster went away is taken for a finished job.
ClusterVerdictPlain(j, a) ==
    LET s == snap[j].status
        over == \/ a \in Ended
                \/ s = "STOPPING" /\ a \in EndsStopping(kind[j])
                \/ a \in Debounced(kind[j], s)
    IN  IF ~ over \/ ~ Believed(j, a) THEN "keep"
        ELSE IF s = "STOPPING" THEN "STOPPED"
        ELSE IF a = {"failed"} THEN "FAILED" ELSE "COMPLETE"

\* Mutant: a missing resource ends the job at once.
ClusterVerdictHasty(j, a) ==
    LET s == snap[j].status
        over == \/ a \in Ended
                \/ s = "STOPPING" /\ a \in EndsStopping(kind[j])
                \/ a \in Debounced(kind[j], s)
    IN  IF ~ over THEN "keep"
        ELSE IF s = "STOPPING" THEN "STOPPED"
        ELSE IF a = {"failed"} \/ j \in interactive THEN "FAILED" ELSE "COMPLETE"

\* Providers whose cluster state is the job's life cycle.
ClusterVerdict(j, a) ==
    LET s == snap[j].status
        over == \/ a \in Ended
                \/ s = "STOPPING" /\ a \in EndsStopping(kind[j])
                \/ a \in Debounced(kind[j], s)
    IN  IF ~ over \/ ~ Believed(j, a) THEN "keep"
        ELSE IF s = "STOPPING" THEN "STOPPED"
        ELSE IF a = {"failed"} \/ j \in interactive THEN "FAILED" ELSE "COMPLETE"

\* Providers with a job queue: done when every provider job is.  A SkyPilot
\* queue that never showed a job is a failed launch.
QueueVerdict(j, a) ==
    LET lost == kind[j] = "SKYPILOT" /\ a = Missing /\ ~ snap[j].seen IN
    IF "active" \in a \/ ~ Believed(j, a) THEN "keep"
    ELSE IF snap[j].status = "STOPPING" \/ "cancelled" \in a THEN "STOPPED"
    ELSE IF "failed" \in a \/ lost \/ j \in interactive THEN "FAILED"
    ELSE "COMPLETE"

\* The wrapper's own report, read before any provider is asked.
LiveVerdict(j) ==
    LET s == snap[j].status  r == snap[j].live IN
    IF r = "none" \/ (r = "finished" /\ j \in interactive /\ s # "STOPPING")
    THEN "keep"
    ELSE IF r = "crashed" THEN "FAILED"
    ELSE IF s = "STOPPING" THEN "STOPPED" ELSE "COMPLETE"

-----------------------------------------------------------------------------
(* The worker. *)

Record(j) == [status |-> status[j], live |-> live[j], polls |-> polls[j],
              seen |-> seen[j]]

Init ==
    /\ kind \in [Jobs -> Kinds]
    /\ interactive \in SUBSET Jobs
    /\ status = [j \in Jobs |-> IF j \in interactive THEN "INTERACTIVE"
                                                     ELSE "LAUNCHING"]
    /\ live = [j \in Jobs |-> "none"]
    /\ polls = [j \in Jobs |-> 0]
    /\ seen = [j \in Jobs |-> FALSE]
    /\ gone = [j \in Jobs |-> FALSE]
    /\ snap = [j \in Jobs |-> Record(j)]
    /\ left = {}
    /\ cur = Nobody
    /\ verdict = "keep"
    /\ answer = {"up"}
    /\ missed = [j \in Jobs |-> 0]

\* A cycle begins: every job is listed, those still polled will be checked.
List ==
    /\ left = {} /\ cur = Nobody
    /\ snap' = [j \in Jobs |-> Record(j)]
    /\ left' = {j \in Jobs : status[j] \in Polled}
    /\ UNCHANGED <<fixed, jobVars, gone, cur, verdict, history>>

\* The check of j is over: with a status to write, or without.
Conclude(j, v) ==
    /\ left' = left \ {j}
    /\ cur' = IF v = "keep" THEN Nobody ELSE j
    /\ verdict' = v

\* _handle_live_status, up to the write.
TrustWrapper(j) ==
    /\ cur = Nobody /\ j \in left
    /\ LiveVerdict(j) # "keep"
    /\ Conclude(j, LiveVerdict(j))
    /\ answer' = {"wrapper"}
    /\ UNCHANGED <<fixed, jobVars, gone, snap, missed>>

\* _check_job_via_provider, up to the write.
AskProvider(j) ==
    /\ cur = Nobody /\ j \in left
    /\ LiveVerdict(j) = "keep"
    /\ \E a \in Answers(j) :
          /\ Conclude(j, IF kind[j] \in QueueKinds THEN QueueVerdict(j, a)
                                                   ELSE ClusterVerdict(j, a))
          /\ polls' = [polls EXCEPT ![j] = NextPolls(j, a)]
          /\ seen' = [seen EXCEPT ![j] = @ \/ (kind[j] = "SKYPILOT" /\ a # Missing)]
          /\ answer' = a
          /\ missed' = [missed EXCEPT ![j] =
                 IF Visible(a) THEN 0
                 ELSE IF @ < Threshold THEN @ + 1 ELSE @]
    /\ UNCHANGED <<fixed, status, live, gone, snap>>

\* The provider call raises, the provider is backed off or its row is gone.
PassOver(j) ==
    /\ cur = Nobody /\ j \in left
    /\ LiveVerdict(j) = "keep"
    /\ left' = left \ {j}
    /\ UNCHANGED <<fixed, jobVars, gone, snap, cur, verdict, history>>

\* end_time and job_update_status: whatever the job has become meanwhile.
Write ==
    /\ cur # Nobody
    /\ status' = [status EXCEPT ![cur] = verdict]
    /\ cur' = Nobody
    /\ verdict' = "keep"
    /\ UNCHANGED <<fixed, live, polls, seen, gone, snap, left, history>>

-----------------------------------------------------------------------------
(* Everybody else. *)

SetStatus(j, s) ==
    /\ status' = [status EXCEPT ![j] = s]
    /\ UNCHANGED <<fixed, live, polls, seen, gone, cycleVars, history>>

Stop(j)   == SetStatus(j, "STOPPING")
Delete(j) == SetStatus(j, "DELETED")

\* The job's process reports through the SDK that it runs, or how it ended.
\* Interactive sessions are services: they report neither.
JobReports(j) ==
    /\ j \notin interactive /\ ~ gone[j]
    /\ \/ status[j] = "LAUNCHING" /\ SetStatus(j, "RUNNING")
       \/ status[j] = "RUNNING" /\ \E s \in {"COMPLETE", "FAILED"} : SetStatus(j, s)

\* tfl-remote-trap writes live_status when the remote command ends.
WrapperReports(j) ==
    /\ live[j] = "none" /\ ~ gone[j]
    /\ \E r \in {"finished", "crashed"} : live' = [live EXCEPT ![j] = r]
    /\ UNCHANGED <<fixed, status, polls, seen, gone, cycleVars, history>>

\* The cloud resource disappears: stopped, reclaimed or deleted by hand.
Vanish(j) ==
    /\ ~ gone[j]
    /\ gone' = [gone EXCEPT ![j] = TRUE]
    /\ UNCHANGED <<fixed, jobVars, cycleVars, history>>

Check(j) == TrustWrapper(j) \/ AskProvider(j) \/ PassOver(j)

Worker == List \/ Write \/ \E j \in Jobs : Check(j)

Others(j) == \/ Stop(j) \/ Delete(j)
             \/ JobReports(j) \/ WrapperReports(j) \/ Vanish(j)

Next == Worker \/ \E j \in Jobs : Others(j)

\* The worker's loop never ends, and a provider asked again and again answers
\* again and again.
Fairness == WF_vars(Worker) /\ \A j \in Jobs : SF_vars(AskProvider(j))

Spec == Init /\ [][Next]_vars /\ Fairness

-----------------------------------------------------------------------------
(* Properties. *)

Snapshots == [status : Statuses, live : {"none", "finished", "crashed"},
              polls : 0..Threshold, seen : BOOLEAN]

TypeOK ==
    /\ kind \in [Jobs -> Kinds]
    /\ interactive \subseteq Jobs
    /\ status \in [Jobs -> Statuses]
    /\ live \in [Jobs -> {"none", "finished", "crashed"}]
    /\ polls \in [Jobs -> 0..Threshold]
    /\ seen \in [Jobs -> BOOLEAN]
    /\ gone \in [Jobs -> BOOLEAN]
    /\ snap \in [Jobs -> Snapshots]
    /\ left \subseteq Jobs
    /\ cur \in Jobs \cup {Nobody}
    /\ verdict \in Terminal \cup {"keep"}
    /\ cur = Nobody <=> verdict = "keep"
    /\ missed \in [Jobs -> 0..Threshold]

\* A session that crashed, was reclaimed or lost its cluster is never taken for
\* a job that completed, whichever provider it runs on and however its record
\* changed since it was listed.
InteractiveNeverComplete ==
    \A j \in interactive : status[j] # "COMPLETE"

\* The stored counter never claims more consecutive misses than there were:
\* a job seen in between starts again from zero.
CountsConsecutive == \A j \in Jobs : polls[j] <= missed[j]

\* A job nobody asked to stop is given a final status only on the word of its
\* wrapper, on a definite answer of the provider, or after Threshold misses in
\* a row.
EndedOnEvidence ==
    (cur # Nobody /\ snap[cur].status # "STOPPING") =>
        \/ Visible(answer)
        \/ missed[cur] >= Threshold

\* Stopping a job whose resource is gone ends, on every provider that reports
\* the resource as missing.  (AWS reports UNKNOWN,
\* which the worker does not take for an end.)
StoppingEnds ==
    \A j \in Jobs :
        (status[j] = "STOPPING" /\ gone[j] /\ kind[j] # "AWS")
            ~> status[j] # "STOPPING"

\* A job whose resource disappeared leaves the polled statuses, whatever it was
\* doing, on the providers whose missing resources are counted in every status.
LossIsNoticed ==
    \A j \in Jobs :
        (gone[j] /\ kind[j] \in QueueKinds \cup {"RUNPOD", "VASTAI", "GCP"})
            ~> status[j] \notin Polled

=============================================================================
