------------------------- MODULE StatusWorkerProofs -------------------------
(***************************************************************************)
(* Proofs about StatusWorker: what the worker may conclude of a job, for   *)
(* any set of jobs, any mix of providers and any threshold.                *)
(***************************************************************************)
EXTENDS StatusWorker, TLAPS

-----------------------------------------------------------------------------
(* The inductive invariant. *)

\* Providers whose missing resources are counted in some status.
Counted == {"RUNPOD", "VASTAI", "GCP", "AZURE"} \cup QueueKinds

\* The counters of a job that is still to be checked are as they were listed:
\* nobody but the check writes them.
ListedCount == \A j \in left : snap[j].polls = polls[j]

\* The others never count.
OthersCountNothing == \A j \in Jobs : kind[j] \notin Counted => polls[j] = 0

\* No verdict about to be written completes a session.
SessionNotCompleted == cur \in interactive => verdict # "COMPLETE"

IInv ==
    /\ TypeOK
    /\ InteractiveNeverComplete
    /\ CountsConsecutive
    /\ EndedOnEvidence
    /\ ListedCount
    /\ OthersCountNothing
    /\ SessionNotCompleted

-----------------------------------------------------------------------------
(* Answers. *)

\* A counted answer does not show the resource; one that shows it resets the
\* counter of every provider that counts.
LEMMA AnswerFacts ==
    ASSUME TypeOK, NEW j \in Jobs, NEW a \in Answers(j), NEW s
    PROVE  /\ a \in Debounced(kind[j], s) => ~ Visible(a) /\ kind[j] \in Counted
           /\ Visible(a) /\ kind[j] \in Counted => a \in Resets(kind[j])
           /\ a \in Ended => Visible(a)
           /\ kind[j] \in QueueKinds /\ a # Missing => Visible(a)
           /\ kind[j] \in QueueKinds => Missing \in Debounced(kind[j], s)
  <1>1. Unknown # Missing /\ {"up"} # Unknown /\ {"down"} # Unknown /\ {"failed"} # Unknown
        /\ {"stopped"} # Unknown /\ {"up"} # Missing /\ {"down"} # Missing
        /\ {"failed"} # Missing /\ {"stopped"} # Missing
    BY DEF Unknown, Missing
  <1>2. ClusterAnswers = {{"up"}, Unknown, {"down"}, {"failed"}, {"stopped"}}
    BY DEF ClusterAnswers, Unknown
  <1>3. Unknown \notin QueueAnswers
    BY DEF QueueAnswers, Unknown
  <1>4. kind[j] \in ClusterKinds \cup QueueKinds
    BY WorkerAssumption DEF TypeOK
  <1>5. \/ a = Missing \/ (a = Unknown /\ kind[j] \notin QueueKinds)
        \/ kind[j] \in QueueKinds /\ a \in QueueAnswers
        \/ kind[j] \notin QueueKinds /\ a \in ClusterAnswers
    BY DEF Answers, IfGone, QueueKinds
  <1>6. a \in Debounced(kind[j], s) => ~ Visible(a) /\ kind[j] \in Counted
    BY <1>1, <1>4 DEF Debounced, Visible, Counted, QueueKinds
  <1>7. Visible(a) /\ kind[j] \in Counted => a \in Resets(kind[j])
    BY <1>1, <1>2, <1>5 DEF Resets, Visible, Counted, QueueKinds
  <1>8. a \in Ended => Visible(a)
    BY <1>1 DEF Ended, Visible
  <1>9. kind[j] \in QueueKinds /\ a # Missing => Visible(a)
    BY <1>3, <1>5 DEF Visible
  <1>10. kind[j] \in QueueKinds => Missing \in Debounced(kind[j], s)
    BY DEF Debounced, QueueKinds
  <1> QED  BY <1>6, <1>7, <1>8, <1>9, <1>10

\* The misses of j in a row after answer a.
Misses(j, a) == IF Visible(a) THEN 0
                ELSE IF missed[j] < Threshold THEN missed[j] + 1 ELSE missed[j]

\* The stored counter follows the misses.
LEMMA NextPollsFollows ==
    ASSUME IInv, NEW j \in left, NEW a \in Answers(j)
    PROVE  /\ NextPolls(j, a) \in 0..Threshold
           /\ Misses(j, a) \in 0..Threshold
           /\ NextPolls(j, a) <= Misses(j, a)
           /\ kind[j] \notin Counted => NextPolls(j, a) = 0
  <1>1. /\ j \in Jobs /\ Threshold \in Nat /\ Threshold > 0
        /\ polls[j] \in 0..Threshold /\ missed[j] \in 0..Threshold
        /\ polls[j] <= missed[j] /\ snap[j].polls = polls[j]
    BY WorkerAssumption DEF IInv, TypeOK, CountsConsecutive, ListedCount
  <1>2. Misses(j, a) \in 0..Threshold
    BY <1>1 DEF Misses
  <1>3. CASE a \in Debounced(kind[j], snap[j].status)
    <2>1. ~ Visible(a) /\ kind[j] \in Counted
      BY <1>1, <1>3, AnswerFacts DEF IInv
    <2>2. NextPolls(j, a) = IF polls[j] < Threshold THEN polls[j] + 1 ELSE polls[j]
      BY <1>1, <1>3 DEF NextPolls
    <2> QED  BY <1>1, <1>2, <2>1, <2>2 DEF Misses
  <1>4. CASE a \notin Debounced(kind[j], snap[j].status) /\ a \in Resets(kind[j])
    <2>1. NextPolls(j, a) = 0
      BY <1>4 DEF NextPolls
    <2> QED  BY <1>1, <1>2, <2>1
  <1>5. CASE a \notin Debounced(kind[j], snap[j].status) /\ a \notin Resets(kind[j])
    <2>1. NextPolls(j, a) = polls[j]
      BY <1>5 DEF NextPolls
    <2>2. Visible(a) => kind[j] \notin Counted
      BY <1>1, <1>5, AnswerFacts DEF IInv
    <2>3. kind[j] \notin Counted => polls[j] = 0
      BY <1>1 DEF IInv, OthersCountNothing
    <2>4. ~ Visible(a) => polls[j] <= Misses(j, a)
      BY <1>1 DEF Misses
    <2> QED  BY <1>1, <1>2, <2>1, <2>2, <2>3, <2>4
  <1> QED  BY <1>3, <1>4, <1>5

\* A verdict about a job that nobody asked to stop has its evidence, and none
\* completes a session.
LEMMA ClusterVerdictIsSound ==
    ASSUME TypeOK, NEW j \in Jobs, NEW a \in Answers(j), ClusterVerdict(j, a) # "keep"
    PROVE  /\ snap[j].status # "STOPPING" => Visible(a) \/ NextPolls(j, a) >= Threshold
           /\ j \in interactive => ClusterVerdict(j, a) # "COMPLETE"
  <1>1. \/ a \in Ended
        \/ snap[j].status = "STOPPING" /\ a \in EndsStopping(kind[j])
        \/ a \in Debounced(kind[j], snap[j].status)
    BY DEF ClusterVerdict
  <1>2. Believed(j, a)
    BY DEF ClusterVerdict
  <1>3. snap[j].status # "STOPPING" => Visible(a) \/ NextPolls(j, a) >= Threshold
    BY <1>1, <1>2, AnswerFacts DEF Believed
  <1>4. j \in interactive => ClusterVerdict(j, a) # "COMPLETE"
    BY DEF ClusterVerdict
  <1> QED  BY <1>3, <1>4

LEMMA QueueVerdictIsSound ==
    ASSUME TypeOK, NEW j \in Jobs, NEW a \in Answers(j), kind[j] \in QueueKinds,
           QueueVerdict(j, a) # "keep"
    PROVE  /\ Visible(a) \/ NextPolls(j, a) >= Threshold
           /\ j \in interactive => QueueVerdict(j, a) # "COMPLETE"
  <1>1. Believed(j, a)
    BY DEF QueueVerdict
  <1>2. Visible(a) \/ NextPolls(j, a) >= Threshold
    BY <1>1, AnswerFacts DEF Believed
  <1>3. j \in interactive => QueueVerdict(j, a) # "COMPLETE"
    BY DEF QueueVerdict
  <1> QED  BY <1>2, <1>3

LEMMA VerdictTypes ==
    ASSUME NEW j, NEW a
    PROVE  /\ ClusterVerdict(j, a) \in Terminal \cup {"keep"}
           /\ QueueVerdict(j, a) \in Terminal \cup {"keep"}
           /\ LiveVerdict(j) \in Terminal \cup {"keep"}
  BY DEF ClusterVerdict, QueueVerdict, LiveVerdict, Terminal

-----------------------------------------------------------------------------
(* The steps. *)

LEMMA InitIInv == Init => IInv
  <1> SUFFICES ASSUME Init PROVE IInv
    OBVIOUS
  <1>1. Nobody \notin Jobs /\ 0 \in 0..Threshold
    BY WorkerAssumption
  <1>2. TypeOK
    <2>1. snap \in [Jobs -> Snapshots]
      BY <1>1 DEF Init, Record, Snapshots, Statuses, Polled
    <2> QED  BY <1>1, <2>1 DEF Init, TypeOK, Statuses, Polled, Terminal
  <1> QED
    BY <1>1, <1>2
    DEF Init, IInv, TypeOK, InteractiveNeverComplete, CountsConsecutive, EndedOnEvidence,
        ListedCount, OthersCountNothing, SessionNotCompleted

LEMMA ListKeepsIInv ==
    ASSUME IInv, List
    PROVE  IInv'
  <1>1. /\ cur = Nobody /\ cur' = Nobody /\ left' \subseteq Jobs
        /\ snap' = [j \in Jobs |-> Record(j)]
        /\ UNCHANGED <<fixed, jobVars, gone, verdict, history>>
    BY DEF List
  <1>2. snap' \in [Jobs -> Snapshots]
    BY <1>1 DEF IInv, TypeOK, Record, Snapshots
  <1>3. TypeOK'
    BY <1>1, <1>2 DEF IInv, TypeOK, fixed, jobVars, history
  <1>4. ListedCount'
    BY <1>1 DEF ListedCount, Record, jobVars
  <1> QED
    BY <1>1, <1>3, <1>4, WorkerAssumption
    DEF IInv, TypeOK, InteractiveNeverComplete, CountsConsecutive, EndedOnEvidence,
        OthersCountNothing, SessionNotCompleted, fixed, jobVars, history

LEMMA TrustWrapperKeepsIInv ==
    ASSUME IInv, NEW j \in Jobs, TrustWrapper(j)
    PROVE  IInv'
  <1> DEFINE v == LiveVerdict(j)
  <1>1. /\ j \in left /\ v # "keep" /\ v \in Terminal
        /\ left' = left \ {j} /\ cur' = j /\ verdict' = v /\ answer' = {"wrapper"}
        /\ UNCHANGED <<fixed, jobVars, gone, snap, missed>>
    BY VerdictTypes DEF TrustWrapper, Conclude
  <1>2. j \in interactive => v # "COMPLETE"
    <2>1. snap[j].live \in {"none", "finished", "crashed"}
      BY DEF IInv, TypeOK, Snapshots
    <2> QED  BY <1>1, <2>1 DEF LiveVerdict
  <1>3. Visible({"wrapper"})
    <2>1. {"wrapper"} # Unknown /\ {"wrapper"} # Missing
      BY DEF Unknown, Missing
    <2> QED  BY <2>1 DEF Visible
  <1> HIDE DEF v
  <1>4. TypeOK'
    BY <1>1, WorkerAssumption DEF IInv, TypeOK, fixed, jobVars, Terminal
  <1>5. EndedOnEvidence' /\ SessionNotCompleted'
    BY <1>1, <1>2, <1>3 DEF EndedOnEvidence, SessionNotCompleted, fixed
  <1> QED
    BY <1>1, <1>4, <1>5
    DEF IInv, InteractiveNeverComplete, CountsConsecutive, ListedCount,
        OthersCountNothing, fixed, jobVars

LEMMA AskProviderKeepsIInv ==
    ASSUME IInv, NEW j \in Jobs, AskProvider(j)
    PROVE  IInv'
  <1>1. j \in left /\ UNCHANGED <<fixed, status, live, gone, snap>>
    BY DEF AskProvider
  <1>2. PICK a \in Answers(j) :
          /\ Conclude(j, IF kind[j] \in QueueKinds THEN QueueVerdict(j, a)
                                                   ELSE ClusterVerdict(j, a))
          /\ polls' = [polls EXCEPT ![j] = NextPolls(j, a)]
          /\ seen' = [seen EXCEPT ![j] = @ \/ (kind[j] = "SKYPILOT" /\ a # Missing)]
          /\ answer' = a
          /\ missed' = [missed EXCEPT ![j] = Misses(j, a)]
    BY DEF AskProvider, Misses
  <1> DEFINE v == IF kind[j] \in QueueKinds THEN QueueVerdict(j, a)
                                            ELSE ClusterVerdict(j, a)
  <1>3. /\ NextPolls(j, a) \in 0..Threshold /\ Misses(j, a) \in 0..Threshold
        /\ NextPolls(j, a) <= Misses(j, a)
        /\ kind[j] \notin Counted => NextPolls(j, a) = 0
    BY <1>1, NextPollsFollows
  <1>4. v \in Terminal \cup {"keep"}
    BY VerdictTypes
  <1>5. v # "keep" =>
           /\ snap[j].status # "STOPPING" => Visible(a) \/ NextPolls(j, a) >= Threshold
           /\ j \in interactive => v # "COMPLETE"
    BY ClusterVerdictIsSound, QueueVerdictIsSound DEF IInv
  <1>6. /\ left' = left \ {j}
        /\ cur' = (IF v = "keep" THEN Nobody ELSE j)
        /\ verdict' = v
    BY <1>2 DEF Conclude
  <1> HIDE DEF v
  <1>7. /\ polls' \in [Jobs -> 0..Threshold] /\ polls'[j] = NextPolls(j, a)
        /\ missed' \in [Jobs -> 0..Threshold] /\ missed'[j] = Misses(j, a)
        /\ \A i \in Jobs : i # j => polls'[i] = polls[i] /\ missed'[i] = missed[i]
    BY <1>2, <1>3 DEF IInv, TypeOK
  <1>8. seen' \in [Jobs -> BOOLEAN]
    <2>1. seen \in [Jobs -> BOOLEAN]
      BY DEF IInv, TypeOK
    <2>2. (seen[j] \/ (kind[j] = "SKYPILOT" /\ a # Missing)) \in BOOLEAN
      OBVIOUS
    <2> QED  BY <1>2, <2>1, <2>2, ZenonT(30)
  <1>9. TypeOK'
    BY <1>1, <1>4, <1>6, <1>7, <1>8, WorkerAssumption DEF IInv, TypeOK, fixed, Terminal
  <1>10. CountsConsecutive' /\ OthersCountNothing'
    BY <1>1, <1>3, <1>7
    DEF IInv, CountsConsecutive, OthersCountNothing, fixed
  <1>11. ListedCount'
    BY <1>1, <1>6, <1>7 DEF IInv, TypeOK, ListedCount
  <1>12. EndedOnEvidence' /\ SessionNotCompleted'
    <2>1. CASE v = "keep"
      BY <1>1, <1>6, <2>1, WorkerAssumption
      DEF IInv, TypeOK, EndedOnEvidence, SessionNotCompleted, fixed
    <2>2. CASE v # "keep"
      <3>1. NextPolls(j, a) >= Threshold => missed'[j] >= Threshold
        BY <1>3, <1>7, WorkerAssumption
      <3> QED
        BY <1>1, <1>2, <1>5, <1>6, <2>2, <3>1
        DEF EndedOnEvidence, SessionNotCompleted, fixed
    <2> QED  BY <2>1, <2>2
  <1> QED
    BY <1>1, <1>9, <1>10, <1>11, <1>12 DEF IInv, InteractiveNeverComplete, fixed

LEMMA WriteKeepsIInv ==
    ASSUME IInv, Write
    PROVE  IInv'
  <1>1. /\ cur \in Jobs /\ verdict \in Terminal
        /\ status' = [status EXCEPT ![cur] = verdict]
        /\ cur' = Nobody /\ verdict' = "keep"
        /\ UNCHANGED <<fixed, live, polls, seen, gone, snap, left, history>>
    BY DEF Write, IInv, TypeOK
  <1>2. TypeOK'
    BY <1>1 DEF IInv, TypeOK, fixed, history, Statuses
  <1>3. InteractiveNeverComplete'
    BY <1>1 DEF IInv, TypeOK, InteractiveNeverComplete, SessionNotCompleted, fixed
  <1> QED
    BY <1>1, <1>2, <1>3, WorkerAssumption
    DEF IInv, TypeOK, CountsConsecutive, EndedOnEvidence, ListedCount,
        OthersCountNothing, SessionNotCompleted, fixed, history

\* A status somebody else writes; no session is completed by it.
LEMMA SetStatusKeepsIInv ==
    ASSUME IInv, NEW j \in Jobs, NEW s \in Statuses, SetStatus(j, s),
           j \in interactive => s # "COMPLETE"
    PROVE  IInv'
  <1>1. /\ status' = [status EXCEPT ![j] = s]
        /\ UNCHANGED <<fixed, live, polls, seen, gone, cycleVars, history>>
    BY DEF SetStatus
  <1>2. TypeOK'
    BY <1>1 DEF IInv, TypeOK, fixed, cycleVars, history
  <1>3. InteractiveNeverComplete'
    BY <1>1 DEF IInv, TypeOK, InteractiveNeverComplete, fixed
  <1> QED
    BY <1>1, <1>2, <1>3
    DEF IInv, CountsConsecutive, EndedOnEvidence, ListedCount, OthersCountNothing,
        SessionNotCompleted, fixed, cycleVars, history

\* Steps that leave statuses, counters and the worker's verdict alone.
LEMMA QuietKeepsIInv ==
    ASSUME IInv, left' \subseteq left,
           live' \in [Jobs -> {"none", "finished", "crashed"}], gone' \in [Jobs -> BOOLEAN],
           UNCHANGED <<fixed, status, polls, seen, snap, cur, verdict, history>>
    PROVE  IInv'
  <1>1. TypeOK'
    BY DEF IInv, TypeOK, fixed, history
  <1> QED
    BY <1>1
    DEF IInv, InteractiveNeverComplete, CountsConsecutive, EndedOnEvidence, ListedCount,
        OthersCountNothing, SessionNotCompleted, fixed, history

LEMMA NextIInv == IInv /\ [Next]_vars => IInv'
  <1> SUFFICES ASSUME IInv, [Next]_vars PROVE IInv'
    OBVIOUS
  <1>1. ASSUME NEW j \in Jobs, PassOver(j)
        PROVE  IInv'
    BY <1>1, QuietKeepsIInv DEF PassOver, IInv, TypeOK, jobVars
  <1>2. ASSUME NEW j \in Jobs, WrapperReports(j)
        PROVE  IInv'
    BY <1>2, QuietKeepsIInv DEF WrapperReports, IInv, TypeOK, cycleVars
  <1>3. ASSUME NEW j \in Jobs, Vanish(j)
        PROVE  IInv'
    BY <1>3, QuietKeepsIInv DEF Vanish, IInv, TypeOK, cycleVars, jobVars
  <1>4. CASE UNCHANGED vars
    BY <1>4, QuietKeepsIInv DEF vars, IInv, TypeOK, cycleVars, jobVars
  <1>5. ASSUME NEW j \in Jobs, Stop(j) \/ Delete(j)
        PROVE  IInv'
    BY <1>5, SetStatusKeepsIInv DEF Stop, Delete, Statuses, Polled
  <1>6. ASSUME NEW j \in Jobs, JobReports(j)
        PROVE  IInv'
    <2>1. /\ j \notin interactive
          /\ \E s \in {"RUNNING", "COMPLETE", "FAILED"} : SetStatus(j, s)
      BY <1>6 DEF JobReports
    <2>2. {"RUNNING", "COMPLETE", "FAILED"} \subseteq Statuses
      BY DEF Statuses, Polled, Terminal
    <2> QED  BY <2>1, <2>2, SetStatusKeepsIInv
  <1> QED
    BY <1>1, <1>2, <1>3, <1>4, <1>5, <1>6, ListKeepsIInv, WriteKeepsIInv,
       TrustWrapperKeepsIInv, AskProviderKeepsIInv
    DEF Next, Worker, Check, Others

-----------------------------------------------------------------------------

THEOREM IInvHolds == Spec => []IInv
  BY InitIInv, NextIInv, PTL DEF Spec

\* Records, counters and the worker's cycle keep their types, and a verdict is
\* pending exactly when a job is about to be written.
THEOREM WorkerTypeOK == Spec => []TypeOK
  BY IInvHolds, PTL DEF IInv

\* An interactive session is never recorded as completed, on any provider.
THEOREM WorkerInteractiveNeverComplete == Spec => []InteractiveNeverComplete
  BY IInvHolds, PTL DEF IInv

\* The stored counter of a job never exceeds its consecutive misses.
THEOREM WorkerCountsConsecutive == Spec => []CountsConsecutive
  BY IInvHolds, PTL DEF IInv

\* A job that nobody asked to stop is ended only on evidence, whatever the
\* threshold.
THEOREM WorkerEndedOnEvidence == Spec => []EndedOnEvidence
  BY IInvHolds, PTL DEF IInv

=============================================================================
