----------------------- MODULE LocalLaunchQueueProofs -----------------------
(***************************************************************************)
(* Proofs about LocalLaunchQueue: its type invariant, the exclusion of two *)
(* drain tasks, the order and completeness of the queue, that every step   *)
(* is a step of SerialLauncher or leaves its variables unchanged, and that *)
(* the quota of a launch that was given up is settled; and about the       *)
(* LocalServer it is part of: that a process is found by the next shutdown,*)
(* and that the queue refines SerialLauncher there, too.                   *)
(***************************************************************************)
EXTENDS LocalServer, SequenceTheorems, TLAPS

-----------------------------------------------------------------------------
(* Sequences: the head of a queue moved behind what was taken before. *)

LEMMA MoveHead ==
    ASSUME NEW S, NEW s \in Seq(S), NEW t \in Seq(S), t # <<>>
    PROVE  Append(s, Head(t)) \o Tail(t) = s \o t
  <1>1. Head(t) \in S /\ Tail(t) \in Seq(S) /\ <<Head(t)>> \in Seq(S)
    BY HeadTailProperties
  <1>2. Append(s, Head(t)) = s \o <<Head(t)>>
    BY <1>1, AppendIsConcat
  <1>3. <<Head(t)>> \o Tail(t) = t
    <2>1. Len(t) \in Nat \ {0}
      BY EmptySeq
    <2>2. Len(<<Head(t)>> \o Tail(t)) = Len(t)
      BY <1>1, <2>1, ConcatProperties, HeadTailProperties
    <2>3. \A i \in 1..Len(t) : (<<Head(t)>> \o Tail(t))[i] = t[i]
      BY <1>1, <2>1, ConcatProperties, HeadTailProperties
    <2>4. <<Head(t)>> \o Tail(t) \in Seq(S)
      BY <1>1, ConcatProperties
    <2> QED  BY <2>2, <2>3, <2>4, SeqEqual
  <1> QED
    BY <1>1, <1>2, <1>3, ConcatAssociative

-----------------------------------------------------------------------------
(* The inductive invariant. *)

\* An item is held exactly by a live task.
ItemsOfLiveTasks ==
    \A t \in Jobs : pc[t] # "none" => item[t] \in Jobs

\* Only requests that were enqueued are in the arrival history.
ArrivedWasEnqueued ==
    \A i \in 1..Len(arrived) : request[arrived[i]] = "enqueued"

IInv ==
    /\ TypeOK
    /\ ItemsOfLiveTasks
    /\ OneLauncher
    /\ NoStrandedItem
    /\ FifoNoLoss
    /\ ArrivedWasEnqueued

-----------------------------------------------------------------------------

\* A step of a task that does not drain moves it between live states and
\* leaves the queue, the items and the histories alone.
TaskMoves(t) ==
    /\ pc[t] # "none"
    /\ \E s \in TaskSteps \ {"none"} : pc' = [pc EXCEPT ![t] = s]
    /\ todo' \in [Jobs -> Seq(Work)]
    /\ status' \in [Jobs -> Statuses]
    /\ hold' \in [Jobs -> Holds]
    /\ usage' \in [Jobs -> {0, 1}]
    /\ UNCHANGED <<queue, processing, item, request, restarts, arrived, taken>>

LEMMA WorkLists ==
    /\ MissingWork \in Seq(Work)
    /\ RaisedWork \in Seq(Work)
    /\ OuterWork \in Seq(Work)
    /\ <<>> \in Seq(Work)
  BY DEF MissingWork, RaisedWork, OuterWork, Work

\* Every step of a task other than Drain is such a move.
LEMMA TaskStepMoves ==
    ASSUME TypeOK, ItemsOfLiveTasks, NEW t \in Jobs, TaskStep(t), ~ Drain(t)
    PROVE  TaskMoves(t)
  <1> USE DEF TypeOK, TaskMoves, queueVars, taskVars, jobVars, histVars, TaskSteps
  <1>1. CASE ProviderMissing(t)
    BY <1>1, WorkLists DEF ProviderMissing, BeginSettle
  <1>2. CASE Announce(t)
    BY <1>2 DEF Announce, Goto, ItemsOfLiveTasks, InitialStatus, Statuses
  <1>3. CASE PrepareFails(t)
    BY <1>3, WorkLists DEF PrepareFails, BeginSettle
  <1>4. CASE StartLaunch(t)
    BY <1>4 DEF StartLaunch, Goto
  <1>5. CASE LaunchSucceeds(t)
    BY <1>5 DEF LaunchSucceeds, Goto
  <1>6. CASE LaunchRaises(t)
    BY <1>6, WorkLists DEF LaunchRaises, BeginSettle
  <1>7. CASE Settle(t)
    <2>1. item[t] \in Jobs
      BY <1>7 DEF Settle, ItemsOfLiveTasks
    <2>2. todo' \in [Jobs -> Seq(Work)]
      <3>1. Tail(todo[t]) \in Seq(Work)
        BY <1>7 DEF Settle
      <3> QED  BY <1>7, <3>1 DEF Settle
    <2>3. /\ status' \in [Jobs -> Statuses]
          /\ hold' \in [Jobs -> Holds]
          /\ usage' \in [Jobs -> {0, 1}]
      BY <1>7, <2>1 DEF Settle, ReleaseHold, MarkFailed, ChargeFailed, Statuses, Holds
    <2>4. pc' = [pc EXCEPT ![t] = "settle"]
      BY <1>7 DEF Settle
    <2> QED  BY <1>7, <2>2, <2>3, <2>4 DEF Settle
  <1>8. CASE ReleaseRaises(t)
    <2>1. todo' \in [Jobs -> Seq(Work)]
      BY <1>8, WorkLists DEF ReleaseRaises
    <2>2. pc' = [pc EXCEPT ![t] = "settle"]
      BY <1>8 DEF ReleaseRaises
    <2> QED  BY <1>8, <2>1, <2>2 DEF ReleaseRaises
  <1>9. CASE Settled(t)
    BY <1>9 DEF Settled, Goto
  <1> QED
    BY <1>1, <1>2, <1>3, <1>4, <1>5, <1>6, <1>7, <1>8, <1>9 DEF TaskStep

-----------------------------------------------------------------------------

LEMMA InitIInv == Init => IInv
  <1> SUFFICES ASSUME Init PROVE IInv
    OBVIOUS
  <1> USE JobsAssumption DEF Init
  <1>1. TypeOK
    <2>1. todo \in [Jobs -> Seq(Work)]
      BY WorkLists
    <2>2. queue \in Seq(Jobs) /\ arrived \in Seq(Jobs) /\ taken \in Seq(Jobs)
      OBVIOUS
    <2>3. restarts \in 0..MaxRestarts
      OBVIOUS
    <2> QED
      BY <2>1, <2>2, <2>3 DEF TypeOK, Statuses, Holds, TaskSteps, Requests
  <1>2. FifoNoLoss
    BY DEF FifoNoLoss
  <1> QED
    BY <1>1, <1>2 DEF IInv, ItemsOfLiveTasks, OneLauncher, NoStrandedItem,
                      LiveTasks, ArrivedWasEnqueued

\* A task move keeps every conjunct: the live tasks stay the same.
LEMMA MoveIInv ==
    ASSUME IInv, NEW t \in Jobs, TaskMoves(t)
    PROVE  IInv'
  <1> USE DEF IInv, TaskMoves
  <1>1. TypeOK'
    BY DEF TypeOK, TaskSteps
  <1>2. LiveTasks' = LiveTasks
    BY DEF TypeOK, LiveTasks
  <1>3. ItemsOfLiveTasks'
    BY DEF TypeOK, ItemsOfLiveTasks
  <1> QED
    BY <1>1, <1>2, <1>3 DEF OneLauncher, NoStrandedItem, FifoNoLoss,
                            ArrivedWasEnqueued

LEMMA EnqueueIInv ==
    ASSUME IInv, NEW j \in Jobs, Enqueue(j)
    PROVE  IInv'
  <1> USE DEF IInv, Enqueue, jobVars, taskVars
  <1>0. /\ queue \in Seq(Jobs) /\ taken \in Seq(Jobs) /\ arrived \in Seq(Jobs)
        /\ Append(queue, j) \in Seq(Jobs)
        /\ Append(taken, j) \in Seq(Jobs)
        /\ Append(arrived, j) \in Seq(Jobs)
    <2>1. queue \in Seq(Jobs) /\ taken \in Seq(Jobs) /\ arrived \in Seq(Jobs)
      BY DEF TypeOK
    <2> QED  BY ONLY <2>1, AppendProperties, j \in Jobs
  <1>1. TypeOK'
    BY <1>0 DEF TypeOK, Requests, TaskSteps
  <1>2. ArrivedWasEnqueued'
    <2>1. /\ Len(arrived') = Len(arrived) + 1
          /\ \A i \in 1..Len(arrived) : arrived'[i] = arrived[i] /\ arrived[i] \in Jobs
          /\ arrived'[Len(arrived) + 1] = j
      BY AppendProperties, ElementOfSeq DEF TypeOK
    <2>2. \A k \in Jobs : request[k] = "enqueued" => request'[k] = "enqueued"
      BY DEF TypeOK
    <2>3. request'[j] = "enqueued"
      BY DEF TypeOK
    <2>4. Len(arrived) \in Nat
      BY LenProperties DEF TypeOK
    <2> QED
      BY <2>1, <2>2, <2>3, <2>4 DEF ArrivedWasEnqueued
  <1>3. CASE processing
    <2>1. FifoNoLoss'
      <3>1. Append(taken \o queue, j) = taken \o Append(queue, j)
        <4>1. <<j>> \in Seq(Jobs) /\ taken \o queue \in Seq(Jobs)
          BY <1>0, ConcatProperties
        <4>2. Append(taken \o queue, j) = (taken \o queue) \o <<j>>
          BY <4>1, AppendIsConcat
        <4>3. Append(queue, j) = queue \o <<j>>
          BY <1>0, AppendIsConcat
        <4> QED  BY <1>0, <4>1, <4>2, <4>3, ConcatAssociative
      <3> QED
        BY <1>3, <3>1 DEF FifoNoLoss
    <2> QED
      BY <1>1, <1>2, <1>3, <2>1 DEF OneLauncher, NoStrandedItem, ItemsOfLiveTasks,
                                    LiveTasks
  <1>4. CASE ~ processing
    <2>1. LiveTasks' = {j}
      BY <1>4 DEF LiveTasks, OneLauncher, TypeOK
    <2>2. ItemsOfLiveTasks'
      BY <1>4 DEF ItemsOfLiveTasks, TypeOK
    <2>3. FifoNoLoss'
      <3>1. arrived = taken
        BY <1>4, ConcatEmptySeq DEF FifoNoLoss, NoStrandedItem, TypeOK
      <3>2. Append(taken, j) \in Seq(Jobs)
        BY AppendProperties DEF TypeOK
      <3>3. queue' = <<>> /\ arrived' = Append(arrived, j) /\ taken' = Append(taken, j)
        BY <1>4 DEF NoStrandedItem
      <3> QED
        BY <3>1, <3>2, <3>3, ConcatEmptySeq DEF FifoNoLoss
    <2> QED
      BY <1>1, <1>2, <1>4, <2>1, <2>2, <2>3 DEF OneLauncher, NoStrandedItem
  <1> QED  BY <1>3, <1>4

LEMMA DrainIInv ==
    ASSUME IInv, NEW t \in Jobs, Drain(t)
    PROVE  IInv'
  <1> USE DEF IInv, Drain, jobVars
  <1>0. processing /\ LiveTasks = {t}
    BY DEF OneLauncher, LiveTasks
  <1>1. CASE queue # <<>>
    <2>1. Head(queue) \in Jobs /\ Tail(queue) \in Seq(Jobs)
      BY <1>1 DEF TypeOK
    <2>2. TypeOK'
      <3>1. taken' \in Seq(Jobs)
        <4>1. taken \in Seq(Jobs) /\ Head(queue) \in Jobs
          BY <2>1 DEF TypeOK
        <4>2. Append(taken, Head(queue)) \in Seq(Jobs)
          BY ONLY <4>1, AppendProperties
        <4> QED  BY <1>1, <4>2
      <3>2. /\ pc' \in [Jobs -> TaskSteps]
            /\ item' \in [Jobs -> Jobs \cup {NoJob}]
        BY <1>1, <2>1 DEF TypeOK, TaskSteps
      <3> QED
        BY <1>1, <2>1, <3>1, <3>2 DEF TypeOK
    <2>3. LiveTasks' = {t}
      BY <1>0, <1>1 DEF LiveTasks, TypeOK
    <2>4. ItemsOfLiveTasks'
      BY <1>1, <2>1 DEF ItemsOfLiveTasks, TypeOK
    <2>5. taken' \o queue' = taken \o queue
      <3>1. taken \in Seq(Jobs) /\ queue \in Seq(Jobs)
        BY DEF TypeOK
      <3>2. Append(taken, Head(queue)) \o Tail(queue) = taken \o queue
        BY ONLY <1>1, <3>1, MoveHead
      <3> QED  BY <1>1, <3>2
    <2> QED
      BY <1>0, <1>1, <2>2, <2>3, <2>4, <2>5
         DEF OneLauncher, NoStrandedItem, FifoNoLoss, ArrivedWasEnqueued
  <1>2. CASE queue = <<>>
    <2>1. TypeOK'
      BY <1>2 DEF TypeOK, TaskSteps
    <2>2. LiveTasks' = {}
      BY <1>0, <1>2 DEF LiveTasks, TypeOK
    <2>3. ItemsOfLiveTasks'
      BY <1>2 DEF ItemsOfLiveTasks, TypeOK
    <2> QED
      BY <1>2, <2>1, <2>2, <2>3
         DEF OneLauncher, NoStrandedItem, FifoNoLoss, ArrivedWasEnqueued
  <1> QED  BY <1>1, <1>2

LEMMA RestartIInv ==
    ASSUME IInv, Restart
    PROVE  IInv'
  <1> USE DEF IInv, Restart, jobVars
  <1>1. TypeOK'
    <2>1. todo' \in [Jobs -> Seq(Work)]
      BY WorkLists
    <2>2. queue' \in Seq(Jobs) /\ arrived' \in Seq(Jobs) /\ taken' \in Seq(Jobs)
      OBVIOUS
    <2>3. restarts' \in 0..MaxRestarts
      BY JobsAssumption DEF TypeOK
    <2>4. request' \in [Jobs -> Requests]
      BY DEF TypeOK, Requests
    <2> QED
      BY <2>1, <2>2, <2>3, <2>4 DEF TypeOK, TaskSteps
  <1>2. LiveTasks' = {}
    BY DEF LiveTasks
  <1>3. FifoNoLoss'
    BY DEF FifoNoLoss
  <1> QED
    BY <1>1, <1>2, <1>3 DEF OneLauncher, NoStrandedItem, ItemsOfLiveTasks,
                            ArrivedWasEnqueued

\* Requests and user actions other than Enqueue touch neither queue nor tasks.
LEMMA RequestIInv ==
    ASSUME IInv, NEW j \in Jobs, Submit(j) \/ Abort(j) \/ Stop(j) \/ Delete(j)
    PROVE  IInv'
  <1> USE DEF IInv, queueVars, taskVars, histVars, jobVars
  <1>1. TypeOK'
    BY DEF TypeOK, Submit, Abort, Stop, Delete, SetByUser, Statuses, Holds, Requests
  <1>2. UNCHANGED <<queue, processing, pc, item, todo, arrived, taken>>
    BY DEF Submit, Abort, Stop, Delete, SetByUser
  <1>3. ArrivedWasEnqueued'
    <2>1. \A k \in Jobs : request[k] = "enqueued" => request'[k] = "enqueued"
      BY DEF TypeOK, Submit, Abort, Stop, Delete, SetByUser
    <2> QED
      BY <1>2, <2>1 DEF ArrivedWasEnqueued, TypeOK
  <1> QED
    BY <1>1, <1>2, <1>3 DEF OneLauncher, NoStrandedItem, FifoNoLoss,
                            ItemsOfLiveTasks, LiveTasks

LEMMA NextIInv == IInv /\ [Next]_vars => IInv'
  <1> SUFFICES ASSUME IInv, [Next]_vars PROVE IInv'
    OBVIOUS
  <1>1. ASSUME NEW j \in Jobs, UserStep(j) PROVE IInv'
    BY <1>1, EnqueueIInv, RequestIInv DEF UserStep
  <1>2. ASSUME NEW t \in Jobs, TaskStep(t) PROVE IInv'
    BY <1>2, DrainIInv, MoveIInv, TaskStepMoves DEF IInv
  <1>3. CASE Restart
    BY <1>3, RestartIInv
  <1>4. CASE UNCHANGED vars
    BY <1>4 DEF vars, queueVars, taskVars, jobVars, histVars, IInv, TypeOK,
                ItemsOfLiveTasks, OneLauncher, LiveTasks, NoStrandedItem,
                FifoNoLoss, ArrivedWasEnqueued
  <1> QED  BY <1>1, <1>2, <1>3, <1>4 DEF Next

\* The queue's state has its type in every reachable state.
THEOREM QueueTypeOK == Spec => []TypeOK
  <1>1. IInv => TypeOK
    BY DEF IInv
  <1> QED  BY <1>1, InitIInv, NextIInv, PTL DEF Spec

\* For any number of jobs, faults and restarts, at most one drain task exists
\* and the processing flag is set exactly while one does.
THEOREM QueueOneLauncher == Spec => []OneLauncher
  <1>1. IInv => OneLauncher
    BY DEF IInv
  <1> QED  BY <1>1, InitIInv, NextIInv, PTL DEF Spec

\* For any number of jobs, faults and restarts, no request that arrived since
\* the last restart is lost, taken twice or taken out of order.
THEOREM QueueFifoNoLoss == Spec => []FifoNoLoss
  <1>1. IInv => FifoNoLoss
    BY DEF IInv
  <1> QED  BY <1>1, InitIInv, NextIInv, PTL DEF Spec

-----------------------------------------------------------------------------
(* Refinement: the steps of the queue as steps of SerialLauncher. *)

LEMMA EnqueueArrives ==
    ASSUME IInv, NEW j \in Jobs, Enqueue(j)
    PROVE  Launcher!Arrive(j)
  <1> USE DEF Enqueue
  <1>1. \A i \in 1..Len(arrived) : arrived[i] # j
    BY DEF IInv, ArrivedWasEnqueued
  <1>2. CASE processing
    BY <1>1, <1>2 DEF Launcher!Arrive, IInv, TypeOK
  <1>3. CASE ~ processing
    <2>1. taken \in Seq(Jobs)
      BY DEF IInv, TypeOK
    <2>2. Len(Append(taken, j)) = Len(taken) + 1
      BY <2>1, AppendProperties
    <2> QED  BY <1>1, <1>3, <2>2 DEF Launcher!Arrive
  <1> QED  BY <1>2, <1>3

LEMMA DrainFinishes ==
    ASSUME IInv, NEW t \in Jobs, Drain(t)
    PROVE  Launcher!Finish
  <1> USE DEF Drain
  <1>1. processing
    BY DEF IInv, OneLauncher, LiveTasks
  <1>2. /\ taken \in Seq(Jobs) /\ queue \in Seq(Jobs) /\ arrived = taken \o queue
        /\ Len(taken) \in Nat /\ Len(queue) \in Nat
    BY LenProperties DEF IInv, TypeOK, FifoNoLoss
  <1>3. Len(arrived) = Len(taken) + Len(queue)
    BY <1>2, ConcatProperties
  <1>4. CASE queue # <<>>
    <2>1. Len(queue) > 0
      BY <1>2, <1>4, EmptySeq
    <2>2. Len(Append(taken, Head(queue))) = Len(taken) + 1
      BY <1>2, <1>4, HeadTailProperties, AppendProperties
    <2>3. processing' /\ taken' = Append(taken, Head(queue)) /\ arrived' = arrived
      BY <1>1, <1>4
    <2> QED
      BY <1>1, <1>2, <1>3, <2>1, <2>2, <2>3 DEF Launcher!Finish
  <1>5. CASE queue = <<>>
    <2>1. taken' = taken /\ processing' = FALSE /\ arrived' = arrived
      BY <1>5
    <2>2. Len(taken) = Len(arrived)
      BY <1>2, <1>3, <1>5, EmptySeq
    <2> QED
      BY ONLY <1>1, <2>1, <2>2 DEF Launcher!Finish
  <1> QED  BY <1>4, <1>5

LEMMA QueueStepRefines == IInv /\ [Next]_vars => [Launcher!Next]_(Launcher!vars)
  <1> SUFFICES ASSUME IInv, [Next]_vars
               PROVE  [Launcher!Next]_(Launcher!vars)
    OBVIOUS
  <1> USE DEF Launcher!vars, Launcher!Next, queueVars, histVars
  <1>1. ASSUME NEW j \in Jobs, UserStep(j)
        PROVE  [Launcher!Next]_(Launcher!vars)
    <2>1. CASE Enqueue(j)
      BY <2>1, EnqueueArrives
    <2>2. CASE ~ Enqueue(j)
      BY <1>1, <2>2 DEF UserStep, Submit, Abort, Stop, Delete, SetByUser
    <2> QED  BY <2>1, <2>2
  <1>2. ASSUME NEW t \in Jobs, TaskStep(t)
        PROVE  [Launcher!Next]_(Launcher!vars)
    <2>1. CASE Drain(t)
      BY <2>1, DrainFinishes
    <2>2. CASE ~ Drain(t)
      BY <1>2, <2>2, TaskStepMoves DEF IInv, TaskMoves
    <2> QED  BY <2>1, <2>2
  <1>3. CASE Restart
    <2>1. arrived' = <<>> /\ Len(taken') = 0 /\ processing' = FALSE
      BY <1>3 DEF Restart
    <2> QED  BY <2>1 DEF Launcher!Restart
  <1>4. CASE UNCHANGED vars
    BY <1>4 DEF vars
  <1> QED  BY <1>1, <1>2, <1>3, <1>4 DEF Next

\* Every step of the queue is a step of SerialLauncher on (arrived, number
\* taken, not processing), or leaves these unchanged: launches do not overlap,
\* start in arrival order, and the queue idles only when nobody waits.
THEOREM QueueRefinesLauncher == Spec => RefinementSafety
  <1>1. Init => Launcher!Init
    BY DEF Init, Launcher!Init
  <1> QED
    BY <1>1, QueueStepRefines, InitIInv, NextIInv, PTL DEF Spec, RefinementSafety

-----------------------------------------------------------------------------
(* Settlement of what the queue gave up on. *)

Paid(j) == usage[j] = 1 /\ hold[j] # "HELD"

\* What task t has left to do settles its job.
TaskSettles(t) ==
    LET j == item[t]
        Left(work) == \E i \in 1..Len(todo[t]) : todo[t][i] \in work IN
    /\ pc[t] \in {"picked", "launch", "running"} => status[j] # "FAILED"
    /\ j \notin FaultyJobs =>
          /\ pc[t] = "settle" => /\ Left({"charge"}) \/ usage[j] = 1
                                 /\ Left({"release", "lastRelease"}) \/ hold[j] # "HELD"
          /\ pc[t] = "drain" /\ status[j] = "FAILED" => Paid(j)

\* Until a restart: a job is picked up once, before it can be FAILED.
PickedUp(j)     == \E i \in 1..Len(taken) : taken[i] = j
FailedWasTaken  == \A j \in Jobs : status[j] = "FAILED" => PickedUp(j)
ItemsWereTaken  == \A t \in LiveTasks : PickedUp(item[t])
ArrivedOnce     == \A a, b \in 1..Len(arrived) : arrived[a] = arrived[b] => a = b
TasksSettle     == \A t \in LiveTasks : TaskSettles(t)
FailedIsPaid ==
    \A j \in Jobs \ FaultyJobs :
        (status[j] = "FAILED" /\ \A t \in LiveTasks : item[t] # j) => Paid(j)

HoldsOfHoldJobs == \A j \in Jobs : hold[j] = "HELD" => j \in HoldJobs

SettleInv ==
    /\ HoldsOfHoldJobs
    /\ restarts = 0 =>
          FailedWasTaken /\ ItemsWereTaken /\ ArrivedOnce /\ TasksSettle /\ FailedIsPaid

\* A step of task t changes its own job only.
OwnJob(t) ==
    /\ \A k \in Jobs \ {item[t]} : status'[k] = status[k] /\ usage'[k] = usage[k] /\ hold'[k] = hold[k]
    /\ hold'[item[t]] = "HELD" => hold[item[t]] = "HELD"

LEMMA BeginSettleSettles ==
    ASSUME IInv, SettleInv, NEW t \in Jobs, pc[t] # "none",
           NEW work \in {MissingWork, RaisedWork, OuterWork}, BeginSettle(t, work)
    PROVE  OwnJob(t) /\ TaskSettles(t)'
  <1>1. pc'[t] = "settle" /\ todo'[t] = work /\ UNCHANGED <<item, jobVars>>
    BY DEF BeginSettle, IInv, TypeOK
  <1>2. \/ Len(work) = 3 /\ work[2] \in {"charge"} /\ work[3] \in {"release"}
        \/ Len(work) = 3 /\ work[3] \in {"charge"} /\ work[1] \in {"release", "lastRelease"}
    <2>1. CASE work = MissingWork
      BY <2>1 DEF MissingWork
    <2>2. CASE work = RaisedWork
      BY <2>2 DEF RaisedWork
    <2>3. CASE work = OuterWork
      BY <2>3 DEF OuterWork
    <2> QED  BY <2>1, <2>2, <2>3
  <1>3. \E i \in 1..Len(work) : work[i] \in {"charge"}
    BY <1>2
  <1>4. \E i \in 1..Len(work) : work[i] \in {"release", "lastRelease"}
    BY <1>2
  <1> QED  BY <1>1, <1>3, <1>4 DEF OwnJob, TaskSettles, jobVars

\* What is left after the head of the list was done.
LEMMA DoneWork ==
    ASSUME NEW s \in Seq(Work), s # <<>>, NEW work
    PROVE  (\E i \in 1..Len(s) : s[i] \in work) =>
               Head(s) \in work \/ \E i \in 1..Len(Tail(s)) : Tail(s)[i] \in work
  <1>1. /\ Len(s) \in Nat \ {0} /\ Head(s) = s[1] /\ Len(Tail(s)) = Len(s) - 1
        /\ \A i \in 1..Len(Tail(s)) : Tail(s)[i] = s[i + 1]
    BY EmptySeq, HeadTailProperties
  <1>2. ASSUME NEW i \in 1..Len(s), s[i] \in work, i # 1
        PROVE  \E k \in 1..Len(Tail(s)) : Tail(s)[k] \in work
    <2>1. i - 1 \in 1..Len(Tail(s)) /\ Tail(s)[i - 1] = s[i]
      BY <1>1, <1>2
    <2> QED  BY <1>2, <2>1
  <1> QED  BY <1>1, <1>2

LEMMA SettleStepSettles ==
    ASSUME IInv, SettleInv, NEW t \in Jobs, TaskSettles(t), Settle(t)
    PROVE  OwnJob(t) /\ TaskSettles(t)'
  <1>0. PICK j \in Jobs : j = item[t]
    BY DEF Settle, IInv, ItemsOfLiveTasks
  <1> DEFINE Left(s, work) == \E i \in 1..Len(s) : s[i] \in work
             releases == {"release", "lastRelease"}
  <1>1. pc[t] = "settle" /\ pc' = pc /\ item' = item /\ todo[t] # <<>> /\ todo[t] \in Seq(Work)
    BY DEF Settle, IInv, TypeOK
  <1>2. todo'[t] = Tail(todo[t])
    BY DEF Settle, IInv, TypeOK
  <1>3. /\ j \notin FaultyJobs => /\ Left(todo[t], {"charge"}) \/ usage[j] = 1
                                  /\ Left(todo[t], releases) \/ hold[j] # "HELD"
    BY <1>0, <1>1 DEF TaskSettles
  <1>4. ASSUME NEW work, Left(todo[t], work)
        PROVE  Head(todo[t]) \in work \/ Left(Tail(todo[t]), work)
    <2>1. PICK s : s = todo[t]
      OBVIOUS
    <2>2. s \in Seq(Work) /\ s # <<>> /\ \E i \in 1..Len(s) : s[i] \in work
      BY <1>1, <1>4, <2>1
    <2>3. Head(s) \in work \/ \E i \in 1..Len(Tail(s)) : Tail(s)[i] \in work
      BY <2>2, DoneWork
    <2> QED  BY <2>1, <2>3
  <1>5. /\ OwnJob(t)
        /\ j \notin FaultyJobs /\ Head(todo[t]) = "charge" => usage'[j] = 1
        /\ usage[j] = 1 => usage'[j] = 1
        /\ Head(todo[t]) \in releases => hold'[j] # "HELD"
    <2>1. status \in [Jobs -> Statuses] /\ hold \in [Jobs -> Holds] /\ usage \in [Jobs -> {0, 1}]
      BY DEF IInv, TypeOK
    <2>2. hold[j] = "HELD" => j \in HoldJobs
      BY DEF SettleInv, HoldsOfHoldJobs
    <2>3. CASE ReleaseHold(t)
      BY <1>0, <2>1, <2>2, <2>3 DEF ReleaseHold, OwnJob
    <2>4. CASE MarkFailed(t)
      BY <1>0, <2>1, <2>4 DEF MarkFailed, OwnJob
    <2>5. CASE ChargeFailed(t)
      BY <1>0, <2>1, <2>5 DEF ChargeFailed, OwnJob
    <2> QED  BY <2>3, <2>4, <2>5 DEF Settle
  <1>6. j \notin FaultyJobs => /\ Left(Tail(todo[t]), {"charge"}) \/ usage'[j] = 1
                               /\ Left(Tail(todo[t]), releases) \/ hold'[j] # "HELD"
    <2> SUFFICES ASSUME j \notin FaultyJobs
                 PROVE  /\ Left(Tail(todo[t]), {"charge"}) \/ usage'[j] = 1
                        /\ Left(Tail(todo[t]), releases) \/ hold'[j] # "HELD"
      OBVIOUS
    <2> HIDE DEF Left, releases
    <2>1. Left(todo[t], {"charge"}) => Head(todo[t]) = "charge" \/ Left(Tail(todo[t]), {"charge"})
      BY <1>4
    <2>2. Left(todo[t], releases) => Head(todo[t]) \in releases \/ Left(Tail(todo[t]), releases)
      BY <1>4
    <2>3. hold'[j] = "HELD" => hold[j] = "HELD"
      BY <1>0, <1>5 DEF OwnJob
    <2> QED  BY <1>3, <1>5, <2>1, <2>2, <2>3
  <1> QED  BY <1>0, <1>1, <1>2, <1>5, <1>6 DEF TaskSettles

LEMMA TaskStepSettles ==
    ASSUME IInv, SettleInv, NEW t \in Jobs, TaskSettles(t), TaskStep(t), ~ Drain(t)
    PROVE  OwnJob(t) /\ TaskSettles(t)'
  <1>0. PICK j \in Jobs : j = item[t] /\ pc[t] # "none"
    BY TaskStepMoves DEF IInv, ItemsOfLiveTasks, TaskMoves
  <1> USE DEF IInv, TypeOK
  <1>1. CASE ProviderMissing(t)
    BY <1>0, <1>1, BeginSettleSettles DEF ProviderMissing
  <1>2. CASE Announce(t)
    <2>1. /\ status' = [status EXCEPT ![j] = InitialStatus(j)] /\ pc'[t] = "launch"
          /\ UNCHANGED <<item, hold, usage>>
      BY <1>0, <1>2 DEF Announce, Goto
    <2> QED  BY <1>0, <2>1 DEF OwnJob, TaskSettles, InitialStatus
  <1>3. CASE PrepareFails(t)
    BY <1>0, <1>3, BeginSettleSettles DEF PrepareFails
  <1>4. CASE StartLaunch(t)
    <2>1. pc[t] = "launch" /\ pc'[t] = "running" /\ UNCHANGED <<item, status, hold, usage>>
      BY <1>4 DEF StartLaunch, Goto, jobVars
    <2> QED  BY <2>1 DEF OwnJob, TaskSettles
  <1>5. CASE LaunchSucceeds(t)
    <2>1. pc[t] = "running" /\ pc'[t] = "drain" /\ UNCHANGED <<item, status, hold, usage>>
      BY <1>5 DEF LaunchSucceeds, Goto, jobVars
    <2> QED  BY <2>1 DEF OwnJob, TaskSettles
  <1>6. CASE LaunchRaises(t)
    BY <1>0, <1>6, BeginSettleSettles DEF LaunchRaises
  <1>7. CASE Settle(t)
    BY <1>7, SettleStepSettles
  <1>8. CASE ReleaseRaises(t)
    <2>1. j \in FaultyJobs /\ pc[t] = "settle" /\ UNCHANGED <<pc, item, status, hold, usage>>
      BY <1>0, <1>8 DEF ReleaseRaises, jobVars
    <2> QED  BY <1>0, <2>1 DEF OwnJob, TaskSettles
  <1>9. CASE Settled(t)
    <2>1. pc[t] = "settle" /\ pc'[t] = "drain" /\ todo[t] = <<>>
          /\ UNCHANGED <<item, status, hold, usage>>
      BY <1>9 DEF Settled, Goto, jobVars
    <2>2. \A i \in 1..Len(todo[t]) : FALSE
      BY <2>1
    <2> QED  BY <2>1, <2>2 DEF OwnJob, TaskSettles, Paid
  <1> QED
    BY <1>1, <1>2, <1>3, <1>4, <1>5, <1>6, <1>7, <1>8, <1>9 DEF TaskStep

LEMMA HoldsShrink ==
    ASSUME IInv, NEW t \in Jobs, TaskStep(t), NEW k \in Jobs, hold'[k] = "HELD"
    PROVE  hold[k] = "HELD"
  <1>1. hold \in [Jobs -> Holds]
    BY DEF IInv, TypeOK
  <1>2. CASE Settle(t)
    BY <1>1, <1>2 DEF Settle, ReleaseHold, MarkFailed, ChargeFailed
  <1>3. CASE UNCHANGED hold
    BY <1>3
  <1> QED
    BY <1>2, <1>3 DEF TaskStep, ProviderMissing, Announce, PrepareFails, StartLaunch, LaunchSucceeds,
       LaunchRaises, ReleaseRaises, Settled, Drain, BeginSettle, jobVars

LEMMA MoveSettles ==
    ASSUME IInv, SettleInv, NEW t \in Jobs, TaskStep(t), ~ Drain(t)
    PROVE  SettleInv'
  <1>1. TaskMoves(t)
    BY TaskStepMoves DEF IInv
  <1>2. /\ UNCHANGED <<queue, item, restarts, arrived, taken>> /\ LiveTasks = {t}
        /\ pc'[t] # "none" /\ \A u \in Jobs \ {t} : pc'[u] = pc[u]
        /\ item[t] \in Jobs
    BY <1>1 DEF TaskMoves, IInv, TypeOK, OneLauncher, LiveTasks, ItemsOfLiveTasks
  <1>3. LiveTasks' = {t}
    BY <1>2 DEF LiveTasks
  <1>4. ASSUME restarts = 0 PROVE OwnJob(t) /\ TaskSettles(t)'
    <2>1. TaskSettles(t)
      BY <1>2, <1>4 DEF SettleInv, TasksSettle
    <2> QED  BY <2>1, TaskStepSettles
  <1>5. HoldsOfHoldJobs'
    <2>1. \A k \in Jobs : hold'[k] = "HELD" => hold[k] = "HELD"
      BY HoldsShrink
    <2> QED  BY <2>1 DEF SettleInv, HoldsOfHoldJobs
  <1>6. ASSUME restarts = 0
        PROVE  (FailedWasTaken /\ ItemsWereTaken /\ ArrivedOnce /\ TasksSettle /\ FailedIsPaid)'
    <2>1. FailedWasTaken /\ ItemsWereTaken /\ ArrivedOnce /\ FailedIsPaid
      BY <1>6 DEF SettleInv
    <2>2. PickedUp(item[t])
      BY <1>2, <2>1 DEF ItemsWereTaken
    <2>3. \A j : PickedUp(j)' <=> PickedUp(j)
      BY <1>2 DEF PickedUp
    <2>4. FailedWasTaken'
      BY <1>2, <1>4, <1>6, <2>1, <2>2, <2>3 DEF FailedWasTaken, OwnJob
    <2>5. ItemsWereTaken' /\ ArrivedOnce'
      BY <1>2, <1>3, <2>1, <2>2 DEF ItemsWereTaken, ArrivedOnce, PickedUp
    <2>6. TasksSettle'
      BY <1>3, <1>4, <1>6 DEF TasksSettle, TaskSettles, Paid
    <2>7. FailedIsPaid'
      BY <1>2, <1>3, <1>4, <1>6, <2>1 DEF FailedIsPaid, OwnJob, Paid
    <2> QED  BY <2>4, <2>5, <2>6, <2>7
  <1> QED  BY <1>2, <1>5, <1>6 DEF SettleInv

LEMMA EnqueueSettles ==
    ASSUME IInv, SettleInv, NEW j \in Jobs, Enqueue(j)
    PROVE  SettleInv'
  <1>1. /\ request[j] = "submitted" /\ arrived' = Append(arrived, j)
        /\ UNCHANGED <<status, usage, hold, restarts, todo>>
    BY DEF Enqueue, jobVars, taskVars
  <1>2. arrived \in Seq(Jobs) /\ taken \in Seq(Jobs) /\ queue \in Seq(Jobs)
    BY DEF IInv, TypeOK
  <1>3. \A i \in 1..Len(arrived) : arrived[i] # j
    BY <1>1 DEF IInv, ArrivedWasEnqueued
  <1>4. ASSUME ArrivedOnce PROVE ArrivedOnce'
    <2>1. /\ Len(arrived') = Len(arrived) + 1 /\ arrived'[Len(arrived) + 1] = j
          /\ \A i \in 1..Len(arrived) : arrived'[i] = arrived[i]
          /\ Len(arrived) \in Nat
      BY <1>1, <1>2, AppendProperties
    <2>2. \A i \in 1..Len(arrived') : i \in 1..Len(arrived) \/ i = Len(arrived) + 1
      BY <2>1
    <2> QED  BY <1>3, <1>4, <2>1, <2>2 DEF ArrivedOnce
  <1>5. ~ PickedUp(j)
    <2> SUFFICES ASSUME NEW i \in 1..Len(taken), taken[i] = j PROVE FALSE
      BY DEF PickedUp
    <2>1. i \in 1..Len(arrived) /\ arrived[i] = taken[i]
      BY <1>2, ConcatProperties DEF IInv, FifoNoLoss
    <2> QED  BY <1>3, <2>1
  <1>6. CASE processing
    <2>1. UNCHANGED <<pc, item, taken>>
      BY <1>6 DEF Enqueue, taskVars
    <2> QED
      BY <1>1, <1>4, <2>1 DEF SettleInv, HoldsOfHoldJobs, FailedWasTaken, ItemsWereTaken, TasksSettle,
         TaskSettles, FailedIsPaid, Paid, PickedUp, LiveTasks
  <1>7. CASE ~ processing
    <2>1. /\ pc' = [pc EXCEPT ![j] = "picked"] /\ item' = [item EXCEPT ![j] = j]
          /\ taken' = Append(taken, j)
      BY <1>7 DEF Enqueue
    <2>2. /\ LiveTasks = {} /\ pc'[j] = "picked" /\ item'[j] = j
          /\ \A t \in Jobs \ {j} : pc'[t] = pc[t]
      BY <1>7, <2>1 DEF IInv, OneLauncher, TypeOK
    <2>3. LiveTasks' = {j}
      BY <2>2 DEF LiveTasks
    <2>4. /\ Len(taken') = Len(taken) + 1 /\ taken'[Len(taken) + 1] = j /\ Len(taken) \in Nat
          /\ \A i \in 1..Len(taken) : taken'[i] = taken[i]
      BY <1>2, <2>1, AppendProperties
    <2>5. PickedUp(j)' /\ \A k : PickedUp(k) => PickedUp(k)'
      BY <2>4 DEF PickedUp
    <2>6. ASSUME restarts = 0
          PROVE  (FailedWasTaken /\ ItemsWereTaken /\ ArrivedOnce /\ TasksSettle /\ FailedIsPaid)'
      <3>1. FailedWasTaken /\ ArrivedOnce /\ FailedIsPaid
        BY <2>6 DEF SettleInv
      <3>2. status[j] # "FAILED"
        BY <1>5, <3>1 DEF FailedWasTaken
      <3>3. FailedWasTaken'
        BY <1>1, <2>5, <3>1 DEF FailedWasTaken
      <3>4. ItemsWereTaken'
        BY <2>2, <2>3, <2>4 DEF ItemsWereTaken, PickedUp
      <3>5. TasksSettle'
        BY <1>1, <2>2, <2>3, <3>2 DEF TasksSettle, TaskSettles, Paid
      <3>6. FailedIsPaid'
        BY <1>1, <2>2, <2>3, <3>1, <3>2 DEF FailedIsPaid, Paid
      <3> QED  BY <1>4, <3>1, <3>3, <3>4, <3>5, <3>6
    <2> QED  BY <1>1, <2>6 DEF SettleInv, HoldsOfHoldJobs
  <1> QED  BY <1>6, <1>7

LEMMA DrainSettles ==
    ASSUME IInv, SettleInv, NEW t \in Jobs, Drain(t)
    PROVE  SettleInv'
  <1>1. /\ pc[t] = "drain" /\ UNCHANGED <<todo, status, hold, usage, request, restarts, arrived>>
    BY DEF Drain, jobVars
  <1>2. /\ arrived \in Seq(Jobs) /\ taken \in Seq(Jobs) /\ queue \in Seq(Jobs)
        /\ LiveTasks = {t} /\ arrived = taken \o queue
    BY <1>1 DEF IInv, TypeOK, OneLauncher, LiveTasks, FifoNoLoss
  <1>3. restarts = 0 =>
            /\ FailedWasTaken /\ ArrivedOnce /\ FailedIsPaid
            /\ \A j \in Jobs \ FaultyJobs : status[j] = "FAILED" => Paid(j)
    <2> SUFFICES ASSUME restarts = 0
                 PROVE  /\ FailedWasTaken /\ ArrivedOnce /\ FailedIsPaid
                        /\ \A j \in Jobs \ FaultyJobs : status[j] = "FAILED" => Paid(j)
      OBVIOUS
    <2>1. FailedWasTaken /\ ArrivedOnce /\ FailedIsPaid /\ TaskSettles(t)
      BY <1>2 DEF SettleInv, TasksSettle
    <2>2. ASSUME NEW j \in Jobs \ FaultyJobs, status[j] = "FAILED" PROVE Paid(j)
      <3>1. CASE item[t] = j
        BY <1>1, <2>1, <2>2, <3>1 DEF TaskSettles
      <3>2. CASE item[t] # j
        BY <1>2, <2>1, <2>2, <3>2 DEF FailedIsPaid
      <3> QED  BY <3>1, <3>2
    <2> QED  BY <2>1, <2>2
  <1>4. HoldsOfHoldJobs'
    BY <1>1 DEF SettleInv, HoldsOfHoldJobs
  <1>5. ArrivedOnce => ArrivedOnce'
    BY <1>1 DEF ArrivedOnce
  <1>6. FailedIsPaid' \/ restarts # 0
    BY <1>1, <1>3 DEF FailedIsPaid, Paid
  <1>7. CASE queue = <<>>
    <2>1. /\ pc' = [pc EXCEPT ![t] = "none"] /\ taken' = taken
      BY <1>1, <1>7 DEF Drain
    <2>2. LiveTasks' = {}
      BY <1>2, <2>1 DEF LiveTasks, IInv, TypeOK
    <2>3. FailedWasTaken => FailedWasTaken'
      BY <1>1, <2>1 DEF FailedWasTaken, PickedUp
    <2> QED
      BY <1>1, <1>3, <1>4, <1>5, <1>6, <2>2, <2>3 DEF SettleInv, ItemsWereTaken, TasksSettle
  <1>8. CASE queue # <<>>
    <2>1. PICK h : h = Head(queue)
      OBVIOUS
    <2>2. /\ pc' = [pc EXCEPT ![t] = "picked"] /\ item' = [item EXCEPT ![t] = h]
          /\ taken' = Append(taken, h)
      BY <1>1, <1>8, <2>1 DEF Drain
    <2>3. h \in Jobs /\ h = queue[1] /\ Len(queue) \in Nat \ {0} /\ Len(taken) \in Nat
      BY <1>2, <1>8, <2>1, HeadTailProperties, EmptySeq
    <2>4. pc'[t] = "picked" /\ item'[t] = h /\ LiveTasks' = {t}
      BY <1>2, <2>2 DEF LiveTasks, IInv, TypeOK
    <2>5. /\ Len(taken') = Len(taken) + 1 /\ taken'[Len(taken) + 1] = h
          /\ \A i \in 1..Len(taken) : taken'[i] = taken[i]
      BY <1>2, <2>2, <2>3, AppendProperties
    <2>6. PickedUp(h)' /\ \A k : PickedUp(k) => PickedUp(k)'
      BY <2>3, <2>5 DEF PickedUp
    <2>7. ArrivedOnce => ~ PickedUp(h)
      <3> SUFFICES ASSUME ArrivedOnce, NEW i \in 1..Len(taken), taken[i] = h PROVE FALSE
        BY DEF PickedUp
      <3>1. /\ Len(arrived) = Len(taken) + Len(queue)
            /\ arrived[i] = taken[i] /\ arrived[Len(taken) + 1] = queue[1]
        BY <1>2, <2>3, ConcatProperties
      <3>2. i \in 1..Len(arrived) /\ Len(taken) + 1 \in 1..Len(arrived) /\ i # Len(taken) + 1
        BY <2>3, <3>1
      <3> QED  BY <2>3, <3>1, <3>2 DEF ArrivedOnce
    <2>8. ASSUME restarts = 0 PROVE (FailedWasTaken /\ ItemsWereTaken /\ TasksSettle)'
      <3>1. status[h] # "FAILED"
        BY <1>3, <2>3, <2>7, <2>8 DEF FailedWasTaken
      <3>2. FailedWasTaken'
        BY <1>1, <1>3, <2>6, <2>8 DEF FailedWasTaken
      <3>3. ItemsWereTaken'
        BY <2>3, <2>4, <2>5 DEF ItemsWereTaken, PickedUp
      <3>4. TasksSettle'
        BY <1>1, <2>4, <3>1 DEF TasksSettle, TaskSettles, Paid
      <3> QED  BY <3>2, <3>3, <3>4
    <2> QED  BY <1>1, <1>3, <1>4, <1>5, <1>6, <2>8 DEF SettleInv
  <1> QED  BY <1>7, <1>8

LEMMA RequestSettles ==
    ASSUME IInv, SettleInv, NEW j \in Jobs, Submit(j) \/ Abort(j) \/ Stop(j) \/ Delete(j)
    PROVE  SettleInv'
  <1>1. UNCHANGED <<pc, item, todo, usage, restarts, arrived, taken>>
    BY DEF Submit, Abort, Stop, Delete, SetByUser, taskVars, jobVars, histVars
  <1>2. CASE Abort(j)
    <2>1. UNCHANGED <<status, hold>>
      BY <1>2 DEF Abort, jobVars
    <2> QED
      BY <1>1, <2>1 DEF SettleInv, HoldsOfHoldJobs, FailedWasTaken, ItemsWereTaken, ArrivedOnce,
         TasksSettle, TaskSettles, FailedIsPaid, Paid, PickedUp, LiveTasks
  <1>3. CASE Stop(j) \/ Delete(j)
    <2>1. /\ UNCHANGED hold /\ status'[j] # "FAILED"
          /\ \A k \in Jobs \ {j} : status'[k] = status[k]
      BY <1>3 DEF Stop, Delete, SetByUser, IInv, TypeOK
    <2>2. \A k \in Jobs : status'[k] = "FAILED" => status[k] = "FAILED"
      BY <2>1
    <2>3. \A t \in LiveTasks : item[t] \in Jobs
      BY DEF LiveTasks, IInv, ItemsOfLiveTasks
    <2> QED
      BY <1>1, <2>1, <2>2, <2>3 DEF SettleInv, HoldsOfHoldJobs, FailedWasTaken, ItemsWereTaken,
         ArrivedOnce, TasksSettle, TaskSettles, FailedIsPaid, Paid, PickedUp, LiveTasks
  <1>4. CASE Submit(j)
    <2>1. /\ request[j] = "none" /\ status'[j] = "WAITING"
          /\ hold'[j] = IF j \in HoldJobs THEN "HELD" ELSE "NONE"
          /\ \A k \in Jobs \ {j} : status'[k] = status[k] /\ hold'[k] = hold[k]
      BY <1>4 DEF Submit, IInv, TypeOK
    <2>2. ~ PickedUp(j)
      <3> SUFFICES ASSUME NEW i \in 1..Len(taken), taken[i] = j PROVE FALSE
        BY DEF PickedUp
      <3>1. i \in 1..Len(arrived) /\ arrived[i] = taken[i]
        BY ConcatProperties DEF IInv, TypeOK, FifoNoLoss
      <3> QED  BY <2>1, <3>1 DEF IInv, ArrivedWasEnqueued
    <2>3. HoldsOfHoldJobs'
      BY <2>1 DEF SettleInv, HoldsOfHoldJobs
    <2>4. ASSUME restarts = 0
          PROVE  (FailedWasTaken /\ ItemsWereTaken /\ ArrivedOnce /\ TasksSettle /\ FailedIsPaid)'
      <3>1. FailedWasTaken /\ ItemsWereTaken /\ ArrivedOnce /\ TasksSettle /\ FailedIsPaid
        BY <2>4 DEF SettleInv
      <3>2. \A t \in LiveTasks : item[t] \in Jobs \ {j}
        BY <2>2, <3>1 DEF LiveTasks, IInv, ItemsOfLiveTasks, ItemsWereTaken
      <3>3. FailedWasTaken' /\ ItemsWereTaken' /\ ArrivedOnce'
        BY <1>1, <2>1, <3>1 DEF FailedWasTaken, ItemsWereTaken, ArrivedOnce, PickedUp, LiveTasks
      <3>4. TasksSettle'
        BY <1>1, <2>1, <3>1, <3>2 DEF TasksSettle, TaskSettles, Paid, LiveTasks
      <3>5. FailedIsPaid'
        BY <1>1, <2>1, <3>1 DEF FailedIsPaid, Paid, LiveTasks
      <3> QED  BY <3>3, <3>4, <3>5
    <2> QED  BY <1>1, <2>3, <2>4 DEF SettleInv
  <1> QED  BY <1>2, <1>3, <1>4

LEMMA InitSettles == Init => SettleInv
  BY DEF Init, SettleInv, HoldsOfHoldJobs, FailedWasTaken, ItemsWereTaken, ArrivedOnce, TasksSettle,
     FailedIsPaid, LiveTasks

LEMMA NextSettles == IInv /\ SettleInv /\ [Next]_vars => SettleInv'
  <1> SUFFICES ASSUME IInv, SettleInv, [Next]_vars PROVE SettleInv'
    OBVIOUS
  <1>1. ASSUME NEW j \in Jobs, UserStep(j) PROVE SettleInv'
    BY <1>1, EnqueueSettles, RequestSettles DEF UserStep
  <1>2. ASSUME NEW t \in Jobs, TaskStep(t) PROVE SettleInv'
    BY <1>2, DrainSettles, MoveSettles
  <1>3. CASE Restart
    <2>1. restarts' # 0 /\ UNCHANGED hold
      BY <1>3 DEF Restart, jobVars, IInv, TypeOK
    <2> QED  BY <2>1 DEF SettleInv, HoldsOfHoldJobs
  <1>4. CASE UNCHANGED vars
    <2>1. UNCHANGED <<pc, item, todo, status, hold, usage, restarts, arrived, taken>>
      BY <1>4 DEF vars, taskVars, jobVars, histVars
    <2> QED
      BY <2>1 DEF SettleInv, HoldsOfHoldJobs, FailedWasTaken, ItemsWereTaken, ArrivedOnce,
         TasksSettle, TaskSettles, FailedIsPaid, Paid, PickedUp, LiveTasks
  <1> QED  BY <1>1, <1>2, <1>3, <1>4 DEF Next

\* Whatever users do meanwhile: until a restart, and unless the database fails
\* the job's own calls, a job the queue gave up on is charged and holds no quota
\* once its settlement is over (_process_launch_item, _run_and_drain).
THEOREM QueueFailedIsSettled == Spec => []FailedIsSettled
  <1>1. SettleInv => FailedIsSettled
    BY DEF SettleInv, FailedIsPaid, Paid, FailedIsSettled
  <1> QED  BY <1>1, InitIInv, NextIInv, InitSettles, NextSettles, PTL DEF Spec


-----------------------------------------------------------------------------
(* The server: the processes that the launches start. *)

\* The types of the provider's variables are needed to know what a launch thread
\* leaves of the other jobs; otherwise AliveIsRegistered is inductive as it is.
ServerIInv == P!ProviderTypeOK /\ AliveIsRegistered

LEMMA ServerStart == ServerInit => ServerIInv
  <1> SUFFICES ASSUME ServerInit PROVE ServerIInv
    OBVIOUS
  <1>1. /\ phase = [j \in Jobs |-> "idle"] /\ proc = [j \in Jobs |-> "none"]
        /\ pidFile = [j \in Jobs |-> "none"] /\ poll = P!Idle
        /\ registered = {} /\ killing = {} /\ cut = {}
    BY DEF ServerInit, P!ProviderInit
  <1>2. closing \in BOOLEAN
    BY DEF ServerInit, P!ProviderInit
  <1> QED
    BY <1>1, <1>2 DEF ServerIInv, AliveIsRegistered, P!ProviderTypeOK, P!Phases, P!Idle

\* A step of a launch thread.
LEMMA ThreadKeeps ==
    ASSUME ServerIInv, NEW j \in Jobs, P!LaunchStep(j)
    PROVE  ServerIInv'
  <1>1. CASE P!Spawn(j)
    <2>1. P!ProviderTypeOK'
      BY <1>1 DEF ServerIInv, P!endVars, P!Spawn, P!Move, P!ProviderTypeOK, P!Phases
    <2>2. AliveIsRegistered'
      BY <1>1 DEF ServerIInv, P!endVars, P!Spawn, P!Move, P!ProviderTypeOK, AliveIsRegistered
    <2> QED  BY <2>1, <2>2 DEF ServerIInv
  <1>2. CASE P!WritePid(j)
    <2>1. P!ProviderTypeOK'
      BY <1>2 DEF ServerIInv, P!endVars, P!WritePid, P!Move, P!ProviderTypeOK, P!Phases
    <2>2. AliveIsRegistered'
      BY <1>2 DEF ServerIInv, P!endVars, P!WritePid, P!Move, P!ProviderTypeOK, AliveIsRegistered
    <2> QED  BY <2>1, <2>2 DEF ServerIInv
  <1>3. CASE P!Register(j)
    <2>1. P!ProviderTypeOK'
      BY <1>3 DEF ServerIInv, P!endVars, P!Register, P!Move, P!ProviderTypeOK, P!Phases
    <2>2. AliveIsRegistered'
      BY <1>3 DEF ServerIInv, P!endVars, P!Register, P!Move, P!ProviderTypeOK, AliveIsRegistered
    <2> QED  BY <2>1, <2>2 DEF ServerIInv
  <1>4. CASE P!Raise(j)
    <2>1. P!ProviderTypeOK'
      BY <1>4 DEF ServerIInv, P!endVars, P!Raise, P!ProviderTypeOK, P!Phases
    <2>2. AliveIsRegistered'
      BY <1>4 DEF ServerIInv, P!endVars, P!Raise, P!ProviderTypeOK, AliveIsRegistered
    <2> QED  BY <2>1, <2>2 DEF ServerIInv
  <1> QED
    BY <1>1, <1>2, <1>3, <1>4 DEF P!LaunchStep

\* Whoever took an entry out terminates its process.
LEMMA TerminationKeeps ==
    ASSUME ServerIInv, NEW j \in Jobs, P!Terminate(j)
    PROVE  ServerIInv'
  <1>1. P!ProviderTypeOK'
    BY DEF ServerIInv, P!endVars, P!Terminate, P!ProviderTypeOK
  <1>2. AliveIsRegistered'
    BY DEF ServerIInv, P!endVars, P!Terminate, P!ProviderTypeOK, AliveIsRegistered
  <1> QED  BY <1>1, <1>2 DEF ServerIInv

\* What the queue, the user and the worker do to the provider.
LEMMA OthersKeep ==
    ASSUME ServerIInv, NEW j \in Jobs,
           Request(j) \/ Task(j) \/ Process(j) \/ UserStop(j) \/ Look(j)
    PROVE  ServerIInv'
  <1>1. ASSUME UNCHANGED provVars PROVE ServerIInv'
    BY <1>1 DEF ServerIInv, provVars, endVars, P!ProviderTypeOK, AliveIsRegistered
  <1>2. CASE Request(j)
    BY <1>1, <1>2 DEF Request
  <1>3. CASE Task(j)
    <2>1. CASE Launch(j)
      <3>1. P!Begin(item[j])
        BY <2>1 DEF Launch
      <3>2. P!ProviderTypeOK'
        BY <3>1 DEF ServerIInv, P!endVars, P!Begin, P!Move, P!ProviderTypeOK, P!Phases
      <3>3. AliveIsRegistered'
        BY <3>1 DEF ServerIInv, P!endVars, P!Begin, P!Move, P!ProviderTypeOK, AliveIsRegistered
      <3> QED  BY <3>2, <3>3 DEF ServerIInv
    <2> QED
      BY <1>1, <1>3, <2>1 DEF Task, TaskAlone, Launched, NotLaunched
  <1>4. CASE Process(j)
    BY <1>4 DEF Process, P!ProcessEnds, P!endVars, ServerIInv, P!ProviderTypeOK, AliveIsRegistered
  <1>5. CASE UserStop(j)
    BY <1>5 DEF UserStop, P!StopCluster, P!endVars, ServerIInv, P!ProviderTypeOK, AliveIsRegistered
  <1>6. CASE Look(j)
    BY <1>6 DEF Look, P!Look, P!Verdict, P!endVars, ServerIInv, P!ProviderTypeOK, AliveIsRegistered
  <1> QED
    BY <1>2, <1>3, <1>4, <1>5, <1>6

\* kill_all hands what it takes out of the registry to the terminations that
\* follow; a crash cuts those, and the launches that were starting.
LEMMA EndsKeep ==
    ASSUME ServerIInv, KillAll \/ ShutDown \/ Crash
    PROVE  ServerIInv'
  <1>1. CASE KillAll
    <2>1. P!ProviderTypeOK'
      BY <1>1 DEF KillAll, P!EmptyRegistry, P!Idle, ServerIInv, P!ProviderTypeOK
    <2>2. AliveIsRegistered'
      BY <1>1 DEF KillAll, P!EmptyRegistry, ServerIInv, AliveIsRegistered
    <2> QED  BY <2>1, <2>2 DEF ServerIInv
  <1>2. CASE ShutDown
    <2>1. UNCHANGED <<phase, proc, pidFile, registered, killing, poll, cut>> /\ closing' = FALSE
      BY <1>2 DEF ShutDown, P!ShutDown
    <2> QED
      BY <2>1 DEF ServerIInv, P!endVars, P!ProviderTypeOK, AliveIsRegistered
  <1>3. CASE Crash
    <2>1. P!ProviderTypeOK'
      BY <1>3 DEF Crash, P!Crash, P!Idle, ServerIInv, P!ProviderTypeOK, P!Phases
    <2>2. AliveIsRegistered'
      BY <1>3 DEF Crash, P!Crash, P!Starting, ServerIInv, P!ProviderTypeOK, AliveIsRegistered
    <2> QED  BY <2>1, <2>2 DEF ServerIInv
  <1> QED  BY <1>1, <1>2, <1>3

LEMMA ServerStep == ServerIInv /\ [ServerNext]_serverVars => ServerIInv'
  <1> SUFFICES ASSUME ServerIInv, [ServerNext]_serverVars PROVE ServerIInv'
    OBVIOUS
  <1>1. CASE UNCHANGED serverVars
    BY <1>1 DEF serverVars, provVars, endVars, ServerIInv, P!ProviderTypeOK, AliveIsRegistered
  <1>2. CASE ServerNext
    <2>1. ASSUME NEW j \in Jobs, Thread(j) PROVE ServerIInv'
      BY <2>1, ThreadKeeps, TerminationKeeps DEF Thread
    <2>2. ASSUME Judge PROVE ServerIInv'
      BY <2>2 DEF Judge, P!Write, P!Idle, P!endVars, ServerIInv, P!ProviderTypeOK, AliveIsRegistered
    <2> QED
      BY <1>2, <2>1, <2>2, OthersKeep, EndsKeep DEF ServerNext, OnLoop
  <1> QED
    BY <1>1, <1>2

\* The provider's variables keep their types, whatever the queue, the users, the
\* worker and the ends of the server do: the next theorem rests on it.
THEOREM ProcessesKeepTypes == ServerSpec => []P!ProviderTypeOK
  <1>1. ServerIInv => P!ProviderTypeOK
    BY DEF ServerIInv
  <1> QED
    BY <1>1, ServerStart, ServerStep, PTL DEF ServerSpec

\* ProcessRegistry.register and kill_all, with launch_cluster: for any jobs and
\* any number of restarts, a process that runs when the thread that started it is
\* through has its entry, so that the next shutdown kills it.
THEOREM AliveStaysRegistered == ServerSpec => []AliveIsRegistered
  <1>1. ServerIInv => AliveIsRegistered
    BY DEF ServerIInv
  <1> QED
    BY <1>1, ServerStart, ServerStep, PTL DEF ServerSpec

-----------------------------------------------------------------------------
(* The server: what the provider, users and the worker leave of the queue. *)

\* The worker's verdict is one that ends a job.
VerdictEnds == poll # P!Idle => poll.verdict \in {"STOPPED", "FAILED", "COMPLETE"}

QueueInServer == IInv /\ P!ProviderTypeOK /\ VerdictEnds

\* A step of the server is a step of the queue, or the worker writes a status.
LEMMA ServerStepOfQueue ==
    ASSUME [ServerNext]_serverVars
    PROVE  [Next]_vars \/ Judge
  <1>1. ASSUME NEW j \in Jobs, Request(j) \/ Task(j) PROVE Next
    BY <1>1 DEF Request, Task, TaskAlone, Launch, Launched, NotLaunched,
                Next, UserStep, TaskStep
  <1>2. ASSUME NEW j \in Jobs, Thread(j) \/ Process(j) \/ UserStop(j) \/ Look(j)
        PROVE  UNCHANGED vars
    <2>1. Look(j) => UNCHANGED vars
      BY DEF Look
    <2> QED
      BY <1>2, <2>1 DEF Thread, Process, UserStop
  <1>3. (KillAll => UNCHANGED vars) /\ (ShutDown \/ Crash => Next)
    BY DEF KillAll, ShutDown, Crash, Next
  <1>4. UNCHANGED serverVars => UNCHANGED vars
    BY DEF serverVars
  <1> QED
    BY <1>1, <1>2, <1>3, <1>4 DEF ServerNext, OnLoop

LEMMA JudgeKeepsQueue ==
    ASSUME QueueInServer, Judge
    PROVE  IInv' /\ UNCHANGED <<queue, processing, arrived, taken>>
  <1>1. poll # P!Idle /\ status' = [status EXCEPT ![poll.job] = poll.verdict]
    BY DEF Judge, P!Write
  <1>2. UNCHANGED <<queue, processing, pc, item, todo, hold, usage, request,
                    restarts, arrived, taken>>
    BY DEF Judge, notStatus, queueVars, taskVars, histVars
  <1>3. status' \in [Jobs -> Statuses]
    BY <1>1 DEF QueueInServer, VerdictEnds, IInv, TypeOK, Statuses
  <1>4. TypeOK'
    BY <1>2, <1>3 DEF QueueInServer, IInv, TypeOK
  <1> QED
    BY <1>2, <1>4 DEF QueueInServer, IInv, ItemsOfLiveTasks, OneLauncher, LiveTasks,
                      NoStrandedItem, FifoNoLoss, ArrivedWasEnqueued

\* Only Look begins a verdict.
LEMMA VerdictsEnd ==
    ASSUME QueueInServer, ServerIInv, [ServerNext]_serverVars
    PROVE  VerdictEnds'
  <1>1. \/ UNCHANGED poll \/ poll' = P!Idle
        \/ \E j \in Jobs : P!Look(j)
    <2>1. ASSUME NEW j \in Jobs, Request(j) \/ Task(j) PROVE UNCHANGED poll
      BY <2>1 DEF Request, Task, TaskAlone, Launch, Launched, NotLaunched, P!Begin, provVars
    <2>2. ASSUME NEW j \in Jobs, Thread(j) \/ Process(j) \/ UserStop(j) PROVE UNCHANGED poll
      BY <2>2 DEF Thread, Process, UserStop, P!LaunchStep, P!Spawn, P!WritePid, P!Register,
                  P!Raise, P!Terminate, P!ProcessEnds, P!StopCluster
    <2>3. /\ Judge \/ KillAll \/ Crash => poll' = P!Idle
          /\ ShutDown => UNCHANGED poll
      BY DEF Judge, KillAll, ShutDown, Crash, P!Write, P!EmptyRegistry, P!ShutDown, P!Crash
    <2>4. UNCHANGED serverVars => UNCHANGED poll
      BY DEF serverVars, provVars
    <2> QED
      BY <2>1, <2>2, <2>3, <2>4 DEF ServerNext, OnLoop, Look
  <1>2. ASSUME NEW j \in Jobs, P!Look(j) PROVE VerdictEnds'
    BY <1>2 DEF P!Look, P!Verdict, VerdictEnds
  <1> QED
    BY <1>1, <1>2 DEF QueueInServer, VerdictEnds

LEMMA QueueInServerStep ==
    QueueInServer /\ ServerIInv /\ [ServerNext]_serverVars => QueueInServer'
  <1> SUFFICES ASSUME QueueInServer, ServerIInv, [ServerNext]_serverVars
               PROVE  QueueInServer'
    OBVIOUS
  <1>1. IInv'
    BY ServerStepOfQueue, JudgeKeepsQueue, NextIInv DEF QueueInServer
  <1>2. P!ProviderTypeOK'
    BY ServerStep DEF ServerIInv
  <1> QED
    BY <1>1, <1>2, VerdictsEnd DEF QueueInServer

LEMMA QueueInServerStart == ServerInit => QueueInServer
  BY InitIInv, ServerStart DEF ServerInit, ServerIInv, QueueInServer, VerdictEnds, P!ProviderInit

\* The queue keeps its promises among the parts it works with: with launches that
\* start processes, users that stop them, a worker that writes statuses, shutdowns
\* and crashes, the whole server still launches one job at a time, in the order in
\* which the requests arrived, and idles only when nobody waits.
THEOREM ServerRefinesLauncher == ServerSpec => RefinementSafety
  <1>1. ServerInit => Launcher!Init
    BY DEF ServerInit, Init, Launcher!Init
  <1>2. QueueInServer /\ [ServerNext]_serverVars => [Launcher!Next]_(Launcher!vars)
    BY ServerStepOfQueue, JudgeKeepsQueue, QueueStepRefines DEF QueueInServer, Launcher!vars
  <1> QED
    BY <1>1, <1>2, ServerStart, ServerStep, QueueInServerStart, QueueInServerStep, PTL
       DEF ServerSpec, RefinementSafety

=============================================================================
