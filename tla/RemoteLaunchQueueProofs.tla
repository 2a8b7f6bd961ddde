----------------------- MODULE RemoteLaunchQueueProofs -----------------------
(***************************************************************************)
(* Proofs about RemoteLaunchQueue: no job is launched twice, jobs are      *)
(* dispatched in the order they were created, and a job and its hold are   *)
(* settled together, whatever fails and whenever the server crashes, for   *)
(* any number of jobs.                                                     *)
(***************************************************************************)
EXTENDS RemoteLaunchQueue, Functions, SequenceTheorems, FiniteSetTheorems, TLAPS

-----------------------------------------------------------------------------
(* The inductive invariant. *)

\* A job has not been launched before its task got that far.
NotYetLaunched ==
    \A j \in Jobs : task[j] \in {"none", "ready", "inside", "abandon"} => launches[j] = 0

\* The poll lists every row once.
BatchIsDistinct ==
    \A a, b \in 1..Len(batch) : batch[a] = batch[b] => a = b

\* Rows of the batch are PENDING until the loop marks them.
BatchIsPending ==
    \A i \in 1..Len(batch) : (i > 1 \/ at = "mark") => row[batch[i]] = "PENDING"

\* The row the loop works on belongs to a job that no task works on.
EntryIsFree ==
    (batch # <<>> /\ at # "mark") => /\ row[Entry] # "none"
                                     /\ task[Entry] = "none"

\* The job is read right after its row was marked.
LoadedIsDispatched ==
    (batch # <<>> /\ at \in {"load", "missing", "broken"}) => row[Entry] = "DISPATCHED"

IInv ==
    /\ TypeOK
    /\ AtMostOneLaunch
    /\ RowsTellTheTruth
    /\ NotYetLaunched
    /\ BatchIsDistinct
    /\ BatchIsPending
    /\ EntryIsFree
    /\ LoadedIsDispatched

-----------------------------------------------------------------------------
(* Facts about the batch. *)

LEMMA EntryIsFirst ==
    ASSUME TypeOK, batch # <<>>
    PROVE  /\ Entry \in Jobs
           /\ Entry = batch[1]
           /\ Tail(batch) \in Seq(Jobs)
           /\ Len(batch) \in Nat \ {0}
           /\ Len(Tail(batch)) = Len(batch) - 1
           /\ \A i \in 1..Len(Tail(batch)) : Tail(batch)[i] = batch[i + 1]
           /\ \A i \in 1..Len(batch) : batch[i] \in Jobs
  <1>1. batch \in Seq(Jobs)
    BY DEF TypeOK
  <1>2. Len(batch) \in Nat \ {0}
    BY <1>1, EmptySeq
  <1>3. Entry = batch[1]
    BY <1>1, <1>2 DEF Entry
  <1> QED
    BY <1>1, <1>2, <1>3, HeadTailProperties, ElementOfSeq DEF Entry

\* Going on to the next entry keeps what is known of the batch, when the rows
\* of the remaining entries are left alone.
LEMMA NextEntryKeepsBatch ==
    ASSUME IInv, batch # <<>>, NextEntry,
           \A i \in 2..Len(batch) : row'[batch[i]] = row[batch[i]]
    PROVE  /\ batch' \in Seq(Jobs) /\ at' \in Places
           /\ BatchIsDistinct' /\ BatchIsPending' /\ EntryIsFree'
  <1> DEFINE rest == Tail(batch)
  <1>1. /\ rest \in Seq(Jobs)
        /\ Len(batch) \in Nat \ {0}
        /\ Len(rest) = Len(batch) - 1
        /\ \A i \in 1..Len(rest) : rest[i] = batch[i + 1]
    BY EntryIsFirst DEF IInv
  <1>2. batch' = rest /\ at' = "mark"
    BY DEF NextEntry
  <1>3. \A i \in 1..Len(rest) : i + 1 \in 2..Len(batch) /\ i + 1 \in 1..Len(batch)
    BY <1>1
  <1> HIDE DEF rest
  <1>4. BatchIsDistinct'
    <2> SUFFICES ASSUME NEW a \in 1..Len(rest), NEW b \in 1..Len(rest), rest[a] = rest[b]
                 PROVE  a = b
      BY <1>2 DEF BatchIsDistinct
    <2>1. batch[a + 1] = batch[b + 1]
      BY <1>1
    <2>2. a + 1 = b + 1
      BY <1>3, <2>1 DEF IInv, BatchIsDistinct
    <2>3. a \in Int /\ b \in Int
      OBVIOUS
    <2> QED  BY <2>2, <2>3
  <1>5. BatchIsPending'
    <2> SUFFICES ASSUME NEW i \in 1..Len(rest)
                 PROVE  row'[rest[i]] = "PENDING"
      BY <1>2 DEF BatchIsPending
    <2>1. rest[i] = batch[i + 1] /\ i + 1 \in 2..Len(batch) /\ i + 1 > 1
      BY <1>1, <1>3
    <2>2. row[batch[i + 1]] = "PENDING"
      BY <1>3, <2>1 DEF IInv, BatchIsPending
    <2> QED  BY <2>1, <2>2
  <1>6. EntryIsFree'
    BY <1>2 DEF EntryIsFree
  <1> QED  BY <1>1, <1>2, <1>4, <1>5, <1>6 DEF Places

LEMMA OthersInBatch ==
    ASSUME IInv, batch # <<>>
    PROVE  \A i \in 2..Len(batch) : batch[i] # Entry /\ batch[i] \in Jobs
  <1>1. Len(batch) \in Nat \ {0} /\ Entry = batch[1]
           /\ \A i \in 1..Len(batch) : batch[i] \in Jobs
    BY EntryIsFirst DEF IInv
  <1>2. \A i \in 2..Len(batch) : i \in 1..Len(batch) /\ 1 \in 1..Len(batch) /\ i # 1
    BY <1>1
  <1> QED  BY <1>1, <1>2 DEF IInv, BatchIsDistinct

-----------------------------------------------------------------------------
(* The launch task of a job. *)

\* A step of j's task to place s touches j only, and makes no second launch.
TaskMoves(j, s) ==
    /\ task[j] # "none"
    /\ task' = [task EXCEPT ![j] = s]
    /\ \/ launches' = launches /\ (launches[j] = 0 \/ s \notin {"ready", "inside", "abandon"})
       \/ /\ launches[j] = 0 /\ s = "launching"
          /\ launches' = [launches EXCEPT ![j] = 1]
    /\ status' \in [Jobs -> Statuses]
    /\ hold' \in [Jobs -> Holds]
    /\ usage' \in [Jobs -> {0, 1}]
    /\ rolledBack' \subseteq Jobs /\ faults' \in 0..MaxFaults
    /\ UNCHANGED <<rowVars, loopVars, readable, picked, crashes>>

LEMMA GiveUpMoves ==
    ASSUME IInv, NEW j \in Jobs, GiveUp(j)
    PROVE  \E s \in TaskSteps \ {"none"} : TaskMoves(j, s)
  <1>0. \A s \in {"released", "settling", "closing", "unsettled", "gaveUp"} :
           s \in TaskSteps \ {"none"} /\ s \notin {"ready", "inside", "abandon"}
    BY DEF TaskSteps
  <1>1. /\ status \in [Jobs -> Statuses] /\ hold \in [Jobs -> Holds]
        /\ usage \in [Jobs -> {0, 1}] /\ rolledBack \subseteq Jobs
        /\ faults \in 0..MaxFaults /\ MaxFaults \in Nat
    BY QueueAssumption DEF IInv, TypeOK
  <1>2. /\ [usage EXCEPT ![j] = 1] \in [Jobs -> {0, 1}]
        /\ Freed(j) \in [Jobs -> Holds] /\ Converted(j) \in [Jobs -> Holds]
        /\ [status EXCEPT ![j] = "FAILED"] \in [Jobs -> Statuses]
    BY <1>1 DEF Freed, Converted, Holds, Statuses
  <1>3. ASSUME NEW s \in {"released", "settling", "closing", "unsettled", "gaveUp"},
               task[j] # "none", task' = [task EXCEPT ![j] = s], launches' = launches,
               UNCHANGED status \/ MarkJob(j),
               hold' \in {hold, Freed(j), Converted(j)},
               usage' \in {usage, [usage EXCEPT ![j] = 1]},
               rolledBack' \in {rolledBack, rolledBack \cup {j}},
               faults' \in 0..MaxFaults,
               UNCHANGED <<rowVars, loopVars, readable, picked, crashes>>
        PROVE  TaskMoves(j, s)
    <2>1. status' \in [Jobs -> Statuses]
      BY <1>1, <1>2, <1>3 DEF MarkJob
    <2>2. hold' \in [Jobs -> Holds] /\ usage' \in [Jobs -> {0, 1}] /\ rolledBack' \subseteq Jobs
      BY <1>1, <1>2, <1>3
    <2> QED  BY <1>0, <1>3, <2>1, <2>2 DEF TaskMoves
  <1> USE DEF Step, jobVars, countVars
  <1>4. CASE Release(j)
    BY <1>0, <1>1, <1>3, <1>4 DEF Release
  <1>5. CASE NotCharged(j)
    BY <1>0, <1>1, <1>3, <1>5 DEF NotCharged
  <1>6. CASE Charged(j)
    BY <1>0, <1>1, <1>3, <1>6 DEF Charged
  <1>7. CASE ChargeRefused(j)
    BY <1>0, <1>1, <1>3, <1>7 DEF ChargeRefused
  <1>8. CASE RolledBack(j)
    BY <1>0, <1>1, <1>3, <1>8 DEF RolledBack
  <1>9. CASE Settle(j)
    BY <1>0, <1>1, <1>3, <1>9 DEF Settle
  <1>10. CASE Close(j)
    BY <1>0, <1>1, <1>3, <1>10 DEF Close
  <1> QED  BY ONLY <1>4, <1>5, <1>6, <1>7, <1>8, <1>9, <1>10, GiveUp(j) DEF GiveUp

LEMMA TaskStepMoves ==
    ASSUME IInv, NEW j \in Jobs, Task(j)
    PROVE  \E s \in TaskSteps \ {"none"} : TaskMoves(j, s)
  <1>0. \A s \in {"inside", "launching", "abandon", "refused", "started", "done",
                  "crashed"} : s \in TaskSteps \ {"none"}
    BY DEF TaskSteps
  <1> USE DEF IInv, TypeOK, TaskMoves, Step, jobVars, countVars
  <1>1. CASE Enter(j)
    <2>1. TaskMoves(j, "inside")
      BY <1>1 DEF Enter, NotYetLaunched
    <2> QED  BY ONLY <1>0, <2>1
  <1>2. CASE ProviderMissing(j)
    <2>1. TaskMoves(j, "abandon")
      BY <1>2 DEF ProviderMissing, NotYetLaunched
    <2> QED  BY ONLY <1>0, <2>1
  <1>3. CASE TaskCrashes(j)
    <2>1. TaskMoves(j, "crashed")
      BY <1>3 DEF TaskCrashes
    <2> QED  BY ONLY <1>0, <2>1
  <1>4. CASE Unreachable(j)
    <2>1. TaskMoves(j, "refused")
      BY <1>4 DEF Unreachable
    <2> QED  BY ONLY <1>0, <2>1
  <1>5. CASE Launch(j)
    <2>1. launches[j] = 0
      BY <1>5 DEF Launch, NotYetLaunched
    <2>2. launches' = [launches EXCEPT ![j] = 1]
      BY <1>5, <2>1 DEF Launch
    <2>3. TaskMoves(j, "launching")
      BY <1>5, <2>1, <2>2 DEF Launch
    <2> QED  BY ONLY <1>0, <2>3
  <1>6. CASE LaunchReturns(j)
    <2>1. TaskMoves(j, "started") \/ TaskMoves(j, "refused")
      BY <1>6 DEF LaunchReturns
    <2> QED  BY ONLY <1>0, <2>1
  <1>7. CASE GiveUp(j)
    BY ONLY <1>7, GiveUpMoves, IInv
  <1>8. CASE Announce(j)
    <2>1. status' \in [Jobs -> Statuses]
      BY <1>8 DEF Announce, InitialStatus, Statuses
    <2>2. TaskMoves(j, "done")
      BY <1>8, <2>1 DEF Announce
    <2> QED  BY ONLY <1>0, <2>2
  <1> QED
    BY ONLY <1>1, <1>2, <1>3, <1>4, <1>5, <1>6, <1>7, <1>8, Task(j) DEF Task

\* Such a step keeps the invariant.
LEMMA TaskKeepsIInv ==
    ASSUME IInv, NEW j \in Jobs, NEW s \in TaskSteps \ {"none"}, TaskMoves(j, s)
    PROVE  IInv'
  <1>0. /\ task \in [Jobs -> TaskSteps]
        /\ launches \in [Jobs -> Nat]
        /\ \A i \in Jobs : launches[i] <= 1
    BY DEF IInv, TypeOK, AtMostOneLaunch
  <1>1. row' = row /\ batch' = batch /\ at' = at
    BY DEF TaskMoves, rowVars, loopVars
  <1>2. /\ task'[j] = s /\ task' \in [Jobs -> TaskSteps]
        /\ \A i \in Jobs : i # j => task'[i] = task[i]
    BY <1>0 DEF TaskMoves
  <1>3. /\ launches' \in [Jobs -> Nat]
        /\ \A i \in Jobs : i # j => launches'[i] = launches[i]
        /\ \A i \in Jobs : launches'[i] <= 1
    <2>1. CASE launches' = launches
      BY <1>0, <2>1
    <2>2. CASE launches' = [launches EXCEPT ![j] = 1]
      BY <1>0, <2>2
    <2> QED  BY <2>1, <2>2 DEF TaskMoves
  <1>4. TypeOK'
    BY <1>2, <1>3 DEF IInv, TypeOK, TaskMoves, rowVars, loopVars, countVars
  <1>5. AtMostOneLaunch'
    BY <1>3 DEF AtMostOneLaunch
  <1>6. RowsTellTheTruth'
    <2>1. row[j] = "DISPATCHED"
      BY DEF TaskMoves, IInv, RowsTellTheTruth
    <2> QED  BY <1>1, <1>2, <1>3, <2>1 DEF IInv, RowsTellTheTruth
  <1>8. NotYetLaunched'
    <2>1. s \in {"none", "ready", "inside", "abandon"} => launches'[j] = 0
      <3>1. CASE launches' = launches /\ (launches[j] = 0 \/ s \notin {"ready", "inside", "abandon"})
        BY <3>1
      <3>2. CASE s = "launching"
        BY <3>2
      <3> QED  BY <3>1, <3>2 DEF TaskMoves
    <2> QED  BY <1>2, <1>3, <2>1 DEF IInv, NotYetLaunched
  <1>9. BatchIsDistinct' /\ BatchIsPending'
    BY <1>1 DEF IInv, BatchIsDistinct, BatchIsPending
  <1>10. EntryIsFree' /\ LoadedIsDispatched'
    <2>1. (batch # <<>> /\ at # "mark") => Entry \in Jobs /\ Entry # j
      BY EntryIsFirst DEF IInv, EntryIsFree, TaskMoves
    <2>2. Entry' = Entry
      BY <1>1 DEF Entry
    <2> QED  BY <1>1, <1>2, <2>1, <2>2 DEF IInv, EntryIsFree, LoadedIsDispatched
  <1> QED
    BY <1>4, <1>5, <1>6, <1>8, <1>9, <1>10 DEF IInv

-----------------------------------------------------------------------------
(* The worker loop. *)

LEMMA PollKeepsIInv ==
    ASSUME IInv, Poll
    PROVE  IInv'
  <1> DEFINE n == Cardinality(Pending)
  <1>1. n \in Nat
    <2>1. Pending \in SUBSET Jobs
      BY DEF Pending
    <2> QED  BY <2>1, QueueAssumption, FS_Subset, FS_CardinalityType
  <1>2. /\ batch' \in [1..n -> Pending]
        /\ \A a, b \in DOMAIN batch' : a < b => batch'[a] # batch'[b]
        /\ at' = "mark"
    BY DEF Poll, ByCreation
  <1>3. UNCHANGED <<rowVars, task, jobVars, launches, picked, rolledBack, countVars>>
    BY DEF Poll
  <1> HIDE DEF n
  <1>4. batch' \in Seq(Pending) /\ Len(batch') = n /\ DOMAIN batch' = 1..n
    BY <1>1, <1>2
  <1>5. \A j \in Pending : j \in Jobs /\ row[j] = "PENDING"
    BY DEF Pending
  <1>6. batch' \in Seq(Jobs)
    BY <1>1, <1>2, <1>5
  <1>7. BatchIsDistinct'
    BY <1>1, <1>2, <1>4 DEF BatchIsDistinct
  <1>8. BatchIsPending'
    BY <1>2, <1>3, <1>4, <1>5 DEF BatchIsPending, rowVars
  <1>9. EntryIsFree' /\ LoadedIsDispatched'
    BY <1>2 DEF EntryIsFree, LoadedIsDispatched
  <1>10. TypeOK'
    BY <1>2, <1>3, <1>6 DEF IInv, TypeOK, Places, rowVars, jobVars, countVars
  <1> QED
    BY <1>3, <1>7, <1>8, <1>9, <1>10
    DEF IInv, AtMostOneLaunch, RowsTellTheTruth, NotYetLaunched,
        rowVars, jobVars

LEMMA MarkKeepsIInv ==
    ASSUME IInv, Mark
    PROVE  IInv'
  <1>1. /\ batch # <<>> /\ at = "mark" /\ batch' = batch /\ at' = "load"
        /\ row' = [row EXCEPT ![Entry] = "DISPATCHED"]
        /\ picked' = Append(picked, Entry)
        /\ UNCHANGED <<created, clock, task, jobVars, launches, rolledBack, countVars>>
    BY DEF Mark, AtEntry
  <1>2. Entry \in Jobs /\ Entry = batch[1] /\ 1 \in 1..Len(batch)
    BY <1>1, EntryIsFirst DEF IInv
  <1>3. row[Entry] = "PENDING"
    BY <1>1, <1>2 DEF IInv, BatchIsPending
  <1>4. task[Entry] = "none" /\ launches[Entry] = 0
    BY <1>2, <1>3 DEF IInv, RowsTellTheTruth
  <1>5. /\ row' \in [Jobs -> Rows] /\ row'[Entry] = "DISPATCHED"
        /\ \A j \in Jobs : j # Entry => row'[j] = row[j]
    BY <1>1, <1>2 DEF IInv, TypeOK, Rows
  <1>6. TypeOK'
    <2>1. picked' \in Seq(Jobs)
      BY <1>1, <1>2, AppendProperties DEF IInv, TypeOK
    <2> QED  BY <1>1, <1>5, <2>1 DEF IInv, TypeOK, Places, jobVars, countVars
  <1>7. BatchIsDistinct'
    BY <1>1 DEF IInv, BatchIsDistinct
  <1>8. BatchIsPending'
    <2>1. Len(batch) \in Nat
      BY <1>1, EntryIsFirst DEF IInv
    <2> SUFFICES ASSUME NEW i \in 1..Len(batch), i > 1
                 PROVE  row'[batch[i]] = "PENDING"
      BY <1>1 DEF BatchIsPending
    <2>2. i \in 2..Len(batch)
      BY <2>1
    <2>3. batch[i] # Entry /\ batch[i] \in Jobs
      BY <1>1, <2>2, OthersInBatch
    <2> QED  BY <1>5, <2>3 DEF IInv, BatchIsPending
  <1>9. EntryIsFree' /\ LoadedIsDispatched'
    <2>1. Entry' = Entry
      BY <1>1 DEF Entry
    <2> QED  BY <1>1, <1>4, <1>5, <2>1 DEF EntryIsFree, LoadedIsDispatched
  <1>10. RowsTellTheTruth'
    BY <1>1, <1>5 DEF IInv, RowsTellTheTruth
  <1> QED
    BY <1>1, <1>6, <1>7, <1>8, <1>9, <1>10
    DEF IInv, AtMostOneLaunch, NotYetLaunched, jobVars

LEMMA LoadKeepsIInv ==
    ASSUME IInv, Load
    PROVE  IInv'
  <1>1. /\ batch # <<>> /\ at = "load"
        /\ UNCHANGED <<rowVars, jobVars, launches, picked, rolledBack, countVars>>
    BY DEF Load, AtEntry
  <1>2. Entry \in Jobs
    BY <1>1, EntryIsFirst DEF IInv
  <1>3. task[Entry] = "none" /\ row[Entry] # "none"
    BY <1>1 DEF IInv, EntryIsFree
  <1>4. CASE task' = [task EXCEPT ![Entry] = "ready"] /\ NextEntry
    <2>1. /\ task' \in [Jobs -> TaskSteps] /\ task'[Entry] = "ready"
          /\ \A j \in Jobs : j # Entry => task'[j] = task[j]
      BY <1>2, <1>4 DEF IInv, TypeOK, TaskSteps
    <2>2. /\ batch' \in Seq(Jobs) /\ at' \in Places
          /\ BatchIsDistinct' /\ BatchIsPending' /\ EntryIsFree'
      BY <1>1, <1>4, NextEntryKeepsBatch DEF rowVars
    <2>3. TypeOK'
      BY <1>1, <2>1, <2>2 DEF IInv, TypeOK, rowVars, jobVars, countVars
    <2>4. NotYetLaunched'
      BY <1>1, <1>2, <1>3, <2>1 DEF IInv, NotYetLaunched
    <2>5. RowsTellTheTruth'
      <3>1. row[Entry] = "DISPATCHED"
        BY <1>1 DEF IInv, LoadedIsDispatched
      <3> QED  BY <1>1, <2>1, <3>1 DEF IInv, RowsTellTheTruth, rowVars
    <2>7. LoadedIsDispatched'
      BY <1>4 DEF NextEntry, LoadedIsDispatched
    <2> QED
      BY <1>1, <2>2, <2>3, <2>4, <2>5, <2>7 DEF IInv, AtMostOneLaunch
  <1>5. CASE at' \in {"missing", "broken"} /\ UNCHANGED <<task, batch>>
    <2>1. Entry' = Entry
      BY <1>5 DEF Entry
    <2>0. row[Entry] = "DISPATCHED"
      BY <1>1 DEF IInv, LoadedIsDispatched
    <2>2. EntryIsFree' /\ LoadedIsDispatched'
      BY <1>1, <1>3, <1>5, <2>0, <2>1 DEF EntryIsFree, LoadedIsDispatched, rowVars
    <2>3. TypeOK'
      BY <1>1, <1>5 DEF IInv, TypeOK, Places, rowVars, jobVars, countVars
    <2>4. BatchIsDistinct' /\ BatchIsPending'
      BY <1>1, <1>5 DEF IInv, BatchIsDistinct, BatchIsPending, rowVars
    <2> QED
      BY <1>1, <1>5, <2>2, <2>3, <2>4
      DEF IInv, AtMostOneLaunch, RowsTellTheTruth, NotYetLaunched,
          rowVars, jobVars
  <1> QED  BY <1>4, <1>5 DEF Load

LEMMA MarkFailedKeepsIInv ==
    ASSUME IInv, MarkFailed
    PROVE  IInv'
  <1>1. /\ batch # <<>> /\ at \in {"missing", "broken"}
        /\ row' = [row EXCEPT ![Entry] = "FAILED"]
        /\ UNCHANGED <<created, clock, task, jobVars, launches, picked, rolledBack, countVars>>
    BY DEF MarkFailed, AtEntry
  <1>2. Entry \in Jobs
    BY <1>1, EntryIsFirst DEF IInv
  <1>3. task[Entry] = "none" /\ launches[Entry] = 0
    BY <1>1, <1>2 DEF IInv, EntryIsFree, NotYetLaunched
  <1>4. /\ row' \in [Jobs -> Rows] /\ row'[Entry] = "FAILED"
        /\ \A j \in Jobs : j # Entry => row'[j] = row[j]
    BY <1>1, <1>2 DEF IInv, TypeOK, Rows
  <1>5. \A i \in 2..Len(batch) : row'[batch[i]] = row[batch[i]]
    BY <1>1, <1>4, OthersInBatch
  <1>6. RowsTellTheTruth'
    BY <1>1, <1>3, <1>4 DEF IInv, RowsTellTheTruth
  <1>7. /\ batch' \in Seq(Jobs) /\ at' \in Places /\ BatchIsDistinct'
        /\ BatchIsPending' /\ EntryIsFree' /\ LoadedIsDispatched'
    <2>1. CASE NextEntry
      BY <1>1, <1>5, <2>1, NextEntryKeepsBatch DEF NextEntry, LoadedIsDispatched
    <2>2. CASE at' = "report" /\ UNCHANGED batch
      <3>1. Entry' = Entry
        BY <2>2 DEF Entry
      <3>2. EntryIsFree' /\ LoadedIsDispatched'
        BY <1>1, <1>3, <1>4, <2>2, <3>1 DEF EntryIsFree, LoadedIsDispatched
      <3>3. BatchIsPending'
        <4>1. Len(batch) \in Nat
          BY <1>1, EntryIsFirst DEF IInv
        <4> SUFFICES ASSUME NEW i \in 1..Len(batch), i > 1
                     PROVE  row'[batch[i]] = "PENDING"
          BY <2>2 DEF BatchIsPending
        <4>2. i \in 2..Len(batch)
          BY <4>1
        <4> QED  BY <1>5, <4>2 DEF IInv, BatchIsPending
      <3> QED
        BY <2>2, <3>2, <3>3 DEF IInv, TypeOK, Places, BatchIsDistinct
    <2> QED  BY <2>1, <2>2 DEF MarkFailed
  <1>8. TypeOK'
    BY <1>1, <1>4, <1>7 DEF IInv, TypeOK, jobVars, countVars
  <1> QED
    BY <1>1, <1>6, <1>7, <1>8
    DEF IInv, AtMostOneLaunch, NotYetLaunched, jobVars

LEMMA ReportKeepsIInv ==
    ASSUME IInv, Report
    PROVE  IInv'
  <1>1. /\ batch # <<>> /\ NextEntry
        /\ UNCHANGED <<rowVars, task, hold, usage, readable, launches, picked, rolledBack, countVars>>
    BY DEF Report, AtEntry
  <1>2. /\ batch' \in Seq(Jobs) /\ at' \in Places
        /\ BatchIsDistinct' /\ BatchIsPending' /\ EntryIsFree' /\ LoadedIsDispatched'
    BY <1>1, NextEntryKeepsBatch DEF rowVars, NextEntry, LoadedIsDispatched
  <1>3. status' \in [Jobs -> Statuses]
    BY DEF Report, IInv, TypeOK, Statuses
  <1>4. TypeOK'
    BY <1>1, <1>2, <1>3 DEF IInv, TypeOK, rowVars, countVars
  <1> QED
    BY <1>1, <1>2, <1>3, <1>4
    DEF IInv, AtMostOneLaunch, RowsTellTheTruth, NotYetLaunched, rowVars

-----------------------------------------------------------------------------
(* Faults and the rest of the world. *)

\* A cycle or the server that dies drops the batch.
LEMMA NoBatch ==
    ASSUME batch' = <<>>, at' = "mark"
    PROVE  /\ batch' \in Seq(Jobs) /\ at' \in Places /\ BatchIsDistinct'
           /\ BatchIsPending' /\ EntryIsFree' /\ LoadedIsDispatched'
  BY DEF Places, BatchIsDistinct, BatchIsPending, EntryIsFree, LoadedIsDispatched

LEMMA InitIInv == Init => IInv
  <1> SUFFICES ASSUME Init PROVE IInv
    OBVIOUS
  <1>1. TypeOK
    BY QueueAssumption DEF Init, TypeOK, Rows, Places, TaskSteps, Statuses, Holds, InitialStatus
  <1> QED
    BY <1>1 DEF Init, IInv, AtMostOneLaunch, RowsTellTheTruth,
                NotYetLaunched, BatchIsDistinct, BatchIsPending, EntryIsFree,
                LoadedIsDispatched

LEMMA FaultKeepsIInv ==
    ASSUME IInv, CycleFails \/ Crash
    PROVE  IInv'
  <1>1. /\ batch' = <<>> /\ at' = "mark"
        /\ UNCHANGED <<rowVars, jobVars, launches, picked, rolledBack>>
        /\ faults' \in 0..MaxFaults /\ crashes' \in 0..MaxCrashes
    BY QueueAssumption DEF CycleFails, Crash, IInv, TypeOK
  <1>2. /\ task' \in [Jobs -> TaskSteps]
        /\ \A j \in Jobs : task'[j] = task[j] \/ (task[j] # "none" /\ task'[j] = "crashed")
    BY DEF CycleFails, Crash, IInv, TypeOK, TaskSteps
  <1>3. TypeOK'
    BY <1>1, <1>2, NoBatch DEF IInv, TypeOK, rowVars, jobVars
  <1> QED
    BY <1>1, <1>2, <1>3, NoBatch
    DEF IInv, AtMostOneLaunch, RowsTellTheTruth, NotYetLaunched,
        rowVars, jobVars

LEMMA EnqueueKeepsIInv ==
    ASSUME IInv, NEW j \in Jobs, Enqueue(j)
    PROVE  IInv'
  <1>1. /\ row[j] = "none" /\ row' = [row EXCEPT ![j] = "PENDING"]
        /\ created' = [created EXCEPT ![j] = clock]
        /\ UNCHANGED <<clock, loopVars, task, jobVars, launches, picked, rolledBack, countVars>>
    BY DEF Enqueue
  <1>2. /\ row' \in [Jobs -> Rows] /\ row'[j] = "PENDING"
        /\ \A i \in Jobs : i # j => row'[i] = row[i]
        /\ created' \in [Jobs -> 0..MaxClock]
    BY <1>1 DEF IInv, TypeOK, Rows
  <1>3. TypeOK'
    BY <1>1, <1>2 DEF IInv, TypeOK, loopVars, jobVars, countVars
  <1>4. RowsTellTheTruth'
    BY <1>1, <1>2 DEF IInv, RowsTellTheTruth
  <1>5. batch' = batch /\ at' = at /\ task' = task /\ Entry' = Entry
    BY <1>1 DEF loopVars, Entry
  <1>6. BatchIsPending'
    <2>1. \A i \in 1..Len(batch) : batch[i] \in Jobs
      BY ElementOfSeq DEF IInv, TypeOK
    <2> QED  BY <1>2, <1>5, <2>1 DEF IInv, BatchIsPending
  <1>7. EntryIsFree' /\ LoadedIsDispatched'
    <2>1. batch # <<>> => Entry \in Jobs
      BY EntryIsFirst DEF IInv
    <2> QED  BY <1>1, <1>2, <1>5, <2>1 DEF IInv, EntryIsFree, LoadedIsDispatched
  <1> QED
    BY <1>1, <1>3, <1>4, <1>5, <1>6, <1>7
    DEF IInv, AtMostOneLaunch, NotYetLaunched, BatchIsDistinct, jobVars

LEMMA OutsideKeepsIInv ==
    ASSUME IInv,
           Tick \/ (\E j \in Jobs : UserWrites(j) \/ JobLost(j) \/ Charge(j)) \/ UNCHANGED vars
    PROVE  IInv'
  <1> DEFINE LaunchesKept ==
        /\ UNCHANGED <<row, created, loopVars, task, launches, picked, rolledBack, countVars>>
        /\ hold' \in [Jobs -> Holds] /\ usage' \in [Jobs -> {0, 1}]
        /\ clock' \in 0..MaxClock
        /\ status' \in [Jobs -> Statuses]
        /\ readable' \in [Jobs -> BOOLEAN]
  <1>1. LaunchesKept
    <2> USE DEF rowVars, jobVars, IInv, TypeOK, Statuses
    <2>1. CASE Tick
      BY <2>1, QueueAssumption DEF Tick
    <2>2. ASSUME NEW j \in Jobs, UserWrites(j)
          PROVE  LaunchesKept
      BY <2>2 DEF UserWrites
    <2>3. ASSUME NEW j \in Jobs, JobLost(j)
          PROVE  LaunchesKept
      BY <2>3 DEF JobLost
    <2>4. ASSUME NEW j \in Jobs, Charge(j)
          PROVE  LaunchesKept
      <3>1. Converted(j) \in [Jobs -> Holds]
        BY DEF Converted, Holds
      <3> QED  BY <2>4, <3>1 DEF Charge
    <2>5. CASE UNCHANGED vars
      BY <2>5 DEF vars
    <2> QED  BY <2>1, <2>2, <2>3, <2>4, <2>5
  <1>2. batch' = batch /\ at' = at /\ Entry' = Entry
    BY <1>1 DEF loopVars, Entry
  <1>3. TypeOK'
    BY <1>1, <1>2 DEF IInv, TypeOK, countVars
  <1> QED
    BY <1>1, <1>2, <1>3
    DEF IInv, AtMostOneLaunch, RowsTellTheTruth, NotYetLaunched,
        BatchIsDistinct, BatchIsPending, EntryIsFree, LoadedIsDispatched

LEMMA NextIInv == IInv /\ [Next]_vars => IInv'
  <1> SUFFICES ASSUME IInv, [Next]_vars PROVE IInv'
    OBVIOUS
  <1>1. CASE Loop
    BY <1>1, PollKeepsIInv, MarkKeepsIInv, LoadKeepsIInv, MarkFailedKeepsIInv,
       ReportKeepsIInv DEF Loop
  <1>2. CASE CycleFails \/ Crash
    BY <1>2, FaultKeepsIInv
  <1>3. ASSUME NEW j \in Jobs, Enqueue(j) PROVE IInv'
    BY <1>3, EnqueueKeepsIInv
  <1>4. ASSUME NEW j \in Jobs, Task(j) PROVE IInv'
    BY <1>4, TaskStepMoves, TaskKeepsIInv
  <1>5. CASE Tick \/ (\E j \in Jobs : UserWrites(j) \/ JobLost(j) \/ Charge(j)) \/ UNCHANGED vars
    BY <1>5, OutsideKeepsIInv
  <1> QED  BY <1>1, <1>2, <1>3, <1>4, <1>5 DEF Next

-----------------------------------------------------------------------------
(* The settlement of a launch that was given up. *)

\* What is known of one job: t is where its task is, s its status, h and u its
\* hold and usage, r and b whether it is readable and was rolled back.
Consistent(t, s, h, u, r, b) ==
    /\ u = 1 => h # "HELD"
    /\ t \in {"closing", "gaveUp"} => h # "HELD" \/ b = TRUE
    /\ t \in {"settling", "unsettled", "closing"} => s \in {"FAILED", "USER"} \/ r = FALSE
    /\ h = "RELEASED" => /\ s \in {"FAILED", "USER"} \/ r = FALSE
                         /\ t \in {"closing", "gaveUp", "crashed"}

ConsistentJob(j) == Consistent(task[j], status[j], hold[j], usage[j], readable[j], j \in rolledBack)

SettledInv == \A j \in Jobs : ConsistentJob(j)

OnlyJob(j) ==
    \A i \in Jobs \ {j} :
        /\ task'[i] = task[i] /\ status'[i] = status[i] /\ hold'[i] = hold[i]
        /\ usage'[i] = usage[i] /\ readable'[i] = readable[i]
        /\ (i \in rolledBack') = (i \in rolledBack)

LEMMA OnlyJobSettles ==
    ASSUME SettledInv, NEW j \in Jobs, OnlyJob(j),
           Consistent(task'[j], status'[j], hold'[j], usage'[j], readable'[j], j \in rolledBack')
    PROVE  SettledInv'
  <1> SUFFICES ASSUME NEW i \in Jobs
               PROVE  Consistent(task'[i], status'[i], hold'[i], usage'[i], readable'[i], i \in rolledBack')
    BY DEF SettledInv, ConsistentJob
  <1>1. CASE i = j
    BY <1>1
  <1>2. CASE i # j
    BY <1>2 DEF OnlyJob, SettledInv, ConsistentJob
  <1> QED  BY <1>1, <1>2

LEMMA QuietSettles ==
    ASSUME SettledInv, UNCHANGED <<task, jobVars, rolledBack>>
    PROVE  SettledInv'
  BY DEF SettledInv, ConsistentJob, Consistent, jobVars

\* The functions the steps make.
LEMMA HoldsOf ==
    ASSUME TypeOK, NEW j \in Jobs
    PROVE  /\ Freed(j)[j] = (IF hold[j] = "NONE" THEN "NONE" ELSE "RELEASED")
           /\ Converted(j)[j] = (IF hold[j] = "HELD" THEN "CONVERTED" ELSE hold[j])
           /\ \A i \in Jobs \ {j} : Freed(j)[i] = hold[i] /\ Converted(j)[i] = hold[i]
  BY DEF TypeOK, Freed, Converted

LEMMA MarkJobMarks ==
    ASSUME TypeOK, NEW j \in Jobs, MarkJob(j)
    PROVE  /\ status'[j] = "FAILED" \/ (readable[j] = FALSE /\ status'[j] = status[j])
           /\ \A i \in Jobs \ {j} : status'[i] = status[i]
  BY DEF TypeOK, MarkJob

LEMMA GiveUpSettles ==
    ASSUME IInv, SettledInv, NEW j \in Jobs, GiveUp(j)
    PROVE  SettledInv'
  <1>1. TypeOK /\ ConsistentJob(j)
    BY DEF IInv, SettledInv
  <1> USE DEF Step, jobVars, OnlyJob, ConsistentJob, Consistent, TypeOK
  <1>2. CASE Release(j)
    <2>1. /\ task[j] = "refused" /\ task' = [task EXCEPT ![j] = "released"]
          /\ UNCHANGED <<jobVars, rolledBack>>
      BY <1>2 DEF Release
    <2> QED  BY <1>1, <2>1, OnlyJobSettles
  <1>3. CASE NotCharged(j)
    <2>1. PICK t \in {"settling", "unsettled"} : task' = [task EXCEPT ![j] = t]
      BY <1>3 DEF NotCharged
    <2>2. task[j] \in {"released", "abandon"} /\ MarkJob(j) /\ UNCHANGED <<hold, usage, readable, rolledBack>>
      BY <1>3 DEF NotCharged
    <2> QED  BY <1>1, <2>1, <2>2, MarkJobMarks, OnlyJobSettles
  <1>4. CASE Charged(j)
    <2>1. /\ MarkJob(j) /\ readable[j] = TRUE /\ UNCHANGED <<readable, rolledBack>>
          /\ usage' = [usage EXCEPT ![j] = 1]
      BY <1>1, <1>4 DEF Charged
    <2>2. CASE Step(j, "released", "closing") /\ hold' = Freed(j)
      BY <1>1, <2>1, <2>2, MarkJobMarks, HoldsOf, OnlyJobSettles
    <2>3. CASE Step(j, "abandon", "unsettled") /\ hold' = Converted(j)
      BY <1>1, <2>1, <2>3, MarkJobMarks, HoldsOf, OnlyJobSettles
    <2> QED  BY <1>4, <2>2, <2>3 DEF Charged
  <1>5. CASE ChargeRefused(j)
    <2>1. PICK t \in {"closing", "unsettled"} : task' = [task EXCEPT ![j] = t]
      BY <1>5 DEF ChargeRefused
    <2>2. /\ task[j] \in {"released", "abandon"} /\ usage[j] = 1 /\ MarkJob(j)
          /\ UNCHANGED <<hold, usage, readable, rolledBack>>
      BY <1>5 DEF ChargeRefused
    <2> QED  BY <1>1, <2>1, <2>2, MarkJobMarks, OnlyJobSettles
  <1>6. CASE RolledBack(j)
    <2>1. /\ task[j] = "released" /\ task' = [task EXCEPT ![j] = "closing"] /\ MarkJob(j)
          /\ rolledBack' = rolledBack \cup {j} /\ UNCHANGED <<hold, usage, readable>>
      BY <1>6 DEF RolledBack
    <2>2. OnlyJob(j)
      <3>1. \A i \in Jobs \ {j} : (i \in rolledBack') = (i \in rolledBack)
        BY <2>1
      <3> QED  BY <1>1, <2>1, <3>1, MarkJobMarks
    <2>3. (j \in rolledBack') = TRUE
      BY <2>1
    <2>4. Consistent(task'[j], status'[j], hold'[j], usage'[j], readable'[j], TRUE)
      BY <1>1, <2>1, MarkJobMarks
    <2>5. Consistent(task'[j], status'[j], hold'[j], usage'[j], readable'[j], j \in rolledBack')
      BY <2>3, <2>4
    <2> QED  BY ONLY SettledInv, j \in Jobs, <2>2, <2>5, OnlyJobSettles
  <1>7. CASE Settle(j)
    <2>1. /\ task[j] \in {"settling", "unsettled"} /\ task' = [task EXCEPT ![j] = "gaveUp"]
          /\ hold' = Freed(j) /\ UNCHANGED <<status, usage, readable, rolledBack>>
      BY <1>7 DEF Settle
    <2> QED  BY <1>1, <2>1, HoldsOf, OnlyJobSettles
  <1>8. CASE Close(j)
    <2>1. /\ task[j] = "closing" /\ task' = [task EXCEPT ![j] = "gaveUp"]
          /\ UNCHANGED <<jobVars, rolledBack>>
      BY <1>8 DEF Close
    <2> QED  BY <1>1, <2>1, OnlyJobSettles
  <1> QED  BY ONLY <1>2, <1>3, <1>4, <1>5, <1>6, <1>7, <1>8, GiveUp(j) DEF GiveUp

LEMMA TaskSettles ==
    ASSUME IInv, SettledInv, NEW j \in Jobs, Task(j)
    PROVE  SettledInv'
  <1>1. TypeOK /\ ConsistentJob(j)
    BY DEF IInv, SettledInv
  <1>2. CASE GiveUp(j)
    BY <1>2, GiveUpSettles
  <1>3. CASE Announce(j)
    <2>1. /\ task[j] = "started" /\ task' = [task EXCEPT ![j] = "done"]
          /\ status' = [status EXCEPT ![j] = InitialStatus(j)]
          /\ UNCHANGED <<hold, usage, readable, rolledBack>>
      BY <1>3 DEF Announce, Step
    <2> QED  BY <1>1, <2>1, OnlyJobSettles DEF OnlyJob, ConsistentJob, Consistent, TypeOK
  <1>4. ASSUME NEW t \in {"inside", "abandon", "crashed", "refused", "launching", "started"},
               task' = [task EXCEPT ![j] = t], UNCHANGED <<jobVars, rolledBack>>,
               task[j] \in {"ready", "inside", "launching", "refused", "settling", "unsettled"}
        PROVE  SettledInv'
    BY <1>1, <1>4, OnlyJobSettles DEF OnlyJob, ConsistentJob, Consistent, TypeOK, jobVars
  <1> USE DEF Step
  <1>5. CASE Enter(j)
    BY <1>4, <1>5 DEF Enter
  <1>6. CASE ProviderMissing(j)
    BY <1>4, <1>6 DEF ProviderMissing
  <1>7. CASE TaskCrashes(j)
    BY <1>4, <1>7 DEF TaskCrashes
  <1>8. CASE Unreachable(j)
    BY <1>4, <1>8 DEF Unreachable
  <1>9. CASE Launch(j)
    BY <1>4, <1>9 DEF Launch
  <1>10. CASE LaunchReturns(j)
    BY <1>4, <1>10 DEF LaunchReturns
  <1> QED  BY ONLY <1>2, <1>3, <1>5, <1>6, <1>7, <1>8, <1>9, <1>10, Task(j) DEF Task

LEMMA InitSettled == Init => SettledInv
  BY DEF Init, SettledInv, ConsistentJob, Consistent

LEMMA NextSettled == IInv /\ SettledInv /\ [Next]_vars => SettledInv'
  <1> SUFFICES ASSUME IInv, SettledInv, [Next]_vars PROVE SettledInv'
    OBVIOUS
  <1>0. TypeOK
    BY DEF IInv
  <1>1. CASE UNCHANGED <<task, jobVars, rolledBack>>
    BY <1>1, QuietSettles
  <1>2. CASE Load
    <2>1. CASE UNCHANGED task
      BY <1>1, <1>2, <2>1 DEF Load
    <2>2. CASE task' = [task EXCEPT ![Entry] = "ready"]
      <3>1. Entry \in Jobs /\ task[Entry] = "none" /\ UNCHANGED <<jobVars, rolledBack>>
        BY <1>2, EntryIsFirst DEF Load, AtEntry, IInv, EntryIsFree
      <3>2. ConsistentJob(Entry)
        BY <3>1 DEF SettledInv
      <3> HIDE DEF Entry
      <3> QED  BY <1>0, <2>2, <3>1, <3>2, OnlyJobSettles DEF OnlyJob, ConsistentJob, Consistent, TypeOK, jobVars
    <2> QED  BY <1>2, <2>1, <2>2 DEF Load
  <1>3. CASE Report
    <2>1. Entry \in Jobs /\ UNCHANGED <<task, hold, usage, readable, rolledBack>>
      BY <1>3, EntryIsFirst DEF Report, AtEntry, IInv
    <2>2. ConsistentJob(Entry)
      BY <2>1 DEF SettledInv
    <2>3. CASE UNCHANGED status
      BY <1>1, <2>1, <2>3 DEF jobVars
    <2>4. CASE status' = [status EXCEPT ![Entry] = "FAILED"]
      BY <1>0, <2>1, <2>2, <2>4, OnlyJobSettles DEF OnlyJob, ConsistentJob, Consistent, TypeOK
    <2> QED  BY <1>3, <2>3, <2>4 DEF Report
  <1>4. ASSUME NEW j \in Jobs, UserWrites(j) \/ JobLost(j) \/ Charge(j) PROVE SettledInv'
    <2>1. ConsistentJob(j)
      BY DEF SettledInv
    <2>2. CASE UserWrites(j)
      BY <1>0, <2>1, <2>2, OnlyJobSettles DEF UserWrites, OnlyJob, ConsistentJob, Consistent, TypeOK
    <2>3. CASE JobLost(j)
      BY <1>0, <2>1, <2>3, OnlyJobSettles DEF JobLost, OnlyJob, ConsistentJob, Consistent, TypeOK
    <2>4. CASE Charge(j)
      BY <1>0, <2>1, <2>4, HoldsOf, OnlyJobSettles DEF Charge, OnlyJob, ConsistentJob, Consistent, TypeOK
    <2> QED  BY <1>4, <2>2, <2>3, <2>4
  <1>5. CASE Crash
    <2>1. /\ \A j \in Jobs : task'[j] = task[j] \/ task'[j] = "crashed"
          /\ UNCHANGED <<jobVars, rolledBack>>
      BY <1>5 DEF Crash
    <2> QED  BY <2>1 DEF SettledInv, ConsistentJob, Consistent, jobVars
  <1>6. ASSUME NEW j \in Jobs, Task(j) PROVE SettledInv'
    BY <1>6, TaskSettles
  <1>7. ASSUME Poll \/ Mark \/ MarkFailed \/ CycleFails \/ Tick \/ (\E j \in Jobs : Enqueue(j))
               \/ UNCHANGED vars
        PROVE  UNCHANGED <<task, jobVars, rolledBack>>
    BY <1>7 DEF Poll, Mark, MarkFailed, CycleFails, Tick, Enqueue, vars
  <1> QED  BY ONLY <1>1, <1>2, <1>3, <1>4, <1>5, <1>6, <1>7, [Next]_vars DEF Next, Loop

LEMMA ConsistentIsSettled == SettledInv => GivenUpIsSettled
  BY DEF SettledInv, ConsistentJob, Consistent, GivenUpIsSettled

-----------------------------------------------------------------------------
(* The order of dispatch. *)

CreatedPast == \A j \in Jobs : created[j] <= clock

PickedHaveRows == \A i \in 1..Len(picked) : row[picked[i]] # "none"

\* What was dispatched is older than what waits, and so is what the poll listed,
\* in its order.
PickedFirst ==
    \A i \in 1..Len(picked) : \A j \in Pending : created[picked[i]] <= created[j]

BatchInOrder ==
    \A a, b \in 1..Len(batch) : a < b => created[batch[a]] <= created[batch[b]]

RestIsLater ==
    \A j \in Pending : \/ \E i \in 1..Len(batch) : batch[i] = j
                       \/ \A i \in 1..Len(batch) : created[batch[i]] <= created[j]

EntryIsMarked == batch # <<>> /\ at # "mark" => row[Entry] # "PENDING"

OrderInv ==
    /\ CreatedPast /\ PickedHaveRows /\ PickedFirst
    /\ BatchInOrder /\ RestIsLater /\ EntryIsMarked
    /\ DispatchInOrder

LEMMA InitOrder == Init => OrderInv
  BY DEF Init, OrderInv, CreatedPast, PickedHaveRows, PickedFirst, BatchInOrder, RestIsLater,
     EntryIsMarked, DispatchInOrder, Pending

\* A step that makes no row PENDING and leaves the loop alone.
LEMMA QuietOrder ==
    ASSUME IInv, OrderInv, UNCHANGED <<created, picked>>, clock' \in {clock, clock + 1}, Pending' \subseteq Pending,
           \A j \in Jobs : row[j] # "none" => row'[j] # "none",
           batch' = <<>> \/ (batch' = batch /\ at' = at /\ row' = row)
    PROVE  OrderInv'
  <1>1. CreatedPast'
    BY DEF IInv, TypeOK, OrderInv, CreatedPast
  <1>2. PickedHaveRows'
    <2>1. \A i \in 1..Len(picked) : picked[i] \in Jobs
      BY DEF IInv, TypeOK
    <2> QED  BY <2>1 DEF OrderInv, PickedHaveRows
  <1>3. PickedFirst'
    BY DEF OrderInv, PickedFirst
  <1>4. CASE batch' = <<>>
    <2>1. BatchInOrder' /\ RestIsLater' /\ EntryIsMarked'
      BY <1>4 DEF BatchInOrder, RestIsLater, EntryIsMarked
    <2> QED  BY <1>1, <1>2, <1>3, <2>1 DEF OrderInv, DispatchInOrder
  <1>5. CASE batch' = batch /\ at' = at /\ row' = row
    <2>1. BatchInOrder' /\ RestIsLater' /\ EntryIsMarked'
      BY <1>5 DEF OrderInv, BatchInOrder, RestIsLater, EntryIsMarked, Entry
    <2> QED  BY <1>1, <1>2, <1>3, <2>1 DEF OrderInv, DispatchInOrder
  <1> QED  BY <1>4, <1>5

LEMMA EnqueueOrder ==
    ASSUME IInv, OrderInv, NEW j \in Jobs, Enqueue(j)
    PROVE  OrderInv'
  <1>1. /\ row[j] = "none" /\ row' = [row EXCEPT ![j] = "PENDING"]
        /\ created' = [created EXCEPT ![j] = clock]
        /\ UNCHANGED <<clock, batch, at, picked>>
    BY DEF Enqueue, loopVars
  <1>2. /\ row'[j] = "PENDING" /\ created'[j] = clock
        /\ \A k \in Jobs \ {j} : row'[k] = row[k] /\ created'[k] = created[k]
        /\ clock \in Nat /\ created \in [Jobs -> Nat]
    BY <1>1, QueueAssumption DEF IInv, TypeOK
  <1>3. Pending' = Pending \cup {j}
    BY <1>2 DEF Pending
  <1>4. \A i \in 1..Len(picked) : picked[i] \in Jobs \ {j}
    BY <1>1 DEF IInv, TypeOK, OrderInv, PickedHaveRows
  <1>5. \A i \in 1..Len(batch) : batch[i] \in Jobs \ {j}
    <2>1. batch \in Seq(Jobs)
      BY DEF IInv, TypeOK
    <2> SUFFICES ASSUME NEW i \in 1..Len(batch) PROVE batch[i] \in Jobs /\ row[batch[i]] # "none"
      BY <1>1
    <2>2. batch # <<>> /\ batch[i] \in Jobs
      BY <2>1
    <2>3. CASE i > 1 \/ at = "mark"
      BY <2>2, <2>3 DEF IInv, BatchIsPending
    <2>4. CASE ~ (i > 1) /\ at # "mark"
      <3>1. batch[i] = Entry
        BY <2>2, <2>4, EntryIsFirst DEF IInv
      <3> QED  BY <2>2, <2>4, <3>1 DEF IInv, EntryIsFree
    <2> QED  BY <2>3, <2>4
  <1>6. CreatedPast'
    BY <1>1, <1>2 DEF OrderInv, CreatedPast
  <1>7. PickedHaveRows' /\ DispatchInOrder'
    BY <1>1, <1>2, <1>4 DEF OrderInv, PickedHaveRows, DispatchInOrder
  <1>8. PickedFirst'
    BY <1>1, <1>2, <1>3, <1>4 DEF OrderInv, PickedFirst, CreatedPast, Pending
  <1>9. BatchInOrder'
    BY <1>1, <1>2, <1>5 DEF OrderInv, BatchInOrder
  <1>10. RestIsLater'
    <2> SUFFICES ASSUME NEW k \in Pending'
                 PROVE  \/ \E i \in 1..Len(batch) : batch[i] = k
                        \/ \A i \in 1..Len(batch) : created'[batch[i]] <= created'[k]
      BY <1>1 DEF RestIsLater
    <2>1. CASE k = j
      BY <1>2, <1>5, <2>1 DEF OrderInv, CreatedPast
    <2>2. CASE k # j
      BY <1>2, <1>3, <1>5, <2>2 DEF OrderInv, RestIsLater, Pending
    <2> QED  BY <2>1, <2>2
  <1>11. EntryIsMarked'
    <2>1. Entry' = Entry
      BY <1>1 DEF Entry
    <2>2. batch # <<>> => Entry \in Jobs \ {j}
      BY <1>5, EntryIsFirst DEF IInv
    <2> QED  BY <1>1, <1>2, <2>1, <2>2 DEF OrderInv, EntryIsMarked
  <1> QED  BY <1>6, <1>7, <1>8, <1>9, <1>10, <1>11 DEF OrderInv

LEMMA PollOrder ==
    ASSUME IInv, OrderInv, Poll
    PROVE  OrderInv'
  <1> DEFINE n == Cardinality(Pending)
  <1>1. n \in Nat /\ IsFiniteSet(Pending)
    <2>1. Pending \in SUBSET Jobs
      BY DEF Pending
    <2> QED  BY <2>1, QueueAssumption, FS_Subset, FS_CardinalityType
  <1>2. /\ batch' \in [1..n -> Pending]
        /\ \A a, b \in 1..n : a < b => batch'[a] # batch'[b] /\ created[batch'[a]] <= created[batch'[b]]
        /\ at' = "mark"
    BY DEF Poll, ByCreation
  <1>3. UNCHANGED <<row, created, clock, picked>>
    BY DEF Poll, rowVars
  <1>4. Cardinality(1..n) = n
    BY <1>1, FS_Interval
  <1> HIDE DEF n
  <1>5. Len(batch') = n
    BY <1>1, <1>2
  <1>6. batch' \in Injection(1..n, Pending)
    <2>1. \A a, b \in 1..n : batch'[a] = batch'[b] => a = b
      BY <1>1, <1>2
    <2> QED  BY <1>2, <2>1 DEF Injection, IsInjective
  <1>7. batch' \in Surjection(1..n, Pending)
    BY <1>1, <1>4, <1>6, FS_Injection DEF n
  <1>8. Pending' = Pending
    BY <1>3 DEF Pending
  <1>9. RestIsLater'
    BY <1>5, <1>7, <1>8 DEF RestIsLater, Surjection
  <1>10. BatchInOrder'
    BY <1>2, <1>3, <1>5 DEF BatchInOrder
  <1>11. EntryIsMarked'
    BY <1>2 DEF EntryIsMarked
  <1> QED
    BY <1>3, <1>8, <1>9, <1>10, <1>11
       DEF OrderInv, CreatedPast, PickedHaveRows, PickedFirst, DispatchInOrder

LEMMA MarkOrder ==
    ASSUME IInv, OrderInv, Mark
    PROVE  OrderInv'
  <1>1. /\ batch # <<>> /\ at = "mark" /\ batch' = batch
        /\ row' = [row EXCEPT ![Entry] = "DISPATCHED"]
        /\ picked' = Append(picked, Entry)
        /\ UNCHANGED <<created, clock>>
    BY DEF Mark, AtEntry
  <1>2. /\ Entry \in Jobs /\ Entry = batch[1] /\ Len(batch) \in Nat \ {0}
        /\ \A i \in 1..Len(batch) : batch[i] \in Jobs
    BY <1>1, EntryIsFirst DEF IInv
  <1>3. 1 \in 1..Len(batch) /\ row[Entry] = "PENDING"
    BY <1>1, <1>2 DEF IInv, BatchIsPending
  <1>4. row'[Entry] = "DISPATCHED" /\ \A j \in Jobs \ {Entry} : row'[j] = row[j]
    BY <1>1, <1>2 DEF IInv, TypeOK
  <1>5. Pending' = Pending \ {Entry} /\ Entry \in Pending
    BY <1>2, <1>3, <1>4 DEF Pending
  <1>6. /\ Len(picked) \in Nat /\ Len(picked') = Len(picked) + 1
        /\ \A i \in 1..Len(picked) : picked'[i] = picked[i] /\ picked[i] \in Jobs
        /\ picked'[Len(picked) + 1] = Entry
    BY <1>1, <1>2, AppendProperties DEF IInv, TypeOK
  <1>7. \A i \in 1..Len(picked') : (i \in 1..Len(picked) /\ picked'[i] = picked[i])
                                   \/ (i = Len(picked) + 1 /\ picked'[i] = Entry)
    BY <1>6
  <1>8. \A j \in Pending' : created[Entry] <= created[j]
    <2> SUFFICES ASSUME NEW j \in Pending' PROVE created[Entry] <= created[j]
      OBVIOUS
    <2>1. j \in Pending /\ j # Entry
      BY <1>5
    <2>2. CASE \E i \in 1..Len(batch) : batch[i] = j
      <3>1. PICK i \in 1..Len(batch) : batch[i] = j
        BY <2>2
      <3>2. 1 < i
        BY <1>2, <2>1, <3>1
      <3> QED  BY <1>2, <1>3, <3>1, <3>2 DEF OrderInv, BatchInOrder
    <2>3. CASE \A i \in 1..Len(batch) : created[batch[i]] <= created[j]
      BY <1>2, <1>3, <2>3
    <2> QED  BY <2>1, <2>2, <2>3 DEF OrderInv, RestIsLater
  <1>9. PickedHaveRows'
    BY <1>2, <1>4, <1>6, <1>7 DEF OrderInv, PickedHaveRows
  <1>10. PickedFirst'
    BY <1>1, <1>5, <1>7, <1>8 DEF OrderInv, PickedFirst
  <1>11. DispatchInOrder'
    <2> SUFFICES ASSUME NEW a \in 1..Len(picked'), NEW b \in 1..Len(picked'), a < b
                 PROVE  created[picked'[a]] <= created[picked'[b]]
      BY <1>1 DEF DispatchInOrder
    <2>1. a \in 1..Len(picked) /\ picked'[a] = picked[a]
      BY <1>6, <1>7
    <2>2. CASE b \in 1..Len(picked)
      BY <1>6, <2>1, <2>2 DEF OrderInv, DispatchInOrder
    <2>3. CASE picked'[b] = Entry
      BY <1>5, <2>1, <2>3 DEF OrderInv, PickedFirst
    <2> QED  BY <1>7, <2>2, <2>3
  <1>12. RestIsLater'
    BY <1>1, <1>5 DEF OrderInv, RestIsLater
  <1>13. EntryIsMarked'
    <2>1. Entry' = Entry
      BY <1>1 DEF Entry
    <2> QED  BY <1>4, <2>1 DEF EntryIsMarked
  <1> QED
    BY <1>1, <1>9, <1>10, <1>11, <1>12, <1>13 DEF OrderInv, CreatedPast, BatchInOrder

\* The loop goes on to the next entry, or marks this one again.
LEMMA EntryOrder ==
    ASSUME IInv, OrderInv, batch # <<>>, at # "mark", UNCHANGED <<created, clock, picked>>,
           row' \in {row, [row EXCEPT ![Entry] = "FAILED"]},
           NextEntry \/ (batch' = batch /\ at' # "mark")
    PROVE  OrderInv'
  <1>1. /\ Entry \in Jobs /\ Entry = batch[1] /\ Len(batch) \in Nat \ {0}
        /\ Len(Tail(batch)) = Len(batch) - 1
        /\ \A i \in 1..Len(Tail(batch)) : Tail(batch)[i] = batch[i + 1]
    BY EntryIsFirst DEF IInv
  <1>2. row[Entry] # "PENDING" /\ row[Entry] # "none"
    BY DEF OrderInv, EntryIsMarked, IInv, EntryIsFree
  <1>3. Pending' = Pending
    BY <1>1, <1>2 DEF Pending, IInv, TypeOK
  <1>4. \A j \in Jobs : row[j] # "none" => row'[j] # "none"
    BY <1>1 DEF IInv, TypeOK
  <1>5. PickedHaveRows'
    <2>1. \A i \in 1..Len(picked) : picked[i] \in Jobs
      BY DEF IInv, TypeOK
    <2> QED  BY <1>4, <2>1 DEF OrderInv, PickedHaveRows
  <1>6. BatchInOrder' /\ RestIsLater' /\ EntryIsMarked'
    <2>1. CASE batch' = batch /\ at' # "mark"
      <3>1. Entry' = Entry
        BY <2>1 DEF Entry
      <3>2. row'[Entry] # "PENDING"
        BY <1>1, <1>2 DEF IInv, TypeOK
      <3> QED  BY <1>3, <2>1, <3>1, <3>2 DEF OrderInv, BatchInOrder, RestIsLater, EntryIsMarked
    <2>2. CASE NextEntry
      <3> DEFINE rest == Tail(batch)
      <3>1. batch' = rest /\ at' = "mark"
        BY <2>2 DEF NextEntry
      <3>2. \A i \in 1..Len(rest) : rest[i] = batch[i + 1] /\ i + 1 \in 1..Len(batch)
        BY <1>1
      <3>3. \A i \in 1..Len(batch) : i = 1 \/ (i - 1 \in 1..Len(rest) /\ rest[i - 1] = batch[i])
        BY <1>1
      <3> HIDE DEF rest
      <3>4. BatchInOrder'
        <4> SUFFICES ASSUME NEW a \in 1..Len(rest), NEW b \in 1..Len(rest), a < b
                     PROVE  created[rest[a]] <= created[rest[b]]
          BY <3>1 DEF BatchInOrder
        <4>1. a + 1 < b + 1
          OBVIOUS
        <4> QED  BY <3>2, <4>1 DEF OrderInv, BatchInOrder
      <3>5. RestIsLater'
        <4> SUFFICES ASSUME NEW j \in Pending
                     PROVE  \/ \E i \in 1..Len(rest) : rest[i] = j
                            \/ \A i \in 1..Len(rest) : created[rest[i]] <= created[j]
          BY <1>3, <3>1 DEF RestIsLater
        <4>1. CASE \E i \in 1..Len(batch) : batch[i] = j
          <5>1. j # batch[1]
            BY <1>1, <1>2 DEF Pending
          <5> QED  BY <3>3, <4>1, <5>1
        <4>2. CASE \A i \in 1..Len(batch) : created[batch[i]] <= created[j]
          BY <3>2, <4>2
        <4> QED  BY <4>1, <4>2 DEF OrderInv, RestIsLater
      <3> QED  BY <3>1, <3>4, <3>5 DEF EntryIsMarked
    <2> QED  BY <2>1, <2>2
  <1> QED
    BY <1>3, <1>5, <1>6 DEF OrderInv, CreatedPast, PickedFirst, DispatchInOrder

LEMMA NextOrder == IInv /\ OrderInv /\ [Next]_vars => OrderInv'
  <1> SUFFICES ASSUME IInv, OrderInv, [Next]_vars PROVE OrderInv'
    OBVIOUS
  <1>1. CASE Poll
    BY <1>1, PollOrder
  <1>2. CASE Mark
    BY <1>2, MarkOrder
  <1>3. CASE Load
    <2>1. /\ batch # <<>> /\ at = "load" /\ UNCHANGED <<row, created, clock, picked>>
          /\ NextEntry \/ (batch' = batch /\ at' # "mark")
      BY <1>3 DEF Load, AtEntry, rowVars
    <2> QED  BY <2>1, EntryOrder
  <1>4. CASE MarkFailed
    <2>1. /\ batch # <<>> /\ at # "mark" /\ UNCHANGED <<created, clock, picked>>
          /\ row' = [row EXCEPT ![Entry] = "FAILED"]
          /\ NextEntry \/ (batch' = batch /\ at' # "mark")
      BY <1>4 DEF MarkFailed, AtEntry
    <2> QED  BY <2>1, EntryOrder
  <1>5. CASE Report
    <2>1. /\ batch # <<>> /\ at = "report" /\ UNCHANGED <<row, created, clock, picked>> /\ NextEntry
      BY <1>5 DEF Report, AtEntry, rowVars
    <2> QED  BY <2>1, EntryOrder
  <1>6. ASSUME NEW j \in Jobs, Enqueue(j) PROVE OrderInv'
    BY <1>6, EnqueueOrder
  <1>7. CASE CycleFails \/ Crash
    <2>1. UNCHANGED <<row, created, clock, picked>> /\ batch' = <<>>
      BY <1>7 DEF CycleFails, Crash, rowVars
    <2> QED  BY <2>1, QuietOrder DEF Pending
  <1>8. ASSUME NEW j \in Jobs, Task(j) PROVE OrderInv'
    <2>1. UNCHANGED <<row, created, clock, batch, at, picked>>
      BY <1>8, TaskStepMoves DEF TaskMoves, rowVars, loopVars
    <2> QED  BY <2>1, QuietOrder DEF Pending
  <1>9. CASE Tick \/ (\E j \in Jobs : UserWrites(j) \/ JobLost(j) \/ Charge(j)) \/ UNCHANGED vars
    <2>1. UNCHANGED <<row, created, batch, at, picked>> /\ clock' \in {clock, clock + 1}
      BY <1>9 DEF Tick, UserWrites, JobLost, Charge, vars, rowVars, loopVars
    <2> QED  BY <2>1, QuietOrder DEF Pending
  <1> QED  BY <1>1, <1>2, <1>3, <1>4, <1>5, <1>6, <1>7, <1>8, <1>9 DEF Next, Loop

-----------------------------------------------------------------------------

THEOREM IInvHolds == Spec => []IInv
  BY InitIInv, NextIInv, PTL DEF Spec

\* The table, the loop, the tasks and the histories keep their types.
THEOREM RemoteTypeOK == Spec => []TypeOK
  BY IInvHolds, PTL DEF IInv

\* No job is launched twice.
THEOREM RemoteAtMostOneLaunch == Spec => []AtMostOneLaunch
  BY IInvHolds, PTL DEF IInv

\* A row that is not DISPATCHED belongs to a job nobody has launched or is
\* launching.
THEOREM RemoteRowsTellTheTruth == Spec => []RowsTellTheTruth
  BY IInvHolds, PTL DEF IInv

\* A launch that was given up holds no quota, unless a database fault took its
\* release back, and a hold that was given back belongs to a job that was told so
\* (_process_launch_item, _record_quota_usage_internal).
THEOREM RemoteGivenUpIsSettled == Spec => []GivenUpIsSettled
  BY InitIInv, NextIInv, InitSettled, NextSettled, ConsistentIsSettled, PTL DEF Spec

\* However rows arrive, cycles fail and servers crash, jobs are dispatched in the
\* order in which they were created, to the second (_poll_pending_remote_entries,
\* _mark_entry_dispatched).
THEOREM RemoteDispatchInOrder == Spec => []DispatchInOrder
  <1>1. OrderInv => DispatchInOrder
    BY DEF OrderInv
  <1> QED  BY InitIInv, NextIInv, InitOrder, NextOrder, <1>1, PTL DEF Spec

=============================================================================
