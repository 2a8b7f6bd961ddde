-------------------------- MODULE QuotaLedgerProofs --------------------------
(***************************************************************************)
(* Proofs about QuotaLedger: minutes are counted once and charged once,    *)
(* for any number of jobs and whoever charges them.                        *)
(***************************************************************************)
EXTENDS QuotaLedger, TLAPS

-----------------------------------------------------------------------------
(* The inductive invariant. *)

\* Stages at which the hold of a launch has been made and its start is known.
Begun == {"live", "launched", "failed"}

\* A job has no start before its hold, and no start in the future.
StartAfterHold ==
    \A j \in Jobs : start[j] # Unknown => stage[j] \in Begun /\ start[j] <= clock

\* A job has an end only after its start.
EndAfterStart ==
    \A j \in Jobs : end[j] # Unknown => start[j] # Unknown /\ start[j] <= end[j]

\* The same of the records that the tasks were given.
TasksAfterHold ==
    \A t \in tasks : t.start # Unknown => stage[t.job] \in Begun

\* Minutes are only recorded of a job that has started.
UsageAfterHold == \A j \in Jobs : usage[j] # Unknown => stage[j] \in Begun

\* A launch that reached its start knows it.
BegunIsStarted == \A j \in Jobs : stage[j] \in Begun => start[j] # Unknown

IInv ==
    /\ TypeOK
    /\ CountedOnce
    /\ StartAfterHold
    /\ EndAfterStart
    /\ TasksAfterHold
    /\ UsageAfterHold
    /\ BegunIsStarted

-----------------------------------------------------------------------------
(* Recording minutes. *)

\* What a step may do to the rows: it makes no hold, charges only a job that
\* has begun and was not charged, and converts or releases its hold as it does.
OneCharge(j) ==
    /\ hold' \in [Jobs -> Holds]
    /\ usage' \in [Jobs -> Times \cup {Unknown}]
    /\ \A i \in Jobs : hold'[i] = "HELD" => hold[i] = "HELD"
    /\ \A i \in Jobs : usage'[i] # usage[i] =>
                         /\ i = j /\ usage[i] = Unknown
                         /\ stage[i] \in Begun /\ hold'[i] # "HELD"

\* The time between a start and an end is a time, when it is not negative.
LEMMA Duration ==
    ASSUME NEW from \in Times, NEW to \in Times, to >= from
    PROVE  to - from \in Times
  BY LedgerAssumption DEF Times

LEMMA RecordIsOneCharge ==
    ASSUME IInv, NEW j \in Jobs, NEW from \in Times \cup {Unknown}, NEW to \in Times,
           Record(j, from, to),
           from # Unknown => stage[j] \in Begun
    PROVE  OneCharge(j)
  <1>1. /\ hold \in [Jobs -> Holds] /\ usage \in [Jobs -> Times \cup {Unknown}]
    BY DEF IInv, TypeOK
  <1>2. CASE from = Unknown
    <2>1. hold' = [hold EXCEPT ![j] = Released(j)] /\ UNCHANGED usage
      BY <1>2 DEF Record
    <2>2. Released(j) \in Holds /\ (Released(j) = "HELD" => hold[j] = "HELD")
      BY <1>1 DEF Released, Holds
    <2> QED  BY <1>1, <2>1, <2>2 DEF OneCharge
  <1>3. CASE from # Unknown /\ usage[j] = Unknown /\ to >= from
    <2>1. /\ usage' = [usage EXCEPT ![j] = to - from]
          /\ hold' = [hold EXCEPT ![j] = Converted(j)]
      BY <1>3 DEF Record, Charge
    <2>2. Converted(j) \in Holds /\ Converted(j) # "HELD"
      BY <1>1 DEF Converted, Holds
    <2>3. to - from \in Times
      BY <1>3, Duration
    <2> QED  BY <1>1, <1>3, <2>1, <2>2, <2>3 DEF OneCharge
  <1>4. CASE ~ (from = Unknown) /\ ~ (from # Unknown /\ usage[j] = Unknown /\ to >= from)
    <2>1. UNCHANGED <<hold, usage>>
      BY <1>4 DEF Record, rows
    <2> QED  BY <1>1, <2>1 DEF OneCharge
  <1> QED  BY <1>2, <1>3, <1>4

\* A step that only records keeps the invariant.
LEMMA OneChargeKeepsIInv ==
    ASSUME IInv, NEW j \in Jobs, OneCharge(j), tasks' \subseteq tasks,
           UNCHANGED <<stage, records, clock, crashes>>
    PROVE  IInv'
  <1>1. TypeOK'
    BY DEF IInv, TypeOK, OneCharge, records
  <1>2. CountedOnce'
    BY DEF IInv, CountedOnce, TypeOK, OneCharge
  <1>3. UsageAfterHold'
    BY DEF IInv, UsageAfterHold, TypeOK, OneCharge
  <1> QED
    BY <1>1, <1>2, <1>3
    DEF IInv, StartAfterHold, EndAfterStart, TasksAfterHold, BegunIsStarted, records

-----------------------------------------------------------------------------
(* The steps. *)

LEMMA InitIInv == Init => IInv
  <1> SUFFICES ASSUME Init PROVE IInv
    OBVIOUS
  <1>1. Unknown \notin Times /\ 0 \in Times
    BY LedgerAssumption DEF Unknown, Times
  <1>2. TypeOK
    BY <1>1, LedgerAssumption DEF Init, TypeOK, Stages, Holds, Statuses, Final
  <1> QED
    BY <1>2 DEF Init, IInv, CountedOnce, StartAfterHold, EndAfterStart, TasksAfterHold,
                UsageAfterHold, BegunIsStarted, Begun

\* The launch goes from one stage to the next.
LEMMA CheckKeepsIInv ==
    ASSUME IInv, NEW j \in Jobs, Check(j)
    PROVE  IInv'
  <1> USE DEF Check, Advance, rows, records, IInv
  <1>1. stage' = [stage EXCEPT ![j] = "created"] /\ stage[j] = "none"
    OBVIOUS
  <1>2. TypeOK'
    BY <1>1 DEF TypeOK, Stages
  <1> QED
    BY <1>1, <1>2 DEF TypeOK, CountedOnce, StartAfterHold, EndAfterStart, TasksAfterHold,
                UsageAfterHold, BegunIsStarted, Begun, Snapshots

LEMMA HoldKeepsIInv ==
    ASSUME IInv, NEW j \in Jobs, Hold(j)
    PROVE  IInv'
  <1> USE DEF Hold, Advance, records, IInv
  <1>1. /\ stage' = [stage EXCEPT ![j] = "held"] /\ stage[j] = "created"
        /\ hold' = [hold EXCEPT ![j] = "HELD"]
    OBVIOUS
  <1>2. TypeOK'
    BY <1>1 DEF TypeOK, Stages, Holds
  <1>3. usage[j] = Unknown
    BY <1>1 DEF UsageAfterHold, Begun
  <1>4. CountedOnce'
    BY <1>1, <1>3 DEF TypeOK, CountedOnce
  <1> QED
    BY <1>1, <1>2, <1>4 DEF TypeOK, StartAfterHold, EndAfterStart, TasksAfterHold,
                UsageAfterHold, BegunIsStarted, Begun, Snapshots

LEMMA StartKeepsIInv ==
    ASSUME IInv, NEW j \in Jobs, Start(j)
    PROVE  IInv'
  <1> USE DEF Start, Advance, rows, IInv
  <1>1. /\ stage' = [stage EXCEPT ![j] = "live"] /\ stage[j] = "held"
        /\ start' = [start EXCEPT ![j] = clock]
        /\ UNCHANGED <<hold, usage, status, end, tasks, clock, crashes>>
    OBVIOUS
  <1>2. TypeOK'
    BY <1>1 DEF TypeOK, Stages
  <1>3. clock # Unknown /\ clock <= clock
    BY LedgerAssumption DEF TypeOK, Times, Unknown
  <1>4. start[j] = Unknown /\ end[j] = Unknown
    BY <1>1 DEF StartAfterHold, EndAfterStart, Begun
  <1> QED
    BY <1>1, <1>2, <1>3, <1>4
    DEF TypeOK, CountedOnce, StartAfterHold, EndAfterStart, TasksAfterHold,
        UsageAfterHold, BegunIsStarted, Begun, Snapshots

LEMMA LaunchKeepsIInv ==
    ASSUME IInv, NEW j \in Jobs, Launch(j)
    PROVE  IInv'
  <1> USE DEF Launch, Advance, rows, IInv
  <1>1. /\ stage' = [stage EXCEPT ![j] = "launched"] /\ stage[j] = "live"
        /\ status' = [status EXCEPT ![j] = "LIVE"]
        /\ UNCHANGED <<hold, usage, start, end, tasks, clock, crashes>>
    OBVIOUS
  <1>2. TypeOK'
    BY <1>1 DEF TypeOK, Stages, Statuses
  <1> QED
    BY <1>1, <1>2 DEF TypeOK, CountedOnce, StartAfterHold, EndAfterStart, TasksAfterHold,
                UsageAfterHold, BegunIsStarted, Begun, Snapshots

\* A failing launch charges a job once, and releases its hold.
LEMMA LaunchFailsIsOneCharge ==
    ASSUME IInv, NEW j \in Jobs, LaunchFails(j)
    PROVE  OneCharge(j)
  <1>1. /\ hold \in [Jobs -> Holds] /\ usage \in [Jobs -> Times \cup {Unknown}]
        /\ stage[j] = "live" /\ stage[j] \in Begun
    BY DEF LaunchFails, Advance, IInv, TypeOK, Begun
  <1>2. CASE usage[j] = Unknown
    <2> DEFINE to == IF end[j] = Unknown THEN clock ELSE end[j]
    <2>1. /\ usage' = [usage EXCEPT ![j] = to - start[j]]
          /\ hold' = [hold EXCEPT ![j] = "RELEASED"]
      BY <1>2 DEF LaunchFails
    <2>2. start[j] # Unknown /\ start[j] <= clock
      BY <1>1 DEF IInv, BegunIsStarted, StartAfterHold
    <2>3. start[j] \in Times /\ to \in Times /\ to >= start[j]
      BY <2>2, LedgerAssumption DEF IInv, TypeOK, EndAfterStart, Times, Unknown
    <2>4. to - start[j] \in Times
      BY <2>3, Duration
    <2> HIDE DEF to
    <2> QED  BY <1>1, <1>2, <2>1, <2>4 DEF OneCharge, Holds
  <1>3. CASE usage[j] # Unknown
    <2>1. UNCHANGED <<hold, usage>>
      BY <1>3 DEF LaunchFails, rows
    <2> QED  BY <1>1, <2>1 DEF OneCharge
  <1> QED  BY <1>2, <1>3

LEMMA LaunchFailsKeepsIInv ==
    ASSUME IInv, NEW j \in Jobs, LaunchFails(j)
    PROVE  IInv'
  <1>1. OneCharge(j)
    BY LaunchFailsIsOneCharge
  <1>2. /\ stage' = [stage EXCEPT ![j] = "failed"] /\ stage[j] = "live"
        /\ status' = [status EXCEPT ![j] = "FAILED"]
        /\ UNCHANGED <<start, end, tasks, clock, crashes>>
    BY DEF LaunchFails, Advance
  <1>3. TypeOK'
    BY <1>1, <1>2 DEF OneCharge, IInv, TypeOK, Stages, Statuses, Final
  <1>4. CountedOnce'
    BY <1>1 DEF IInv, CountedOnce, TypeOK, OneCharge
  <1>5. UsageAfterHold'
    BY <1>1, <1>2 DEF IInv, UsageAfterHold, TypeOK, OneCharge, Begun
  <1> QED
    BY <1>2, <1>3, <1>4, <1>5
    DEF IInv, TypeOK, StartAfterHold, EndAfterStart, TasksAfterHold, BegunIsStarted, Begun,
        Snapshots

\* The server ends a job and starts the task that will charge it.
LEMMA EndByServerKeepsIInv ==
    ASSUME IInv, NEW j \in Jobs, NEW s \in Statuses, NEW e \in {clock, end[j]},
           EndByServer(j, s, e), stage[j] \in Begun \/ e = end[j]
    PROVE  IInv'
  <1>1. /\ status' = [status EXCEPT ![j] = s]
        /\ end' = [end EXCEPT ![j] = e]
        /\ tasks' = tasks \cup {[job |-> j, start |-> start[j], end |-> e]}
        /\ UNCHANGED <<stage, hold, usage, start, clock, crashes>>
    BY DEF EndByServer, rows
  <1>2. e \in Times \cup {Unknown}
    BY DEF IInv, TypeOK
  <1>3. TypeOK'
    BY <1>1, <1>2 DEF IInv, TypeOK, Snapshots
  <1>4. e # Unknown => start[j] # Unknown /\ start[j] <= e
    BY DEF IInv, EndAfterStart, StartAfterHold, BegunIsStarted
  <1>5. EndAfterStart'
    BY <1>1, <1>4 DEF IInv, TypeOK, EndAfterStart
  <1>6. TasksAfterHold'
    BY <1>1 DEF IInv, TasksAfterHold, StartAfterHold
  <1> QED
    BY <1>1, <1>3, <1>5, <1>6
    DEF IInv, CountedOnce, StartAfterHold, UsageAfterHold, BegunIsStarted

LEMMA JobEndsKeepsIInv ==
    ASSUME IInv, NEW j \in Jobs, JobEnds(j)
    PROVE  IInv'
  <1>1. /\ stage[j] \in Begun
        /\ \E s \in Final : status' = [status EXCEPT ![j] = s]
        /\ end' = [end EXCEPT ![j] = clock]
        /\ UNCHANGED <<stage, hold, usage, start, tasks, clock, crashes>>
    BY DEF JobEnds, rows, Begun
  <1>2. TypeOK'
    BY <1>1 DEF IInv, TypeOK, Statuses
  <1>3. EndAfterStart'
    BY <1>1 DEF IInv, TypeOK, EndAfterStart, BegunIsStarted, StartAfterHold
  <1> QED
    BY <1>1, <1>2, <1>3
    DEF IInv, CountedOnce, StartAfterHold, TasksAfterHold, UsageAfterHold, BegunIsStarted

LEMMA DeleteKeepsIInv ==
    ASSUME IInv, NEW j \in Jobs, Delete(j)
    PROVE  IInv'
  <1>1. /\ status' = [status EXCEPT ![j] = "DELETED"]
        /\ UNCHANGED <<stage, hold, usage, start, end, tasks, clock, crashes>>
    BY DEF Delete, rows
  <1>2. TypeOK'
    BY <1>1 DEF IInv, TypeOK, Statuses
  <1> QED
    BY <1>1, <1>2
    DEF IInv, CountedOnce, StartAfterHold, EndAfterStart, TasksAfterHold, UsageAfterHold,
        BegunIsStarted

\* The two charges that are not part of another step.
LEMMA TrackIsOneCharge ==
    ASSUME IInv, NEW t \in tasks, Track(t)
    PROVE  t.job \in Jobs /\ OneCharge(t.job)
  <1>1. /\ t.job \in Jobs /\ t.start \in Times \cup {Unknown}
        /\ (IF t.end = Unknown THEN clock ELSE t.end) \in Times
    BY DEF IInv, TypeOK, Snapshots
  <1>2. t.start # Unknown => stage[t.job] \in Begun
    BY DEF IInv, TasksAfterHold
  <1> QED  BY <1>1, <1>2, RecordIsOneCharge DEF Track

LEMMA EnsureIsOneCharge ==
    ASSUME IInv, NEW j \in Jobs, Ensure(j)
    PROVE  OneCharge(j)
  <1>1. /\ start[j] \in Times \cup {Unknown}
        /\ (IF end[j] = Unknown THEN clock ELSE end[j]) \in Times
    BY DEF IInv, TypeOK
  <1>2. start[j] # Unknown => stage[j] \in Begun
    BY DEF IInv, StartAfterHold
  <1> QED  BY <1>1, <1>2, RecordIsOneCharge DEF Ensure

LEMMA NextIInv == IInv /\ [Next]_vars => IInv'
  <1> SUFFICES ASSUME IInv, [Next]_vars PROVE IInv'
    OBVIOUS
  <1>1. CASE Tick
    <2>1. /\ clock \in Times /\ clock' = clock + 1 /\ clock' \in Times
          /\ UNCHANGED <<stage, rows, records, tasks, crashes>>
      BY <1>1, LedgerAssumption DEF Tick, IInv, TypeOK, Times
    <2>2. \A j \in Jobs : start[j] # Unknown => start[j] <= clock'
      BY <2>1, LedgerAssumption DEF IInv, TypeOK, StartAfterHold, Times, Unknown
    <2> QED
      BY <2>1, <2>2
      DEF IInv, TypeOK, CountedOnce, StartAfterHold, EndAfterStart, TasksAfterHold,
          UsageAfterHold, BegunIsStarted, rows, records
  <1>2. CASE Crash
    <2>1. crashes' \in 0..MaxCrashes
      BY <1>2, LedgerAssumption DEF Crash, IInv, TypeOK
    <2> QED
      BY <1>2, <2>1
      DEF Crash, IInv, TypeOK, CountedOnce, StartAfterHold, EndAfterStart, TasksAfterHold,
          UsageAfterHold, BegunIsStarted, rows, records
  <1>3. ASSUME NEW j \in Jobs, Check(j) \/ Hold(j) \/ Start(j) \/ Launch(j)
        PROVE  IInv'
    BY <1>3, CheckKeepsIInv, HoldKeepsIInv, StartKeepsIInv, LaunchKeepsIInv
  <1>4. ASSUME NEW j \in Jobs, WorkerEnds(j)
        PROVE  IInv'
    <2>1. PICK s \in Final : EndByServer(j, s, clock)
      BY <1>4 DEF WorkerEnds
    <2>2. stage[j] \in Begun /\ s \in Statuses
      BY <1>4 DEF WorkerEnds, Begun, Statuses
    <2> QED  BY <2>1, <2>2, EndByServerKeepsIInv
  <1>5. ASSUME NEW j \in Jobs, UserEnds(j)
        PROVE  IInv'
    <2>1. PICK s \in Final \cup {"DELETED"} : EndByServer(j, s, end[j])
      BY <1>5 DEF UserEnds
    <2>2. s \in Statuses
      BY DEF Statuses
    <2> QED  BY <2>1, <2>2, EndByServerKeepsIInv
  <1>6. ASSUME NEW j \in Jobs, JobEnds(j) \/ Delete(j) \/ LaunchFails(j)
        PROVE  IInv'
    BY <1>6, JobEndsKeepsIInv, DeleteKeepsIInv, LaunchFailsKeepsIInv
  <1>7. ASSUME NEW j \in Jobs, TrackJob(j)
        PROVE  IInv'
    <2>1. PICK t \in tasks : Track(t)
      BY <1>7 DEF TrackJob
    <2>2. t.job \in Jobs /\ OneCharge(t.job)
      BY <2>1, TrackIsOneCharge
    <2> QED  BY <2>1, <2>2, OneChargeKeepsIInv DEF Track
  <1>8. ASSUME NEW j \in Jobs, Ensure(j)
        PROVE  IInv'
    <2>1. OneCharge(j)
      BY <1>8, EnsureIsOneCharge
    <2> QED  BY <1>8, <2>1, OneChargeKeepsIInv DEF Ensure
  <1>9. CASE UNCHANGED vars
    BY <1>9
    DEF vars, rows, records, IInv, TypeOK, CountedOnce, StartAfterHold, EndAfterStart,
        TasksAfterHold, UsageAfterHold, BegunIsStarted
  <1> QED
    BY <1>1, <1>2, <1>3, <1>4, <1>5, <1>6, <1>7, <1>8, <1>9 DEF Next, Ends

-----------------------------------------------------------------------------

THEOREM IInvHolds == Spec => []IInv
  BY InitIInv, NextIInv, PTL DEF Spec

\* The rows, the records, the tasks and the clock keep their types; no usage row
\* has negative minutes.
THEOREM LedgerTypeOK == Spec => []TypeOK
  BY IInvHolds, PTL DEF IInv

\* Minutes are never both used and held, for any number of jobs, tasks, clients
\* and crashes.
THEOREM LedgerCountedOnce == Spec => []CountedOnce
  BY IInvHolds, PTL DEF IInv

\* A job that was charged is not charged again, whatever anybody does.
THEOREM LedgerChargedOnce == Spec => ChargedOnce
  <1>1. IInv /\ [Next]_vars
            => [\A j \in Jobs : usage[j] # Unknown => usage'[j] = usage[j]]_vars
    <2> SUFFICES ASSUME IInv, Next
                 PROVE  \A j \in Jobs : usage[j] # Unknown => usage'[j] = usage[j]
      OBVIOUS
    <2>1. ASSUME NEW j \in Jobs, OneCharge(j)
          PROVE  \A i \in Jobs : usage[i] # Unknown => usage'[i] = usage[i]
      BY <2>1 DEF OneCharge
    <2>2. CASE usage' = usage
      BY <2>2
    <2>3. ASSUME NEW j \in Jobs, TrackJob(j)
          PROVE  \E i \in Jobs : OneCharge(i)
      BY <2>3, TrackIsOneCharge DEF TrackJob
    <2>4. ASSUME NEW j \in Jobs, Ensure(j)
          PROVE  OneCharge(j)
      BY <2>4, EnsureIsOneCharge
    <2>5. ASSUME NEW j \in Jobs, LaunchFails(j)
          PROVE  OneCharge(j)
      BY <2>5, LaunchFailsIsOneCharge
    <2>6. \/ usage' = usage
          \/ \E j \in Jobs : TrackJob(j) \/ Ensure(j) \/ LaunchFails(j)
      BY DEF Next, Tick, Crash, Check, Hold, Start, Launch, Ends, WorkerEnds, UserEnds,
             EndByServer, JobEnds, Delete, rows
    <2> QED  BY <2>1, <2>2, <2>3, <2>4, <2>5, <2>6
  <1> QED  BY <1>1, IInvHolds, PTL DEF Spec, ChargedOnce

=============================================================================
