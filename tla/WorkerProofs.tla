---------------------------- MODULE WorkerProofs ----------------------------
(***************************************************************************)
(* Proofs about what runs in the background of the server: the election,   *)
(* the notifications, the migrations and the base environment              *)
(* (ServerWorkers), the sweeps (Sweep) and the circuit breaker of the      *)
(* status worker (ProviderBreaker).                                        *)
(***************************************************************************)
EXTENDS ServerWorkers, Sweep, ProviderBreaker, FiniteSetTheorems, TLAPS

-----------------------------------------------------------------------------
(* One leader. *)

\* Who leads holds the lock, and posts nothing unless it leads.
OneLeader ==
    \A p \in Procs : /\ leads[p] => flock = p /\ up[p] = "up"
                     /\ doing[p] # NoJob => leads[p]

\* What was posted is marked, about to be, or lost.
PostsAccounted ==
    \A j \in Jobs :
        \/ posts[j] <= lost[j]
        \/ posts[j] <= 1 + lost[j] /\ (j \in sent \/ \E p \in Procs : doing[p] = j)

DoingUnsent == \A p \in Procs : doing[p] \notin sent

\* The old place of a directory is emptied after the new one is whole.
RemovedIsCopied ==
    \A p \in Procs : /\ mig[p].at \in {"copy", "remove"} => mig[p].dir \in Dirs
                     /\ mig[p].at = "remove" => dest[mig[p].dir] = "whole"

\* The lock of the base environment is held by the call that works on it.
LockIsHeld ==
    \A s \in Setups : at[s] \in {"locked", "cleaning", "install"} <=> baseLock = s

\* A ready file without a whole environment is about to be removed.
ReadyIsTrue ==
    ready /\ env # "whole" /\ ~ torn => baseLock # NoSetup /\ at[baseLock] = "cleaning"

WorkersInv == /\ WorkersTypeOK
              /\ OneLeader /\ PostsAccounted /\ DoingUnsent
              /\ RemovedIsCopied /\ NothingIsLost
              /\ LockIsHeld /\ ReadyIsTrue

NoteInv == ProcTypeOK /\ NoteTypeOK /\ OneLeader /\ PostsAccounted /\ DoingUnsent
MoveInv == MigTypeOK /\ RemovedIsCopied /\ NothingIsLost
BaseInv == BaseTypeOK /\ LockIsHeld /\ ReadyIsTrue

LEMMA WorkersParts == WorkersInv <=> NoteInv /\ MoveInv /\ BaseInv
  BY DEF WorkersInv, WorkersTypeOK, NoteInv, MoveInv, BaseInv

LEMMA InitWorkers == WorkersInit => WorkersInv
  <1> SUFFICES ASSUME WorkersInit PROVE WorkersInv
    OBVIOUS
  <1>1. NoteInv
    BY ProcAssumption, NoteAssumption
    DEF WorkersInit, ProcInit, NoteInit, NoteInv, ProcTypeOK, NoteTypeOK, OneLeader,
        PostsAccounted, DoingUnsent
  <1>2. MoveInv
    BY MigAssumption
    DEF WorkersInit, MigInit, MoveInv, MigTypeOK, RemovedIsCopied, NothingIsLost, NoTask,
        Contents
  <1>3. BaseInv
    BY BaseAssumption
    DEF WorkersInit, BaseInit, BaseInv, BaseTypeOK, LockIsHeld, ReadyIsTrue, Ends
  <1> QED  BY <1>1, <1>2, <1>3, WorkersParts

-----------------------------------------------------------------------------
(* The processes and the notifications. *)

LEMMA LiveKeeps ==
    ASSUME NoteInv, NEW p \in Procs, Start(p) \/ Elect(p), UNCHANGED noteVars
    PROVE  NoteInv'
  <1>1. CASE Start(p)
    BY <1>1 DEF Start, noteVars, NoteInv, ProcTypeOK, NoteTypeOK, OneLeader, PostsAccounted,
                DoingUnsent
  <1>2. CASE Elect(p)
    <2>1. ProcTypeOK'
      BY <1>2 DEF Elect, NoteInv, ProcTypeOK
    <2>2. OneLeader'
      BY <1>2, ProcAssumption DEF Elect, noteVars, NoteInv, ProcTypeOK, NoteTypeOK, OneLeader
    <2> QED
      BY <2>1, <2>2 DEF noteVars, NoteInv, NoteTypeOK, PostsAccounted, DoingUnsent
  <1> QED  BY <1>1, <1>2

LEMMA OnlyOneDoes ==
    ASSUME NoteInv, NEW p \in Procs, NEW q \in Procs, leads[p], doing[q] # NoJob
    PROVE  p = q
  BY DEF NoteInv, OneLeader

LEMMA DieKeeps ==
    ASSUME NoteInv, NEW p \in Procs, End(p), NoteCut(p)
    PROVE  NoteInv'
  <1>1. ProcTypeOK'
    BY ProcAssumption DEF NoteInv, End, ProcTypeOK
  <1>2. NoteTypeOK'
    BY DEF NoteInv, NoteCut, NoteTypeOK
  <1>3. OneLeader'
    BY DEF NoteInv, End, NoteCut, ProcTypeOK, NoteTypeOK, OneLeader
  <1>4. DoingUnsent'
    BY NoteAssumption DEF NoteInv, NoteCut, NoteTypeOK, DoingUnsent
  <1>5. PostsAccounted'
    <2> SUFFICES ASSUME NEW j \in Jobs
                 PROVE  \/ posts'[j] <= lost'[j]
                        \/ posts'[j] <= 1 + lost'[j]
                           /\ (j \in sent' \/ \E q \in Procs : doing'[q] = j)
      BY DEF PostsAccounted
    <2>1. posts' = posts /\ sent' = sent /\ posts[j] \in Nat /\ lost[j] \in Nat
      BY DEF NoteInv, NoteCut, NoteTypeOK
    <2>2. CASE doing[p] = j
      <3>1. lost'[j] = lost[j] + 1
        BY <2>2, NoteAssumption DEF NoteInv, NoteCut, NoteTypeOK
      <3> QED  BY <2>1, <3>1 DEF NoteInv, PostsAccounted
    <2>3. CASE doing[p] # j
      <3>1. lost'[j] = lost[j] /\ \A q \in Procs : doing[q] = j => doing'[q] = j
        BY <2>3 DEF NoteInv, NoteCut, NoteTypeOK
      <3> QED  BY <2>1, <3>1 DEF NoteInv, PostsAccounted
    <2> QED  BY <2>2, <2>3
  <1> QED  BY <1>1, <1>2, <1>3, <1>4, <1>5 DEF NoteInv

LEMMA AnnounceKeeps ==
    ASSUME NoteInv, NEW p \in Procs, NEW j \in Jobs, Announce(p, j), UNCHANGED procVars
    PROVE  NoteInv'
  <1>1. leads[p] /\ doing[p] = NoJob /\ j \notin sent
    BY DEF Announce, RunsWorkers
  <1>2. \A q \in Procs : doing[q] = NoJob
    BY <1>1, OnlyOneDoes
  <1>3. NoteTypeOK' /\ ProcTypeOK'
    BY DEF NoteInv, Announce, NoteTypeOK, procVars, ProcTypeOK
  <1>4. OneLeader' /\ DoingUnsent'
    BY <1>1, <1>2, NoteAssumption
    DEF NoteInv, Announce, NoteTypeOK, procVars, OneLeader, DoingUnsent
  <1>5. PostsAccounted'
    <2> SUFFICES ASSUME NEW i \in Jobs
                 PROVE  \/ posts'[i] <= lost'[i]
                        \/ posts'[i] <= 1 + lost'[i]
                           /\ (i \in sent' \/ \E q \in Procs : doing'[q] = i)
      BY DEF PostsAccounted
    <2>1. lost' = lost /\ sent' = sent /\ posts[i] \in Nat /\ lost[i] \in Nat
      BY DEF NoteInv, Announce, NoteTypeOK
    <2>2. posts[i] <= lost[i] \/ (posts[i] <= 1 + lost[i] /\ i \in sent)
      BY <1>2, NoteAssumption DEF NoteInv, PostsAccounted
    <2>3. CASE i = j
      <3>1. posts'[i] = posts[i] + 1 /\ doing'[p] = i
        BY <2>3 DEF NoteInv, Announce, NoteTypeOK
      <3> QED  BY <1>1, <2>1, <2>2, <2>3, <3>1
    <2>4. CASE i # j
      <3>1. posts'[i] = posts[i]
        BY <2>4 DEF NoteInv, Announce, NoteTypeOK
      <3> QED  BY <2>1, <2>2, <3>1
    <2> QED  BY <2>3, <2>4
  <1> QED  BY <1>3, <1>4, <1>5 DEF NoteInv

LEMMA MarkKeeps ==
    ASSUME NoteInv, NEW p \in Procs, Mark(p) \/ MarkFails(p), UNCHANGED procVars
    PROVE  NoteInv'
  <1> DEFINE j == doing[p]
  <1>1. j \in Jobs /\ leads[p] /\ \A q \in Procs : doing[q] # NoJob => q = p
    <2>1. doing[p] # NoJob
      BY DEF Mark, MarkFails
    <2>2. leads[p] /\ j \in Jobs
      BY <2>1 DEF NoteInv, OneLeader, NoteTypeOK
    <2> QED  BY <2>2, OnlyOneDoes
  <1>2. doing' = [doing EXCEPT ![p] = NoJob] /\ posts' = posts
    BY DEF Mark, MarkFails
  <1>3. NoteTypeOK' /\ ProcTypeOK'
    BY <1>1, <1>2 DEF NoteInv, Mark, MarkFails, NoteTypeOK, procVars, ProcTypeOK
  <1>4. OneLeader'
    BY <1>2 DEF NoteInv, NoteTypeOK, procVars, OneLeader
  <1>5. DoingUnsent'
    <2>1. \A q \in Procs : doing'[q] = NoJob
      BY <1>1, <1>2 DEF NoteInv, NoteTypeOK
    <2> QED  BY <1>3, <2>1, NoteAssumption DEF DoingUnsent, NoteTypeOK
  <1>6. PostsAccounted'
    <2> SUFFICES ASSUME NEW i \in Jobs
                 PROVE  \/ posts'[i] <= lost'[i]
                        \/ posts'[i] <= 1 + lost'[i]
                           /\ (i \in sent' \/ \E q \in Procs : doing'[q] = i)
      BY DEF PostsAccounted
    <2>1. posts[i] \in Nat /\ lost[i] \in Nat
      BY DEF NoteInv, NoteTypeOK
    <2>2. \/ posts[i] <= lost[i]
          \/ posts[i] <= 1 + lost[i] /\ (i \in sent \/ i = j)
      BY <1>1, NoteAssumption DEF NoteInv, PostsAccounted
    <2>3. CASE Mark(p)
      <3>1. lost' = lost /\ sent' = sent \cup {j}
        BY <2>3 DEF Mark
      <3> QED  BY <1>2, <2>2, <3>1
    <2>4. CASE MarkFails(p)
      <3>1. sent' = sent /\ lost'[i] = IF i = j THEN lost[i] + 1 ELSE lost[i]
        BY <2>4 DEF MarkFails, NoteInv, NoteTypeOK
      <3> QED  BY <1>2, <2>1, <2>2, <3>1
    <2> QED  BY <2>3, <2>4
  <1> QED  BY <1>3, <1>4, <1>5, <1>6 DEF NoteInv

LEMMA JobKeeps ==
    ASSUME NoteInv, NEW j \in Jobs, JobEnds(j) \/ JobIsBack(j), UNCHANGED procVars
    PROVE  NoteInv'
  BY DEF NoteInv, JobEnds, JobIsBack, procVars, ProcTypeOK, NoteTypeOK, OneLeader,
         PostsAccounted, DoingUnsent

-----------------------------------------------------------------------------
(* The migrations. *)

LEMMA MigSet ==
    ASSUME MigTypeOK, NEW p \in Procs, NEW m, mig' = [mig EXCEPT ![p] = m]
    PROVE  mig'[p] = m /\ \A q \in Procs \ {p} : mig'[q] = mig[q]
  BY DEF MigTypeOK

Migs == [at : {"off", "next", "copy", "remove", "done"}, dir : Dirs \cup {NoDir},
         todo : SUBSET Dirs]
Mig(a, d, t) == [at |-> a, dir |-> d, todo |-> t]

LEMMA MigBecomes ==
    ASSUME MoveInv, NEW p \in Procs,
           NEW a \in {"off", "next", "copy", "remove", "done"}, NEW d \in Dirs \cup {NoDir},
           NEW t \in SUBSET Dirs,
           mig' = [mig EXCEPT ![p] = Mig(a, d, t)],
           kind' = kind, lasting' = lasting, index' \in BOOLEAN, faults' \in 0..MaxFaults,
           src' \in [Dirs -> Contents], dest' \in [Dirs -> Contents],
           \A x \in Dirs : dest[x] = "whole" => dest'[x] = "whole",
           \A x \in Dirs : src[x] = "whole" => src'[x] = "whole" \/ dest'[x] = "whole",
           a \in {"copy", "remove"} => d \in Dirs,
           a = "remove" => dest'[d] = "whole"
    PROVE  MoveInv'
  <1> PICK m : m = Mig(a, d, t)
    OBVIOUS
  <1>1. m.at = a /\ m.dir = d
    BY DEF Mig
  <1>2. mig'[p] = m /\ \A q \in Procs \ {p} : mig'[q] = mig[q]
    BY MigSet DEF MoveInv
  <1>3. MigTypeOK'
    BY DEF MoveInv, MigTypeOK, Mig
  <1>4. RemovedIsCopied'
    BY <1>1, <1>2 DEF MoveInv, RemovedIsCopied, MigTypeOK
  <1>5. NothingIsLost'
    BY DEF MoveInv, NothingIsLost
  <1> QED  BY <1>3, <1>4, <1>5 DEF MoveInv

\* A migration task after each step of it.
LEMMA MigValues ==
    ASSUME mig \in [Procs -> Migs], NEW p \in Procs, NEW m, m = mig[p]
    PROVE  /\ EndCopy(p) => mig' = [mig EXCEPT ![p] = Mig("remove", m.dir, m.todo)]
           /\ EndRemove(p) => mig' = [mig EXCEPT ![p] = Mig("next", NoDir, m.todo)]
           /\ Fault(p) => mig' = [mig EXCEPT ![p] = Mig("done", NoDir, m.todo)]
           /\ EndMigration(p) => mig' = [mig EXCEPT ![p] = Mig("done", m.dir, m.todo)]
           /\ \A d \in Dirs : Skip(p, d) => mig' = [mig EXCEPT ![p] = Mig(m.at, m.dir, m.todo \ {d})]
           /\ \A d \in Dirs : BeginCopy(p, d) => mig' = [mig EXCEPT ![p] = Mig("copy", d, m.todo \ {d})]
  <1>1. EndCopy(p) => mig' = [mig EXCEPT ![p] = Mig("remove", m.dir, m.todo)]
    BY DEF EndCopy, Mig, Migs
  <1>2. EndRemove(p) => mig' = [mig EXCEPT ![p] = Mig("next", NoDir, m.todo)]
    BY DEF EndRemove, Mig, Migs
  <1>3. Fault(p) => mig' = [mig EXCEPT ![p] = Mig("done", NoDir, m.todo)]
    BY DEF Fault, Mig, Migs
  <1>4. EndMigration(p) => mig' = [mig EXCEPT ![p] = Mig("done", m.dir, m.todo)]
    BY DEF EndMigration, Mig, Migs
  <1>5. \A d \in Dirs : Skip(p, d) => mig' = [mig EXCEPT ![p] = Mig(m.at, m.dir, m.todo \ {d})]
    BY DEF Skip, Skips, Mig, Migs
  <1>6. \A d \in Dirs : BeginCopy(p, d) => mig' = [mig EXCEPT ![p] = Mig("copy", d, m.todo \ {d})]
    BY DEF BeginCopy, Mig, Migs
  <1> QED  BY <1>1, <1>2, <1>3, <1>4, <1>5, <1>6

LEMMA MoveKeeps ==
    ASSUME MoveInv, NEW p \in Procs, Migrate(p) \/ Fault(p) \/ ListFails(p) \/ MigCut(p)
    PROVE  MoveInv'
  <1> PICK m : m = mig[p]
    OBVIOUS
  <1>0. /\ m \in Migs /\ m.at \in {"off", "next", "copy", "remove", "done"}
        /\ m.dir \in Dirs \cup {NoDir} /\ m.todo \in SUBSET Dirs
    BY DEF MoveInv, MigTypeOK, Migs
  <1>a. /\ index \in BOOLEAN /\ faults \in 0..MaxFaults
        /\ src \in [Dirs -> Contents] /\ dest \in [Dirs -> Contents]
    BY DEF MoveInv, MigTypeOK
  <1>b. /\ (m.at \in {"copy", "remove"} => m.dir \in Dirs)
        /\ (m.at = "remove" => dest[m.dir] = "whole")
    BY DEF MoveInv, RemovedIsCopied
  <1>v. mig \in [Procs -> Migs]
    BY DEF MoveInv, MigTypeOK, Migs
  <1>1. CASE BeginMigration(p)
    <2> PICK a : a = IF OldDir THEN "next" ELSE "done"
      OBVIOUS
    <2>1. mig' = [mig EXCEPT ![p] = Mig(a, NoDir, {d \in Dirs : src[d] # "none"})]
          /\ UNCHANGED <<kind, src, dest, index, lasting, faults>>
      BY <1>1 DEF BeginMigration, Mig
    <2>2. {d \in Dirs : src[d] # "none"} \in SUBSET Dirs
      OBVIOUS
    <2>3. a \in {"next", "done"}
      OBVIOUS
    <2> QED  BY <1>a, <2>1, <2>2, <2>3, MigBecomes
  <1>2. CASE \E d \in Dirs : Skip(p, d)
    <2>1. PICK d \in Dirs : Skip(p, d)
      BY <1>2
    <2> PICK t : t = m.todo \ {d}
      OBVIOUS
    <2>2. mig' = [mig EXCEPT ![p] = Mig("next", m.dir, t)]
      BY <1>v, <2>1, MigValues DEF Skip
    <2>3. UNCHANGED <<kind, src, dest, index, lasting, faults>>
      BY <2>1 DEF Skip
    <2>4. t \in SUBSET Dirs
      BY <1>0
    <2>5. m.dir \in Dirs \cup {NoDir}
      BY <1>0
    <2> QED  BY <1>a, <2>2, <2>3, <2>4, <2>5, MigBecomes
  <1>3. CASE \E d \in Dirs : BeginCopy(p, d)
    <2>1. PICK d \in Dirs : BeginCopy(p, d)
      BY <1>3
    <2> PICK t : t = m.todo \ {d}
      OBVIOUS
    <2>2. mig' = [mig EXCEPT ![p] = Mig("copy", d, t)]
      <3>1. \A e \in Dirs : BeginCopy(p, e) => mig' = [mig EXCEPT ![p] = Mig("copy", e, m.todo \ {e})]
        BY <1>v, MigValues
      <3> QED  BY <2>1, <3>1
    <2>3. kind' = kind /\ lasting' = lasting /\ src' = src /\ index' = index /\ faults' = faults
          /\ dest' = [dest EXCEPT ![d] = "part"] /\ dest[d] = "none"
      BY <2>1 DEF BeginCopy
    <2>4. t \in SUBSET Dirs
      BY <1>0
    <2>5. dest' \in [Dirs -> Contents]
      BY <1>a, <2>3 DEF Contents
    <2>6. \A x \in Dirs : dest[x] = "whole" => dest'[x] = "whole"
      BY <1>a, <2>3
    <2>7. d \in Dirs \cup {NoDir}
      BY <2>1
    <2>8. \A x \in Dirs : src[x] = "whole" => src'[x] = "whole" \/ dest'[x] = "whole"
      BY <2>3
    <2>9. /\ kind' = kind /\ lasting' = lasting /\ index' \in BOOLEAN /\ faults' \in 0..MaxFaults
          /\ src' \in [Dirs -> Contents]
      BY <1>a, <2>3
    <2> QED  BY <2>1, <2>2, <2>4, <2>5, <2>6, <2>7, <2>8, <2>9, MigBecomes
  <1>4. CASE EndCopy(p)
    <2>1. mig' = [mig EXCEPT ![p] = Mig("remove", m.dir, m.todo)]
      BY <1>v, <1>4, MigValues
    <2>2. kind' = kind /\ lasting' = lasting /\ index' = index /\ faults' = faults /\ m.dir \in Dirs
          /\ dest' = [dest EXCEPT ![m.dir] = "whole"] /\ src' = [src EXCEPT ![m.dir] = "part"]
      BY <1>4, <1>b DEF EndCopy
    <2>3. src' \in [Dirs -> Contents] /\ dest' \in [Dirs -> Contents]
      BY <1>a, <2>2 DEF Contents
    <2>4. /\ \A x \in Dirs : dest[x] = "whole" => dest'[x] = "whole"
          /\ \A x \in Dirs : src[x] = "whole" => src'[x] = "whole" \/ dest'[x] = "whole"
          /\ dest'[m.dir] = "whole"
      BY <1>a, <2>2
    <2> QED  BY <1>0, <1>a, <2>1, <2>2, <2>3, <2>4, MigBecomes
  <1>5. CASE EndRemove(p)
    <2>1. mig' = [mig EXCEPT ![p] = Mig("next", NoDir, m.todo)]
      BY <1>v, <1>5, MigValues
    <2>2. kind' = kind /\ lasting' = lasting /\ index' = index /\ faults' = faults /\ dest' = dest
          /\ dest[m.dir] = "whole" /\ src' = [src EXCEPT ![m.dir] = "none"]
      BY <1>5, <1>b DEF EndRemove
    <2>3. src' \in [Dirs -> Contents]
      BY <1>a, <2>2 DEF Contents
    <2>4. \A x \in Dirs : src[x] = "whole" => src'[x] = "whole" \/ dest'[x] = "whole"
      BY <1>a, <2>2
    <2> QED  BY <1>0, <1>a, <2>1, <2>2, <2>3, <2>4, MigBecomes
  <1>6. CASE Fault(p)
    <2>1. mig' = [mig EXCEPT ![p] = Mig("done", NoDir, m.todo)]
      BY <1>v, <1>6, MigValues
    <2>2. UNCHANGED <<kind, src, dest, index, lasting>>
      BY <1>6 DEF Fault
    <2>3. faults' \in 0..MaxFaults
      BY <1>6, <1>a, MigAssumption DEF Fault
    <2> QED  BY <1>0, <1>a, <2>1, <2>2, <2>3, MigBecomes
  <1>7. CASE EndMigration(p)
    <2>1. mig' = [mig EXCEPT ![p] = Mig("done", m.dir, m.todo)]
      BY <1>v, <1>7, MigValues
    <2>2. index' = FALSE /\ UNCHANGED <<kind, src, dest, lasting, faults>>
      BY <1>7 DEF EndMigration
    <2> QED  BY <1>0, <1>a, <2>1, <2>2, MigBecomes
  <1>8. CASE MigCut(p)
    <2>1. mig' = [mig EXCEPT ![p] = Mig("off", NoDir, {})]
          /\ UNCHANGED <<kind, src, dest, index, lasting, faults>>
      BY <1>8 DEF MigCut, NoTask, Mig
    <2>2. {} \in SUBSET Dirs
      OBVIOUS
    <2> QED  BY <1>a, <2>1, <2>2, MigBecomes
  <1>9. CASE ListFails(p)
    <2>1. mig' = [mig EXCEPT ![p] = Mig("next", NoDir, {})]
          /\ UNCHANGED <<kind, src, dest, index, lasting>>
      BY <1>9 DEF ListFails, Mig
    <2>2. {} \in SUBSET Dirs
      OBVIOUS
    <2>3. faults' \in 0..MaxFaults
      BY <1>9, <1>a, MigAssumption DEF ListFails
    <2> QED  BY <1>a, <2>1, <2>2, <2>3, MigBecomes
  <1> QED  BY <1>1, <1>2, <1>3, <1>4, <1>5, <1>6, <1>7, <1>8, <1>9 DEF Migrate

-----------------------------------------------------------------------------
(* The base environment. *)

Held == {"locked", "cleaning", "install"}
Calls == {"none", "wait", "locked", "cleaning", "install", "build"} \cup Ends

\* A call moves on: the lock is its own as long as it works on the environment.
LEMMA BaseBecomes ==
    ASSUME BaseInv, NEW s \in Setups, NEW f \in Calls, NEW g \in Calls,
           Go(s, f, g), UNCHANGED asks, host' \in [Setups -> Procs \cup {NoProc}],
           env' \in {"none", "part", "whole"}, ready' \in BOOLEAN, torn' \in BOOLEAN,
           shown' \in BOOLEAN,
           baseLock' = IF g \in Held THEN s ELSE IF f \in Held THEN NoSetup ELSE baseLock,
           f \notin Held /\ g \in Held => baseLock = NoSetup
    PROVE  BaseTypeOK' /\ LockIsHeld'
  <1>1. at[s] = f /\ at'[s] = g /\ (\A r \in Setups \ {s} : at'[r] = at[r])
        /\ at' \in [Setups -> Calls]
    BY DEF Go, BaseInv, BaseTypeOK, Calls
  <1>2. baseLock \in Setups \cup {NoSetup} /\ (baseLock = s <=> f \in Held)
        /\ \A r \in Setups : at[r] \in Held <=> baseLock = r
    BY <1>1 DEF BaseInv, BaseTypeOK, LockIsHeld, Held
  <1>3. \A r \in Setups : at'[r] \in Held <=> baseLock' = r
    <2> SUFFICES ASSUME NEW r \in Setups PROVE at'[r] \in Held <=> baseLock' = r
      OBVIOUS
    <2>1. CASE r = s
      BY <1>1, <1>2, <2>1, BaseAssumption
    <2>2. CASE r # s
      BY <1>1, <1>2, <2>2, BaseAssumption
    <2> QED  BY <2>1, <2>2
  <1>4. baseLock' \in Setups \cup {NoSetup}
    BY <1>2
  <1>5. baseLock' \in {NoSetup} \cup {r \in Setups : at'[r] \in Held}
    BY <1>3, <1>4
  <1>6. LockIsHeld'
    BY <1>3 DEF LockIsHeld, Held
  <1>7. asks' \in [Setups -> {"launch", "setup", "refresh", "nothing"}]
    BY DEF BaseInv, BaseTypeOK
  <1> QED  BY <1>1, <1>5, <1>6, <1>7 DEF BaseTypeOK, Calls, Held

LEMMA BaseKeeps ==
    ASSUME BaseInv, NEW s \in Setups,
           (\E p \in Procs : Ask(p, s)) \/ TakeLock(s) \/ SetupStep(s)
    PROVE  BaseInv'
  <1>0. /\ asks \in [Setups -> {"launch", "setup", "refresh", "nothing"}]
        /\ at \in [Setups -> Calls] /\ host \in [Setups -> Procs \cup {NoProc}]
        /\ env \in {"none", "part", "whole"} /\ ready \in BOOLEAN
        /\ torn \in BOOLEAN /\ shown \in BOOLEAN
        /\ \A r \in Setups : at[r] \in Held <=> baseLock = r
    BY DEF BaseInv, BaseTypeOK, Calls, LockIsHeld, Held
  <1>a. /\ Held \subseteq Calls /\ Ends \subseteq Calls
        /\ {"none", "wait", "build"} \subseteq Calls
        /\ "none" \notin Held /\ "wait" \notin Held /\ "build" \notin Held
        /\ (\A e \in Ends : e \notin Held)
        /\ After(s) \in Calls /\ After(s) \notin Held
        /\ {"built", "ensured", "failed", "cut"} = Ends
    BY DEF Held, Calls, Ends, After
  <1>r. ready /\ env # "whole" /\ ~torn => baseLock \in Setups /\ at[baseLock] = "cleaning"
    BY DEF BaseInv, BaseTypeOK, ReadyIsTrue
  <1>1. ASSUME NEW p \in Procs, Ask(p, s) PROVE BaseInv'
    <2>1. Go(s, "none", "wait") /\ UNCHANGED <<asks, baseLock, env, ready, torn>>
          /\ host' \in [Setups -> Procs \cup {NoProc}]
      BY <1>0, <1>1 DEF Ask
    <2>2. shown' \in BOOLEAN
      BY <1>1 DEF Ask, Shows
    <2>3. BaseTypeOK' /\ LockIsHeld'
      BY <1>0, <1>a, <2>1, <2>2, BaseBecomes
    <2>4. ReadyIsTrue'
      BY <1>0, <1>r, <2>1, BaseAssumption DEF Go, ReadyIsTrue
    <2> QED  BY <2>3, <2>4 DEF BaseInv
  <1>2. ASSUME TakeLock(s) PROVE BaseInv'
    <2>1. Go(s, "wait", "locked") /\ UNCHANGED <<asks, host, env, ready, shown, torn>>
          /\ baseLock' = s /\ baseLock = NoSetup
      BY <1>2 DEF TakeLock
    <2>2. BaseTypeOK' /\ LockIsHeld'
      BY <1>0, <1>a, <2>1, BaseBecomes DEF Held
    <2>3. ReadyIsTrue'
      BY <1>r, <2>1, BaseAssumption DEF ReadyIsTrue
    <2> QED  BY <2>2, <2>3 DEF BaseInv
  <1>3. ASSUME Reuse(s) PROVE BaseInv'
    <2>1. Go(s, "locked", After(s)) /\ UNCHANGED <<asks, host, env, ready, torn>>
          /\ baseLock' = NoSetup /\ shown' \in BOOLEAN
      BY <1>3 DEF Reuse, Hides
    <2>2. BaseTypeOK' /\ LockIsHeld'
      BY <1>0, <1>a, <2>1, BaseBecomes DEF Held
    <2>3. baseLock = s /\ at[s] = "locked"
      BY <1>0, <2>1 DEF Go, Held
    <2>4. ReadyIsTrue'
      BY <1>r, <2>1, <2>3 DEF ReadyIsTrue
    <2> QED  BY <2>2, <2>4 DEF BaseInv
  <1>4. ASSUME RemoveEnv(s) PROVE BaseInv'
    <2>1. Go(s, "locked", "cleaning") /\ UNCHANGED <<asks, host, baseLock, ready, torn>>
          /\ env' = "none" /\ shown' \in BOOLEAN
      BY <1>4 DEF RemoveEnv, Shows
    <2>2. baseLock = s
      BY <1>0, <2>1 DEF Go, Held
    <2>3. BaseTypeOK' /\ LockIsHeld'
      BY <1>0, <1>a, <2>1, <2>2, BaseBecomes DEF Held
    <2>4. at'[s] = "cleaning"
      BY <1>0, <2>1 DEF Go
    <2>5. ReadyIsTrue'
      BY <2>1, <2>2, <2>4, BaseAssumption DEF ReadyIsTrue
    <2> QED  BY <2>3, <2>5 DEF BaseInv
  <1>5. ASSUME RemoveMarker(s) PROVE BaseInv'
    <2>1. Go(s, "cleaning", "install") /\ UNCHANGED <<asks, host, baseLock>>
          /\ env' = "part" /\ shown' \in BOOLEAN
      BY <1>5 DEF RemoveMarker, Shows
    <2>2. PICK gone \in BOOLEAN : ready' = (ready /\ ~gone) /\ torn' = (torn \/ ~gone)
      BY <1>5 DEF RemoveMarker
    <2>3. baseLock = s
      BY <1>0, <2>1 DEF Go, Held
    <2>4. ready' \in BOOLEAN /\ torn' \in BOOLEAN
      BY <2>2
    <2>5. BaseTypeOK' /\ LockIsHeld'
      BY <1>0, <1>a, <2>1, <2>3, <2>4, BaseBecomes DEF Held
    <2>6. ~(ready' /\ ~torn')
      BY <2>2
    <2>7. ReadyIsTrue'
      BY <2>6 DEF ReadyIsTrue
    <2> QED  BY <2>5, <2>7 DEF BaseInv
  <1>6. ASSUME BeginInstall(s) PROVE BaseInv'
    <2>1. Go(s, "locked", "install") /\ UNCHANGED <<asks, host, baseLock, ready, torn>>
          /\ env' \in {"none", "part", "whole"} /\ shown' \in BOOLEAN /\ ~ready
      BY <1>6 DEF BeginInstall, Shows
    <2>2. baseLock = s
      BY <1>0, <2>1 DEF Go, Held
    <2>3. BaseTypeOK' /\ LockIsHeld'
      BY <1>0, <1>a, <2>1, <2>2, BaseBecomes DEF Held
    <2>4. ReadyIsTrue'
      BY <2>1 DEF ReadyIsTrue
    <2> QED  BY <2>3, <2>4 DEF BaseInv
  <1>7. ASSUME Installed(s) PROVE BaseInv'
    <2>1. Go(s, "install", After(s)) /\ UNCHANGED <<asks, host>> /\ baseLock' = NoSetup
          /\ env' = "whole" /\ ready' = TRUE /\ torn' = FALSE /\ shown' \in BOOLEAN
      BY <1>7 DEF Installed, Hides
    <2>2. BaseTypeOK' /\ LockIsHeld'
      BY <1>0, <1>a, <2>1, BaseBecomes DEF Held
    <2>3. ReadyIsTrue'
      BY <2>1 DEF ReadyIsTrue
    <2> QED  BY <2>2, <2>3 DEF BaseInv
  <1>8. ASSUME InstallFails(s) PROVE BaseInv'
    <2>1. Go(s, "install", "failed") /\ UNCHANGED <<asks, host, env, ready, torn>>
          /\ baseLock' = NoSetup /\ shown' \in BOOLEAN
      BY <1>8 DEF InstallFails, Hides
    <2>2. BaseTypeOK' /\ LockIsHeld'
      BY <1>0, <1>a, <2>1, BaseBecomes DEF Held, Ends
    <2>3. baseLock = s /\ at[s] = "install"
      BY <1>0, <2>1 DEF Go, Held
    <2>4. ReadyIsTrue'
      BY <1>r, <2>1, <2>3 DEF ReadyIsTrue
    <2> QED  BY <2>2, <2>4 DEF BaseInv
  <1>9. ASSUME Build(s) PROVE BaseInv'
    <2> PICK e : e = IF env = "whole" THEN "built" ELSE "failed"
      OBVIOUS
    <2>1. Go(s, "build", e) /\ UNCHANGED <<asks, host, baseLock, env, ready, shown, torn>>
      BY <1>9 DEF Build
    <2>2. e \in Ends
      BY DEF Ends
    <2>3. BaseTypeOK' /\ LockIsHeld'
      BY <1>0, <1>a, <2>1, <2>2, BaseBecomes
    <2>4. ReadyIsTrue'
      BY <1>0, <1>r, <2>1, BaseAssumption DEF Go, ReadyIsTrue
    <2> QED  BY <2>3, <2>4 DEF BaseInv
  <1> QED  BY <1>1, <1>2, <1>3, <1>4, <1>5, <1>6, <1>7, <1>8, <1>9 DEF SetupStep

LEMMA BaseCutKeeps ==
    ASSUME BaseInv, NEW p \in Procs, BaseCut(p)
    PROVE  BaseInv'
  <1> PICK mine : mine = {s \in Setups : host[s] = p /\ at[s] \notin Ends}
    OBVIOUS
  <1>1. /\ at' = [s \in Setups |-> IF s \in mine THEN "cut" ELSE at[s]]
        /\ baseLock' = IF baseLock \in mine THEN NoSetup ELSE baseLock
        /\ torn' = (torn \/ \E s \in mine : at[s] = "cleaning")
        /\ UNCHANGED <<asks, host, env, ready, shown>>
    BY DEF BaseCut
  <1>2. \A r \in Setups : at[r] \in Held <=> baseLock = r
    BY DEF BaseInv, LockIsHeld, Held
  <1>3. \A r \in Setups : at'[r] \in Held <=> baseLock' = r
    BY <1>1, <1>2, BaseAssumption DEF Held
  <1>4. baseLock' \in {NoSetup} \cup {r \in Setups : at'[r] \in Held}
    <2>1. baseLock \in Setups \cup {NoSetup}
      BY DEF BaseInv, BaseTypeOK
    <2> QED  BY <1>1, <1>3, <2>1
  <1>5. torn' \in BOOLEAN
    BY <1>1
  <1>6. at' \in [Setups -> Calls]
    BY <1>1 DEF BaseInv, BaseTypeOK, Calls, Ends
  <1>7. BaseTypeOK'
    BY <1>1, <1>4, <1>5, <1>6 DEF BaseInv, BaseTypeOK, Calls, Held
  <1>8. ReadyIsTrue'
    <2> SUFFICES ASSUME ready', env' # "whole", ~torn'
                 PROVE  baseLock' # NoSetup /\ at'[baseLock'] = "cleaning"
      BY DEF ReadyIsTrue
    <2>1. ~torn /\ ~ \E s \in mine : at[s] = "cleaning"
      BY <1>1
    <2>2. baseLock # NoSetup /\ at[baseLock] = "cleaning" /\ baseLock \in Setups
      BY <1>1, <2>1 DEF BaseInv, BaseTypeOK, ReadyIsTrue
    <2> QED  BY <1>1, <2>1, <2>2
  <1>9. LockIsHeld'
    BY <1>3 DEF LockIsHeld, Held
  <1> QED  BY <1>7, <1>8, <1>9 DEF BaseInv

-----------------------------------------------------------------------------
(* The whole server. *)

LEMMA NoteFrame == NoteInv /\ UNCHANGED <<procVars, noteVars>> => NoteInv'
  BY DEF procVars, noteVars, NoteInv, ProcTypeOK, NoteTypeOK, OneLeader, PostsAccounted,
         DoingUnsent

LEMMA MoveFrame == MoveInv /\ UNCHANGED migVars => MoveInv'
  BY DEF migVars, MoveInv, MigTypeOK, RemovedIsCopied, NothingIsLost

LEMMA BaseFrame == BaseInv /\ UNCHANGED baseVars => BaseInv'
  BY DEF baseVars, BaseInv, BaseTypeOK, LockIsHeld, ReadyIsTrue

LEMMA StepWorkers == WorkersInv /\ [WorkersNext]_workerVars => WorkersInv'
  <1> SUFFICES ASSUME WorkersInv, [WorkersNext]_workerVars PROVE WorkersInv'
    OBVIOUS
  <1>0. NoteInv /\ MoveInv /\ BaseInv
    BY WorkersParts
  <1>f. SUFFICES NoteInv' /\ MoveInv' /\ BaseInv'
    BY DEF WorkersInv, WorkersTypeOK, NoteInv, MoveInv, BaseInv
  <1>1. CASE UNCHANGED workerVars
    BY <1>0, <1>1, NoteFrame, MoveFrame, BaseFrame DEF workerVars
  <1>2. ASSUME NEW p \in Procs, Live(p) PROVE NoteInv' /\ MoveInv' /\ BaseInv'
    BY <1>0, <1>2, LiveKeeps, MoveFrame, BaseFrame DEF Live
  <1>3. ASSUME NEW p \in Procs, Dies(p) PROVE NoteInv' /\ MoveInv' /\ BaseInv'
    BY <1>0, <1>3, DieKeeps, MoveKeeps, BaseCutKeeps DEF Dies
  <1>4. ASSUME NEW p \in Procs, Note(p) PROVE NoteInv' /\ MoveInv' /\ BaseInv'
    <2>1. UNCHANGED procVars /\ UNCHANGED migVars /\ UNCHANGED baseVars
      BY <1>4 DEF Note
    <2>2. NoteInv'
      BY <1>0, <1>4, <2>1, AnnounceKeeps, MarkKeeps DEF Note
    <2> QED  BY <1>0, <2>1, <2>2, MoveFrame, BaseFrame
  <1>5. ASSUME NEW p \in Procs, Move(p) PROVE NoteInv' /\ MoveInv' /\ BaseInv'
    BY <1>0, <1>5, NoteFrame, MoveKeeps, BaseFrame DEF Move
  <1>6. ASSUME NEW p \in Procs, Storage(p) PROVE NoteInv' /\ MoveInv' /\ BaseInv'
    <2>1. CASE (Fault(p) \/ ListFails(p)) /\ UNCHANGED <<procVars, noteVars, baseVars>>
      BY <1>0, <2>1, NoteFrame, MoveKeeps, BaseFrame
    <2>2. CASE MarkFails(p) /\ UNCHANGED <<procVars, migVars, baseVars>>
      BY <1>0, <2>2, MarkKeeps, MoveFrame, BaseFrame
    <2> QED  BY <1>6, <2>1, <2>2 DEF Storage
  <1>7. ASSUME Job PROVE NoteInv' /\ MoveInv' /\ BaseInv'
    BY <1>0, <1>7, JobKeeps, MoveFrame, BaseFrame DEF Job
  <1>8. ASSUME Request PROVE NoteInv' /\ MoveInv' /\ BaseInv'
    BY <1>0, <1>8, NoteFrame, MoveFrame, BaseKeeps DEF Request
  <1>9. ASSUME NEW s \in Setups, Lock(s) \/ Setup(s) PROVE NoteInv' /\ MoveInv' /\ BaseInv'
    BY <1>0, <1>9, NoteFrame, MoveFrame, BaseKeeps DEF Lock, Setup
  <1> QED
    BY <1>1, <1>2, <1>3, <1>4, <1>5, <1>6, <1>7, <1>8, <1>9 DEF WorkersNext

\* The inductive invariant of the processes: one leader, posts accounted for, copies
\* whole before removals, and the lock held by the call that works on the environment.
THEOREM WorkersInvHolds == WorkersSpec => []WorkersInv
  BY InitWorkers, StepWorkers, PTL DEF WorkersSpec

\* For any processes, jobs, directories and setups, and any number of ends, every
\* variable of the server keeps its type (backend/api.py and the workers it starts).
THEOREM WorkersKeepTypes == WorkersSpec => []WorkersTypeOK
  <1>1. WorkersInv => WorkersTypeOK
    BY DEF WorkersInv
  <1> QED  BY <1>1, WorkersInvHolds, PTL

\* The notification worker never posts a job twice but for marks that were lost,
\* whichever processes lead and die (services/notification_service.py).
THEOREM JobsAreAnnouncedOnce == WorkersSpec => []AnnouncedOnce
  <1>1. WorkersInv => AnnouncedOnce
    BY DEF WorkersInv, WorkersTypeOK, NoteTypeOK, PostsAccounted, AnnouncedOnce
  <1> QED  BY <1>1, WorkersInvHolds, PTL

\* Wherever a migration is cut or a storage error hits it, no directory is lost
\* (services/migrate_jobs_to_experiment_dirs.py, migrate_tasks_to_...py).
THEOREM MigratedIsKept == WorkersSpec => []NothingIsLost
  <1>1. WorkersInv => NothingIsLost
    BY DEF WorkersInv
  <1> QED  BY <1>1, WorkersInvHolds, PTL

\* The ready file of the base environment tells the truth while the lock is free,
\* for any number of setups, refreshes, failures and deaths of their processes
\* (ensure_base_venv_and_requirements).
THEOREM ReadyStaysInstalled == WorkersSpec => []ReadyIsInstalled
  <1>1. WorkersInv => ReadyIsInstalled
    BY DEF WorkersInv, ReadyIsTrue, ReadyIsInstalled
  <1> QED  BY <1>1, WorkersInvHolds, PTL

-----------------------------------------------------------------------------
(* A sweep that is complete is over. *)

Overs == Ended \cup {"STOPPING"}
AllOver == \A i \in Children : child[i] \in Overs

\* The ids are recorded after the last child was marked.
MarkedBefore == parent.recorded => launcher.at \in {"running", "over"}

\* The worker works on recorded sweeps only.
WorksOnRecorded == worker.at # "rest" => parent.recorded

\* What the worker has read of a child that had ended stays true of it, and nobody
\* else writes the counts of the children that ended.
ReadsStand ==
    worker.at = "fetch" =>
        /\ worker.old.completed = parent.counts.completed
        /\ worker.old.failed = parent.counts.failed
        /\ \A i \in DOMAIN worker.seen : worker.seen[i] \in Ended => child[i] \in Overs

\* Between its two writes the worker knows what it is going to say.
VerdictStands == worker.at = "status" /\ worker.all => AllOver /\ AllComplete(parent.counts)

CompleteStands ==
    parent.status = "COMPLETE" => /\ parent.recorded /\ worker.at = "rest"
                                  /\ AllOver /\ AllComplete(parent.counts)

SweepInv == /\ SweepTypes
            /\ MarkedBefore /\ WorksOnRecorded
            /\ ReadsStand /\ VerdictStands /\ CompleteStands

LEMMA InitSweep == Init => SweepInv
  <1> SUFFICES ASSUME Init PROVE SweepInv
    OBVIOUS
  <1>0. N \in Nat /\ N > 0 /\ MaxUserActs \in Nat /\ MaxRestarts \in Nat
    BY SweepAssumption
  <1>1. NoCounts \in Tallies
    BY <1>0 DEF NoCounts, Tallies
  <1>2. <<>> \in Reads
    <2>1. <<>> \in [{} -> Statuses]
      OBVIOUS
    <2> QED  BY <2>1 DEF Reads
  <1>3. worker \in [at : {"rest", "fetch", "status"}, seen : Reads, old : Tallies,
                    all : BOOLEAN]
    BY <1>1, <1>2 DEF Init, Resting
  <1>4. parent \in [status : {"RUNNING", "STOPPING", "COMPLETE", "DELETED"},
                    recorded : BOOLEAN, counts : Tallies]
    BY <1>1 DEF Init
  <1>5. /\ launcher \in [at : {"create", "launch", "mark", "ids", "running", "over"},
                         i : 1 .. N + 1]
        /\ launcher.i \in Children
    BY <1>0 DEF Init, Children
  <1>6. SweepTypes
    BY <1>0, <1>3, <1>4, <1>5 DEF Init, SweepTypes, Statuses
  <1> QED
    BY <1>6 DEF Init, SweepInv, MarkedBefore, WorksOnRecorded, ReadsStand, VerdictStands,
                CompleteStands, Resting

\* A child that is over stays so once the sweep is recorded.
LEMMA OversStay ==
    ASSUME SweepInv, parent.recorded, [Next]_vars, NEW i \in Children, child[i] \in Overs
    PROVE  child'[i] \in Overs
  <1>0. launcher.at \in {"running", "over"} /\ child \in [Children -> Statuses]
    BY DEF SweepInv, MarkedBefore, SweepTypes
  <1>1. CASE Launcher \/ GiveUp
    BY <1>0, <1>1 DEF Launcher, GiveUp, CreateChild, LaunchReturns, MarkLaunching, LaunchFails,
                      RecordIds, RecordRunning
  <1>2. CASE Worker
    BY <1>2 DEF Worker, List, Fetch, WriteCounts, WriteStatus
  <1>3. CASE UserParent \/ Results \/ Restart \/ UNCHANGED vars
    BY <1>3 DEF UserParent, Results, AskResults, ReadChild, Answer, Restart, vars
  <1>4. ASSUME NEW k \in Children, ChildRuns(k) PROVE child'[i] \in Overs
    <2>1. child[k] = "LAUNCHING"
      BY <1>0, <1>4 DEF ChildRuns
    <2>2. i # k
      BY <2>1 DEF Overs, Ended, Failed
    <2> QED  BY <1>0, <1>4, <2>2 DEF ChildRuns, SetChild
  <1>5. ASSUME NEW k \in Children, ChildEnds(k) \/ ChildStops(k) \/ UserChild(k)
        PROVE child'[i] \in Overs
    <2>1. PICK s \in Overs : child' = [child EXCEPT ![k] = s]
      BY <1>5 DEF ChildEnds, ChildStops, UserChild, SetChild, Overs, Ended, Failed
    <2> QED  BY <1>0, <2>1
  <1> QED  BY <1>1, <1>2, <1>3, <1>4, <1>5 DEF Next

\* What a step leaves alone of the sweep, from everybody but the worker.
LEMMA SweepKept ==
    ASSUME SweepInv, [Next]_vars, SweepTypes', MarkedBefore',
           worker' = worker, parent.recorded => parent'.recorded,
           parent'.counts.completed = parent.counts.completed,
           parent'.counts.failed = parent.counts.failed,
           parent'.status = "COMPLETE" => parent.status = "COMPLETE"
    PROVE  SweepInv'
  <1>1. WorksOnRecorded'
    BY DEF SweepInv, WorksOnRecorded
  <1>2. ReadsStand'
    <2> SUFFICES ASSUME worker.at = "fetch" PROVE ReadsStand'
      BY DEF ReadsStand
    <2>1. /\ parent.recorded
          /\ worker.old.completed = parent.counts.completed
          /\ worker.old.failed = parent.counts.failed
          /\ DOMAIN worker.seen \subseteq Children
          /\ \A i \in DOMAIN worker.seen : worker.seen[i] \in Ended => child[i] \in Overs
      BY DEF SweepInv, WorksOnRecorded, ReadsStand, SweepTypes, Reads
    <2>2. \A i \in DOMAIN worker.seen : worker.seen[i] \in Ended => child'[i] \in Overs
      BY <2>1, OversStay
    <2> QED  BY <2>1, <2>2 DEF ReadsStand
  <1>3. AllOver /\ parent.recorded => AllOver'
    BY OversStay DEF AllOver
  <1>4. AllComplete(parent.counts) => AllComplete(parent'.counts)
    BY DEF AllComplete
  <1>5. VerdictStands'
    BY <1>3, <1>4 DEF SweepInv, VerdictStands, WorksOnRecorded
  <1>6. CompleteStands'
    BY <1>3, <1>4 DEF SweepInv, CompleteStands
  <1> QED  BY <1>1, <1>2, <1>5, <1>6 DEF SweepInv

LEMMA ReadsOf == \A f \in Reads : DOMAIN f \subseteq Children /\ \A i \in DOMAIN f : f[i] \in Statuses
  BY DEF Reads

\* How many children were read in one of some states.
LEMMA TallyTyped == ASSUME NEW f \in Reads, NEW S
                    PROVE  /\ IsFiniteSet({i \in DOMAIN f : f[i] \in S})
                           /\ Cardinality({i \in DOMAIN f : f[i] \in S}) \in 0 .. N
  <1>1. IsFiniteSet(Children) /\ Cardinality(Children) = N
    BY FS_Interval, SweepAssumption DEF Children
  <1>2. {i \in DOMAIN f : f[i] \in S} \subseteq Children
    BY ReadsOf
  <1>3. IsFiniteSet({i \in DOMAIN f : f[i] \in S})
        /\ Cardinality({i \in DOMAIN f : f[i] \in S}) <= N
    BY <1>1, <1>2, FS_Subset
  <1>4. Cardinality({i \in DOMAIN f : f[i] \in S}) \in Nat
    BY <1>3, FS_CardinalityType
  <1> QED  BY <1>3, <1>4, SweepAssumption

LEMMA CountsTyped == ASSUME NEW f \in Reads PROVE Counts(f) \in Tallies
  BY TallyTyped DEF Counts, Tallies

\* All configurations are counted as ended only when each was read so.
LEMMA AllWereEnded ==
    ASSUME NEW f \in Reads, AllComplete(Counts(f)), NEW i \in Children
    PROVE  i \in DOMAIN f /\ f[i] \in Ended
  <1> DEFINE C == {k \in DOMAIN f : f[k] \in {"COMPLETE"}}
             F == {k \in DOMAIN f : f[k] \in Failed}
  <1>1. Cardinality(C) + Cardinality(F) = N
    BY DEF AllComplete, Counts
  <1>2. IsFiniteSet(C) /\ IsFiniteSet(F) /\ Cardinality(C) \in Nat /\ Cardinality(F) \in Nat
    <2>1. IsFiniteSet(C) /\ Cardinality(C) \in 0 .. N
      BY TallyTyped
    <2>2. IsFiniteSet(F) /\ Cardinality(F) \in 0 .. N
      BY TallyTyped
    <2> QED  BY <2>1, <2>2, SweepAssumption
  <1>3. C \cap F = {}
    BY DEF Failed
  <1>4. C \cup F \subseteq Children
    BY ReadsOf
  <1> HIDE DEF C, F
  <1>5. Cardinality(C \cap F) = 0
    BY <1>3, FS_EmptySet
  <1>6. Cardinality(C \cup F) = N
    <2>1. Cardinality(C \cup F) = Cardinality(C) + Cardinality(F) - Cardinality(C \cap F)
      BY <1>2, FS_Union
    <2> QED  BY <1>1, <1>2, <1>5, <2>1
  <1>7. IsFiniteSet(Children) /\ Cardinality(Children) = N
    BY FS_Interval, SweepAssumption DEF Children
  <1>8. C \cup F = Children
    BY <1>4, <1>6, <1>7, FS_Subset
  <1> QED  BY <1>8 DEF C, F, Ended

LEMMA StepSweep == SweepInv /\ [Next]_vars => SweepInv'
  <1> SUFFICES ASSUME SweepInv, [Next]_vars PROVE SweepInv'
    OBVIOUS
  <1>0. /\ N \in Nat /\ N > 0 /\ MaxUserActs \in Nat /\ MaxRestarts \in Nat
        /\ SweepTypes /\ MarkedBefore
    BY SweepAssumption DEF SweepInv
  <1>t. /\ parent \in [status : {"RUNNING", "STOPPING", "COMPLETE", "DELETED"},
                       recorded : BOOLEAN, counts : Tallies]
        /\ child \in [Children -> Statuses]
        /\ metric \in [Children -> Metrics \cup {None}]
        /\ launcher \in [at : {"create", "launch", "mark", "ids", "running", "over"},
                         i : 1 .. N + 1]
        /\ (launcher.at \in {"create", "launch", "mark"} => launcher.i \in Children)
        /\ worker \in [at : {"rest", "fetch", "status"}, seen : Reads, old : Tallies,
                       all : BOOLEAN]
        /\ acts \in 0 .. MaxUserActs /\ restarts \in 0 .. MaxRestarts
    BY <1>0 DEF SweepTypes
  <1>1. CASE Launcher \/ GiveUp
    <2>1. child' \in [Children -> Statuses]
      BY <1>t, <1>1 DEF Launcher, GiveUp, CreateChild, LaunchReturns, MarkLaunching, LaunchFails,
                   RecordIds, RecordRunning, SetChild, Statuses, Active, Ended, Failed
    <2>2. /\ parent' \in [status : {"RUNNING", "STOPPING", "COMPLETE", "DELETED"},
                          recorded : BOOLEAN, counts : Tallies]
          /\ parent'.status = parent.status
          /\ parent'.counts.completed = parent.counts.completed
          /\ parent'.counts.failed = parent.counts.failed
          /\ parent.recorded => parent'.recorded
      <3>1. CASE RecordIds
        BY <1>t, <3>1 DEF RecordIds
      <3>2. CASE RecordRunning
        <4>1. parent' = [parent EXCEPT !.counts.running = N]
          BY <3>2 DEF RecordRunning
        <4>2. N \in 0 .. N
          BY <1>0
        <4> QED  BY <1>t, <4>1, <4>2 DEF Tallies
      <3>3. CASE CreateChild \/ LaunchReturns \/ MarkLaunching \/ LaunchFails \/ GiveUp
        <4>1. parent' = parent
          BY <3>3 DEF CreateChild, LaunchReturns, MarkLaunching, LaunchFails, GiveUp
        <4> QED  BY <1>t, <4>1
      <3> QED  BY <1>1, <3>1, <3>2, <3>3 DEF Launcher
    <2>3. /\ launcher' \in [at : {"create", "launch", "mark", "ids", "running", "over"},
                            i : 1 .. N + 1]
          /\ (launcher'.at \in {"create", "launch", "mark"} => launcher'.i \in Children)
          /\ (parent'.recorded => launcher'.at \in {"running", "over"})
      <3>1. CASE MarkLaunching \/ LaunchFails
        <4>1. launcher' = NextChild(launcher.i) /\ launcher.i \in 1 .. N /\ parent' = parent
              /\ ~parent.recorded
          BY <1>0, <1>t, <3>1 DEF MarkLaunching, LaunchFails, MarkedBefore, Children
        <4> QED  BY <1>0, <4>1 DEF NextChild, Children
      <3>2. CASE RecordIds \/ RecordRunning
        BY <1>t, <3>2 DEF RecordIds, RecordRunning
      <3>3. CASE CreateChild \/ LaunchReturns \/ GiveUp
        BY <1>0, <1>t, <3>3 DEF CreateChild, LaunchReturns, GiveUp, MarkedBefore
      <3> QED  BY <1>1, <3>1, <3>2, <3>3 DEF Launcher
    <2>4. metric' = metric /\ worker' = worker /\ acts' = acts /\ restarts' = restarts
      BY <1>1 DEF Launcher, GiveUp, CreateChild, LaunchReturns, MarkLaunching, LaunchFails,
                  RecordIds, RecordRunning
    <2>5. SweepTypes' /\ MarkedBefore'
      BY <1>t, <2>1, <2>2, <2>3, <2>4 DEF SweepTypes, MarkedBefore
    <2> QED  BY <2>2, <2>4, <2>5, SweepKept
  <1>2. ASSUME NEW i \in Children, ChildRuns(i) \/ ChildEnds(i) \/ ChildStops(i) \/ UserChild(i)
        PROVE  SweepInv'
    <2>1. child' \in [Children -> Statuses]
      BY <1>t, <1>2 DEF ChildRuns, ChildEnds, ChildStops, UserChild, SetChild, Statuses, Active, Ended,
                   Failed
    <2>2. metric' \in [Children -> Metrics \cup {None}]
      BY <1>t, <1>2 DEF ChildRuns, ChildEnds, ChildStops, UserChild
    <2>3. acts' \in 0 .. MaxUserActs
      BY <1>0, <1>t, <1>2 DEF ChildRuns, ChildEnds, ChildStops, UserChild, UserAct
    <2>4. parent' = parent /\ launcher' = launcher /\ worker' = worker /\ restarts' = restarts
      BY <1>2 DEF ChildRuns, ChildEnds, ChildStops, UserChild
    <2>5. SweepTypes' /\ MarkedBefore'
      BY <1>0, <1>t, <2>1, <2>2, <2>3, <2>4 DEF SweepTypes, MarkedBefore
    <2> QED  BY <2>4, <2>5, SweepKept
  <1>3. CASE UserParent
    <2>1. PICK s \in {"STOPPING", "DELETED"} : parent' = [parent EXCEPT !.status = s]
      BY <1>3 DEF UserParent
    <2>2. /\ parent' \in [status : {"RUNNING", "STOPPING", "COMPLETE", "DELETED"},
                          recorded : BOOLEAN, counts : Tallies]
          /\ parent'.status # "COMPLETE" /\ parent'.counts = parent.counts
          /\ parent'.recorded = parent.recorded
      BY <1>t, <2>1
    <2>3. acts' \in 0 .. MaxUserActs
      BY <1>0, <1>t, <1>3 DEF UserParent, UserAct
    <2>4. UNCHANGED <<child, metric, launcher, worker, restarts>>
      BY <1>3 DEF UserParent
    <2>5. SweepTypes' /\ MarkedBefore'
      BY <1>0, <1>t, <2>2, <2>3, <2>4 DEF SweepTypes, MarkedBefore
    <2> QED  BY <2>2, <2>4, <2>5, SweepKept
  <1>4. CASE Restart
    <2>1. /\ launcher' \in [at : {"create", "launch", "mark", "ids", "running", "over"},
                            i : 1 .. N + 1]
          /\ launcher'.at = "over"
      BY <1>t, <1>4 DEF Restart
    <2>2. worker' = Resting /\ UNCHANGED <<parent, child, metric, acts>>
          /\ restarts' \in 0 .. MaxRestarts
      BY <1>0, <1>t, <1>4 DEF Restart
    <2>3. Resting \in [at : {"rest", "fetch", "status"}, seen : Reads, old : Tallies,
                       all : BOOLEAN] /\ Resting.at = "rest"
      <3>1. NoCounts \in Tallies
        BY <1>0 DEF NoCounts, Tallies
      <3>2. <<>> \in [{} -> Statuses]
        OBVIOUS
      <3>3. <<>> \in Reads
        BY <3>2 DEF Reads
      <3> QED  BY <3>1, <3>3 DEF Resting
    <2>4. SweepTypes'
      BY <1>t, <2>1, <2>2, <2>3 DEF SweepTypes
    <2>5. CompleteStands'
      BY <2>2, <2>3 DEF SweepInv, CompleteStands, AllOver
    <2> QED
      BY <2>1, <2>2, <2>3, <2>4, <2>5
      DEF SweepInv, MarkedBefore, WorksOnRecorded, ReadsStand, VerdictStands
  <1>5. CASE List
    <2>1. /\ parent.recorded /\ parent.status # "COMPLETE"
          /\ UNCHANGED <<parent, child, metric, launcher, acts, restarts>>
      BY <1>5 DEF List, Active
    <2>2. worker' = [at |-> "fetch", seen |-> <<>>, old |-> parent.counts, all |-> FALSE]
      BY <1>5 DEF List, Resting
    <2>3. <<>> \in Reads /\ DOMAIN <<>> = {}
      <3>1. <<>> \in [{} -> Statuses]
        OBVIOUS
      <3> QED  BY <3>1 DEF Reads
    <2> PICK w : w = [at |-> "fetch", seen |-> <<>>, old |-> parent.counts, all |-> FALSE]
      OBVIOUS
    <2>4. /\ w \in [at : {"rest", "fetch", "status"}, seen : Reads, old : Tallies, all : BOOLEAN]
          /\ w.at = "fetch" /\ DOMAIN w.seen = {} /\ w.old = parent.counts
      BY <1>t, <2>3
    <2>5. worker' = w
      BY <2>2
    <2>6. SweepTypes'
      BY <1>t, <2>1, <2>4, <2>5 DEF SweepTypes
    <2> QED
      BY <1>0, <2>1, <2>4, <2>5, <2>6
      DEF SweepInv, MarkedBefore, WorksOnRecorded, ReadsStand, VerdictStands, CompleteStands
  <1>6. ASSUME NEW i \in Children, Fetch(i) PROVE SweepInv'
    <2> PICK f : f = [k \in DOMAIN worker.seen \cup {i} |->
                        IF k = i THEN child[i] ELSE worker.seen[k]]
      OBVIOUS
    <2>1. /\ worker' = [worker EXCEPT !.seen = f] /\ worker.at = "fetch"
          /\ UNCHANGED <<parent, child, metric, launcher, acts, restarts>>
      BY <1>6 DEF Fetch
    <2>2. f \in Reads
      <3>1. f \in [DOMAIN worker.seen \cup {i} -> Statuses]
        BY <1>t, ReadsOf
      <3>2. DOMAIN worker.seen \cup {i} \in SUBSET Children
        BY <1>t, ReadsOf
      <3> QED  BY <3>1, <3>2 DEF Reads
    <2>3. /\ worker' \in [at : {"rest", "fetch", "status"}, seen : Reads, old : Tallies,
                          all : BOOLEAN]
          /\ worker'.at = "fetch" /\ worker'.seen = f /\ worker'.old = worker.old
      BY <1>t, <2>1, <2>2
    <2>4. SweepTypes'
      BY <1>t, <2>1, <2>3 DEF SweepTypes
    <2>5. \A k \in DOMAIN f : f[k] \in Ended => child[k] \in Overs
      BY <2>1 DEF SweepInv, ReadsStand, Overs
    <2> QED
      BY <1>0, <2>1, <2>3, <2>4, <2>5
      DEF SweepInv, MarkedBefore, WorksOnRecorded, ReadsStand, VerdictStands, CompleteStands
  <1>7. CASE WriteCounts
    <2> PICK fresh : fresh = Counts(worker.seen)
      OBVIOUS
    <2>1. /\ worker.at = "fetch" /\ DOMAIN worker.seen = Children
          /\ parent' = [parent EXCEPT !.counts = Written(parent.counts, worker.old, fresh)]
          /\ UNCHANGED <<child, metric, launcher, acts, restarts>>
      BY <1>7 DEF WriteCounts
    <2>2. fresh \in Tallies
      BY <1>t, CountsTyped
    <2> PICK c : c = Written(parent.counts, worker.old, fresh)
      OBVIOUS
    <2>3. /\ c \in Tallies /\ c.completed = fresh.completed /\ c.failed = fresh.failed
      <3>1. DOMAIN parent.counts = {"completed", "running", "failed", "queued"}
        BY <1>t DEF Tallies
      <3>2. /\ worker.old.completed = parent.counts.completed
            /\ worker.old.failed = parent.counts.failed
        BY <2>1 DEF SweepInv, ReadsStand
      <3>3. c = [f \in {"completed", "running", "failed", "queued"} |->
                    IF fresh[f] # worker.old[f] THEN fresh[f] ELSE parent.counts[f]]
        BY <3>1 DEF Written
      <3>4. c.completed = fresh.completed /\ c.failed = fresh.failed
        BY <3>2, <3>3
      <3>5. c.running \in 0 .. N /\ c.queued \in 0 .. N
        BY <1>t, <2>2, <3>3 DEF Tallies
      <3>6. fresh.completed \in 0 .. N /\ fresh.failed \in 0 .. N
        BY <2>2 DEF Tallies
      <3>7. c = [completed |-> c.completed, running |-> c.running, failed |-> c.failed,
                 queued |-> c.queued]
        BY <3>3
      <3> QED  BY <3>4, <3>5, <3>6, <3>7 DEF Tallies
    <2>4. /\ parent' \in [status : {"RUNNING", "STOPPING", "COMPLETE", "DELETED"},
                          recorded : BOOLEAN, counts : Tallies]
          /\ parent'.status = parent.status /\ parent'.recorded = parent.recorded
          /\ parent'.counts = c
      BY <1>t, <2>1, <2>3
    <2>b. AllComplete(fresh) \in BOOLEAN
      BY DEF AllComplete
    <2> PICK w : w = [at |-> "status", seen |-> <<>>, old |-> NoCounts, all |-> AllComplete(fresh)]
      OBVIOUS
    <2>5. worker' = w
      <3>1. WriteCounts => worker' = [at |-> "status", seen |-> <<>>, old |-> NoCounts,
                                      all |-> AllComplete(Counts(worker.seen))]
        BY DEF WriteCounts, Resting
      <3> QED  BY <1>7, <3>1
    <2>c. w.at = "status" /\ w.all = AllComplete(fresh)
      OBVIOUS
    <2>6. w \in [at : {"rest", "fetch", "status"}, seen : Reads, old : Tallies, all : BOOLEAN]
      <3>1. NoCounts \in Tallies
        BY <1>0 DEF NoCounts, Tallies
      <3>2. <<>> \in [{} -> Statuses]
        OBVIOUS
      <3>3. <<>> \in Reads
        BY <3>2 DEF Reads
      <3> QED  BY <2>b, <3>1, <3>3
    <2>7. SweepTypes'
      BY <1>t, <2>1, <2>4, <2>5, <2>6 DEF SweepTypes
    <2>8. VerdictStands'
      <3> SUFFICES ASSUME w.all PROVE AllOver' /\ AllComplete(parent'.counts)
        BY <2>5 DEF VerdictStands
      <3>1. AllComplete(fresh)
        BY <2>c
      <3>2. \A i \in Children : worker.seen[i] \in Ended /\ i \in DOMAIN worker.seen
        BY <1>t, <3>1, AllWereEnded
      <3>3. AllOver'
        BY <2>1, <3>2 DEF SweepInv, ReadsStand, AllOver
      <3> QED  BY <2>3, <2>4, <3>1, <3>3 DEF AllComplete
    <2>9. parent.recorded /\ parent.status # "COMPLETE"
      BY <2>1 DEF SweepInv, WorksOnRecorded, CompleteStands
    <2> QED
      BY <1>0, <2>1, <2>4, <2>5, <2>c, <2>7, <2>8, <2>9
      DEF SweepInv, MarkedBefore, WorksOnRecorded, ReadsStand, CompleteStands
  <1>8. CASE WriteStatus
    <2>1. /\ worker.at = "status" /\ worker' = Resting
          /\ UNCHANGED <<child, metric, launcher, acts, restarts>>
          /\ parent' = IF worker.all THEN [parent EXCEPT !.status = "COMPLETE"] ELSE parent
      BY <1>8 DEF WriteStatus
    <2>2. Resting \in [at : {"rest", "fetch", "status"}, seen : Reads, old : Tallies,
                       all : BOOLEAN] /\ Resting.at = "rest"
      <3>1. NoCounts \in Tallies
        BY <1>0 DEF NoCounts, Tallies
      <3>2. <<>> \in [{} -> Statuses]
        OBVIOUS
      <3>3. <<>> \in Reads
        BY <3>2 DEF Reads
      <3> QED  BY <3>1, <3>3 DEF Resting
    <2>3. /\ parent' \in [status : {"RUNNING", "STOPPING", "COMPLETE", "DELETED"},
                          recorded : BOOLEAN, counts : Tallies]
          /\ parent'.recorded = parent.recorded /\ parent'.counts = parent.counts
          /\ (parent'.status = "COMPLETE" => worker.all \/ parent.status = "COMPLETE")
      BY <1>t, <2>1
    <2>4. SweepTypes'
      BY <1>t, <2>1, <2>2, <2>3 DEF SweepTypes
    <2>5. CompleteStands'
      <3>1. parent.recorded
        BY <2>1 DEF SweepInv, WorksOnRecorded
      <3>2. parent'.status = "COMPLETE" => AllOver' /\ AllComplete(parent'.counts)
        BY <2>1, <2>3 DEF SweepInv, VerdictStands, CompleteStands, AllOver
      <3> QED  BY <2>1, <2>2, <2>3, <3>1, <3>2 DEF CompleteStands
    <2> QED
      BY <1>0, <2>1, <2>2, <2>3, <2>4, <2>5
      DEF SweepInv, MarkedBefore, WorksOnRecorded, ReadsStand, VerdictStands
  <1>9. CASE Results \/ UNCHANGED vars
    <2>1. UNCHANGED <<parent, child, metric, launcher, worker, acts, restarts>>
      BY <1>9 DEF Results, AskResults, ReadChild, Answer, vars
    <2>2. SweepTypes' /\ MarkedBefore'
      BY <1>0, <2>1 DEF SweepTypes, MarkedBefore
    <2> QED  BY <2>1, <2>2, SweepKept
  <1> QED  BY <1>1, <1>2, <1>3, <1>4, <1>5, <1>6, <1>7, <1>8, <1>9 DEF Next, Worker

\* The inductive invariant of a sweep: what the worker has read of the children that
\* ended stays true, because they were all marked before the ids were recorded.
THEOREM SweepInvHolds == Spec => []SweepInv
  BY InitSweep, StepSweep, PTL DEF Spec

\* A sweep that says COMPLETE has no child left that waits, launches or runs, and
\* counts every configuration, however the launcher, the worker, the children, users
\* and restarts interleave (services/sweep_status_service.py, launch_sweep.py).
THEOREM CompletesAreOver == Spec => []CompleteIsOver
  <1>1. SweepInv => CompleteIsOver
    BY DEF SweepInv, CompleteStands, CompleteIsOver, AllOver, Overs, Ended, Failed, Active
  <1> QED  BY <1>1, SweepInvHolds, PTL

-----------------------------------------------------------------------------
(* The results of a sweep. *)

\* What a request for the results has found, while the children move on: the best
\* was COMPLETE when it was read, and nothing it has passed and that still counts
\* beats it.
QueryStands ==
    query.at = "read" =>
        /\ query.last # 0 => parent.recorded
        /\ query.last = 0 => query.scored = {}
        /\ query.best # None => /\ query.last # 0 /\ query.best \in Children
                                /\ query.best < query.i
                                /\ metric[query.best] = query.value
                                /\ query.value # None
                                /\ child[query.best] \in Overs
        /\ \A k \in query.scored :
              /\ metric[k] # None /\ child[k] \in Overs
              /\ k < query.i /\ Scored(k)
                    => query.best # None /\ ~ Better(query.prefer, metric[k], query.value)

QueryInv == QueryTypes /\ QueryStands

\* Once a sweep is recorded, a child that is over keeps its metric, and completes
\* no more.
LEMMA OversKeepScore ==
    ASSUME SweepInv, parent.recorded, [Next]_vars, NEW i \in Children, child[i] \in Overs
    PROVE  metric'[i] = metric[i] /\ (Scored(i)' => Scored(i))
  <1>0. /\ launcher.at \in {"running", "over"} /\ child \in [Children -> Statuses]
        /\ metric \in [Children -> Metrics \cup {None}]
    BY DEF SweepInv, MarkedBefore, SweepTypes
  <1>1. CASE Launcher \/ GiveUp
    BY <1>0, <1>1 DEF Launcher, GiveUp, CreateChild, LaunchReturns, MarkLaunching, LaunchFails,
                      RecordIds, RecordRunning, Scored
  <1>2. CASE Worker
    BY <1>2 DEF Worker, List, Fetch, WriteCounts, WriteStatus, Scored
  <1>3. CASE UserParent \/ Results \/ Restart \/ UNCHANGED vars
    BY <1>3 DEF UserParent, Results, AskResults, ReadChild, Answer, Restart, vars, Scored
  <1>4. ASSUME NEW k \in Children, ChildRuns(k) \/ ChildStops(k) \/ UserChild(k)
        PROVE  metric'[i] = metric[i] /\ (Scored(i)' => Scored(i))
    <2>1. metric' = metric
      BY <1>4 DEF ChildRuns, ChildStops, UserChild
    <2>2. PICK s : child' = [child EXCEPT ![k] = s] /\ s # "COMPLETE"
      BY <1>4 DEF ChildRuns, ChildStops, UserChild, SetChild
    <2> QED  BY <1>0, <2>1, <2>2 DEF Scored
  <1>5. ASSUME NEW k \in Children, ChildEnds(k)
        PROVE  metric'[i] = metric[i] /\ (Scored(i)' => Scored(i))
    <2>1. i # k
      BY <1>5 DEF ChildEnds, Overs, Ended, Failed, Active
    <2>2. PICK s, m : child' = [child EXCEPT ![k] = s] /\ metric' = [metric EXCEPT ![k] = m]
      BY <1>5 DEF ChildEnds, SetChild
    <2> QED  BY <1>0, <2>1, <2>2 DEF Scored
  <1> QED  BY <1>1, <1>2, <1>3, <1>4, <1>5 DEF Next

\* What anybody else does leaves the findings of a request as they were.
LEMMA OthersLeaveQuery ==
    ASSUME SweepInv, QueryInv, [Next]_vars, query' = query,
           parent.recorded => parent'.recorded
    PROVE  QueryInv'
  <1>1. QueryTypes'
    BY DEF QueryInv, QueryTypes
  <1>2. QueryStands'
    <2> SUFFICES ASSUME query.at = "read" PROVE QueryStands'
      BY DEF QueryStands
    <2>1. CASE query.last = 0
      BY <2>1 DEF QueryInv, QueryStands
    <2>2. CASE query.last # 0
      <3>1. parent.recorded /\ parent'.recorded /\ query.scored \subseteq Children
        BY <2>2 DEF QueryInv, QueryStands, QueryTypes
      <3>2. query.best # None => /\ metric'[query.best] = metric[query.best]
                                 /\ child'[query.best] \in Overs
        BY <3>1, OversStay, OversKeepScore DEF QueryInv, QueryStands
      <3>3. /\ query'.last # 0 /\ query'.best = query.best /\ query'.value = query.value
            /\ query'.i = query.i /\ query'.scored = query.scored /\ query'.prefer = query.prefer
        BY <2>2
      <3>4. QueryStands
        BY DEF QueryInv
      <3>5. ASSUME NEW k \in query.scored
            PROVE  /\ metric'[k] # None /\ child'[k] \in Overs
                   /\ k < query'.i /\ Scored(k)'
                         => query'.best # None /\ ~ Better(query'.prefer, metric'[k], query'.value)
        <4>1. metric[k] # None
          BY <3>4 DEF QueryStands
        <4>2. k < query.i /\ Scored(k) => query.best # None /\ ~ Better(query.prefer, metric[k], query.value)
          BY <3>4 DEF QueryStands
        <4>3. metric'[k] = metric[k] /\ child'[k] \in Overs /\ (Scored(k)' => Scored(k))
          BY <3>1, <3>4, OversStay, OversKeepScore DEF QueryStands
        <4>4. ASSUME k < query'.i, Scored(k)'
              PROVE  query'.best # None /\ ~ Better(query'.prefer, metric'[k], query'.value)
          <5>1. query.best # None /\ ~ Better(query.prefer, metric[k], query.value)
            BY <3>3, <4>2, <4>3, <4>4
          <5> QED  BY <3>3, <4>3, <5>1
        <4> QED  BY <4>1, <4>3, <4>4
      <3>6. query'.best # None => /\ query'.last # 0 /\ query'.best \in Children
                                  /\ query'.best < query'.i
                                  /\ metric'[query'.best] = query'.value
                                  /\ query'.value # None
                                  /\ child'[query'.best] \in Overs
        BY <3>2, <3>3 DEF QueryInv, QueryStands
      <3> QED  BY <3>1, <3>3, <3>5, <3>6 DEF QueryStands
    <2> QED  BY <2>1, <2>2
  <1> QED  BY <1>1, <1>2 DEF QueryInv

LEMMA NoQueryStands == query' = NoQuery => QueryInv'
  <1>1. N \in Nat /\ N > 0
    BY SweepAssumption
  <1> QED  BY <1>1 DEF NoQuery, QueryInv, QueryTypes, QueryStands, None

LEMMA AskStands ==
    ASSUME SweepInv, AskResults
    PROVE  QueryInv'
  <1>1. N \in Nat /\ N > 0
    BY SweepAssumption
  <1> PICK S : S = IF parent.recorded THEN {i \in Children : Scored(i)} ELSE {}
    OBVIOUS
  <1> PICK l : l = IF parent.recorded THEN N ELSE 0
    OBVIOUS
  <1>3. PICK p \in {"lower", "higher"} :
            query' = [at |-> "read", prefer |-> p, i |-> 1, best |-> None, value |-> None,
                      last |-> l, scored |-> S]
    BY DEF AskResults
  <1>4. S \in SUBSET Children /\ l \in {0, N} /\ (l # 0 <=> parent.recorded)
    BY <1>1
  <1>5. QueryTypes'
    BY <1>1, <1>3, <1>4 DEF QueryTypes, None
  <1>6. \A k \in S : Scored(k) /\ k \in Children
    OBVIOUS
  <1>7. QueryStands'
    <2>1. UNCHANGED <<parent, child, metric>>
      BY DEF AskResults
    <2>2. \A k \in S : metric'[k] # None /\ child'[k] \in Overs /\ ~ (k < 1)
      BY <1>6, <2>1, <1>1 DEF Scored, Overs, Ended, Children
    <2>3. l = 0 => S = {}
      BY <1>4
    <2> QED  BY <1>3, <1>4, <2>1, <2>2, <2>3 DEF QueryStands
  <1> QED  BY <1>5, <1>7 DEF QueryInv

\* The fields of a request after it has read a child.
LEMMA ReadFields ==
    ASSUME QueryTypes, NEW b, NEW v, NEW j,
           query' = [query EXCEPT !.best = b, !.value = v, !.i = j]
    PROVE  /\ query'.best = b /\ query'.value = v /\ query'.i = j
           /\ query'.at = query.at /\ query'.last = query.last
           /\ query'.scored = query.scored /\ query'.prefer = query.prefer
  BY DEF QueryTypes

LEMMA ReadStands ==
    ASSUME SweepInv, QueryInv, ReadChild
    PROVE  QueryInv'
  <1> PICK c : c = query.i
    OBVIOUS
  <1>1. /\ N \in Nat /\ N > 0 /\ Metrics \subseteq Int
        /\ query.at = "read" /\ c <= query.last /\ c \in 1 .. N + 1 /\ query.last \in {0, N}
        /\ UNCHANGED <<parent, child, metric>>
    BY SweepAssumption DEF ReadChild, QueryInv, QueryTypes
  <1>2. /\ c \in Children /\ query.last = N /\ parent.recorded
        /\ metric \in [Children -> Metrics \cup {None}]
    BY <1>1 DEF Children, QueryInv, QueryStands, SweepInv, SweepTypes
  <1>3. \A k \in Children : metric[k] \in Int
    <2>1. Metrics \cup {None} \subseteq Int
      BY <1>1 DEF None
    <2> QED  BY <1>2, <2>1
  <1>4. query.best # None => /\ query.best \in Children /\ query.value = metric[query.best]
                             /\ query.best < c /\ query.value # None
                             /\ child[query.best] \in Overs
    BY <1>1 DEF QueryInv, QueryStands
  <1>5. CASE Scored(c) /\ (query.best # None => Better(query.prefer, metric[c], query.value))
    <2> PICK v, j : v = metric[c] /\ j = c + 1
      OBVIOUS
    <2>0. query' = [query EXCEPT !.best = c, !.value = v, !.i = j]
      BY <1>5 DEF ReadChild
    <2>1. query' = [query EXCEPT !.best = c, !.value = metric[c], !.i = c + 1]
      BY <1>5 DEF ReadChild
    <2>2. /\ query'.best = c /\ query'.value = metric[c] /\ query'.i = c + 1
          /\ query'.at = "read" /\ query'.last = query.last /\ query'.scored = query.scored
          /\ query'.prefer = query.prefer
      <3>1. QueryTypes
        BY DEF QueryInv
      <3>2. /\ query'.best = c /\ query'.value = v /\ query'.i = j
            /\ query'.at = query.at /\ query'.last = query.last
            /\ query'.scored = query.scored /\ query'.prefer = query.prefer
        BY <2>0, <3>1, ReadFields
      <3> QED  BY <1>1, <3>2
    <2>3. QueryTypes'
      <3>1. c \in 0 .. N /\ c + 1 \in 1 .. N + 1 /\ metric[c] \in Metrics \cup {None}
        BY <1>1, <1>2 DEF Children
      <3> QED  BY <2>1, <3>1 DEF QueryInv, QueryTypes
    <2>4. ASSUME NEW k \in query.scored, k < c + 1, Scored(k)
          PROVE  ~ Better(query.prefer, metric[k], metric[c])'
      <3>1. k \in Children /\ k \in Int
        BY <1>1 DEF QueryInv, QueryTypes, Children
      <3>2. CASE k = c
        BY <1>1, <1>2, <1>3, <3>2 DEF Better
      <3>3. CASE k # c
        <4>1. k < c
          BY <1>1, <2>4, <3>1, <3>3
        <4>2. query.best # None /\ ~ Better(query.prefer, metric[k], query.value)
          BY <1>1, <2>4, <4>1 DEF QueryInv, QueryStands
        <4> QED  BY <1>1, <1>2, <1>3, <1>4, <1>5, <2>2, <3>1, <4>2 DEF Better
      <3> QED  BY <3>2, <3>3
    <2>5. QueryStands'
      <3>1. c # None /\ metric[c] # None /\ child[c] \in Overs /\ c < c + 1
        BY <1>1, <1>5 DEF Scored, Overs, Ended, None
      <3>2. \A k \in query.scored : metric[k] # None /\ child[k] \in Overs
        BY <1>1 DEF QueryInv, QueryStands
      <3>3. \A k \in query.scored : k < c + 1 /\ Scored(k)' => ~ Better(query.prefer, metric[k], metric[c])'
        BY <1>1, <2>4 DEF Scored
      <3> QED  BY <1>1, <1>2, <2>2, <3>1, <3>2, <3>3 DEF QueryStands, Better
    <2> QED  BY <2>3, <2>5 DEF QueryInv
  <1>6. CASE ~ (Scored(c) /\ (query.best # None => Better(query.prefer, metric[c], query.value)))
    <2>1. query' = [query EXCEPT !.i = c + 1]
      BY <1>6 DEF ReadChild
    <2>2. /\ query'.best = query.best /\ query'.value = query.value /\ query'.i = c + 1
          /\ query'.at = "read" /\ query'.last = query.last /\ query'.scored = query.scored
          /\ query'.prefer = query.prefer
      BY <1>1, <2>1 DEF QueryInv, QueryTypes
    <2>3. QueryTypes'
      <3>1. c + 1 \in 1 .. N + 1
        BY <1>1, <1>2 DEF Children
      <3> QED  BY <2>1, <3>1 DEF QueryInv, QueryTypes
    <2>4. ASSUME NEW k \in query.scored, k < c + 1, Scored(k)
          PROVE  query.best # None /\ ~ Better(query.prefer, metric[k], query.value)
      <3>1. k \in Children /\ k \in Int
        BY <1>1 DEF QueryInv, QueryTypes, Children
      <3>2. CASE k = c
        BY <1>6, <2>4, <3>2
      <3>3. CASE k # c
        <4>1. k < c
          BY <1>1, <2>4, <3>1, <3>3
        <4> QED  BY <1>1, <2>4, <4>1 DEF QueryInv, QueryStands
      <3> QED  BY <3>2, <3>3
    <2>5. QueryStands'
      <3>1. \A k \in query.scored : metric[k] # None /\ child[k] \in Overs
        BY <1>1 DEF QueryInv, QueryStands
      <3>2. query.best # None => query.best < c + 1
        BY <1>1, <1>4 DEF Children
      <3>3. \A k \in query.scored : k < c + 1 /\ Scored(k)'
                => query.best # None /\ ~ Better(query.prefer, metric[k], query.value)'
        BY <1>1, <2>2, <2>4 DEF Scored, Better
      <3> QED  BY <1>1, <1>2, <1>4, <2>2, <3>1, <3>2, <3>3 DEF QueryStands, Better
    <2> QED  BY <2>3, <2>5 DEF QueryInv
  <1> QED  BY <1>5, <1>6

LEMMA StepQuery == SweepInv /\ QueryInv /\ [Next]_vars => QueryInv'
  <1> SUFFICES ASSUME SweepInv, QueryInv, [Next]_vars PROVE QueryInv'
    OBVIOUS
  <1>1. CASE Results
    BY <1>1, AskStands, ReadStands, NoQueryStands DEF Results, Answer
  <1>2. CASE Restart
    BY <1>2, NoQueryStands DEF Restart
  <1>3. CASE Launcher \/ GiveUp \/ Worker \/ UserParent \/ UNCHANGED vars
    <2>0. parent \in [status : {"RUNNING", "STOPPING", "COMPLETE", "DELETED"},
                      recorded : BOOLEAN, counts : Tallies]
      BY DEF SweepInv, SweepTypes
    <2>1. query' = query
      BY <1>3 DEF Launcher, GiveUp, CreateChild, LaunchReturns, MarkLaunching, LaunchFails, RecordIds,
                  RecordRunning, Worker, List, Fetch, WriteCounts, WriteStatus, UserParent, vars
    <2>2. parent.recorded => parent'.recorded
      BY <1>3, <2>0 DEF Launcher, GiveUp, CreateChild, LaunchReturns, MarkLaunching, LaunchFails,
                  RecordIds, RecordRunning, Worker, List, Fetch, WriteCounts, WriteStatus, UserParent,
                  vars
    <2> QED  BY <2>1, <2>2, OthersLeaveQuery
  <1>4. ASSUME NEW i \in Children, ChildRuns(i) \/ ChildEnds(i) \/ ChildStops(i) \/ UserChild(i)
        PROVE  QueryInv'
    <2>1. query' = query /\ parent' = parent
      BY <1>4 DEF ChildRuns, ChildEnds, ChildStops, UserChild
    <2> QED  BY <2>1, OthersLeaveQuery
  <1> QED  BY <1>1, <1>2, <1>3, <1>4 DEF Next

LEMMA InitQuery == Init => QueryInv
  <1>1. N \in Nat /\ N > 0
    BY SweepAssumption
  <1> QED  BY <1>1 DEF Init, NoQuery, QueryInv, QueryTypes, QueryStands, None

\* For any number of configurations, of user acts and of restarts, every variable of
\* a sweep keeps its type (services/sweep_status_service.py, launch_sweep.py).
THEOREM SweepsKeepTypes == Spec => []TypeOK
  <1>1. SweepInv /\ QueryInv => TypeOK
    BY DEF SweepInv, QueryInv, TypeOK
  <1> QED  BY <1>1, InitSweep, StepSweep, InitQuery, StepQuery, PTL DEF Spec

\* Results that are put together while children end and users stop and delete them
\* name a child that completed with that metric, and none that was COMPLETE when they
\* were asked for, and still is, beats it: for any number of configurations, any
\* metrics and either order (services/compute_provider/sweep_job_service.py).
THEOREM BestStaysBest == Spec => []BestIsBest
  <1>1. SweepInv /\ QueryInv => BestIsBest
    <2> SUFFICES ASSUME SweepInv, QueryInv, query.at = "read", query.i > query.last
                 PROVE  BestIsBest
      BY DEF BestIsBest
    <2>1. \A k \in query.scored : k < query.i /\ k \in Children
      BY SweepAssumption DEF QueryInv, QueryTypes, QueryStands, Children
    <2>2. Overs = {"COMPLETE", "STOPPING"} \cup Failed
      BY DEF Overs, Ended
    <2>3. \A k \in Children : metric[k] \in Int
      <3>1. Metrics \cup {None} \subseteq Int
        BY SweepAssumption DEF None
      <3> QED  BY <3>1 DEF SweepInv, SweepTypes
    <2>4. query.value \in Int
      <3>1. Metrics \cup {None} \subseteq Int
        BY SweepAssumption DEF None
      <3>2. query.value \in Metrics \cup {None}
        BY DEF QueryInv, QueryTypes
      <3> QED  BY <3>1, <3>2
    <2>5. ASSUME NEW k \in query.scored, Scored(k)
          PROVE  /\ query.best # None
                 /\ query.prefer = "lower" => query.value <= metric[k]
                 /\ query.prefer = "higher" => query.value >= metric[k]
      <3>1. query.best # None /\ ~ Better(query.prefer, metric[k], query.value)
        BY <2>1, <2>5 DEF QueryInv, QueryStands
      <3> QED  BY <2>1, <2>3, <2>4, <3>1 DEF Better
    <2> QED  BY <2>2, <2>5 DEF QueryInv, QueryStands, BestIsBest
  <1> QED  BY <1>1, InitSweep, StepSweep, InitQuery, StepQuery, PTL DEF Spec

-----------------------------------------------------------------------------
(* The circuit breaker. *)

BreakerInv == BreakerTypes /\ TripsOnConsecutive

LEMMA InitBreaker == BreakerInit => BreakerInv
  BY BreakerAssumption DEF BreakerInit, BreakerInv, BreakerTypes, TripsOnConsecutive

\* An answer, or the countdown of a back-off, never raises the count.
LEMMA SkippedKeeps ==
    ASSUME BreakerInv, NEW j \in PolledJobs, Skipped(j)
    PROVE  BreakerInv'
  <1> DEFINE p == Provider[j]
  <1>1. p \in Providers
    BY BreakerAssumption
  <1>2. skip[p] \in 0..BackoffCycles /\ skip[p] > 0 /\ skip' = [skip EXCEPT ![p] = @ - 1]
    BY <1>1 DEF BreakerInv, BreakerTypes, Skipped
  <1>3. skip[p] - 1 \in 0..BackoffCycles
    BY <1>2, BreakerAssumption
  <1>4. BreakerTypes'
    BY <1>1, <1>2, <1>3 DEF BreakerInv, BreakerTypes, Skipped
  <1>5. TripsOnConsecutive'
    <2> SUFFICES ASSUME NEW q \in Providers
                 PROVE  /\ skip'[q] > 0 => run'[q] = FailureLimit
                        /\ failures'[q] <= run'[q]
      BY DEF TripsOnConsecutive
    <2>1. run' = run /\ failures' = failures
      BY DEF Skipped
    <2>2. skip'[q] > 0 => skip[q] > 0
      BY <1>1, <1>2 DEF BreakerInv, BreakerTypes
    <2> QED  BY <2>1, <2>2 DEF BreakerInv, TripsOnConsecutive
  <1> QED  BY <1>4, <1>5 DEF BreakerInv

LEMMA AnswersKeeps ==
    ASSUME BreakerInv, NEW j \in PolledJobs, Answers(j)
    PROVE  BreakerInv'
  BY BreakerAssumption DEF BreakerInv, BreakerTypes, TripsOnConsecutive, Answers

\* A failure is counted on both sides, and the limit is reached together.
LEMMA RaisesKeeps ==
    ASSUME BreakerInv, NEW j \in PolledJobs, Raises(j)
    PROVE  BreakerInv'
  <1> DEFINE p == Provider[j]
  <1>1. /\ p \in Providers /\ FailureLimit \in Nat \ {0} /\ BackoffCycles \in Nat \ {0}
        /\ failures[p] \in 0..(FailureLimit - 1) /\ run[p] \in 0..FailureLimit
        /\ failures[p] <= run[p] /\ skip[p] = 0
    BY BreakerAssumption DEF BreakerInv, BreakerTypes, TripsOnConsecutive, Raises
  <1>2. /\ run' = [run EXCEPT ![p] = AtMost(run[p] + 1, FailureLimit)]
        /\ AtMost(run[p] + 1, FailureLimit) \in 0..FailureLimit
    BY <1>1 DEF Raises, AtMost
  <1>3. CASE failures[p] + 1 < FailureLimit
    <2>1. failures' = [failures EXCEPT ![p] = @ + 1] /\ skip' = skip
      BY <1>1, <1>3 DEF Raises
    <2>2. failures[p] + 1 \in 0..(FailureLimit - 1)
      BY <1>1, <1>3
    <2>3. BreakerTypes'
      BY <1>1, <1>2, <2>1, <2>2 DEF BreakerInv, BreakerTypes, Raises
    <2>4. failures[p] + 1 <= AtMost(run[p] + 1, FailureLimit)
      BY <1>1, <1>3 DEF AtMost
    <2>5. TripsOnConsecutive'
      BY <1>1, <1>2, <2>1, <2>4 DEF BreakerInv, BreakerTypes, TripsOnConsecutive
    <2> QED  BY <2>3, <2>5 DEF BreakerInv
  <1>4. CASE failures[p] + 1 >= FailureLimit
    <2>1. /\ failures' = [failures EXCEPT ![p] = 0]
          /\ skip' = [skip EXCEPT ![p] = BackoffCycles]
      BY <1>1, <1>4 DEF Raises
    <2>2. AtMost(run[p] + 1, FailureLimit) = FailureLimit
      BY <1>1, <1>4 DEF AtMost
    <2>3. BreakerTypes'
      BY <1>1, <1>2, <2>1 DEF BreakerInv, BreakerTypes, Raises
    <2>4. TripsOnConsecutive'
      BY <1>1, <1>2, <2>1, <2>2 DEF BreakerInv, BreakerTypes, TripsOnConsecutive
    <2> QED  BY <2>3, <2>4 DEF BreakerInv
  <1> QED  BY <1>1, <1>3, <1>4

LEMMA StepBreaker == BreakerInv /\ [BreakerNext]_breakerVars => BreakerInv'
  <1> SUFFICES ASSUME BreakerInv, [BreakerNext]_breakerVars PROVE BreakerInv'
    OBVIOUS
  <1>1. CASE BeginCycle
    BY <1>1 DEF BeginCycle, state, BreakerInv, BreakerTypes, TripsOnConsecutive
  <1>2. ASSUME NEW j \in PolledJobs, Skipped(j) PROVE BreakerInv'
    BY <1>2, SkippedKeeps
  <1>3. ASSUME NEW j \in PolledJobs, Query(j) PROVE BreakerInv'
    BY <1>3, AnswersKeeps, RaisesKeeps DEF Query
  <1>4. CASE UNCHANGED breakerVars
    BY <1>4 DEF breakerVars, state, BreakerInv, BreakerTypes, TripsOnConsecutive
  <1> QED  BY <1>1, <1>2, <1>3, <1>4 DEF BreakerNext

-----------------------------------------------------------------------------
\* The counters of a provider and the jobs still to visit keep their types.
THEOREM BreakerTypeOK == BreakerSpec => []BreakerTypes
  <1>1. BreakerInv => BreakerTypes
    BY DEF BreakerInv
  <1> QED  BY InitBreaker, StepBreaker, <1>1, PTL DEF BreakerSpec

\* A provider is backed off only after FailureLimit failures in a row, with no
\* answer in between, however the jobs of the providers are mixed in a cycle.
THEOREM BreakerTripsOnConsecutive == BreakerSpec => []TripsOnConsecutive
  <1>1. BreakerInv => TripsOnConsecutive
    BY DEF BreakerInv
  <1> QED  BY InitBreaker, StepBreaker, <1>1, PTL DEF BreakerSpec
=============================================================================
