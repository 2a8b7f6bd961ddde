------------------------------ MODULE JobCache ------------------------------
(***************************************************************************)
(* The server's in-memory cache of a job's record in front of the record   *)
(* on disk (backend/transformerlab/services/job_service.py).  Readers keep *)
(* what they read when the job is over; edits and deletes write the disk   *)
(* and drop the entry; status updates write the disk and, when the job is  *)
(* over, keep what they then read.  Entries live for seven days, which is  *)
(* for ever here.  One job, one server process.                            *)
(*                                                                         *)
(* File reads and writes run in threads: other requests run between a      *)
(* request's access to the disk and its access to the cache.               *)
(***************************************************************************)
EXTENDS Naturals

CONSTANTS
    Requests,    \* requests that may be in flight at the same time
    Terminal,    \* TERMINAL_STATUSES of the lab package
    MaxWrites    \* bound on the number of writes to the disk

Statuses == {"RUNNING", "STOPPING", "COMPLETE", "DELETED"}

ASSUME CacheAssumption == /\ Terminal \subseteq Statuses
                          /\ MaxWrites \in Nat

VARIABLES
    disk,        \* the record on disk: its status, and how often it was written
    cache,       \* the cached record, or NoEntry
    pc, val,     \* pc[r], val[r]: what request r does next, the record it holds
    settled      \* history: the last write was dropped from the cache with no
                 \* request in flight that held an earlier record

vars == <<disk, cache, pc, val, settled>>

Records == [status : Statuses, writes : 0..MaxWrites]
NoEntry == [status |-> "NONE", writes |-> 0]

\* What a request holds, and may put into the cache later.
Holding(r) == pc[r] = "fill"

Init ==
    /\ disk = [status |-> "RUNNING", writes |-> 0]
    /\ cache = NoEntry
    /\ pc = [r \in Requests |-> "idle"]
    /\ val = [r \in Requests |-> NoEntry]
    /\ settled = TRUE

WriteDisk(s) ==
    /\ disk.writes < MaxWrites
    /\ disk' = [status |-> s, writes |-> disk.writes + 1]
    /\ settled' = FALSE

Goto(r, from, to) ==
    /\ pc[r] = from
    /\ pc' = [pc EXCEPT ![r] = to]

\* job_get_cached on a miss: the live record is read, and kept for the cache
\* when the job is over.
ReadMiss(r) ==
    /\ cache = NoEntry
    /\ disk.status \in Terminal
    /\ Goto(r, "idle", "fill")
    /\ val' = [val EXCEPT ![r] = disk]
    /\ UNCHANGED <<disk, cache, settled>>

\* cache.set.
Fill(r) ==
    /\ Goto(r, "fill", "idle")
    /\ cache' = val[r]
    /\ val' = [val EXCEPT ![r] = NoEntry]
    /\ UNCHANGED <<disk, settled>>

\* job_update_job_data_insert_key_value(s), the score field, launch progress:
\* the write, then Invalidate.
Edit(r) ==
    /\ Goto(r, "idle", "drop")
    /\ WriteDisk(disk.status)
    /\ UNCHANGED <<cache, val>>

\* job_delete and job_delete_all: the write, then Invalidate.
Delete(r) ==
    /\ Goto(r, "idle", "drop")
    /\ WriteDisk("DELETED")
    /\ UNCHANGED <<cache, val>>

\* Mutant: the entry is kept.
InvalidateNothing(r) ==
    /\ Goto(r, "drop", "idle")
    /\ settled' = (settled \/ \A q \in Requests : ~ Holding(q))
    /\ UNCHANGED <<disk, cache, val>>

\* cache.invalidate(tag) and cache.delete(key).
Invalidate(r) ==
    /\ Goto(r, "drop", "idle")
    /\ cache' = NoEntry
    /\ settled' = (settled \/ \A q \in Requests : ~ Holding(q))
    /\ UNCHANGED <<disk, val>>

\* job_update_status(s): the write, whose failure is swallowed; when s is
\* terminal the live record is read again, whatever it says by then, and kept
\* for the cache.
SetStatus(r, s) ==
    /\ Goto(r, "idle", IF s \in Terminal THEN "reread" ELSE "idle")
    /\ WriteDisk(s) \/ UNCHANGED <<disk, settled>>
    /\ UNCHANGED <<cache, val>>

\* _populate_cache_if_terminal: whatever the record says by now.
Reread(r) ==
    /\ Goto(r, "reread", "fill")
    /\ val' = [val EXCEPT ![r] = disk]
    /\ UNCHANGED <<disk, cache, settled>>

\* The job's own process writes its record through the SDK: the server's cache
\* is not told.
JobWrites(s) ==
    /\ disk.status = "RUNNING"
    /\ WriteDisk(s)
    /\ UNCHANGED <<cache, pc, val>>

Request(r) ==
    \/ ReadMiss(r) \/ Fill(r) \/ Edit(r) \/ Delete(r) \/ Invalidate(r) \/ Reread(r)
    \/ \E s \in Statuses \ {"DELETED"} : SetStatus(r, s)

Next ==
    \/ \E r \in Requests : Request(r)
    \/ \E s \in {"RUNNING", "COMPLETE"} : JobWrites(s)

Spec == Init /\ [][Next]_vars

-----------------------------------------------------------------------------
(* Properties. *)

TypeOK ==
    /\ disk \in Records
    /\ cache \in Records \cup {NoEntry}
    /\ pc \in [Requests -> {"idle", "fill", "drop", "reread"}]
    /\ val \in [Requests -> Records \cup {NoEntry}]
    /\ \A r \in Requests : val[r] # NoEntry <=> Holding(r)
    /\ settled \in BOOLEAN

\* An edit or a delete that dropped the cache entry while no other request held
\* an earlier record is what every later reader sees, until the next write.
UndisturbedEditIsSeen == settled => cache \in {NoEntry, disk}

\* A request never puts a record into the cache that is newer than the disk,
\* and what is cached is the disk's record unless a write came after it.
CacheLagsBehind ==
    cache # NoEntry => /\ cache.writes <= disk.writes
                       /\ cache.writes = disk.writes => cache = disk

=============================================================================
