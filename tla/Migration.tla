----------------------------- MODULE Migration -----------------------------
(***************************************************************************)
(* The startup migrations that move job and task directories of the old    *)
(* layout under their experiment: services/                                *)
(* migrate_jobs_to_experiment_dirs.py and migrate_tasks_to_...py.  They    *)
(* run in the leading process and are cut by its end at any step; the      *)
(* next leader begins again with what it finds on disk.                    *)
(***************************************************************************)
EXTENDS ApiProcesses

CONSTANTS
    Dirs,
    NoDir,
    MaxFaults    \* bound on storage errors

ASSUME MigAssumption == NoDir \notin Dirs /\ MaxFaults \in Nat

VARIABLES
    kind,      \* "jobs" or "tasks"; only the first has a jobs.json
    src,       \* src[d]: the directory in the old layout
    dest,      \* dest[d]: the directory under its experiment
    index,     \* some experiment has a jobs.json
    lasting,   \* the old directory is there also when it is empty: a file system
               \* that has it; in an object store it goes with what is in it
    mig,       \* mig[p]: the migration task of process p
    faults

migVars == <<kind, src, dest, index, lasting, mig, faults>>

Contents == {"none", "part", "whole"}
NoTask   == [at |-> "off", dir |-> NoDir, todo |-> {}]

MigTypeOK ==
    /\ kind \in {"jobs", "tasks"}
    /\ src \in [Dirs -> Contents] /\ dest \in [Dirs -> Contents]
    /\ index \in BOOLEAN /\ lasting \in BOOLEAN
    /\ mig \in [Procs -> [at : {"off", "next", "copy", "remove", "done"},
                          dir : Dirs \cup {NoDir}, todo : SUBSET Dirs]]
    /\ faults \in 0 .. MaxFaults

MigInit ==
    /\ kind \in {"jobs", "tasks"}
    /\ \E old \in BOOLEAN :     \* FALSE: nothing to move, or a server that has
          /\ src = [d \in Dirs |-> IF old THEN "whole" ELSE "none"]    \* migrated
          /\ dest = [d \in Dirs |-> IF old THEN "none" ELSE "whole"]
          /\ index \in BOOLEAN /\ (old \/ kind = "tasks" => index = (old /\ kind = "jobs"))
    /\ lasting \in BOOLEAN
    /\ mig = [p \in Procs |-> NoTask]
    /\ faults = 0

\* _org_needs_jobs_migration, _org_needs_tasks_migration
Needed == IF kind = "jobs" THEN index ELSE \E d \in Dirs : src[d] # "none"

OldDir == lasting \/ \E d \in Dirs : src[d] # "none"

\* The worker starts with the process: the check, then the listing.  Without an old
\* directory it ends there, and an index that is left stays.
BeginMigration(p) ==
    /\ RunsWorkers(p) /\ mig[p].at = "off" /\ Needed
    /\ mig' = [mig EXCEPT ![p] = [at |-> IF OldDir THEN "next" ELSE "done", dir |-> NoDir,
                                  todo |-> {d \in Dirs : src[d] # "none"}]]
    /\ UNCHANGED <<kind, src, dest, index, lasting, faults>>

\* A listing that fails is an empty one.
ListFails(p) ==
    /\ RunsWorkers(p) /\ mig[p].at = "off" /\ Needed /\ OldDir /\ faults < MaxFaults
    /\ mig' = [mig EXCEPT ![p] = [at |-> "next", dir |-> NoDir, todo |-> {}]]
    /\ faults' = faults + 1
    /\ UNCHANGED <<kind, src, dest, index, lasting>>

Skips(p, d) == [mig EXCEPT ![p].todo = @ \ {d}]

\* Mutant: an existing destination is not skipped but waited for.
SkipBroken(p, d) ==
    /\ mig[p].at = "next" /\ d \in mig[p].todo
    /\ src[d] = "part"
    /\ mig' = Skips(p, d)
    /\ UNCHANGED <<kind, src, dest, index, lasting, faults>>

\* Mutant: where both exist the source is taken for already copied.
SkipRemoves(p, d) ==
    /\ mig[p].at = "next" /\ d \in mig[p].todo
    /\ src[d] = "part" \/ dest[d] # "none"
    /\ mig' = Skips(p, d)
    /\ src' = [src EXCEPT ![d] = "none"]
    /\ UNCHANGED <<kind, dest, index, lasting, faults>>

\* No index.json or an unreadable one, as in a directory half removed; or the
\* destination exists: "src+dest exist; manual resolution required".
Skip(p, d) ==
    /\ mig[p].at = "next" /\ d \in mig[p].todo
    /\ src[d] = "part" \/ dest[d] # "none"
    /\ mig' = Skips(p, d)
    /\ UNCHANGED <<kind, src, dest, index, lasting, faults>>

\* copy_dir has begun: a part of the destination is there.
BeginCopy(p, d) ==
    /\ mig[p].at = "next" /\ d \in mig[p].todo
    /\ src[d] = "whole" /\ dest[d] = "none"
    /\ dest' = [dest EXCEPT ![d] = "part"]
    /\ mig' = [mig EXCEPT ![p].at = "copy", ![p].dir = d, ![p].todo = @ \ {d}]
    /\ UNCHANGED <<kind, src, index, lasting, faults>>

EndCopy(p) ==
    /\ mig[p].at = "copy"
    /\ dest' = [dest EXCEPT ![mig[p].dir] = "whole"]
    /\ src' = [src EXCEPT ![mig[p].dir] = "part"]      \* rm_tree begins
    /\ mig' = [mig EXCEPT ![p].at = "remove"]
    /\ UNCHANGED <<kind, index, lasting, faults>>

EndRemove(p) ==
    /\ mig[p].at = "remove"
    /\ src' = [src EXCEPT ![mig[p].dir] = "none"]
    /\ mig' = [mig EXCEPT ![p].at = "next", ![p].dir = NoDir]
    /\ UNCHANGED <<kind, dest, index, lasting, faults>>

\* A storage error ends the check or the migration: no index is removed.
Fault(p) ==
    /\ \/ mig[p].at \in {"copy", "remove"}
       \/ mig[p].at = "off" /\ RunsWorkers(p)
    /\ faults < MaxFaults
    /\ mig' = [mig EXCEPT ![p].at = "done", ![p].dir = NoDir]
    /\ faults' = faults + 1
    /\ UNCHANGED <<kind, src, dest, index, lasting>>

\* After the last directory the jobs.json files go; the directories are the index.
EndMigration(p) ==
    /\ mig[p].at = "next" /\ mig[p].todo = {}
    /\ index' = FALSE
    /\ mig' = [mig EXCEPT ![p].at = "done"]
    /\ UNCHANGED <<kind, src, dest, lasting, faults>>

Migrate(p) ==
    \/ BeginMigration(p) \/ EndCopy(p) \/ EndRemove(p) \/ EndMigration(p)
    \/ \E d \in Dirs : Skip(p, d) \/ BeginCopy(p, d)

MigCut(p) ==
    /\ mig' = [mig EXCEPT ![p] = NoTask]
    /\ UNCHANGED <<kind, src, dest, index, lasting, faults>>

=============================================================================
