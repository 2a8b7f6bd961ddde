--------------------------- MODULE AssetRegistry ---------------------------
(***************************************************************************)
(* The registry of versioned datasets (services/asset_version_service.py)  *)
(* with the two ways files come into it: a client uploads a dataset        *)
(* (routers/data.py), or a job's output is copied into it                  *)
(* (routers/experiment/jobs.py, save_to_registry).  Models are kept in the *)
(* same way.                                                               *)
(*                                                                         *)
(* A group is a directory with an index (its display name) and a list of   *)
(* versions.  There is no lock: every request reads a file, changes what   *)
(* it read and writes the file, in steps between which others run.         *)
(***************************************************************************)
EXTENDS Uploads

CONSTANTS
    Requests,    \* requests (and the tasks they leave behind) at a time
    Groups,      \* group ids, as uuid4 gives them
    Names,       \* names of datasets and groups
    Tags,        \* the tags clients use, "latest" among them
    MaxLabel,    \* bound on version numbers
    MaxOps,      \* bound on requests
    MaxCrashes

ASSUME RegistryAssumption ==
    /\ "latest" \in Tags /\ "none" \notin Tags
    /\ {"none", "bare", "default", "named"} \cap Names = {}
    /\ MaxLabel \in Nat /\ MaxOps \in Nat /\ MaxCrashes \in Nat

VARIABLES
    index,      \* index[g]: "none" no directory, "bare" no index, "default"
                \* named by its id, or its name
    list,       \* list[g]: the versions on disk, Missing, or Torn
    flat,       \* flat[n]: the dataset n: "none", "record", "part", "whole"
    dirs,       \* dirs[n][k]: the directory n/vk: "none", "reserved", "whole"
    pc, job,    \* what request r does next, and its local variables
    usedIds,    \* history: the group ids that were given out
    rewritten,  \* history: datasets that were deleted or written over
    calm,       \* history: no two requests overlapped, none was interrupted
    ops, crashes

regVars == <<index, list, flat, dirs, usedIds, rewritten>>
reqVars == <<pc, job, calm, ops, crashes>>
vars == <<upVars, regVars, reqVars>>

Labels  == 1..MaxLabel
NoTag   == "none"

\* What a version stands for: the dataset itself, its version directory k, or
\* something a client named.
Flat(n)   == <<n, 0>>
Dir(n, k) == <<n, k>>
Named     == <<"named", 0>>

\* A list is the set of its versions: their order only tells which one to offer
\* where none has the tag "latest".  No list, and one that does not parse:
Missing == {[label |-> 0, asset |-> Named, tag |-> "missing"]}
Torn    == {[label |-> 0, asset |-> Named, tag |-> "torn"]}

\* What a request asks for: a dataset's or group's name, a group it has the id
\* of, a label and a tag.
Job(op, n, g, k, t) == [op |-> op, name |-> n, group |-> g, label |-> k, tag |-> t,
                        upload |-> 0, asset |-> Named, list |-> {}]
NoJob == Job("none", "none", "none", 0, NoTag)

Init ==
    /\ UpInit
    /\ index = [g \in Groups |-> "none"]
    /\ list = [g \in Groups |-> Missing]
    /\ flat = [n \in Names |-> "none"]
    /\ dirs = [n \in Names |-> [k \in Labels |-> "none"]]
    /\ pc = [r \in Requests |-> "idle"]
    /\ job = [r \in Requests |-> NoJob]
    /\ usedIds = {} /\ rewritten = {}
    /\ calm = TRUE /\ ops = 0 /\ crashes = 0

-----------------------------------------------------------------------------
(* Reading and changing lists. *)

\* _read_versions: nothing there, or a file that does not parse, is no version.
Read(g) == IF list[g] \in {Missing, Torn} THEN {} ELSE list[g]

LabelsOf(l) == {v.label : v \in l}

HighestOf(S) == CHOOSE m \in S \cup {0} : \A k \in S : k <= m

\* _next_version_label.
NextLabel(l) == HighestOf(LabelsOf(l)) + 1

\* The tag is taken from whoever has it.
WithoutTag(l, t) ==
    {IF v.tag = t THEN [v EXCEPT !.tag = NoTag] ELSE v : v \in l}

\* The list with a new version.
Added(l, j) ==
    WithoutTag(l, j.tag) \cup {[label |-> j.label, asset |-> j.asset, tag |-> j.tag]}

\* set_tag; update_version with a tag does the same.
Tagged(l, j) ==
    {IF v.label = j.label THEN [v EXCEPT !.tag = j.tag] ELSE v :
        v \in WithoutTag(l, j.tag)}

\* clear_tag.
Untagged(l, j) ==
    {IF v.label = j.label THEN [v EXCEPT !.tag = NoTag] ELSE v : v \in l}

\* delete_version.
Without(l, j) == {v \in l : v.label # j.label}

Creates == {"save", "upload", "create"}

\* The list request j writes, having read l.
Changed(l, j) ==
    CASE j.op \in Creates            -> Added(l, j)
      [] j.op = "tag"                -> Tagged(l, j)
      [] j.op = "update"             -> l
      [] j.op = "clear"              -> Untagged(l, j)
      [] j.op = "delete"             -> Without(l, j)

-----------------------------------------------------------------------------
(* How requests begin.  One that overlaps another ends the calm. *)

Busy == {r \in Requests : pc[r] # "idle"}

Begin(r, at, j) ==
    /\ pc[r] = "idle" /\ ops < MaxOps
    /\ ops' = ops + 1
    /\ calm' = (calm /\ Busy = {})
    /\ pc' = [pc EXCEPT ![r] = at]
    /\ job' = [job EXCEPT ![r] = j]
    /\ UNCHANGED crashes

Goto(r, at) ==
    /\ pc' = [pc EXCEPT ![r] = at]
    /\ job' = IF at = "idle" THEN [job EXCEPT ![r] = NoJob] ELSE job
    /\ UNCHANGED <<calm, ops, crashes>>

\* A listing gives every directory without an index a default one.
Listed == [g \in Groups |-> IF index[g] = "bare" THEN "default" ELSE index[g]]

NamedGroups(n) == {g \in Groups : index[g] = n}

OnDisk(n) == flat[n] # "none" \/ \E k \in Labels : dirs[n][k] # "none"

\* save_to_registry up to the reservation: the name is checked against the
\* mode, and the next version is read from the directories.
Save(r, n, t, existing) ==
    LET k == HighestOf({i \in Labels : dirs[n][i] # "none"}) + 1 IN
    /\ IF existing THEN NamedGroups(n) # {} \/ OnDisk(n) ELSE flat[n] = "none"
    /\ k \in Labels
    /\ Begin(r, "reserve", [Job("save", n, "none", k, t) EXCEPT !.asset = Dir(n, k)])
    /\ index' = IF existing THEN Listed ELSE index
    /\ UNCHANGED <<list, flat, dirs, usedIds, rewritten, upVars>>

\* data/fileupload: the assembled file is there, a record of the dataset is made
\* if there is none, and a file that is there already has to be forced.
Upload(r, n, force) ==
    /\ answered /\ HasFile
    /\ force \/ flat[n] \in {"none", "record"}
    /\ Begin(r, "put", [Job("upload", n, "none", 1, "latest") EXCEPT !.asset = Flat(n),
                                                                     !.upload = uploadId])
    /\ flat' = [flat EXCEPT ![n] = IF @ = "none" THEN "record" ELSE @]
    /\ UNCHANGED <<index, list, dirs, usedIds, rewritten, upVars>>

\* A client makes a version of a group it knows by name, with a label or 0.
Create(r, n, k, t) ==
    /\ Begin(r, "find", Job("create", n, "none", k, t))
    /\ UNCHANGED <<regVars, upVars>>

\* set_tag, update_version (of a description), clear_tag or delete_version of a
\* version, or delete_group, in a group that has been listed.
Edit(r, g, op, k, t) ==
    /\ index[g] \notin {"none", "bare"}
    /\ Begin(r, "read", Job(op, "none", g, k, t))
    /\ UNCHANGED <<regVars, upVars>>

\* Mutant: the new name is not looked for.
RenameAnyway(r, g, n) ==
    /\ index[g] \notin {"none", "bare"}
    /\ Begin(r, "rename", Job("rename", n, g, 0, NoTag))
    /\ UNCHANGED <<index, list, flat, dirs, usedIds, rewritten, upVars>>

\* update_group: refused where another group has the name.
Rename(r, g, n) ==
    /\ index[g] \notin {"none", "bare"}
    /\ NamedGroups(n) \subseteq {g}
    /\ Begin(r, "rename", Job("rename", n, g, 0, NoTag))
    /\ index' = Listed
    /\ UNCHANGED <<list, flat, dirs, usedIds, rewritten, upVars>>

\* data/delete: the dataset goes with the version directories in it.
DeleteDataset(n) ==
    /\ OnDisk(n) /\ ops < MaxOps
    /\ ops' = ops + 1
    /\ calm' = (calm /\ Busy = {})
    /\ flat' = [flat EXCEPT ![n] = "none"]
    /\ dirs' = [dirs EXCEPT ![n] = [k \in Labels |-> "none"]]
    /\ rewritten' = rewritten \cup {n}
    /\ UNCHANGED <<index, list, usedIds, pc, job, crashes, upVars>>

-----------------------------------------------------------------------------
(* How they go on. *)

\* makedirs(exist_ok=False): refused with 409 where another save was faster;
\* otherwise the copy is left to a task.
Reserve(r) ==
    LET n == job[r].name  k == job[r].label IN
    /\ pc[r] = "reserve"
    /\ IF dirs[n][k] = "none"
       THEN dirs' = [dirs EXCEPT ![n][k] = "reserved"] /\ Goto(r, "copy")
       ELSE UNCHANGED dirs /\ Goto(r, "idle")
    /\ UNCHANGED <<index, list, flat, usedIds, rewritten, upVars>>

\* Mutant: the version is made before the files are there.
CopyLater(r) ==
    /\ pc[r] = "copy"
    /\ UNCHANGED dirs /\ Goto(r, "find")
    /\ UNCHANGED <<index, list, flat, usedIds, rewritten, upVars>>

\* _save_dataset_to_registry: the copy ends, or raises and the task with it.
Copy(r) ==
    /\ pc[r] = "copy"
    /\ \/ /\ dirs' = [dirs EXCEPT ![job[r].name][job[r].label] = "whole"]
          /\ Goto(r, "find")
       \/ UNCHANGED dirs /\ Goto(r, "idle")
    /\ UNCHANGED <<index, list, flat, usedIds, rewritten, upVars>>

\* accept_uploaded_file opens the target; an upload that is gone ends the request.
Put(r) ==
    LET n == job[r].name IN
    /\ pc[r] = "put"
    /\ IF HasFile /\ uploadId = job[r].upload
       THEN /\ flat' = [flat EXCEPT ![n] = "part"]
            /\ rewritten' = IF flat[n] \in {"part", "whole"} THEN rewritten \cup {n}
                                                           ELSE rewritten
            /\ Goto(r, IF WholeFile THEN "putting" ELSE "register")
       ELSE UNCHANGED <<flat, rewritten>> /\ Goto(r, "idle")
    /\ UNCHANGED <<index, list, dirs, usedIds, upVars>>

\* The copy ends, and the upload is deleted; or it raises and the file stays cut.
PutEnds(r) ==
    /\ pc[r] = "putting"
    /\ \/ /\ flat' = [flat EXCEPT ![job[r].name] = "whole"]
          /\ IF uploadId = job[r].upload THEN RemoveStaging ELSE UNCHANGED upVars
          /\ Goto(r, "register")
       \/ UNCHANGED <<flat, upVars>> /\ Goto(r, "idle")
    /\ UNCHANGED <<index, list, dirs, usedIds, rewritten>>

\* A dataset is registered once: a group of its name is enough.
Register(r) ==
    /\ pc[r] = "register"
    /\ index' = Listed
    /\ Goto(r, IF NamedGroups(job[r].name) = {} THEN "find" ELSE "idle")
    /\ UNCHANGED <<list, flat, dirs, usedIds, rewritten, upVars>>

\* create_version: a group of that name, or a new id.
Find(r) ==
    /\ pc[r] = "find"
    /\ \E g \in IF NamedGroups(job[r].name) # {}
                THEN NamedGroups(job[r].name) ELSE Groups \ usedIds :
          /\ job' = [job EXCEPT ![r].group = g]
          /\ usedIds' = usedIds \cup {g}
    /\ index' = Listed
    /\ pc' = [pc EXCEPT ![r] = "index"]
    /\ UNCHANGED <<list, flat, dirs, rewritten, calm, ops, crashes, upVars>>

\* _read_index writes a default one; a default name is then replaced.
Index(r) ==
    LET g == job[r].group IN
    /\ pc[r] = "index"
    /\ index' = [index EXCEPT ![g] = IF @ \in {"none", "bare"} THEN "default" ELSE @]
    /\ Goto(r, IF index'[g] = "default" THEN "name" ELSE "read")
    /\ UNCHANGED <<list, flat, dirs, usedIds, rewritten, upVars>>

\* _write_index; the directory is made again if it was removed.
WriteIndex(r) ==
    /\ pc[r] \in {"name", "rename"}
    /\ index' = [index EXCEPT ![job[r].group] = job[r].name]
    /\ Goto(r, IF pc[r] = "name" THEN "read" ELSE "idle")
    /\ UNCHANGED <<list, flat, dirs, usedIds, rewritten, upVars>>

\* A directory that is only read is made, too.
Touched(g) == [index EXCEPT ![g] = IF @ = "none" THEN "bare" ELSE @]

\* Mutant: the label is not looked for in the list.
AppliesAnyway(l, j) == j.op \in Creates \/ j.label \in LabelsOf(l)

\* Whether request j goes on with the list it read.
Applies(l, j) ==
    IF j.op \in Creates THEN j.label \notin LabelsOf(l) ELSE j.label \in LabelsOf(l)

\* The list is read and changed in memory.
ReadList(r) ==
    LET l == Read(job[r].group)
        j == IF job[r].op = "create" /\ job[r].label = 0
             THEN [job[r] EXCEPT !.label = NextLabel(l)] ELSE job[r]
    IN
    /\ pc[r] = "read"
    /\ index' = Touched(job[r].group)
    /\ IF j.op = "drop"
       THEN Goto(r, IF l = {} THEN "idle" ELSE "remove")
       ELSE IF Applies(l, j) /\ j.label \in Labels
            THEN /\ job' = [job EXCEPT ![r] = [j EXCEPT !.list = Changed(l, j)]]
                 /\ pc' = [pc EXCEPT ![r] = "open"]
                 /\ UNCHANGED <<calm, ops, crashes>>
            ELSE Goto(r, "idle")
    /\ UNCHANGED <<list, flat, dirs, usedIds, rewritten, upVars>>

\* Opening the list for writing empties it.
Open(r) ==
    /\ pc[r] = "open"
    /\ list' = [list EXCEPT ![job[r].group] = Torn]
    /\ index' = Touched(job[r].group)
    /\ Goto(r, "write")
    /\ UNCHANGED <<flat, dirs, usedIds, rewritten, upVars>>

\* The new text is written.  Over another's text it may leave a rest that makes
\* the file unreadable; into a directory that was removed it is lost.
Write(r) ==
    LET g == job[r].group IN
    /\ pc[r] = "write"
    /\ \E l \in CASE list[g] = Missing -> {Missing}
                  [] list[g] = Torn    -> {job[r].list}
                  [] OTHER             -> {job[r].list, Torn} :
          list' = [list EXCEPT ![g] = l]
    /\ Goto(r, IF job[r].op = "delete" /\ job[r].list = {} THEN "remove" ELSE "idle")
    /\ UNCHANGED <<index, flat, dirs, usedIds, rewritten, upVars>>

\* _remove_group_dir.
RemoveGroup(r) ==
    /\ pc[r] = "remove"
    /\ index' = [index EXCEPT ![job[r].group] = "none"]
    /\ list' = [list EXCEPT ![job[r].group] = Missing]
    /\ Goto(r, "idle")
    /\ UNCHANGED <<flat, dirs, usedIds, rewritten, upVars>>

\* The server stops: requests and tasks are gone, files stay as they are.  Where
\* nothing was under way, nothing changes.
Crash ==
    /\ crashes < MaxCrashes
    /\ Busy # {} \/ next # Idle
    /\ crashes' = crashes + 1
    /\ calm' = (calm /\ Busy = {})
    /\ pc' = [r \in Requests |-> "idle"]
    /\ job' = [r \in Requests |-> NoJob]
    /\ UploadCut
    /\ UNCHANGED <<regVars, ops>>

-----------------------------------------------------------------------------
Starts(r) ==
    \/ \E n \in Names : \/ \E b \in BOOLEAN : Upload(r, n, b)
                        \/ \E t \in Tags, b \in BOOLEAN : Save(r, n, t, b)
                        \/ \E t \in Tags, k \in 0..MaxLabel : Create(r, n, k, t)
                        \/ \E g \in Groups : Rename(r, g, n)
    \/ \E g \in Groups : \/ Edit(r, g, "drop", 0, NoTag)
                         \/ \E k \in Labels, t \in Tags : Edit(r, g, "tag", k, t)
                         \/ \E k \in Labels, op \in {"update", "clear", "delete"} :
                               Edit(r, g, op, k, NoTag)

GoesOn(r) ==
    \/ Reserve(r) \/ Copy(r) \/ Put(r) \/ PutEnds(r) \/ Register(r) \/ Find(r) \/ Index(r)
    \/ WriteIndex(r) \/ ReadList(r) \/ Open(r) \/ Write(r) \/ RemoveGroup(r)

Next ==
    \/ \E r \in Requests : Starts(r) \/ GoesOn(r)
    \/ \E n \in Names : DeleteDataset(n)
    \/ UpNext /\ UNCHANGED <<regVars, reqVars>>
    \/ Crash

Spec == Init /\ [][Next]_vars

-----------------------------------------------------------------------------
(* Properties. *)

Steps == {"idle", "reserve", "copy", "put", "putting", "register", "find", "index",
          "name", "rename", "read", "open", "write", "remove"}
Edits    == {"tag", "update", "clear", "delete"}
Assets   == (Names \cup {"named"}) \X (0..MaxLabel)
Versions == [label : Labels, asset : Assets, tag : Tags \cup {NoTag}]
Jobs     == [op : Creates \cup Edits \cup {"drop", "rename", "none"},
             name : Names \cup {"none"}, group : Groups \cup {"none"}, label : Nat,
             upload : Nat, asset : Assets, tag : Tags \cup {NoTag}, list : SUBSET Versions]

TypeOK ==
    /\ UpTypeOK
    /\ index \in [Groups -> {"none", "bare", "default"} \cup Names]
    /\ list \in [Groups -> (SUBSET Versions) \cup {Missing, Torn}]
    /\ flat \in [Names -> {"none", "record", "part", "whole"}]
    /\ dirs \in [Names -> [Labels -> {"none", "reserved", "whole"}]]
    /\ usedIds \subseteq Groups /\ rewritten \subseteq Names
    /\ pc \in [Requests -> Steps] /\ job \in [Requests -> Jobs]
    /\ calm \in BOOLEAN /\ ops \in 0..MaxOps /\ crashes \in 0..MaxCrashes

\* What a version names is there, whole, from the moment it is listed: whatever
\* saves, uploads and edits overlap, and wherever a copy fails or the server
\* stops; until somebody deletes the dataset or writes over its file.
VersionsAreWhole ==
    \A g \in Groups : \A v \in Read(g) :
        \A n \in Names \ rewritten :
            /\ v.asset = Flat(n) => flat[n] = "whole"
            /\ \A k \in Labels : v.asset = Dir(n, k) => dirs[n][k] = "whole"

Sound(l) ==
    \A v, w \in l : v # w => /\ v.label # w.label
                             /\ v.tag = NoTag \/ v.tag # w.tag

\* However edits overwrite each other, a list that can be read has every label
\* once and at most one holder of a tag: a tag or a label resolves to one version.
ListIsSound == \A g \in Groups : Sound(Read(g))

\* While no two requests overlap and none is cut, a name stands for one group:
\* uploading a dataset again, renaming and deleting groups make no second one.
OneGroupPerName ==
    calm => \A g, h \in Groups : g # h /\ index[g] = index[h] => index[g] \notin Names

\* What a job or a user refers to resolves to one thing: a name to a group, and
\* a label or a tag of it to a version.
NamesResolve == ListIsSound /\ OneGroupPerName

=============================================================================
