------------------------------- MODULE Tasks -------------------------------
(***************************************************************************)
(* The tasks of an experiment and the team's gallery of tasks              *)
(* (routers/experiment/task.py, services/task_service.py,                  *)
(* shared/galleries.py).                                                   *)
(*                                                                         *)
(* A task is a directory with an index (index.json: id, name, and          *)
(* file_mounts), a task.yaml and other files.  Of file_mounts, True has    *)
(* launches bring the directory along, and a map, the former way, what it  *)
(* names.  The gallery is one JSON file; its entries name directories of   *)
(* their own, made by copying a task's, index and all.  Nothing is locked, *)
(* and a request ends wherever storage fails.  Files the server opens      *)
(* itself are empty until they are written; the index writes and directory *)
(* copies of the SDK are single steps.  Bodies that name an id, or fields  *)
(* of a wrong type, are left out.                                          *)
(***************************************************************************)
EXTENDS Naturals

CONSTANTS
    Tasks,         \* ids still unused
    Added,         \* ids of entries that were never a task
    Titles,
    ZipIndexes,    \* what an index.json in a user's zip may say
    TaskCalls, NoIndex, NoId,
    NoDir,         \* of an entry: its config says what to run
    NoSource,      \* of an entry: not even that
    MaxTaskCalls   \* bound on the requests made

VARIABLES
    index,         \* index[t]: index.json of t
    yaml,          \* yaml[t]: the task.yaml of t: none, good, or one that does not parse
    extra,         \* tasks with other files
    dir,           \* dir[d]: a directory of the gallery, named after id and title, or NoDir
    gallery,       \* the gallery file: torn or not, and its entries
    work,          \* work[c]: a request under way
    known,         \* ids in use
    asked,         \* requests made
    loose,         \* history: tasks whose file_mounts was lost, or is still due
    foreign,       \* history: tasks with the id of what they were copied from, or none
    refused,       \* history: tasks whose task.yaml was refused after it was saved, or cut
    halfway,       \* history: gallery directories left half way
    spoilt         \* history: gallery directories copied with such a task.yaml

taskDirs == <<index, yaml, extra>>
taskVars == <<taskDirs, dir, gallery, work, known, asked, loose, foreign, refused, halfway,
              spoilt>>

Mounts      == {"no", "dir", "map"}
Yamls       == {"none", "good", "bad"}
Indexes     == [id : Tasks \cup {NoId}, title : Titles, mounts : Mounts]
Dirs        == (Tasks \cup Added) \X Titles
Directories == [index : Indexes \cup {NoIndex}, yaml : Yamls, extra : BOOLEAN]
Entries     == [id : Tasks \cup Added, title : Titles, dir : Dirs \cup {NoDir, NoSource}]

ASSUME TasksAssumption ==
    /\ NoIndex \notin Indexes /\ NoId \notin Tasks
    /\ NoDir \notin Dirs \cup Directories /\ NoSource \notin Dirs
    /\ Tasks \cap Added = {} /\ MaxTaskCalls \in Nat /\ ZipIndexes \subseteq Indexes

Index(id, title, mounts) == [id |-> id, title |-> title, mounts |-> mounts]
NewIndex(t, title)       == Index(t, title, "no")
Directory(i, y, files)   == [index |-> i, yaml |-> y, extra |-> files]

Entry(id, title, d) == [id |-> id, title |-> title, dir |-> d]

\* A request on task t (or entry t): its next step and what it has read.
Work(step, t, read) == [step |-> step, on |-> t, read |-> read]

NoTaskCall == Work("none", NoDir, NoDir)

\* Nothing yet, or a blank task that has been exported.
TasksInit ==
    /\ \E old \in {{}} \cup {{t} : t \in Tasks}, title \in Titles :
          /\ index = [t \in Tasks |-> IF t \in old THEN NewIndex(t, title) ELSE NoIndex]
          /\ yaml = [t \in Tasks |-> IF t \in old THEN "good" ELSE "none"]
          /\ known = old
          /\ dir = [d \in Dirs |->
                 IF d[1] \in old /\ d[2] = title
                 THEN Directory(NewIndex(d[1], title), "good", FALSE)
                 ELSE NoDir]
          /\ gallery = [torn |-> FALSE, list |-> {Entry(t, title, <<t, title>>) : t \in old}]
    /\ extra = {}
    /\ work = [c \in TaskCalls |-> NoTaskCall]
    /\ asked = 0
    /\ loose = {} /\ foreign = {} /\ refused = {} /\ halfway = {} /\ spoilt = {}

Ask(c, w) ==
    /\ work[c] = NoTaskCall /\ asked < MaxTaskCalls
    /\ work' = [work EXCEPT ![c] = w]
    /\ asked' = asked + 1

Does(c, step)    == work[c].step = step
Then(c, step)    == work' = [work EXCEPT ![c] = Work(step, work[c].on, work[c].read)]
Knows(c, step, r) == work' = [work EXCEPT ![c] = Work(step, work[c].on, r)]
Answer(c)        == work' = [work EXCEPT ![c] = NoTaskCall]

Exists(t) == index[t] # NoIndex

\* The index of t is written, unless t was deleted; file_mounts may be lost by it.
Stores(t, i)   == index' = [index EXCEPT ![t] = IF Exists(t) THEN i ELSE NoIndex]
Loses(t, m)    == loose' = IF Exists(t) /\ index[t].mounts # "no" /\ m = "no"
                           THEN loose \cup {t} ELSE loose
HasYaml(t, y)  == yaml' = [yaml EXCEPT ![t] = y]

-----------------------------------------------------------------------------
(* Creating. *)

\* add_task: a task of its own.
AddTask(t, title, mounts) ==
    /\ t \in Tasks \ known
    /\ known' = known \cup {t}
    /\ index' = [index EXCEPT ![t] = Index(t, title, mounts)]

\* create_task from a blank, GitHub or a zip, and import_task_from_gallery, whose
\* interactive entries may bring files, in a directory below; or create_task with
\* a body, which is done with the index.
CreateTask(c) ==
    /\ \E t \in Tasks, title \in Titles :
          \/ \E step \in {"yaml", "copy", "file"} :
                /\ AddTask(t, title, "no")
                /\ Ask(c, Work(step, t, NewIndex(t, title)))
          \/ \E m \in Mounts : AddTask(t, title, m) /\ Ask(c, NoTaskCall)
    /\ UNCHANGED <<yaml, extra, dir, gallery, loose, foreign, refused, halfway, spoilt>>

\* write_task_yaml opens the file, which empties it ...
OpenYaml(c) ==
    /\ HasYaml(work[c].on, "bad")
    /\ \/ Does(c, "yaml") /\ Then(c, "text")
       \/ Does(c, "put") /\ Then(c, "save")
    /\ UNCHANGED <<index, extra, dir, gallery, known, asked, loose, foreign, refused, halfway,
                   spoilt>>

\* ... and writes what was parsed before.
WriteYaml(c) ==
    /\ Does(c, "text")
    /\ HasYaml(work[c].on, "good")
    /\ refused' = refused \ {work[c].on}
    /\ Answer(c)
    /\ UNCHANGED <<index, extra, dir, gallery, known, asked, loose, foreign, halfway, spoilt>>

\* copy_dir of an unpacked zip: its task.yaml, which parsed, and what else it
\* has, an index of some task included, which takes the place of the task's.
CopyZip(c) ==
    LET t == work[c].on IN
    /\ Does(c, "copy")
    /\ HasYaml(t, "good")
    /\ refused' = refused \ {t}
    /\ extra' \in {extra, extra \cup {t}}
    /\ \/ UNCHANGED <<index, foreign>>
       \/ \E i \in ZipIndexes :
             /\ index' = [index EXCEPT ![t] = i]
             /\ foreign' = IF i.id = t THEN foreign ELSE foreign \cup {t}
    /\ Then(c, "mount")
    /\ UNCHANGED <<dir, gallery, known, asked, loose, halfway, spoilt>>

\* update_task(file_mounts = True).
Mount(c) ==
    LET t == work[c].on IN
    /\ Does(c, "mount")
    /\ Stores(t, Index(index[t].id, index[t].title, "dir"))
    /\ loose' = loose \ {t}
    /\ Answer(c)
    /\ UNCHANGED <<yaml, extra, dir, gallery, known, asked, foreign, refused, halfway, spoilt>>

-----------------------------------------------------------------------------
(* Editing. *)

\* update_task_yaml, and edit_task with a zip, which has no yaml to write first.
EditTask(c) ==
    /\ \E t \in Tasks, step \in {"put", "edit"} : Exists(t) /\ Ask(c, Work(step, t, NoIndex))
    /\ UNCHANGED <<taskDirs, dir, gallery, known, loose, foreign, refused, halfway, spoilt>>

\* What a user saves is written before it is parsed: a yaml that does not parse
\* is refused and stays; one that names an unknown provider is refused, too.
PutYaml(c) ==
    LET t == work[c].on IN
    /\ Does(c, "save")
    /\ \/ HasYaml(t, "bad") /\ refused' = refused \cup {t} /\ Answer(c)
       \/ HasYaml(t, "good") /\ refused' = refused \ {t} /\ (Answer(c) \/ Then(c, "sync"))
    /\ UNCHANGED <<index, extra, dir, gallery, known, asked, loose, foreign, halfway, spoilt>>

\* update_task_from_yaml reads the index ...
ReadIndex(c) ==
    LET t == work[c].on IN
    /\ \/ Does(c, "sync") /\ IF Exists(t) THEN Knows(c, "store", index[t]) ELSE Answer(c)
       \/ Does(c, "edit") /\ IF Exists(t) THEN Knows(c, "restore", index[t]) ELSE Answer(c)
    /\ UNCHANGED <<taskDirs, dir, gallery, known, asked, loose, foreign, refused, halfway, spoilt>>

\* ... and writes it, with the id as read: what changed in between is lost.
StoreWith(c, mounts) ==
    LET t == work[c].on IN
    /\ Does(c, "store") \/ Does(c, "restore")
    /\ \E title \in Titles : Stores(t, Index(work[c].read.id, title, mounts))
    /\ Loses(t, work[c].read.mounts)
    /\ foreign' = IF Exists(t) /\ index[t].id = t /\ work[c].read.id # t
                  THEN foreign \cup {t} ELSE foreign
    /\ IF Does(c, "restore") THEN Then(c, "copy") ELSE Answer(c)
    /\ UNCHANGED <<yaml, extra, dir, gallery, known, asked, refused, halfway, spoilt>>

\* Mutant: what the yaml does not name goes.
StoreIndexPlain(c) == StoreWith(c, "no")

\* No yaml names file_mounts: it stays, too.
StoreIndex(c) == StoreWith(c, work[c].read.mounts)

\* update_task: it reads first ...
UpdateTask(c) ==
    /\ \E t \in Tasks : Exists(t) /\ Ask(c, Work("update", t, index[t]))
    /\ UNCHANGED <<taskDirs, dir, gallery, known, loose, foreign, refused, halfway, spoilt>>

\* ... and lets a body clear file_mounts where it read none; a body may also leave
\* it out, or set it.
StoreUpdate(c) ==
    LET t == work[c].on IN
    /\ Does(c, "update")
    /\ \E title \in Titles, m \in Mounts :
          /\ m = "no" /\ Exists(t) => work[c].read.mounts = "no" \/ index[t].mounts = "no"
          /\ Stores(t, Index(index[t].id, title, m)) /\ Loses(t, m)
    /\ Answer(c)
    /\ UNCHANGED <<yaml, extra, dir, gallery, known, asked, foreign, refused, halfway, spoilt>>

\* task_update_file and task_upload_file mark the directory where they read no
\* file_mounts, of either kind; upload_task_files always.
UploadFiles(c) ==
    /\ \E t \in Tasks : Exists(t) /\ Ask(c, Work("file", t, index[t]))
    /\ UNCHANGED <<taskDirs, dir, gallery, known, loose, foreign, refused, halfway, spoilt>>

PutFiles(c) ==
    LET t == work[c].on IN
    /\ Does(c, "file")
    /\ extra' = extra \cup {t}
    /\ \/ /\ work[c].read.mounts # "no" /\ Answer(c)
          /\ loose' = IF Exists(t) /\ index[t].mounts = "no" THEN loose \cup {t} ELSE loose
       \/ Then(c, "mount") /\ UNCHANGED loose
    /\ UNCHANGED <<index, yaml, dir, gallery, known, asked, foreign, refused, halfway, spoilt>>

\* task_delete_file; delete_task and task_delete_all.
DeleteFiles(t) ==
    /\ Exists(t) /\ t \in extra
    /\ extra' = extra \ {t}
    /\ UNCHANGED <<index, yaml, dir, gallery, work, known, asked, loose, foreign, refused,
                   halfway, spoilt>>

DeleteTasks(S) ==
    /\ \E t \in S : Exists(t)
    /\ index' = [t \in Tasks |-> IF t \in S THEN NoIndex ELSE index[t]]
    /\ yaml' = [t \in Tasks |-> IF t \in S THEN "none" ELSE yaml[t]]
    /\ extra' = extra \ S
    /\ UNCHANGED <<dir, gallery, work, known, asked, loose, foreign, refused, halfway, spoilt>>

-----------------------------------------------------------------------------
(* The gallery. *)

\* get_team_tasks_gallery: a file that does not parse is an empty gallery.
Listed == IF gallery.torn THEN {} ELSE gallery.list

\* export_task_to_team_gallery: the entry is named after what the index says.
ExportTask(c) ==
    /\ \E t \in Tasks :
          /\ Exists(t)
          /\ LET i == index[t]  id == IF i.id = NoId THEN t ELSE i.id
             IN  Ask(c, Work("clear", t, Entry(id, i.title, <<t, i.title>>)))
    /\ UNCHANGED <<taskDirs, dir, gallery, known, loose, foreign, refused, halfway, spoilt>>

\* The former copy goes; a task deleted meanwhile is exported without one.
ClearDir(c) ==
    LET t == work[c].on IN
    /\ Does(c, "clear")
    /\ IF Exists(t) THEN dir' = [dir EXCEPT ![work[c].read.dir] = NoDir] /\ Then(c, "pack")
       ELSE /\ \E none \in {NoDir, NoSource} :
                   Knows(c, "list", Entry(work[c].read.id, work[c].read.title, none))
            /\ UNCHANGED dir
    /\ UNCHANGED <<taskDirs, gallery, known, asked, loose, foreign, refused, halfway, spoilt>>

Copy(t) == Directory(index[t], yaml[t], t \in extra)

Saving(t) == \E c \in TaskCalls : (Does(c, "text") \/ Does(c, "save")) /\ work[c].on = t

\* copy_dir; a directory that has gone raises.
Pack(c) ==
    LET t == work[c].on IN
    /\ Does(c, "pack") /\ Exists(t)
    /\ dir' = [dir EXCEPT ![work[c].read.dir] = Copy(t)]
    /\ spoilt' = IF t \in refused \/ Saving(t) THEN spoilt \cup {work[c].read.dir}
                                               ELSE spoilt \ {work[c].read.dir}
    /\ Then(c, "describe")
    /\ UNCHANGED <<taskDirs, gallery, known, asked, loose, foreign, refused, halfway>>

\* Mutant: the copy is taken as it is.
DescribeNot(c) ==
    /\ Does(c, "describe")
    /\ halfway' = halfway \ {work[c].read.dir}
    /\ Then(c, "list")
    /\ UNCHANGED <<taskDirs, dir, gallery, known, asked, loose, foreign, refused, spoilt>>

WithYaml == Directory(NoIndex, "good", FALSE)

\* A task.yaml is made where there is none, also where another export has just
\* removed the directory (an object store has no directories to miss).  One that
\* is there is not looked at.
Describe(c) ==
    /\ Does(c, "describe")
    /\ dir' = [dir EXCEPT ![work[c].read.dir] =
                  IF @ = NoDir THEN WithYaml
                  ELSE Directory(@.index, IF @.yaml = "none" THEN "good" ELSE @.yaml, @.extra)]
    /\ halfway' = halfway \ {work[c].read.dir}
    /\ Then(c, "list")
    /\ UNCHANGED <<taskDirs, gallery, known, asked, loose, foreign, refused, spoilt>>

\* add_task_to_team_gallery: a new directory with a task.yaml, checked before.
AddEntry(c) ==
    /\ \E d \in Added \ known, title \in Titles :
          /\ known' = known \cup {d}
          /\ dir' = [dir EXCEPT ![<<d, title>>] = WithYaml]
          /\ Ask(c, Work("list", d, Entry(d, title, <<d, title>>)))
    /\ UNCHANGED <<taskDirs, gallery, loose, foreign, refused, halfway, spoilt>>

\* add_team_task_to_gallery reads the list; an entry of the same id or title goes.
ReadGallery(c) ==
    LET e == work[c].read IN
    /\ Does(c, "list")
    /\ Knows(c, "open", {x \in Listed : x.id # e.id /\ x.title # e.title} \cup {e})
    /\ UNCHANGED <<taskDirs, dir, gallery, known, asked, loose, foreign, refused, halfway, spoilt>>

\* delete_team_task_from_gallery, by id or by title; directories stay.
DeleteEntry(c) ==
    /\ \E x \in Listed : \/ Ask(c, Work("open", x.id, {y \in Listed : y.id # x.id}))
                         \/ Ask(c, Work("open", x.id, {y \in Listed : y.title # x.title}))
    /\ UNCHANGED <<taskDirs, dir, gallery, known, loose, foreign, refused, halfway, spoilt>>

OpenGallery(c) ==
    /\ Does(c, "open")
    /\ gallery' = [torn |-> TRUE, list |-> {}]
    /\ Then(c, "write")
    /\ UNCHANGED <<taskDirs, dir, known, asked, loose, foreign, refused, halfway, spoilt>>

WriteGallery(c) ==
    /\ Does(c, "write")
    /\ gallery' = [torn |-> FALSE, list |-> work[c].read]
    /\ Answer(c)
    /\ UNCHANGED <<taskDirs, dir, known, asked, loose, foreign, refused, halfway, spoilt>>

\* import_task_from_team_gallery: the entry and the task.yaml in its directory,
\* which must be there and parse, are read, and a task is made; an entry without
\* a directory brings what it runs, its repository's task.yaml, or is refused.
ImportTask(c) ==
    /\ \E e \in Listed, t \in Tasks :
          /\ AddTask(t, e.title, "no")
          /\ \/ /\ e.dir \in Dirs /\ dir[e.dir] # NoDir /\ dir[e.dir].yaml = "good"
                /\ Ask(c, Work("unpack", t, e.dir))
             \/ e.dir = NoDir /\ Ask(c, Work("yaml", t, e.dir))
    /\ UNCHANGED <<yaml, extra, dir, gallery, loose, foreign, refused, halfway, spoilt>>

\* copy_dir brings the index of the task that was exported; a directory that
\* has gone raises.
Unpack(c) ==
    LET t == work[c].on  d == dir[work[c].read] IN
    /\ Does(c, "unpack") /\ d # NoDir
    /\ index' = [index EXCEPT ![t] = IF d.index = NoIndex THEN @ ELSE d.index]
    /\ HasYaml(t, IF d.yaml = "none" THEN yaml[t] ELSE d.yaml)
    /\ refused' = IF d.yaml = "bad" THEN refused \cup {t} ELSE refused
    /\ extra' = IF d.extra THEN extra \cup {t} ELSE extra
    /\ loose' = IF d.index # NoIndex /\ d.index.mounts = "no" /\ (d.extra \/ t \in extra)
                THEN loose \cup {t} ELSE loose
    /\ Then(c, "own")
    /\ UNCHANGED <<dir, gallery, known, asked, foreign, halfway, spoilt>>

\* The id in the copied index becomes that of the new task: it is read ...
ReadCopied(c) ==
    LET t == work[c].on IN
    /\ Does(c, "own")
    /\ IF Exists(t) THEN Knows(c, "tear", index[t]) ELSE Answer(c)
    /\ UNCHANGED <<taskDirs, dir, gallery, known, asked, loose, foreign, refused, halfway, spoilt>>

\* ... opened, which empties it: until it is written it reads as one without an
\* id, a name of its own or file_mounts ...
TearIndex(c) ==
    LET t == work[c].on IN
    /\ Does(c, "tear")
    /\ \E title \in Titles : Stores(t, Index(NoId, title, "no"))
    /\ Loses(t, work[c].read.mounts)
    /\ Then(c, "fill")
    /\ UNCHANGED <<yaml, extra, dir, gallery, known, asked, foreign, refused, halfway, spoilt>>

\* ... and written as read.
OwnIndex(c) ==
    LET t == work[c].on IN
    /\ Does(c, "fill")
    /\ Stores(t, Index(t, work[c].read.title, work[c].read.mounts))
    /\ Loses(t, work[c].read.mounts)
    /\ foreign' = foreign \ {t}
    /\ Answer(c)
    /\ UNCHANGED <<yaml, extra, dir, gallery, known, asked, refused, halfway, spoilt>>

\* Storage fails, or the server stops: the request ends where it is.
CutTask(c) ==
    LET t == work[c].on IN
    /\ work[c] # NoTaskCall
    /\ Answer(c)
    /\ loose' = IF Does(c, "mount") \/ Does(c, "fill") THEN loose \cup {t} ELSE loose
    /\ foreign' = IF Does(c, "own") \/ Does(c, "tear") \/ Does(c, "fill")
                  THEN foreign \cup {t} ELSE foreign
    /\ refused' = IF Does(c, "text") \/ Does(c, "save") THEN refused \cup {t} ELSE refused
    /\ halfway' = IF Does(c, "pack") \/ Does(c, "describe")
                  THEN halfway \cup {work[c].read.dir} ELSE halfway
    /\ UNCHANGED <<taskDirs, dir, gallery, known, asked, spoilt>>

TasksNext ==
    \/ \E c \in TaskCalls :
          \/ CreateTask(c) \/ OpenYaml(c) \/ WriteYaml(c) \/ CopyZip(c) \/ Mount(c)
          \/ EditTask(c) \/ PutYaml(c) \/ ReadIndex(c) \/ StoreIndex(c)
          \/ UpdateTask(c) \/ StoreUpdate(c) \/ UploadFiles(c) \/ PutFiles(c)
          \/ ExportTask(c) \/ ClearDir(c) \/ Pack(c) \/ Describe(c) \/ AddEntry(c)
          \/ ReadGallery(c) \/ DeleteEntry(c) \/ OpenGallery(c) \/ WriteGallery(c)
          \/ ImportTask(c) \/ Unpack(c) \/ ReadCopied(c) \/ TearIndex(c)
          \/ OwnIndex(c) \/ CutTask(c)
    \/ \E t \in Tasks : DeleteFiles(t) \/ DeleteTasks({t})
    \/ DeleteTasks(Tasks)

-----------------------------------------------------------------------------
TasksSpec == TasksInit /\ [][TasksNext]_taskVars

OnTask == {"yaml", "text", "copy", "mount", "put", "save", "sync", "edit", "store", "restore",
           "update", "file", "clear", "pack", "describe", "unpack", "own", "tear", "fill"}

WorkOK(w) ==
    /\ w = Work(w.step, w.on, w.read)
    /\ w.step \in OnTask \cup {"none", "list", "open", "write"}
    /\ w.step \in OnTask => w.on \in Tasks
    /\ w.step \in {"store", "restore", "update", "file", "tear", "fill"} => w.read \in Indexes
    /\ w.step \in {"clear", "pack", "describe", "list"} => w.read \in Entries
    /\ w.step \in {"clear", "pack", "describe"} => w.read.dir \in Dirs
    /\ w.step \in {"open", "write"} => w.read \subseteq Entries
    /\ w.step = "unpack" => w.read \in Dirs

TasksTypeOK ==
    /\ index \in [Tasks -> Indexes \cup {NoIndex}]
    /\ yaml \in [Tasks -> Yamls] /\ extra \subseteq Tasks
    /\ dir \in [Dirs -> Directories \cup {NoDir}]
    /\ gallery \in [torn : BOOLEAN, list : SUBSET Entries]
    /\ DOMAIN work = TaskCalls /\ \A c \in TaskCalls : WorkOK(work[c])
    /\ loose \subseteq Tasks /\ foreign \subseteq Tasks /\ refused \subseteq Tasks
    /\ halfway \subseteq Dirs /\ spoilt \subseteq Dirs
    /\ known \subseteq Tasks \cup Added /\ asked \in 0..MaxTaskCalls

Idle(t) == \A c \in TaskCalls : work[c] = NoTaskCall \/ work[c].on # t

\* A task on which nothing is under way goes by its own id, so that what a user
\* does to a copy is not done to the original, and has file_mounts when it has
\* files, so that launches bring them, or what its map names of them: through
\* edits that know of neither, and through export and import.  Excepted are a
\* request cut before its last write, a write of what was read before another's,
\* the copy of such a task, and the id in an index that a user's zip has.
TasksAreWhole ==
    \A t \in Tasks :
        Exists(t) /\ Idle(t) => /\ index[t].id = t \/ t \in foreign
                                /\ t \in extra => index[t].mounts # "no" \/ t \in loose

\* Whatever the gallery lists has a task.yaml that parses, as an import wants it
\* (whether the team has the provider it names is another matter), also after its
\* task changed, went or was exported again, unless an export of it is under way or
\* was cut half way, its task went while it was exported, or the task.yaml of the
\* task had been refused, or was being saved, when it was copied.
EntriesCanBeImported ==
    \A e \in Listed :
        \/ e.dir \in {NoDir, NoSource} \/ e.dir \in halfway \cup spoilt
        \/ \E c \in TaskCalls :
              (Does(c, "pack") \/ Does(c, "describe")) /\ work[c].read.dir = e.dir
        \/ dir[e.dir] # NoDir /\ dir[e.dir].yaml = "good"
=============================================================================
