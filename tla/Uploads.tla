------------------------------ MODULE Uploads ------------------------------
(***************************************************************************)
(* Uploads in chunks (backend/transformerlab/services/upload_service.py): a *)
(* staging directory with the chunks, which a thread puts together into one *)
(* file.  One staging directory at a time.                                 *)
(*                                                                         *)
(* The client sends the chunks in any order, asks for the assembly, and    *)
(* uses the file when that has been answered; it asks again only when the  *)
(* server went away in between.                                            *)
(***************************************************************************)
EXTENDS Naturals

CONSTANTS
    Chunks,      \* how many chunks a file has
    MaxUploads   \* bound on uploads

ASSUME UploadsAssumption == Chunks \in Nat \ {0} /\ MaxUploads \in Nat

VARIABLES
    staged,     \* the staging directory exists
    received,   \* the chunks in it
    built,      \* the chunks that are in the assembled file, or NoFile
    next,       \* the chunk the assembling thread copies next, or Idle
    answered,   \* the client knows that the file is assembled
    uploadId    \* the upload, numbered; a uuid4 in the code

upVars == <<staged, received, built, next, answered, uploadId>>

Indices == 0..(Chunks - 1)
NoFile  == {Chunks}
Idle    == Chunks

\* What get_assembled_path asks for, and the "complete" of an upload's status.
HasFile == built # NoFile

\* The assembled file has every chunk.
WholeFile == built = Indices

UpInit ==
    /\ staged = FALSE
    /\ received = {} /\ built = NoFile
    /\ next = Idle /\ answered = FALSE
    /\ uploadId = 0

InitUpload ==
    /\ ~ staged /\ next = Idle /\ uploadId < MaxUploads
    /\ staged' = TRUE
    /\ uploadId' = uploadId + 1
    /\ UNCHANGED <<received, built, next, answered>>

SaveChunk(i) ==
    /\ staged /\ i \notin received
    /\ received' = received \cup {i}
    /\ UNCHANGED <<staged, built, next, answered, uploadId>>

\* All chunks are there: the file is opened, which empties it.  Otherwise the
\* request is refused and nothing changes.
Complete ==
    /\ staged /\ next = Idle /\ ~ answered
    /\ received = Indices
    /\ built' = {} /\ next' = 0
    /\ UNCHANGED <<staged, received, answered, uploadId>>

\* One chunk is copied; the last one is followed by the answer.  Where the
\* directory was removed, opening the chunk fails.
Assemble ==
    /\ next # Idle
    /\ IF staged
       THEN /\ built' = built \cup {next}
            /\ next' = next + 1
            /\ answered' = (next' = Idle)
       ELSE next' = Idle /\ UNCHANGED <<built, answered>>
    /\ UNCHANGED <<staged, received, uploadId>>

\* delete_upload by the client, or the sweep of a process that starts.
RemoveStaging ==
    /\ staged' = FALSE
    /\ received' = {} /\ built' = NoFile
    /\ answered' = FALSE
    /\ UNCHANGED <<next, uploadId>>

\* The client gives up, or a directory older than a day is swept at startup.
Expire == staged /\ RemoveStaging

\* The server stops: the thread is gone and what it wrote stays.
UploadCut == next' = Idle /\ UNCHANGED <<staged, received, built, answered, uploadId>>

UpNext == \/ InitUpload \/ Complete \/ Assemble \/ Expire
          \/ \E i \in Indices : SaveChunk(i)

UpTypeOK ==
    /\ staged \in BOOLEAN /\ answered \in BOOLEAN
    /\ received \subseteq Indices
    /\ built \in (SUBSET Indices) \cup {NoFile}
    /\ next \in 0..Chunks
    /\ uploadId \in 0..MaxUploads

=============================================================================
