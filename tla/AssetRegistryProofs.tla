------------------------ MODULE AssetRegistryProofs ------------------------
(***************************************************************************)
(* Proofs about AssetRegistry and the Uploads it takes files from: a       *)
(* listed version is whole, a list has every label and tag once, and a     *)
(* name stands for one group as long as no two requests overlap.           *)
(***************************************************************************)
EXTENDS AssetRegistry, TLAPS

-----------------------------------------------------------------------------
(* The inductive invariant. *)

\* While a thread assembles, the file has the chunks before the next one; what
\* was answered is whole; a directory that is gone has no file.
AnsweredIsWhole == answered => staged /\ WholeFile /\ next = Idle
UploadsInv ==
    /\ UpTypeOK
    /\ staged /\ next # Idle => built = 0..(next - 1)
    /\ AnsweredIsWhole
    /\ ~ staged => ~ HasFile

\* What a version a stands for is whole, unless it was deleted or written over.
Real(a) ==
    \A n \in Names \ rewritten :
        /\ a = Flat(n) => flat[n] = "whole"
        /\ \A k \in Labels : a = Dir(n, k) => dirs[n][k] = "whole"

\* A job j at step p has what the step works with.
Fits(p, j) ==
    /\ p \in {"reserve", "copy"} => j.label \in Labels /\ j.asset = Dir(j.name, j.label)
    /\ p \in {"put", "putting"} => j.asset = Flat(j.name)
    /\ p \in {"reserve", "copy", "put", "putting", "register", "find", "index", "name"}
           => j.op \in Creates /\ j.name \in Names
    /\ p = "rename" => j.name \in Names
    /\ p \in {"index", "name", "rename", "read", "open", "write", "remove"}
           => j.group \in Groups
    /\ p = "read" => j.op \in Creates \cup Edits \cup {"drop"}

\* Once its files are there they stay, what it is going to write is sound and
\* whole, and the upload it takes them from is the assembled one or gone.
Grounded(p, j) ==
    /\ p \notin {"reserve", "copy", "put", "putting"} => Real(j.asset)
    /\ \A v \in j.list : Real(v.asset)
    /\ Sound(j.list)
    /\ p = "put" => /\ j.upload <= uploadId
                    /\ j.upload = uploadId => answered \/ ~ staged

RequestsInv == \A r \in Requests : Fits(pc[r], job[r]) /\ Grounded(pc[r], job[r])

ListsInv == \A g \in Groups : Sound(list[g]) /\ \A v \in list[g] : Real(v.asset)

\* A request that is about to name a group found no other one of the name.
Chosen(p, j) == p \in {"index", "name", "rename"} => NamedGroups(j.name) \subseteq {j.group}

NamesInv ==
    calm => /\ \A r, s \in Busy : r = s
            /\ OneGroupPerName
            /\ \A r \in Requests : Chosen(pc[r], job[r])

RegistryInv == TypeOK /\ UploadsInv /\ RequestsInv /\ ListsInv /\ NamesInv

-----------------------------------------------------------------------------
(* Lists. *)

LEMMA Retagged ==
    ASSUME NEW v \in Versions, NEW t \in Tags \cup {NoTag}
    PROVE  LET w == [v EXCEPT !.tag = t] IN
           w \in Versions /\ w.label = v.label /\ w.asset = v.asset /\ w.tag = t
  BY DEF Versions

LEMMA WithoutTagFacts ==
    ASSUME NEW l \in SUBSET Versions, NEW t \in Tags \cup {NoTag}
    PROVE  /\ WithoutTag(l, t) \in SUBSET Versions
           /\ \A v \in WithoutTag(l, t) : /\ \E w \in l : v.label = w.label /\ v.asset = w.asset
                                          /\ t # NoTag => v.tag # t
           /\ Sound(l) => Sound(WithoutTag(l, t))
  <1> DEFINE F(v) == IF v.tag = t THEN [v EXCEPT !.tag = NoTag] ELSE v
  <1>1. \A v \in l : /\ F(v) \in Versions /\ F(v).label = v.label /\ F(v).asset = v.asset
                     /\ t # NoTag => F(v).tag # t
                     /\ F(v).tag \in {v.tag, NoTag}
    <2> TAKE v \in l
    <2>1. CASE v.tag = t
      BY <2>1, Retagged
    <2>2. CASE v.tag # t
      BY <2>2
    <2> QED  BY <2>1, <2>2
  <1>2. WithoutTag(l, t) = {F(v) : v \in l}
    BY DEF WithoutTag
  <1> HIDE DEF F
  <1>3. Sound(l) => Sound({F(v) : v \in l})
    BY <1>1 DEF Sound
  <1> QED  BY <1>1, <1>2, <1>3

LEMMA ChangedFacts ==
    ASSUME NEW l \in SUBSET Versions, NEW j \in Jobs,
           j.op \in Creates \cup Edits, j.label \in Labels
    PROVE  /\ Changed(l, j) \in SUBSET Versions
           /\ \A v \in Changed(l, j) : v.asset = j.asset \/ \E w \in l : v.asset = w.asset
           /\ Sound(l) /\ Applies(l, j) => Sound(Changed(l, j))
  <1> DEFINE m == WithoutTag(l, j.tag)
             new == [label |-> j.label, asset |-> j.asset, tag |-> j.tag]
  <1>1. j.tag \in Tags \cup {NoTag} /\ j.asset \in Assets
    BY DEF Jobs
  <1>2. /\ m \in SUBSET Versions
        /\ \A v \in m : /\ \E w \in l : v.label = w.label /\ v.asset = w.asset
                        /\ j.tag # NoTag => v.tag # j.tag
        /\ Sound(l) => Sound(m)
    BY <1>1, WithoutTagFacts
  <1> HIDE DEF m
  <1>3. CASE j.op \in Creates
    <2>1. Changed(l, j) = m \cup {new}
      BY <1>3 DEF Changed, Creates, Added, m
    <2>2. new \in Versions /\ new.label = j.label /\ new.asset = j.asset /\ new.tag = j.tag
      BY <1>1 DEF Versions
    <2>3. Applies(l, j) => \A v \in m : v.label # j.label
      BY <1>2, <1>3 DEF Applies, LabelsOf
    <2> HIDE DEF new
    <2>4. Sound(m) /\ Applies(l, j) => Sound(m \cup {new})
      BY <1>2, <2>2, <2>3 DEF Sound
    <2> QED  BY <1>2, <2>1, <2>2, <2>4
  <1>4. CASE j.op = "tag"
    <2> DEFINE F(v) == IF v.label = j.label THEN [v EXCEPT !.tag = j.tag] ELSE v
    <2>1. \A v \in m : /\ F(v) \in Versions /\ F(v).label = v.label /\ F(v).asset = v.asset
                       /\ v.label = j.label => F(v).tag = j.tag
                       /\ v.label # j.label => F(v).tag = v.tag
      <3> TAKE v \in m
      <3>1. CASE v.label = j.label
        BY <1>1, <1>2, <3>1, Retagged
      <3>2. CASE v.label # j.label
        BY <1>2, <3>2
      <3> QED  BY <3>1, <3>2
    <2>2. Changed(l, j) = {F(v) : v \in m}
      BY <1>4 DEF Changed, Tagged, m, Creates
    <2> HIDE DEF F
    <2>3. Sound(m) => Sound({F(v) : v \in m})
      BY <1>2, <2>1 DEF Sound
    <2> QED  BY <1>2, <2>1, <2>2, <2>3
  <1>5. CASE j.op = "update"
    BY <1>5 DEF Changed, Creates
  <1>6. CASE j.op = "clear"
    <2> DEFINE F(v) == IF v.label = j.label THEN [v EXCEPT !.tag = NoTag] ELSE v
    <2>1. \A v \in l : /\ F(v) \in Versions /\ F(v).label = v.label /\ F(v).asset = v.asset
                       /\ F(v).tag \in {v.tag, NoTag}
      <3> TAKE v \in l
      <3>1. CASE v.label = j.label
        BY <3>1, Retagged
      <3>2. CASE v.label # j.label
        BY <3>2
      <3> QED  BY <3>1, <3>2
    <2>2. Changed(l, j) = {F(v) : v \in l}
      BY <1>6 DEF Changed, Untagged, Creates
    <2> HIDE DEF F
    <2>3. Sound(l) => Sound({F(v) : v \in l})
      BY <2>1 DEF Sound
    <2> QED  BY <2>1, <2>2, <2>3
  <1>7. CASE j.op = "delete"
    BY <1>7 DEF Changed, Creates, Without, Sound
  <1> QED
    BY <1>3, <1>4, <1>5, <1>6, <1>7 DEF Edits

-----------------------------------------------------------------------------
(* Uploads. *)

\* A new upload has a new number, and one that was answered is that or is gone.
UploadMoves ==
    /\ uploadId' \in Nat /\ uploadId <= uploadId'
    /\ uploadId' = uploadId /\ (answered \/ ~ staged) => answered' \/ ~ staged'

LEMMA UploadsStart == UpInit => UploadsInv
  <1> SUFFICES ASSUME UpInit PROVE UploadsInv
    OBVIOUS
  <1>1. UpTypeOK
    <2>1. 0 \in 0..MaxUploads /\ Chunks \in 0..Chunks
      BY UploadsAssumption
    <2> QED  BY <2>1 DEF UpInit, UpTypeOK, Idle
  <1> QED
    BY <1>1 DEF UpInit, UploadsInv, AnsweredIsWhole, HasFile

LEMMA UploadStands ==
    ASSUME UploadsInv, UNCHANGED upVars
    PROVE  UploadsInv' /\ UploadMoves
  BY UploadsAssumption
     DEF upVars, UploadsInv, UpTypeOK, AnsweredIsWhole, HasFile, WholeFile, UploadMoves

LEMMA UploadRemoved ==
    ASSUME UploadsInv, RemoveStaging
    PROVE  UploadsInv' /\ UploadMoves
  <1>1. UpTypeOK'
    BY DEF RemoveStaging, UploadsInv, UpTypeOK
  <1>2. UploadMoves
    BY UploadsAssumption DEF RemoveStaging, UploadsInv, UpTypeOK, UploadMoves
  <1> QED
    BY <1>1, <1>2 DEF RemoveStaging, UploadsInv, AnsweredIsWhole, HasFile

LEMMA UploadIsCut ==
    ASSUME UploadsInv, UploadCut
    PROVE  UploadsInv' /\ UploadMoves
  BY UploadsAssumption
     DEF UploadCut, UploadsInv, UpTypeOK, AnsweredIsWhole, HasFile, WholeFile, Idle, UploadMoves

LEMMA UploadStep ==
    ASSUME UploadsInv, UpNext
    PROVE  UploadsInv' /\ UploadMoves
  <1> USE UploadsAssumption
  <1>1. CASE InitUpload
    BY <1>1 DEF InitUpload, UploadsInv, UpTypeOK, AnsweredIsWhole, HasFile, WholeFile, UploadMoves
  <1>2. CASE Complete
    BY <1>2 DEF Complete, UploadsInv, UpTypeOK, AnsweredIsWhole, HasFile, Idle, UploadMoves
  <1>3. CASE Assemble
    <2>1. CASE staged
      <3>1. next \in 0..(Chunks - 1) /\ built = 0..(next - 1) /\ ~ answered
        BY <1>3, <2>1 DEF Assemble, UploadsInv, UpTypeOK, AnsweredIsWhole, Idle
      <3>2. built' = built \cup {next} /\ next' = next + 1
        BY <1>3, <2>1 DEF Assemble
      <3>3. built' = 0..next
        BY <3>1, <3>2
      <3>4. built' = 0..(next' - 1) /\ next' \in 0..Chunks
        BY <3>1, <3>2, <3>3
      <3>5. built' \in SUBSET Indices
        BY <3>1, <3>3 DEF Indices
      <3>6. answered' => built' = Indices
        BY <1>3, <2>1, <3>4 DEF Assemble, Idle, Indices
      <3> QED
        BY <1>3, <2>1, <3>1, <3>4, <3>5, <3>6
           DEF Assemble, UploadsInv, UpTypeOK, AnsweredIsWhole, WholeFile, Idle, UploadMoves
    <2>2. CASE ~ staged
      BY <1>3, <2>2
         DEF Assemble, UploadsInv, UpTypeOK, AnsweredIsWhole, HasFile, Idle, UploadMoves
    <2> QED  BY <2>1, <2>2
  <1>4. CASE Expire
    BY <1>4, UploadRemoved DEF Expire
  <1>5. ASSUME NEW i \in Indices, SaveChunk(i) PROVE UploadsInv' /\ UploadMoves
    BY <1>5 DEF SaveChunk, UploadsInv, UpTypeOK, AnsweredIsWhole, HasFile, WholeFile, UploadMoves
  <1> QED
    BY <1>1, <1>2, <1>3, <1>4, <1>5 DEF UpNext

-----------------------------------------------------------------------------
(* What a step leaves as it was. *)

\* Whole files stay whole unless they are marked.
Kept ==
    \A n \in Names \ rewritten' :
        /\ n \notin rewritten
        /\ flat[n] = "whole" => flat'[n] = "whole"
        /\ \A k \in Labels : dirs[n][k] = "whole" => dirs'[n][k] = "whole"

LEMMA RealStays ==
    ASSUME Kept, NEW a, Real(a)
    PROVE  Real(a)'
  BY DEF Kept, Real

LEMMA NamedIsReal == Real(Named)
  BY RegistryAssumption DEF Real, Named, Flat, Dir

FilesTyped ==
    /\ index \in [Groups -> {"none", "bare", "default"} \cup Names]
    /\ list \in [Groups -> (SUBSET Versions) \cup {Missing, Torn}]
    /\ flat \in [Names -> {"none", "record", "part", "whole"}]
    /\ dirs \in [Names -> [Labels -> {"none", "reserved", "whole"}]]
    /\ usedIds \subseteq Groups /\ rewritten \subseteq Names

CountsTyped == calm \in BOOLEAN /\ ops \in 0..MaxOps /\ crashes \in 0..MaxCrashes

\* No step but WriteIndex gives a group a name.
NamesShrink == \A g \in Groups : index'[g] \in Names => index'[g] = index[g]

LEMMA RequestStays ==
    ASSUME RequestsInv, Kept, UploadMoves, uploadId \in Nat, job \in [Requests -> Jobs],
           NEW s \in Requests, pc'[s] = pc[s], job'[s] = job[s]
    PROVE  (Fits(pc[s], job[s]) /\ Grounded(pc[s], job[s]))'
  <1>1. PICK p, j : p = pc[s] /\ j = job[s]
    OBVIOUS
  <1>2. Fits(p, j) /\ Grounded(p, j) /\ j.upload \in Nat
    BY <1>1 DEF RequestsInv, Jobs
  <1>3. p \notin {"reserve", "copy", "put", "putting"} => Real(j.asset)'
    BY <1>2, RealStays DEF Grounded
  <1>4. \A v \in j.list : Real(v.asset)'
    BY <1>2, RealStays DEF Grounded
  <1>5. p = "put" => j.upload <= uploadId' /\ (j.upload = uploadId' => answered' \/ ~ staged')
    BY <1>2 DEF Grounded, UploadMoves
  <1>6. Grounded(p, j)'
    BY <1>2, <1>3, <1>4, <1>5 DEF Grounded
  <1> QED
    BY <1>1, <1>2, <1>6

LEMMA RequestsStep ==
    ASSUME RequestsInv, Kept, UploadMoves, uploadId \in Nat,
           pc \in [Requests -> Steps], job \in [Requests -> Jobs],
           NEW r \in Requests, NEW at \in Steps, NEW j \in Jobs,
           pc' = [pc EXCEPT ![r] = at], job' = [job EXCEPT ![r] = j],
           Fits(at, j), Grounded(at, j)'
    PROVE  RequestsInv'
  <1>1. (Fits(pc[r], job[r]) /\ Grounded(pc[r], job[r]))'
    <2>1. pc'[r] = at /\ job'[r] = j
      OBVIOUS
    <2> QED  BY <2>1
  <1>2. ASSUME NEW s \in Requests, s # r
        PROVE  (Fits(pc[s], job[s]) /\ Grounded(pc[s], job[s]))'
    <2>1. pc'[s] = pc[s] /\ job'[s] = job[s]
      BY <1>2
    <2> QED  BY <2>1, RequestStays
  <1> QED
    BY <1>1, <1>2 DEF RequestsInv

LEMMA ListsStand ==
    ASSUME ListsInv, Kept, UNCHANGED list
    PROVE  ListsInv'
  BY RealStays DEF ListsInv

LEMMA ListsStep ==
    ASSUME ListsInv, Kept, FilesTyped, NEW g \in Groups, NEW l,
           list' = [list EXCEPT ![g] = l], Sound(l), \A v \in l : Real(v.asset)
    PROVE  ListsInv'
  <1>1. ASSUME NEW h \in Groups PROVE Sound(list'[h]) /\ \A v \in list'[h] : Real(v.asset)'
    <2>1. CASE h = g
      BY <2>1, RealStays DEF FilesTyped
    <2>2. CASE h # g
      BY <2>2, RealStays DEF FilesTyped, ListsInv
    <2> QED  BY <2>1, <2>2
  <1> QED
    BY <1>1 DEF ListsInv

LEMMA NamesStep ==
    ASSUME NamesInv, FilesTyped, pc \in [Requests -> Steps], job \in [Requests -> Jobs],
           NEW r \in Requests, NEW at \in Steps, NEW j \in Jobs,
           pc' = [pc EXCEPT ![r] = at], job' = [job EXCEPT ![r] = j],
           calm' => /\ calm /\ (pc[r] # "idle" \/ Busy = {})
                    /\ NamesShrink \/ OneGroupPerName'
                    /\ Chosen(at, j)'
    PROVE  NamesInv'
  <1> SUFFICES ASSUME calm'
               PROVE  /\ \A s, t \in Busy' : s = t
                      /\ OneGroupPerName'
                      /\ \A s \in Requests : Chosen(pc[s], job[s])'
    BY DEF NamesInv
  <1>1. \A s \in Requests : s # r => pc'[s] = "idle"
    BY DEF NamesInv, Busy
  <1>2. \A s, t \in Busy' : s = t
    BY <1>1 DEF Busy
  <1>3. OneGroupPerName'
    BY DEF NamesInv, OneGroupPerName, NamesShrink
  <1>4. ASSUME NEW s \in Requests PROVE Chosen(pc[s], job[s])'
    <2>1. CASE s = r
      <3>1. pc'[s] = at /\ job'[s] = j
        BY <2>1
      <3> QED  BY <3>1
    <2>2. CASE s # r
      BY <1>1, <2>2 DEF Chosen
    <2> QED  BY <2>1, <2>2
  <1> QED
    BY <1>2, <1>3, <1>4

-----------------------------------------------------------------------------
(* Requests move. *)

\* What a step does to the rest.
Fair == Kept /\ UploadMoves /\ UploadsInv' /\ FilesTyped' /\ ListsInv'

LEMMA Moves ==
    ASSUME RegistryInv, Fair, CountsTyped',
           NEW r \in Requests, NEW at \in Steps, NEW j \in Jobs,
           pc' = [pc EXCEPT ![r] = at], job' = [job EXCEPT ![r] = j],
           Fits(at, j), Grounded(at, j)',
           calm' => /\ calm /\ (pc[r] # "idle" \/ Busy = {})
                    /\ NamesShrink \/ OneGroupPerName'
                    /\ Chosen(at, j)'
    PROVE  RegistryInv'
  <1>1. /\ FilesTyped /\ uploadId \in Nat
        /\ pc \in [Requests -> Steps] /\ job \in [Requests -> Jobs]
    BY UploadsAssumption DEF RegistryInv, TypeOK, FilesTyped, UpTypeOK
  <1>2. RequestsInv'
    BY <1>1, RequestsStep DEF RegistryInv, Fair
  <1>3. NamesInv'
    BY <1>1, NamesStep DEF RegistryInv
  <1>4. pc' \in [Requests -> Steps] /\ job' \in [Requests -> Jobs]
    BY <1>1
  <1>5. TypeOK'
    BY <1>4 DEF Fair, UploadsInv, FilesTyped, CountsTyped, TypeOK
  <1> QED
    BY <1>2, <1>3, <1>5 DEF RegistryInv, Fair

LEMMA Begins ==
    ASSUME RegistryInv, Fair, NamesShrink,
           NEW r \in Requests, NEW at \in Steps, NEW j \in Jobs, Begin(r, at, j),
           Fits(at, j), Grounded(at, j)', Chosen(at, j)'
    PROVE  RegistryInv'
  <1>1. CountsTyped'
    BY RegistryAssumption DEF Begin, RegistryInv, TypeOK, CountsTyped
  <1>2. pc' = [pc EXCEPT ![r] = at] /\ job' = [job EXCEPT ![r] = j]
    BY DEF Begin
  <1>3. calm' => calm /\ Busy = {}
    BY DEF Begin
  <1> QED
    BY <1>1, <1>2, <1>3, Moves

LEMMA GoesTo ==
    ASSUME RegistryInv, Fair, NamesShrink \/ (calm' => OneGroupPerName'),
           NEW r \in Requests, NEW at \in Steps \ {"idle"}, NEW j \in Jobs, j = job[r],
           pc[r] # "idle", Goto(r, at), Fits(at, j), Grounded(at, j)',
           calm => Chosen(at, j)'
    PROVE  RegistryInv'
  <1>1. CountsTyped' /\ calm' = calm
    BY DEF Goto, RegistryInv, TypeOK, CountsTyped
  <1>2. pc' = [pc EXCEPT ![r] = at]
    BY DEF Goto
  <1>3. job' = [job EXCEPT ![r] = j]
    BY DEF Goto, RegistryInv, TypeOK
  <1> QED
    BY <1>1, <1>2, <1>3, Moves

LEMMA NoJobFits ==
    NoJob \in Jobs /\ Fits("idle", NoJob) /\ Grounded("idle", NoJob)' /\ Grounded("idle", NoJob)
  <1>1. NoJob \in Jobs
    BY RegistryAssumption DEF NoJob, Job, Jobs, Assets, Named
  <1>2. NoJob.asset = Named /\ NoJob.list = {}
    BY DEF NoJob, Job
  <1>3. Real(Named) /\ Real(Named)'
    BY NamedIsReal, RegistryAssumption DEF Real, Named, Flat, Dir
  <1> QED
    BY <1>1, <1>2, <1>3 DEF Fits, Grounded, Sound

LEMMA Ends ==
    ASSUME RegistryInv, Fair, NamesShrink \/ (calm' => OneGroupPerName'),
           NEW r \in Requests, pc[r] # "idle", Goto(r, "idle")
    PROVE  RegistryInv'
  <1>1. CountsTyped' /\ calm' = calm
    BY DEF Goto, RegistryInv, TypeOK, CountsTyped
  <1>2. pc' = [pc EXCEPT ![r] = "idle"] /\ job' = [job EXCEPT ![r] = NoJob]
    BY DEF Goto
  <1>3. Chosen("idle", NoJob)' /\ "idle" \in Steps
    BY DEF Chosen, Steps
  <1> QED
    BY <1>1, <1>2, <1>3, NoJobFits, Moves

\* Most steps leave the lists and the upload alone.
LEMMA FilesFair ==
    ASSUME RegistryInv, UNCHANGED <<list, upVars>>, Kept, FilesTyped'
    PROVE  Fair
  BY UploadStands, ListsStand DEF RegistryInv, Fair

-----------------------------------------------------------------------------
(* Requests begin. *)

LEMMA ListedFacts ==
    ASSUME FilesTyped, index' = Listed
    PROVE  index' \in [Groups -> {"none", "bare", "default"} \cup Names] /\ NamesShrink
  BY RegistryAssumption DEF FilesTyped, Listed, NamesShrink

LEMMA TypesNow ==
    ASSUME RegistryInv
    PROVE  /\ FilesTyped /\ UploadsInv /\ RequestsInv /\ ListsInv /\ NamesInv
           /\ pc \in [Requests -> Steps] /\ job \in [Requests -> Jobs]
           /\ uploadId \in Nat
  BY UploadsAssumption DEF RegistryInv, TypeOK, FilesTyped, UpTypeOK

LEMMA SaveKeeps ==
    ASSUME RegistryInv, NEW r \in Requests, NEW n \in Names, NEW t \in Tags,
           NEW b \in BOOLEAN, Save(r, n, t, b)
    PROVE  RegistryInv'
  <1>1. PICK k : k = HighestOf({i \in Labels : dirs[n][i] # "none"}) + 1
    OBVIOUS
  <1> DEFINE j == [op |-> "save", name |-> n, group |-> "none", label |-> k, tag |-> t,
                   upload |-> 0, asset |-> Dir(n, k), list |-> {}]
  <1>2. [Job("save", n, "none", k, t) EXCEPT !.asset = Dir(n, k)] = j
    BY DEF Job
  <1>3. k \in Labels /\ Begin(r, "reserve", j)
    BY <1>1, <1>2 DEF Save
  <1>4. Kept /\ UNCHANGED <<list, upVars>> /\ NamesShrink /\ FilesTyped'
    <2>1. index' = index \/ index' = Listed
      BY DEF Save
    <2>2. NamesShrink /\ index' \in [Groups -> {"none", "bare", "default"} \cup Names]
      BY <2>1, TypesNow, ListedFacts DEF FilesTyped, NamesShrink
    <2> QED
      BY <2>2, TypesNow DEF Save, Kept, FilesTyped
  <1>5. j \in Jobs /\ Fits("reserve", j) /\ Grounded("reserve", j)'
    BY <1>3, RegistryAssumption DEF Jobs, Assets, Dir, Labels, Creates, Fits, Grounded, Sound
  <1>6. Chosen("reserve", j)' /\ "reserve" \in Steps
    BY DEF Chosen, Steps
  <1> HIDE DEF j
  <1> QED
    BY <1>3, <1>4, <1>5, <1>6, FilesFair, Begins

LEMMA UploadKeeps ==
    ASSUME RegistryInv, NEW r \in Requests, NEW n \in Names, NEW b \in BOOLEAN, Upload(r, n, b)
    PROVE  RegistryInv'
  <1>1. PICK u : u = uploadId
    OBVIOUS
  <1> DEFINE j == [op |-> "upload", name |-> n, group |-> "none", label |-> 1,
                   tag |-> "latest", upload |-> u, asset |-> Flat(n), list |-> {}]
  <1>2. [Job("upload", n, "none", 1, "latest") EXCEPT !.asset = Flat(n), !.upload = u] = j
    <2>1. PICK i : i = [Job("upload", n, "none", 1, "latest") EXCEPT !.asset = Flat(n)]
      OBVIOUS
    <2>2. i = [op |-> "upload", name |-> n, group |-> "none", label |-> 1,
               tag |-> "latest", upload |-> 0, asset |-> Flat(n), list |-> {}]
      BY <2>1 DEF Job
    <2>3. [i EXCEPT !.upload = u] = j
      BY <2>2
    <2> QED  BY <2>1, <2>3
  <1>3. Begin(r, "put", j) /\ answered
    BY <1>1, <1>2 DEF Upload
  <1>4. Kept /\ UNCHANGED <<list, upVars>> /\ NamesShrink /\ FilesTyped'
    BY TypesNow DEF Upload, Kept, FilesTyped, NamesShrink
  <1>5. j \in Jobs /\ Fits("put", j)
    BY <1>1, RegistryAssumption, TypesNow DEF Jobs, Assets, Flat, Creates, Fits
  <1>6. Grounded("put", j)'
    BY <1>1, <1>3, <1>4, TypesNow DEF Grounded, Sound, upVars
  <1>7. Chosen("put", j)' /\ "put" \in Steps
    BY DEF Chosen, Steps
  <1> HIDE DEF j
  <1> QED
    BY <1>3, <1>4, <1>5, <1>6, <1>7, FilesFair, Begins

\* A request that has nothing but a name or a group yet.
LEMMA NamedJob ==
    ASSUME NEW j \in Jobs, j.asset = Named, j.list = {}, NEW p \in Steps,
           p \notin {"put", "putting", "reserve", "copy"}
    PROVE  Grounded(p, j)'
  <1>1. Real(Named)'
    BY RegistryAssumption DEF Real, Named, Flat, Dir
  <1> QED
    BY <1>1 DEF Grounded, Sound

LEMMA CreateKeeps ==
    ASSUME RegistryInv, NEW r \in Requests, NEW n \in Names, NEW k \in 0..MaxLabel,
           NEW t \in Tags, Create(r, n, k, t)
    PROVE  RegistryInv'
  <1> DEFINE j == Job("create", n, "none", k, t)
  <1>2. Begin(r, "find", j)
    BY DEF Create
  <1>3. Kept /\ UNCHANGED <<list, upVars>> /\ NamesShrink /\ FilesTyped'
    BY TypesNow DEF Create, regVars, Kept, FilesTyped, NamesShrink
  <1>4. j \in Jobs /\ Fits("find", j) /\ j.asset = Named /\ j.list = {}
    BY RegistryAssumption DEF Job, Jobs, Assets, Named, Creates, Fits
  <1>5. Chosen("find", j)' /\ "find" \in Steps
    BY DEF Chosen, Steps
  <1> HIDE DEF j
  <1>6. Grounded("find", j)'
    BY <1>4, <1>5, NamedJob
  <1> QED
    BY <1>2, <1>3, <1>4, <1>5, <1>6, FilesFair, Begins

LEMMA EditKeeps ==
    ASSUME RegistryInv, NEW r \in Requests, NEW g \in Groups, NEW op \in Edits \cup {"drop"},
           NEW k \in 0..MaxLabel, NEW t \in Tags \cup {NoTag}, Edit(r, g, op, k, t)
    PROVE  RegistryInv'
  <1> DEFINE j == Job(op, "none", g, k, t)
  <1>2. Begin(r, "read", j)
    BY DEF Edit
  <1>3. Kept /\ UNCHANGED <<list, upVars>> /\ NamesShrink /\ FilesTyped'
    BY TypesNow DEF Edit, regVars, Kept, FilesTyped, NamesShrink
  <1>4. j \in Jobs /\ Fits("read", j) /\ j.asset = Named /\ j.list = {}
    BY RegistryAssumption DEF Job, Jobs, Assets, Named, Fits
  <1>5. Chosen("read", j)' /\ "read" \in Steps
    BY DEF Chosen, Steps
  <1> HIDE DEF j
  <1>6. Grounded("read", j)'
    BY <1>4, <1>5, NamedJob
  <1> QED
    BY <1>2, <1>3, <1>4, <1>5, <1>6, FilesFair, Begins

LEMMA RenameKeeps ==
    ASSUME RegistryInv, NEW r \in Requests, NEW g \in Groups, NEW n \in Names, Rename(r, g, n)
    PROVE  RegistryInv'
  <1> DEFINE j == Job("rename", n, g, 0, NoTag)
  <1>2. Begin(r, "rename", j)
    BY DEF Rename
  <1>3. Kept /\ UNCHANGED <<list, upVars>> /\ NamesShrink /\ FilesTyped'
    BY TypesNow, ListedFacts DEF Rename, Kept, FilesTyped
  <1>4. j \in Jobs /\ Fits("rename", j) /\ j.asset = Named /\ j.list = {}
    BY RegistryAssumption DEF Job, Jobs, Assets, Named, Fits
  <1>5. Chosen("rename", j)' /\ "rename" \in Steps
    <2>1. j.name = n /\ j.group = g
      BY DEF Job
    <2>2. NamedGroups(n)' \subseteq NamedGroups(n)
      BY <1>3 DEF NamesShrink, NamedGroups
    <2>3. NamedGroups(n) \subseteq {g}
      BY DEF Rename
    <2> QED  BY <2>1, <2>2, <2>3 DEF Chosen, Steps
  <1> HIDE DEF j
  <1>6. Grounded("rename", j)'
    BY <1>4, <1>5, NamedJob
  <1> QED
    BY <1>2, <1>3, <1>4, <1>5, <1>6, FilesFair, Begins

LEMMA DeleteDatasetKeeps ==
    ASSUME RegistryInv, NEW n \in Names, DeleteDataset(n)
    PROVE  RegistryInv'
  <1>1. Kept /\ UNCHANGED <<list, upVars>> /\ NamesShrink /\ FilesTyped'
    BY TypesNow DEF DeleteDataset, Kept, FilesTyped, NamesShrink
  <1>2. Fair
    BY <1>1, FilesFair
  <1>3. RequestsInv'
    BY <1>2, TypesNow, RequestStays DEF DeleteDataset, Fair, RequestsInv
  <1>4. NamesInv'
    BY TypesNow DEF DeleteDataset, NamesInv, Busy, OneGroupPerName, Chosen, NamedGroups
  <1>5. TypeOK'
    BY <1>2, RegistryAssumption DEF Fair, UploadsInv, FilesTyped, RegistryInv, TypeOK, DeleteDataset
  <1> QED
    BY <1>2, <1>3, <1>4, <1>5 DEF RegistryInv, Fair

-----------------------------------------------------------------------------
(* Requests go on. *)

\* What is known of a request under way.
LEMMA JobNow ==
    ASSUME RegistryInv, NEW r \in Requests
    PROVE  \E j \in Jobs : j = job[r] /\ Fits(pc[r], j) /\ Grounded(pc[r], j)
  BY TypesNow DEF RequestsInv

\* What it works with is still there after a step.
LEMMA StillGrounded ==
    ASSUME Kept, NEW j, NEW p, NEW q, Grounded(p, j), q # "put",
           p \in {"reserve", "copy", "put", "putting"} =>
               q \in {"reserve", "copy", "put", "putting"} \/ Real(j.asset)'
    PROVE  Grounded(q, j)'
  <1>1. \A v \in j.list : Real(v.asset)'
    BY RealStays DEF Grounded
  <1>2. p \notin {"reserve", "copy", "put", "putting"} => Real(j.asset)'
    BY RealStays DEF Grounded
  <1> QED
    BY <1>1, <1>2 DEF Grounded

\* A directory is reserved or filled.
LEMMA DirsKept ==
    ASSUME dirs \in [Names -> [Labels -> {"none", "reserved", "whole"}]],
           NEW n \in Names, NEW k \in Labels,
           \/ dirs[n][k] = "none" /\ dirs' = [dirs EXCEPT ![n][k] = "reserved"]
           \/ dirs' = [dirs EXCEPT ![n][k] = "whole"]
    PROVE  /\ dirs' \in [Names -> [Labels -> {"none", "reserved", "whole"}]]
           /\ \A m \in Names, i \in Labels : dirs[m][i] = "whole" => dirs'[m][i] = "whole"
  <1>1. PICK d \in {"reserved", "whole"} :
            /\ dirs' = [dirs EXCEPT ![n][k] = d]
            /\ d = "whole" \/ dirs[n][k] = "none"
    OBVIOUS
  <1>2. \A m \in Names : dirs'[m] = IF m = n THEN [dirs[n] EXCEPT ![k] = d] ELSE dirs[m]
    BY <1>1
  <1>3. \A m \in Names : dirs'[m] \in [Labels -> {"none", "reserved", "whole"}]
    BY <1>2
  <1> QED
    BY <1>1, <1>2, <1>3

LEMMA ReserveKeeps ==
    ASSUME RegistryInv, NEW r \in Requests, Reserve(r)
    PROVE  RegistryInv'
  <1>1. PICK j \in Jobs : j = job[r] /\ Fits("reserve", j) /\ Grounded("reserve", j)
    BY JobNow DEF Reserve
  <1>2. Kept /\ UNCHANGED <<list, upVars>> /\ NamesShrink /\ FilesTyped'
    <2>1. PICK n \in Names, k \in Labels : n = j.name /\ k = j.label
      BY <1>1 DEF Fits
    <2>2. \/ UNCHANGED dirs
          \/ dirs[n][k] = "none" /\ dirs' = [dirs EXCEPT ![n][k] = "reserved"]
      BY <1>1, <2>1 DEF Reserve
    <2> QED
      BY <2>2, DirsKept, TypesNow DEF Reserve, Kept, FilesTyped, NamesShrink
  <1>3. Fair /\ pc[r] # "idle"
    BY <1>2, FilesFair DEF Reserve
  <1>4. CASE Goto(r, "idle")
    BY <1>2, <1>3, <1>4, Ends
  <1>5. CASE Goto(r, "copy")
    <2>1. Fits("copy", j) /\ Chosen("copy", j)' /\ "copy" \in Steps \ {"idle"}
      BY <1>1 DEF Fits, Chosen, Steps
    <2>2. Grounded("copy", j)'
      BY <1>1, <1>2, StillGrounded
    <2> QED
      BY <1>1, <1>2, <1>3, <1>5, <2>1, <2>2, GoesTo
  <1> QED
    BY <1>4, <1>5 DEF Reserve

LEMMA CopyKeeps ==
    ASSUME RegistryInv, NEW r \in Requests, Copy(r)
    PROVE  RegistryInv'
  <1>1. PICK j \in Jobs : j = job[r] /\ Fits("copy", j) /\ Grounded("copy", j)
    BY JobNow DEF Copy
  <1>2. Kept /\ UNCHANGED <<list, upVars>> /\ NamesShrink /\ FilesTyped'
    <2>1. PICK n \in Names, k \in Labels : n = j.name /\ k = j.label
      BY <1>1 DEF Fits
    <2>2. UNCHANGED dirs \/ dirs' = [dirs EXCEPT ![n][k] = "whole"]
      BY <1>1, <2>1 DEF Copy
    <2> QED
      BY <2>2, DirsKept, TypesNow DEF Copy, Kept, FilesTyped, NamesShrink
  <1>3. Fair /\ pc[r] # "idle"
    BY <1>2, FilesFair DEF Copy
  <1>4. CASE UNCHANGED dirs /\ Goto(r, "idle")
    BY <1>2, <1>3, <1>4, Ends
  <1>5. CASE dirs' = [dirs EXCEPT ![job[r].name][job[r].label] = "whole"] /\ Goto(r, "find")
    <2>1. Fits("find", j) /\ Chosen("find", j)' /\ "find" \in Steps \ {"idle"}
      BY <1>1 DEF Fits, Chosen, Steps
    <2>2. j.name \in Names /\ j.label \in Labels /\ j.asset = Dir(j.name, j.label)
      BY <1>1 DEF Fits
    <2>3. dirs'[j.name][j.label] = "whole"
      BY <1>1, <1>5, <2>2, TypesNow DEF FilesTyped
    <2>4. Real(j.asset)'
      BY <2>2, <2>3 DEF Real, Flat, Dir, Labels
    <2>5. Grounded("find", j)'
      BY <1>1, <1>2, <2>4, StillGrounded
    <2> QED
      BY <1>1, <1>2, <1>3, <1>5, <2>1, <2>5, GoesTo
  <1> QED
    BY <1>4, <1>5 DEF Copy

LEMMA PutKeeps ==
    ASSUME RegistryInv, NEW r \in Requests, Put(r)
    PROVE  RegistryInv'
  <1>1. PICK j \in Jobs : j = job[r] /\ Fits("put", j) /\ Grounded("put", j)
    BY JobNow DEF Put
  <1>2. Kept /\ UNCHANGED <<list, upVars>> /\ NamesShrink /\ FilesTyped'
    BY <1>1, TypesNow DEF Put, Fits, Kept, FilesTyped, NamesShrink
  <1>3. Fair /\ pc[r] # "idle"
    BY <1>2, FilesFair DEF Put
  <1>4. CASE ~ (HasFile /\ uploadId = j.upload)
    <2>1. Goto(r, "idle")
      BY <1>1, <1>4 DEF Put
    <2> QED  BY <1>2, <1>3, <2>1, Ends
  <1>5. CASE HasFile /\ uploadId = j.upload
    <2>1. WholeFile
      BY <1>1, <1>5, TypesNow DEF Grounded, UploadsInv, AnsweredIsWhole
    <2>2. Goto(r, "putting")
      BY <1>1, <1>5, <2>1 DEF Put
    <2>3. Fits("putting", j) /\ Chosen("putting", j)' /\ "putting" \in Steps \ {"idle"}
      BY <1>1 DEF Fits, Chosen, Steps
    <2>4. Grounded("putting", j)'
      BY <1>1, <1>2, StillGrounded
    <2> QED
      BY <1>1, <1>2, <1>3, <2>2, <2>3, <2>4, GoesTo
  <1> QED
    BY <1>4, <1>5

LEMMA PutEndsKeeps ==
    ASSUME RegistryInv, NEW r \in Requests, PutEnds(r)
    PROVE  RegistryInv'
  <1>1. PICK j \in Jobs : j = job[r] /\ Fits("putting", j) /\ Grounded("putting", j)
    BY JobNow DEF PutEnds
  <1>2. Kept /\ UNCHANGED list /\ NamesShrink /\ FilesTyped'
    BY <1>1, TypesNow DEF PutEnds, Fits, Kept, FilesTyped, NamesShrink
  <1>3. UploadsInv' /\ UploadMoves
    BY TypesNow, UploadStands, UploadRemoved DEF PutEnds, upVars
  <1>4. Fair /\ pc[r] # "idle"
    BY <1>2, <1>3, TypesNow, ListsStand DEF PutEnds, Fair
  <1>5. CASE Goto(r, "idle")
    BY <1>2, <1>4, <1>5, Ends
  <1>6. CASE flat' = [flat EXCEPT ![job[r].name] = "whole"] /\ Goto(r, "register")
    <2>1. Fits("register", j) /\ Chosen("register", j)' /\ "register" \in Steps \ {"idle"}
      BY <1>1 DEF Fits, Chosen, Steps
    <2>2. j.name \in Names /\ j.asset = Flat(j.name)
      BY <1>1 DEF Fits
    <2>3. flat'[j.name] = "whole"
      BY <1>1, <1>6, <2>2, TypesNow DEF FilesTyped
    <2>4. Real(j.asset)'
      BY <2>2, <2>3 DEF Real, Flat, Dir, Labels
    <2>5. Grounded("register", j)'
      BY <1>1, <1>2, <2>4, StillGrounded
    <2> QED
      BY <1>1, <1>2, <1>4, <1>6, <2>1, <2>5, GoesTo
  <1> QED
    BY <1>5, <1>6 DEF PutEnds

LEMMA RegisterKeeps ==
    ASSUME RegistryInv, NEW r \in Requests, Register(r)
    PROVE  RegistryInv'
  <1>1. PICK j \in Jobs : j = job[r] /\ Fits("register", j) /\ Grounded("register", j)
    BY JobNow DEF Register
  <1>2. Kept /\ UNCHANGED <<list, upVars>> /\ NamesShrink /\ FilesTyped'
    BY TypesNow, ListedFacts DEF Register, Kept, FilesTyped
  <1>3. Fair /\ pc[r] # "idle"
    BY <1>2, FilesFair DEF Register
  <1>4. CASE Goto(r, "idle")
    BY <1>2, <1>3, <1>4, Ends
  <1>5. CASE Goto(r, "find")
    <2>1. Fits("find", j) /\ Chosen("find", j)' /\ "find" \in Steps \ {"idle"}
      BY <1>1 DEF Fits, Chosen, Steps
    <2>2. Grounded("find", j)'
      BY <1>1, <1>2, StillGrounded
    <2> QED
      BY <1>1, <1>2, <1>3, <1>5, <2>1, <2>2, GoesTo
  <1> QED
    BY <1>4, <1>5 DEF Register

LEMMA FindKeeps ==
    ASSUME RegistryInv, NEW r \in Requests, Find(r)
    PROVE  RegistryInv'
  <1>1. PICK i \in Jobs : i = job[r] /\ Fits("find", i) /\ Grounded("find", i)
    BY JobNow DEF Find
  <1>2. PICK n : n = i.name
    OBVIOUS
  <1>3. PICK g \in Groups :
            /\ g \in (IF NamedGroups(n) # {} THEN NamedGroups(n) ELSE Groups \ usedIds)
            /\ job' = [job EXCEPT ![r].group = g]
            /\ usedIds' = usedIds \cup {g}
    BY <1>1, <1>2 DEF Find, NamedGroups
  <1>4. Kept /\ UNCHANGED <<list, upVars>> /\ NamesShrink /\ FilesTyped'
    BY <1>3, TypesNow, ListedFacts DEF Find, Kept, FilesTyped
  <1>5. Fair
    BY <1>4, FilesFair
  <1>6. PICK j : j = [i EXCEPT !.group = g]
    OBVIOUS
  <1>7. /\ j \in Jobs /\ j.group = g /\ j.name = n /\ j.op = i.op
        /\ j.asset = i.asset /\ j.list = i.list
    BY <1>2, <1>6 DEF Jobs
  <1>8. Fits("index", j) /\ "index" \in Steps
    BY <1>1, <1>2, <1>7 DEF Fits, Steps
  <1>9. Grounded("find", j)
    BY <1>1, <1>7 DEF Grounded
  <1>10. Grounded("index", j)'
    BY <1>4, <1>9, StillGrounded
  <1>11. pc' = [pc EXCEPT ![r] = "index"] /\ calm' = calm /\ pc[r] # "idle" /\ CountsTyped'
    BY DEF Find, RegistryInv, TypeOK, CountsTyped
  <1>12. job' = [job EXCEPT ![r] = j]
    BY <1>1, <1>3, <1>6, TypesNow
  <1>13. calm => Chosen("index", j)'
    <2>1. n \in Names
      BY <1>1, <1>2 DEF Fits
    <2>2. NamedGroups(n)' \subseteq NamedGroups(n)
      BY <1>4, <2>1 DEF NamesShrink, NamedGroups
    <2>3. calm => NamedGroups(n) \subseteq {g}
      BY <1>3, <2>1, TypesNow DEF NamesInv, OneGroupPerName, NamedGroups
    <2> QED  BY <1>7, <2>2, <2>3 DEF Chosen
  <1> QED
    BY <1>4, <1>5, <1>7, <1>8, <1>10, <1>11, <1>12, <1>13, Moves

\* What was chosen stays so while no group is named.
LEMMA StillChosen ==
    ASSUME NamesShrink, NEW j, j.name \in Names, NamedGroups(j.name) \subseteq {j.group}, NEW q
    PROVE  Chosen(q, j)'
  <1>1. NamedGroups(j.name)' \subseteq NamedGroups(j.name)
    BY DEF NamesShrink, NamedGroups
  <1> QED
    BY <1>1 DEF Chosen

LEMMA IndexKeeps ==
    ASSUME RegistryInv, NEW r \in Requests, Index(r)
    PROVE  RegistryInv'
  <1>1. PICK j \in Jobs : j = job[r] /\ Fits("index", j) /\ Grounded("index", j)
    BY JobNow DEF Index
  <1>2. Kept /\ UNCHANGED <<list, upVars>> /\ NamesShrink /\ FilesTyped'
    BY <1>1, TypesNow, RegistryAssumption DEF Index, Fits, Kept, FilesTyped, NamesShrink
  <1>3. Fair /\ pc[r] # "idle"
    BY <1>2, FilesFair DEF Index
  <1>4. PICK q \in {"name", "read"} : Goto(r, q)
    BY DEF Index
  <1>5. Fits(q, j) /\ q \in Steps \ {"idle"} /\ Grounded(q, j)'
    BY <1>1, <1>2, StillGrounded DEF Fits, Steps
  <1>6. calm => Chosen(q, j)'
    BY <1>1, <1>2, TypesNow, StillChosen DEF NamesInv, Chosen, Fits, Index
  <1> QED
    BY <1>1, <1>2, <1>3, <1>4, <1>5, <1>6, GoesTo

LEMMA WriteIndexKeeps ==
    ASSUME RegistryInv, NEW r \in Requests, WriteIndex(r)
    PROVE  RegistryInv'
  <1>1. PICK j \in Jobs : j = job[r] /\ Fits(pc[r], j) /\ Grounded(pc[r], j)
    BY JobNow
  <1>2. j.name \in Names /\ j.group \in Groups /\ pc[r] \in {"name", "rename"}
    BY <1>1 DEF WriteIndex, Fits
  <1>3. Kept /\ UNCHANGED <<list, upVars>> /\ FilesTyped'
    BY <1>1, <1>2, TypesNow DEF WriteIndex, Kept, FilesTyped
  <1>4. Fair /\ pc[r] # "idle"
    BY <1>2, <1>3, FilesFair
  <1>5. calm' => OneGroupPerName'
    <2>1. calm' => calm
      BY DEF WriteIndex, Goto
    <2>2. calm => NamedGroups(j.name) \subseteq {j.group}
      BY <1>1, <1>2, TypesNow DEF NamesInv, Chosen
    <2>3. index' = [index EXCEPT ![j.group] = j.name]
      BY <1>1 DEF WriteIndex
    <2> QED
      BY <1>2, <2>1, <2>2, <2>3, TypesNow DEF NamesInv, OneGroupPerName, NamedGroups, FilesTyped
  <1>6. CASE Goto(r, "idle")
    BY <1>4, <1>5, <1>6, Ends
  <1>7. CASE pc[r] = "name" /\ Goto(r, "read")
    <2>1. Fits("read", j) /\ Chosen("read", j)' /\ "read" \in Steps \ {"idle"}
      BY <1>1, <1>7 DEF Fits, Chosen, Steps
    <2>2. Grounded("read", j)'
      BY <1>1, <1>2, <1>3, StillGrounded
    <2> QED
      BY <1>1, <1>4, <1>5, <1>7, <2>1, <2>2, GoesTo
  <1> QED
    BY <1>2, <1>6, <1>7 DEF WriteIndex

\* A directory that is only made has no name.
LEMMA TouchedFacts ==
    ASSUME FilesTyped, NEW g \in Groups, index' = Touched(g)
    PROVE  index' \in [Groups -> {"none", "bare", "default"} \cup Names] /\ NamesShrink
  BY RegistryAssumption DEF FilesTyped, Touched, NamesShrink

\* The list of a group that a request reads.
LEMMA ReadFacts ==
    ASSUME FilesTyped, ListsInv, NEW g \in Groups
    PROVE  /\ Read(g) \in SUBSET Versions /\ Sound(Read(g))
           /\ \A v \in Read(g) : Real(v.asset)
  BY DEF FilesTyped, ListsInv, Read, Sound

LEMMA ReadListKeeps ==
    ASSUME RegistryInv, NEW r \in Requests, ReadList(r)
    PROVE  RegistryInv'
  <1>1. PICK i \in Jobs : i = job[r] /\ Fits("read", i) /\ Grounded("read", i)
    BY JobNow DEF ReadList
  <1>2. PICK l : l = Read(i.group)
    OBVIOUS
  <1>3. PICK k : k = NextLabel(l)
    OBVIOUS
  <1>4. PICK j : j = IF i.op = "create" /\ i.label = 0 THEN [i EXCEPT !.label = k] ELSE i
    OBVIOUS
  <1>5. i.group \in Groups /\ i.op \in Creates \cup Edits \cup {"drop"}
    BY <1>1 DEF Fits
  <1>6. /\ l \in SUBSET Versions /\ Sound(l)
        /\ \A v \in l : Real(v.asset)
    BY <1>2, <1>5, TypesNow, ReadFacts
  <1>7. Kept /\ UNCHANGED <<list, upVars>> /\ NamesShrink /\ FilesTyped'
    <2>1. index' = Touched(i.group)
      BY <1>1 DEF ReadList
    <2> QED
      BY <1>5, <2>1, TypesNow, TouchedFacts DEF ReadList, Kept, FilesTyped
  <1>8. Fair /\ pc[r] # "idle"
    BY <1>7, FilesFair DEF ReadList
  <1>9. CASE Goto(r, "idle")
    BY <1>7, <1>8, <1>9, Ends
  <1>10. CASE j.op = "drop" /\ Goto(r, "remove")
    <2>1. Fits("remove", i) /\ Chosen("remove", i)' /\ "remove" \in Steps \ {"idle"}
      BY <1>5 DEF Fits, Chosen, Steps
    <2>2. Grounded("remove", i)'
      BY <1>1, <1>7, StillGrounded
    <2> QED
      BY <1>1, <1>7, <1>8, <1>10, <2>1, <2>2, GoesTo
  <1>11. CASE /\ j.op # "drop" /\ Applies(l, j) /\ j.label \in Labels
              /\ job' = [job EXCEPT ![r] = [j EXCEPT !.list = Changed(l, j)]]
              /\ pc' = [pc EXCEPT ![r] = "open"]
              /\ UNCHANGED <<calm, ops, crashes>>
    <2>1. /\ j.op = i.op /\ j.group = i.group /\ j.asset = i.asset /\ j.name = i.name
          /\ j.upload = i.upload /\ j.tag = i.tag
      BY <1>4 DEF Jobs
    <2>2. j \in Jobs
      BY <1>4, <1>11 DEF Jobs, Labels
    <2>3. PICK m : m = Changed(l, j)
      OBVIOUS
    <2>4. /\ m \in SUBSET Versions /\ Sound(m)
          /\ \A v \in m : v.asset = j.asset \/ \E w \in l : v.asset = w.asset
      BY <1>5, <1>6, <1>11, <2>1, <2>2, <2>3, ChangedFacts
    <2>5. Real(i.asset)
      BY <1>1 DEF Grounded
    <2>6. \A v \in m : Real(v.asset)
      BY <1>6, <2>1, <2>4, <2>5
    <2>7. PICK q : q = [j EXCEPT !.list = m]
      OBVIOUS
    <2>8. /\ q \in Jobs /\ q.list = m /\ q.group = i.group /\ q.asset = i.asset
      BY <2>1, <2>2, <2>4, <2>7 DEF Jobs
    <2>9. Fits("open", q) /\ Chosen("open", q)' /\ "open" \in Steps
      BY <1>5, <2>8 DEF Fits, Chosen, Steps
    <2>10. Grounded("read", q)
      BY <2>4, <2>5, <2>6, <2>8 DEF Grounded
    <2>11. Grounded("open", q)'
      BY <1>7, <2>10, StillGrounded
    <2>12. CountsTyped' /\ calm' = calm
      BY <1>11 DEF RegistryInv, TypeOK, CountsTyped
    <2>13. pc' = [pc EXCEPT ![r] = "open"] /\ job' = [job EXCEPT ![r] = q]
      BY <1>11, <2>3, <2>7
    <2> QED
      BY <1>7, <1>8, <2>8, <2>9, <2>11, <2>12, <2>13, Moves
  <1> QED
    BY <1>1, <1>2, <1>3, <1>4, <1>9, <1>10, <1>11 DEF ReadList

LEMMA NoListFacts ==
    ASSUME NEW l \in {Missing, Torn}
    PROVE  Sound(l) /\ \A v \in l : Real(v.asset)
  BY NamedIsReal DEF Missing, Torn, Sound

LEMMA OpenKeeps ==
    ASSUME RegistryInv, NEW r \in Requests, Open(r)
    PROVE  RegistryInv'
  <1>1. PICK j \in Jobs : j = job[r] /\ Fits("open", j) /\ Grounded("open", j)
    BY JobNow DEF Open
  <1>2. j.group \in Groups
    BY <1>1 DEF Fits
  <1>3. list' = [list EXCEPT ![j.group] = Torn] /\ index' = Touched(j.group)
    BY <1>1 DEF Open
  <1>4. Kept /\ UNCHANGED upVars /\ NamesShrink /\ FilesTyped'
    BY <1>2, <1>3, TypesNow, TouchedFacts DEF Open, Kept, FilesTyped
  <1>5. ListsInv'
    BY <1>2, <1>3, <1>4, TypesNow, NoListFacts, ListsStep
  <1>6. Fair /\ pc[r] # "idle"
    BY <1>4, <1>5, TypesNow, UploadStands DEF Open, Fair
  <1>7. Fits("write", j) /\ Chosen("write", j)' /\ "write" \in Steps \ {"idle"}
    BY <1>2 DEF Fits, Chosen, Steps
  <1>8. Grounded("write", j)'
    BY <1>1, <1>4, StillGrounded
  <1>9. Goto(r, "write")
    BY DEF Open
  <1> QED
    BY <1>1, <1>4, <1>6, <1>7, <1>8, <1>9, GoesTo

LEMMA WriteKeeps ==
    ASSUME RegistryInv, NEW r \in Requests, Write(r)
    PROVE  RegistryInv'
  <1>1. PICK j \in Jobs : j = job[r] /\ Fits("write", j) /\ Grounded("write", j)
    BY JobNow DEF Write
  <1>2. j.group \in Groups /\ j.list \in SUBSET Versions
    BY <1>1 DEF Fits, Jobs
  <1>3. PICK l \in {Missing, Torn, j.list} : list' = [list EXCEPT ![j.group] = l]
    BY <1>1 DEF Write
  <1>4. Sound(l) /\ \A v \in l : Real(v.asset)
    BY <1>1, NoListFacts DEF Grounded
  <1>5. Kept /\ UNCHANGED upVars /\ NamesShrink /\ FilesTyped'
    BY <1>2, <1>3, TypesNow DEF Write, Kept, FilesTyped, NamesShrink
  <1>6. ListsInv'
    BY <1>2, <1>3, <1>4, <1>5, TypesNow, ListsStep
  <1>7. Fair /\ pc[r] # "idle"
    BY <1>5, <1>6, TypesNow, UploadStands DEF Write, Fair
  <1>8. CASE Goto(r, "idle")
    BY <1>5, <1>7, <1>8, Ends
  <1>9. CASE Goto(r, "remove")
    <2>1. Fits("remove", j) /\ Chosen("remove", j)' /\ "remove" \in Steps \ {"idle"}
      BY <1>2 DEF Fits, Chosen, Steps
    <2>2. Grounded("remove", j)'
      BY <1>1, <1>5, StillGrounded
    <2> QED
      BY <1>1, <1>5, <1>7, <1>9, <2>1, <2>2, GoesTo
  <1> QED
    BY <1>8, <1>9 DEF Write

LEMMA RemoveGroupKeeps ==
    ASSUME RegistryInv, NEW r \in Requests, RemoveGroup(r)
    PROVE  RegistryInv'
  <1>1. PICK j \in Jobs : j = job[r] /\ Fits("remove", j)
    BY JobNow DEF RemoveGroup
  <1>2. j.group \in Groups
    BY <1>1 DEF Fits
  <1>3. list' = [list EXCEPT ![j.group] = Missing] /\ index' = [index EXCEPT ![j.group] = "none"]
    BY <1>1 DEF RemoveGroup
  <1>4. Kept /\ UNCHANGED upVars /\ NamesShrink /\ FilesTyped'
    BY <1>2, <1>3, TypesNow, RegistryAssumption
       DEF RemoveGroup, Kept, FilesTyped, NamesShrink
  <1>5. ListsInv'
    BY <1>2, <1>3, <1>4, TypesNow, NoListFacts, ListsStep
  <1>6. Fair /\ pc[r] # "idle" /\ Goto(r, "idle")
    BY <1>4, <1>5, TypesNow, UploadStands DEF RemoveGroup, Fair
  <1> QED
    BY <1>4, <1>6, Ends

-----------------------------------------------------------------------------
(* The rest. *)

LEMMA UploadsKeep ==
    ASSUME RegistryInv, UpNext, UNCHANGED <<regVars, reqVars>>
    PROVE  RegistryInv'
  <1>1. UploadsInv' /\ UploadMoves
    BY TypesNow, UploadStep
  <1>2. Kept /\ FilesTyped' /\ UNCHANGED <<index, list, pc, job, calm, ops, crashes>>
    BY TypesNow DEF regVars, reqVars, Kept, FilesTyped
  <1>3. ListsInv'
    BY <1>2, TypesNow, ListsStand
  <1>4. RequestsInv'
    BY <1>1, <1>2, TypesNow, RequestStays DEF RequestsInv
  <1>5. NamesInv'
    BY <1>2, TypesNow DEF NamesInv, Busy, OneGroupPerName, Chosen, NamedGroups
  <1>6. TypeOK'
    BY <1>1, <1>2 DEF UploadsInv, FilesTyped, RegistryInv, TypeOK
  <1> QED
    BY <1>1, <1>3, <1>4, <1>5, <1>6 DEF RegistryInv

LEMMA CrashKeeps ==
    ASSUME RegistryInv, Crash
    PROVE  RegistryInv'
  <1>1. UploadsInv' /\ UploadMoves
    BY TypesNow, UploadIsCut DEF Crash
  <1>2. Kept /\ FilesTyped' /\ UNCHANGED <<index, list>>
    BY TypesNow DEF Crash, regVars, Kept, FilesTyped
  <1>3. ListsInv'
    BY <1>2, TypesNow, ListsStand
  <1>4. \A r \in Requests : pc'[r] = "idle" /\ job'[r] = NoJob
    BY DEF Crash
  <1>5. RequestsInv'
    BY <1>4, NoJobFits DEF RequestsInv
  <1>6. NamesInv'
    BY <1>2, <1>4, TypesNow DEF Crash, NamesInv, Busy, OneGroupPerName, Chosen
  <1>7. TypeOK'
    <2>1. pc' \in [Requests -> Steps] /\ job' \in [Requests -> Jobs]
      BY NoJobFits DEF Crash, Steps
    <2>2. CountsTyped'
      BY RegistryAssumption DEF Crash, RegistryInv, TypeOK, CountsTyped
    <2> QED
      BY <1>1, <1>2, <2>1, <2>2 DEF UploadsInv, FilesTyped, CountsTyped, TypeOK
  <1> QED
    BY <1>1, <1>3, <1>5, <1>6, <1>7 DEF RegistryInv

LEMMA RegistryStart == Init => RegistryInv
  <1> SUFFICES ASSUME Init PROVE RegistryInv
    OBVIOUS
  <1>1. UploadsInv
    BY UploadsStart DEF Init
  <1>2. TypeOK
    BY <1>1, NoJobFits, RegistryAssumption DEF Init, UploadsInv, TypeOK, Steps
  <1>3. RequestsInv
    BY NoJobFits DEF Init, RequestsInv
  <1>4. ListsInv
    BY NoListFacts DEF Init, ListsInv
  <1>5. NamesInv
    BY RegistryAssumption DEF Init, NamesInv, Busy, OneGroupPerName, Chosen
  <1> QED
    BY <1>1, <1>2, <1>3, <1>4, <1>5 DEF RegistryInv

LEMMA StartsKeep ==
    ASSUME RegistryInv, NEW r \in Requests, Starts(r)
    PROVE  RegistryInv'
  <1> USE RegistryAssumption DEF Labels
  <1>1. ASSUME NEW g \in Groups, NEW op \in Edits \cup {"drop"}, NEW k \in 0..MaxLabel,
               NEW t \in Tags \cup {NoTag}, Edit(r, g, op, k, t)
        PROVE  RegistryInv'
    BY <1>1, EditKeeps
  <1>2. CASE \E n \in Names : \E b \in BOOLEAN : Upload(r, n, b)
    BY <1>2, UploadKeeps
  <1>3. CASE \E n \in Names : \E t \in Tags, b \in BOOLEAN : Save(r, n, t, b)
    BY <1>3, SaveKeeps
  <1>4. CASE \E n \in Names : \E t \in Tags, k \in 0..MaxLabel : Create(r, n, k, t)
    BY <1>4, CreateKeeps
  <1>5. CASE \E n \in Names : \E g \in Groups : Rename(r, g, n)
    BY <1>5, RenameKeeps
  <1>6. CASE \E g \in Groups : Edit(r, g, "drop", 0, NoTag)
    BY <1>1, <1>6
  <1>7. CASE \E g \in Groups : \E k \in Labels, t \in Tags : Edit(r, g, "tag", k, t)
    BY <1>1, <1>7 DEF Edits
  <1>8. CASE \E g \in Groups : \E k \in Labels, op \in {"update", "clear", "delete"} :
                 Edit(r, g, op, k, NoTag)
    BY <1>1, <1>8 DEF Edits
  <1> QED
    BY <1>2, <1>3, <1>4, <1>5, <1>6, <1>7, <1>8 DEF Starts

LEMMA RegistryStep == RegistryInv /\ [Next]_vars => RegistryInv'
  <1> SUFFICES ASSUME RegistryInv, [Next]_vars PROVE RegistryInv'
    OBVIOUS
  <1>1. ASSUME NEW r \in Requests, Starts(r) PROVE RegistryInv'
    BY <1>1, StartsKeep
  <1>2. ASSUME NEW r \in Requests, GoesOn(r) PROVE RegistryInv'
    BY <1>2, ReserveKeeps, CopyKeeps, PutKeeps, PutEndsKeeps, RegisterKeeps, FindKeeps,
       IndexKeeps, WriteIndexKeeps, ReadListKeeps, OpenKeeps, WriteKeeps, RemoveGroupKeeps
       DEF GoesOn
  <1>3. ASSUME NEW n \in Names, DeleteDataset(n) PROVE RegistryInv'
    BY <1>3, DeleteDatasetKeeps
  <1>4. CASE UNCHANGED vars
    <2>1. UNCHANGED <<upVars, regVars, reqVars>>
      BY <1>4 DEF vars
    <2>2. Kept /\ UNCHANGED <<index, list, pc, job, calm, ops, crashes>> /\ FilesTyped'
      BY <2>1, TypesNow DEF regVars, reqVars, Kept, FilesTyped
    <2>3. Fair
      BY <2>1, <2>2, FilesFair
    <2>4. RequestsInv'
      BY <2>2, <2>3, TypesNow, RequestStays DEF Fair, RequestsInv
    <2>5. NamesInv'
      BY <2>2, TypesNow DEF NamesInv, Busy, OneGroupPerName, Chosen, NamedGroups
    <2>6. TypeOK'
      BY <2>2, <2>3 DEF Fair, UploadsInv, FilesTyped, RegistryInv, TypeOK
    <2> QED
      BY <2>3, <2>4, <2>5, <2>6 DEF RegistryInv, Fair
  <1> QED
    BY <1>1, <1>2, <1>3, <1>4, UploadsKeep, CrashKeeps DEF Next

LEMMA RegistryInvHolds == Spec => []RegistryInv
  BY RegistryStart, RegistryStep, PTL DEF Spec

\* The variables of the registry and of the uploads keep their types, whatever
\* requests overlap and wherever the server stops.
THEOREM RegistryKeepsTypes == Spec => []TypeOK
  <1>1. RegistryInv => TypeOK
    BY DEF RegistryInv
  <1> QED  BY <1>1, RegistryInvHolds, PTL

\* upload_service: an upload that was answered is the whole file, for any number
\* of chunks in any order, removals and stops of the server included.
THEOREM AnsweredUploadsAreWhole == Spec => []AnsweredIsWhole
  <1>1. RegistryInv => AnsweredIsWhole
    BY DEF RegistryInv, UploadsInv
  <1> QED  BY <1>1, RegistryInvHolds, PTL

\* asset_version_service, save_to_registry and data/fileupload: for any number of
\* requests, groups and versions, what a listed version names is whole, until
\* somebody deletes the dataset or writes over its file.
THEOREM VersionsStayWhole == Spec => []VersionsAreWhole
  <1>1. RegistryInv => VersionsAreWhole
    BY DEF RegistryInv, ListsInv, VersionsAreWhole, Read, Real
  <1> QED  BY <1>1, RegistryInvHolds, PTL

\* The same service: a list has every label and every tag once, however edits
\* overlap; a name stands for one group as long as no two requests overlap.
THEOREM NamesStayResolved == Spec => []NamesResolve
  <1>1. RegistryInv => NamesResolve
    BY DEF RegistryInv, ListsInv, NamesInv, NamesResolve, ListIsSound, OneGroupPerName,
           Read, Sound
  <1> QED  BY <1>1, RegistryInvHolds, PTL

=============================================================================
