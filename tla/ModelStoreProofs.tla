-------------------------- MODULE ModelStoreProofs --------------------------
(***************************************************************************)
(* Theorems about ModelStore, for any number of uploads, deletions and     *)
(* predictions and any faults.  What makes the three invariants inductive  *)
(* is UploadStands: how far an upload is says what it has left on the      *)
(* volume and that nobody else can have touched it before its row is       *)
(* committed.                                                              *)
(***************************************************************************)
EXTENDS ModelStore, TLAPS

\* What the stage of an upload says of its file and its row.
UploadStands ==
    \A m \in Models :
        /\ upload[m] \in {"none", "refused"} => file[m] = "none" /\ row[m] = "none"
        /\ upload[m] = "writing" => file[m] = "part" /\ row[m] = "none"
        /\ upload[m] = "written" => file[m] \in {"junk", "model"} /\ row[m] = "none"
        /\ upload[m] = "validated" => file[m] = "model" /\ row[m] = "none"
        /\ upload[m] \in {"committed", "done"} =>
               file[m] \in {"none", "model"} /\ row[m] # "none"
        /\ upload[m] = "failed" => file[m] = "none"
        /\ row[m] # "none" => file[m] \in {"none", "model"}

\* A request that has begun has a model.
RequestsNameModels ==
    /\ \A d \in Deletions : deletion[d].stage # "none" => deletion[d].model \in Models
    /\ \A r \in Runs : run[r].stage # "none" => run[r].model \in Models

StoreInv ==
    /\ ModelStoreTypeOK
    /\ RequestsNameModels
    /\ UploadStands
    /\ UploadedHasFile
    /\ NoFileLeftBehind
    /\ MissingFileExplained

\* The steps of an upload, of a deletion and of a prediction.
UploadStep(m) ==
    \/ OpenFile(m) \/ WriteFile(m) \/ ValidateFile(m) \/ RejectFile(m)
    \/ RejectModel(m) \/ InsertModel(m) \/ InsertFails(m) \/ RefreshModel(m)
    \/ UploadCrash(m)

DeletionStep(d) ==
    (\E m \in Models : ReadModel(d, m)) \/ UnlinkFile(d) \/ CommitDeleted(d) \/ DeletionCut(d)

RunStep(r) == (\E m \in Models : CheckModel(r, m)) \/ LoadModel(r)

-----------------------------------------------------------------------------

\* The initial states satisfy the inductive invariant.
LEMMA StoreInit == ModelStoreInit => StoreInv
  BY ModelStoreAssumption
     DEF ModelStoreInit, StoreInv, ModelStoreTypeOK, RequestsNameModels,
         UploadStands, UploadedHasFile,
         NoFileLeftBehind, MissingFileExplained, Contents, RowStatuses,
         UploadStages, DeletionStages, RunStages

\* An upload changes its own file and row only.  A row, once it is there, is not
\* changed by it any more, and the upload has failed when a row goes without the
\* file.
LEMMA UploadLeaves ==
  ASSUME ModelStoreTypeOK, UploadStands, NEW m \in Models, UploadStep(m)
  PROVE  /\ UNCHANGED <<deletion, run>>
         /\ upload' \in [Models -> UploadStages]
         /\ file' \in [Models -> Contents] /\ row' \in [Models -> RowStatuses]
         /\ \A x \in Models \ {m} :
                upload'[x] = upload[x] /\ file'[x] = file[x] /\ row'[x] = row[x]
         /\ row[m] # "none" => row'[m] = row[m]
         /\ row[m] # "none" => file'[m] \in {file[m], "none"}
         /\ upload[m] # "failed"
         /\ upload'[m] # "failed" /\ row[m] # "none" => file'[m] = file[m]
         /\ row'[m] # row[m] => \/ upload'[m] = "failed"
                                \/ row'[m] = "uploaded" /\ file'[m] = "model"
         /\ UploadStands'
  <1> USE DEF ModelStoreTypeOK, UploadStands, Contents, RowStatuses, UploadStages, Upload
  <1>1. CASE OpenFile(m)
    BY <1>1 DEF OpenFile
  <1>2. CASE WriteFile(m)
    BY <1>2 DEF WriteFile
  <1>3. CASE ValidateFile(m)
    BY <1>3 DEF ValidateFile
  <1>4. CASE RejectFile(m)
    BY <1>4 DEF RejectFile, Discard
  <1>5. CASE RejectModel(m)
    BY <1>5 DEF RejectModel, Discard
  <1>6. CASE InsertModel(m)
    BY <1>6 DEF InsertModel
  <1>7. CASE InsertFails(m)
    BY <1>7 DEF InsertFails
  <1>8. CASE RefreshModel(m)
    BY <1>8 DEF RefreshModel
  <1>9. CASE UploadCrash(m)
    BY <1>9 DEF UploadCrash
  <1> QED
    BY <1>1, <1>2, <1>3, <1>4, <1>5, <1>6, <1>7, <1>8, <1>9 DEF UploadStep

\* A file that was removed before its row said so stays removed under the steps
\* of an upload, and only an upload that fails removes one more.
LEMMA UploadKeepsRemoved ==
  ASSUME ModelStoreTypeOK, UploadStands, NEW m \in Models, UploadStep(m)
  PROVE  \A x \in Models :
             RemovedFirst(x)' <=> RemovedFirst(x) \/ (x = m /\ upload'[m] = "failed")
  BY UploadLeaves DEF RemovedFirst

\* Every step of an upload keeps the invariant.
LEMMA UploadKeeps ==
  ASSUME StoreInv, NEW m \in Models, UploadStep(m)
  PROVE  StoreInv'
  <1> USE UploadLeaves DEF StoreInv
  <1>0. \A x \in Models : row[x] # "none" => row'[x] = row[x]
    OBVIOUS
  <1>1. ModelStoreTypeOK' /\ RequestsNameModels'
    BY <1>0 DEF ModelStoreTypeOK, RequestsNameModels
  <1>2. UploadedHasFile'
    <2> SUFFICES ASSUME NEW x \in Models, row'[x] = "uploaded"
                 PROVE  file'[x] = "model" <=> ~RemovedFirst(x)'
      BY DEF UploadedHasFile
    <2>1. CASE x # m
      BY <2>1, UploadKeepsRemoved DEF UploadedHasFile
    <2>2. CASE x = m /\ upload'[m] = "failed"
      BY <2>2, UploadKeepsRemoved DEF UploadStands
    <2>3. CASE x = m /\ row'[m] # row[m] /\ upload'[m] # "failed"
      <3>1. row[m] = "none"
        BY <2>3
      <3>2. ~RemovedFirst(m)
        BY <3>1 DEF RemovedFirst, ModelStoreTypeOK
      <3> QED
        BY <2>3, <3>2, UploadKeepsRemoved
    <2>4. CASE x = m /\ row'[m] = row[m] /\ upload'[m] # "failed"
      BY <2>4, UploadKeepsRemoved DEF UploadedHasFile
    <2> QED
      BY <2>1, <2>2, <2>3, <2>4
  <1>3. NoFileLeftBehind'
    <2> SUFFICES ASSUME NEW x \in Models, file'[x] # "none"
                 PROVE  /\ \/ upload'[x] \in {"writing", "written", "validated", "crashed", "kept"}
                           \/ row'[x] # "none" /\ file'[x] = "model"
                        /\ \A d \in Deletions :
                               /\ deletion'[d].model = x
                               /\ deletion'[d].stage \in {"unlinked", "cut", "done"}
                               => deletion'[d].kept
      BY DEF NoFileLeftBehind
    <2>1. CASE x # m
      BY <2>1 DEF NoFileLeftBehind
    <2>2. CASE x = m /\ row[m] = "none"
      <3>1. \A d \in Deletions : deletion[d].model = m => deletion[d].stage = "none"
        BY <2>2 DEF ModelStoreTypeOK
      <3>2. \/ upload'[x] \in {"writing", "written", "validated", "crashed", "kept"}
            \/ row'[x] # "none" /\ file'[x] = "model"
        BY <2>2 DEF UploadStands, UploadStages
      <3> QED
        BY <2>2, <3>1, <3>2
    <2>3. CASE x = m /\ row[m] # "none"
      BY <2>3 DEF NoFileLeftBehind, UploadStands, UploadStages
    <2> QED
      BY <2>1, <2>2, <2>3
  <1>4. MissingFileExplained'
    BY <1>0, UploadKeepsRemoved
       DEF MissingFileExplained, ModelStoreTypeOK, RequestsNameModels
  <1> QED
    BY <1>1, <1>2, <1>3, <1>4

-----------------------------------------------------------------------------

\* A deletion touches its own request, the file and the row of its model: it
\* may remove the file, and then mark the row.
LEMMA DeletionLeaves ==
  ASSUME ModelStoreTypeOK, RequestsNameModels, NEW d \in Deletions, DeletionStep(d)
  PROVE  LET m == deletion'[d].model IN
         /\ m \in Models /\ row[m] # "none" /\ row'[m] # "none"
         /\ UNCHANGED <<upload, run>>
         /\ deletion' \in [Deletions -> [model: Models \cup {NoModel},
                                        stage: DeletionStages, kept: BOOLEAN]]
         /\ file' \in [Models -> Contents] /\ row' \in [Models -> RowStatuses]
         /\ \A e \in Deletions \ {d} : deletion'[e] = deletion[e]
         /\ deletion[d].stage # "none" => deletion[d].model = m
         /\ deletion[d].stage \in {"unlinked", "cut"} =>
                /\ deletion'[d].stage = "cut" \/ row'[m] = "deleted"
                /\ deletion'[d].kept = deletion[d].kept
         /\ \A x \in Models \ {m} : file'[x] = file[x] /\ row'[x] = row[x]
         /\ \/ file'[m] = file[m]
            \/ /\ file'[m] = "none" /\ deletion'[d].stage = "unlinked"
               /\ ~deletion'[d].kept
         /\ row'[m] = row[m] \/ row'[m] = "deleted"
         /\ deletion'[d].stage \in {"unlinked", "cut", "done"} =>
                \/ file'[m] = "none" \/ deletion'[d].kept
                \/ deletion[d].stage = "unlinked" /\ deletion'[d].kept = deletion[d].kept
  <1> DEFINE Requests == [model: Models \cup {NoModel}, stage: DeletionStages, kept: BOOLEAN]
  <1>0. /\ deletion \in [Deletions -> Requests] /\ deletion[d] \in Requests
        /\ file \in [Models -> Contents] /\ row \in [Models -> RowStatuses]
        /\ deletion[d].stage # "none" =>
               deletion[d].model \in Models /\ row[deletion[d].model] # "none"
    BY DEF ModelStoreTypeOK, RequestsNameModels
  <1> USE <1>0 DEF Contents, RowStatuses, DeletionStages
  <1>1. /\ DOMAIN deletion[d] = {"model", "stage", "kept"}
        /\ deletion[d].stage \in DeletionStages /\ deletion[d].kept \in BOOLEAN
    OBVIOUS
  <1>2. ASSUME NEW m \in Models, ReadModel(d, m)
        PROVE  /\ deletion' \in [Deletions -> Requests]
               /\ deletion'[d].model = m /\ deletion'[d].stage = "read"
               /\ \A e \in Deletions \ {d} : deletion'[e] = deletion[e]
    BY <1>1, <1>2 DEF ReadModel
  <1>3. ASSUME NEW m \in Models, ReadModel(d, m)
        PROVE  m = deletion'[d].model /\ row[m] # "none" /\ deletion[d].stage = "none"
               /\ UNCHANGED <<file, row, upload, run>>
    BY <1>2, <1>3 DEF ReadModel
  <1>4. CASE \E m \in Models : ReadModel(d, m)
    BY <1>2, <1>3, <1>4
  <1>5. CASE UnlinkFile(d)
    <2>1. deletion'[d].model = deletion[d].model /\ deletion[d].stage = "read"
          /\ UNCHANGED <<row, upload, run>>
          /\ \A e \in Deletions \ {d} : deletion'[e] = deletion[e]
      BY <1>1, <1>5 DEF UnlinkFile
    <2>2. CASE file' = [file EXCEPT ![deletion[d].model] = "none"] /\
               deletion' = [deletion EXCEPT ![d].stage = "unlinked", ![d].kept = FALSE]
      BY <1>1, <2>1, <2>2
    <2>3. CASE file' = file /\
               deletion' = [deletion EXCEPT ![d].stage = "unlinked", ![d].kept = TRUE]
      BY <1>1, <2>1, <2>3
    <2> QED
      BY <1>5, <2>2, <2>3 DEF UnlinkFile
  <1>6. CASE CommitDeleted(d)
    BY <1>6 DEF CommitDeleted
  <1>7. CASE DeletionCut(d)
    BY <1>7 DEF DeletionCut
  <1> QED
    BY <1>4, <1>5, <1>6, <1>7 DEF DeletionStep

\* Every step of a deletion keeps the invariant.
LEMMA DeletionKeeps ==
  ASSUME StoreInv, NEW d \in Deletions, DeletionStep(d)
  PROVE  StoreInv'
  <1> DEFINE m == deletion'[d].model
  <1> USE DeletionLeaves DEF StoreInv
  <1>1. /\ m \in Models /\ row'[m] # "none"
        /\ \A x \in Models : row[x] # "none" => row'[x] # "none"
    OBVIOUS
  <1>2. ModelStoreTypeOK' /\ RequestsNameModels'
    BY <1>1 DEF ModelStoreTypeOK, RequestsNameModels
  <1>3. UploadStands'
    BY <1>1 DEF UploadStands, ModelStoreTypeOK, RowStatuses
  <1>4. \A x \in Models : RemovedFirst(x) =>
            RemovedFirst(x)' \/ (x = m /\ row'[m] = "deleted")
    <2> SUFFICES ASSUME NEW x \in Models, RemovedFirst(x)
                 PROVE  RemovedFirst(x)' \/ (x = m /\ row'[m] = "deleted")
      OBVIOUS
    <2>1. CASE upload[x] = "failed"
      BY <2>1 DEF RemovedFirst
    <2>2. ASSUME NEW e \in Deletions, deletion[e].model = x,
                 deletion[e].stage \in {"unlinked", "cut"}, ~deletion[e].kept
          PROVE  RemovedFirst(x)' \/ (x = m /\ row'[m] = "deleted")
      <3>1. CASE e # d
        BY <2>2, <3>1 DEF RemovedFirst
      <3>2. CASE e = d
        BY <2>2, <3>2 DEF RemovedFirst
      <3> QED
        BY <3>1, <3>2
    <2> QED
      BY <2>1, <2>2 DEF RemovedFirst
  <1>5. NoFileLeftBehind'
    <2> SUFFICES ASSUME NEW x \in Models, file'[x] # "none"
                 PROVE  /\ \/ upload'[x] \in {"writing", "written", "validated", "crashed", "kept"}
                           \/ row'[x] # "none" /\ file'[x] = "model"
                        /\ \A e \in Deletions :
                               /\ deletion'[e].model = x
                               /\ deletion'[e].stage \in {"unlinked", "cut", "done"}
                               => deletion'[e].kept
      BY DEF NoFileLeftBehind
    <2>1. file'[x] = file[x] /\ (row[x] # "none" => row'[x] # "none")
      BY <1>1
    <2>2. \/ upload[x] \in {"writing", "written", "validated", "crashed", "kept"}
          \/ row[x] # "none" /\ file[x] = "model"
      BY <2>1 DEF NoFileLeftBehind
    <2>3. ASSUME NEW e \in Deletions, deletion'[e].model = x,
                 deletion'[e].stage \in {"unlinked", "cut", "done"}
          PROVE  deletion'[e].kept
      <3>1. CASE e # d
        BY <2>1, <2>3, <3>1 DEF NoFileLeftBehind
      <3>2. CASE e = d
        BY <2>1, <2>3, <3>2 DEF NoFileLeftBehind
      <3> QED
        BY <3>1, <3>2
    <2> QED
      BY <2>1, <2>2, <2>3
  <1>6. UploadedHasFile'
    <2> SUFFICES ASSUME NEW x \in Models, row'[x] = "uploaded"
                 PROVE  file'[x] = "model" <=> ~RemovedFirst(x)'
      BY DEF UploadedHasFile
    <2>1. row[x] = "uploaded"
      BY <1>1
    <2>2. file'[x] = "model" => ~RemovedFirst(x)'
      <3>1. upload'[x] = "failed" => file'[x] # "model"
        BY <1>3 DEF UploadStands
      <3> QED
        BY <1>5, <3>1 DEF RemovedFirst, NoFileLeftBehind
    <2>3. CASE file'[x] = file[x]
      BY <1>4, <2>1, <2>2, <2>3 DEF UploadedHasFile
    <2>4. CASE file'[x] # file[x]
      BY <1>1, <2>4 DEF RemovedFirst
    <2> QED
      BY <2>2, <2>3, <2>4
  <1>7. MissingFileExplained'
    BY <1>1, <1>4 DEF MissingFileExplained, RequestsNameModels
  <1> QED
    BY <1>2, <1>3, <1>5, <1>6, <1>7

\* Every step of a prediction keeps the invariant.
LEMMA RunKeeps ==
  ASSUME StoreInv, NEW r \in Runs, RunStep(r)
  PROVE  StoreInv'
  <1>1. UNCHANGED <<file, row, upload, deletion>>
    BY DEF RunStep, CheckModel, LoadModel
  <1>2. /\ run' \in [Runs -> [model: Models \cup {NoModel}, stage: RunStages]]
        /\ \A q \in Runs \ {r} : run'[q] = run[q]
        /\ run'[r].model \in Models /\ row[run'[r].model] # "none"
        /\ run'[r].stage = "missing" => file[run'[r].model] # "model"
    <2>1. ASSUME NEW m \in Models, CheckModel(r, m)
          PROVE  run' = [run EXCEPT ![r] = [model |-> m, stage |-> "queued"]]
                 /\ row[m] = "uploaded"
      BY <2>1 DEF CheckModel
    <2>2. CASE \E m \in Models : CheckModel(r, m)
      BY <2>1, <2>2 DEF StoreInv, ModelStoreTypeOK, RunStages
    <2>3. CASE LoadModel(r)
      <3> DEFINE stage == IF file[run[r].model] = "model" THEN "loaded" ELSE "missing"
      <3>1. /\ run[r] \in [model: Models \cup {NoModel}, stage: RunStages]
            /\ run[r].model \in Models /\ row[run[r].model] # "none"
        BY <2>3 DEF StoreInv, ModelStoreTypeOK, RequestsNameModels, LoadModel
      <3>2. /\ run' = [run EXCEPT ![r].stage = stage]
            /\ stage \in RunStages
            /\ stage = "missing" => file[run[r].model] # "model"
        BY <2>3 DEF LoadModel, RunStages
      <3> HIDE DEF stage
      <3> QED
        BY <3>1, <3>2 DEF StoreInv, ModelStoreTypeOK
    <2> QED
      BY <2>2, <2>3 DEF RunStep
  <1>3. ModelStoreTypeOK' /\ RequestsNameModels'
    BY <1>1, <1>2 DEF StoreInv, ModelStoreTypeOK, RequestsNameModels
  <1>4. UploadStands' /\ UploadedHasFile' /\ NoFileLeftBehind'
    BY <1>1 DEF StoreInv, UploadStands, UploadedHasFile, NoFileLeftBehind,
                RemovedFirst
  <1>5. MissingFileExplained'
    BY <1>1, <1>2
       DEF StoreInv, MissingFileExplained, UploadedHasFile, RemovedFirst,
           ModelStoreTypeOK, RowStatuses
  <1> QED
    BY <1>3, <1>4, <1>5 DEF StoreInv

-----------------------------------------------------------------------------

\* The inductive invariant holds in every reachable state.
THEOREM StoreInvariant == ModelStoreSpec => []StoreInv
  <1>1. ASSUME StoreInv, [ModelStoreNext]_modelStoreVars
        PROVE  StoreInv'
    <2>1. CASE UNCHANGED modelStoreVars
      BY <1>1, <2>1
         DEF modelStoreVars, StoreInv, ModelStoreTypeOK, RequestsNameModels,
             UploadStands, UploadedHasFile, NoFileLeftBehind,
             MissingFileExplained, RemovedFirst
    <2> QED
      BY <1>1, <2>1, UploadKeeps, DeletionKeeps, RunKeeps
         DEF ModelStoreNext, UploadStep, DeletionStep, RunStep
  <1> QED
    BY <1>1, StoreInit, PTL DEF ModelStoreSpec

\* Files, rows and requests keep their types, and a request never loses the row
\* that it has read.
THEOREM StoreTypeCorrect == ModelStoreSpec => []ModelStoreTypeOK
  BY StoreInvariant, PTL DEF StoreInv

\* create_model saves, validates and commits in that order, delete_model unlinks
\* before it commits: a row that offers a model has its file.
THEOREM OfferedHasFile == ModelStoreSpec => []UploadedHasFile
  BY StoreInvariant, PTL DEF StoreInv

\* Refused uploads and deletions leave no file behind that nothing refers to.
THEOREM NothingLeftBehind == ModelStoreSpec => []NoFileLeftBehind
  BY StoreInvariant, PTL DEF StoreInv

\* A worker that misses its file can blame a deletion or a fault.
THEOREM MissingExplained == ModelStoreSpec => []MissingFileExplained
  BY StoreInvariant, PTL DEF StoreInv

=============================================================================
