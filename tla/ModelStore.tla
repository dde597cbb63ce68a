------------------------------ MODULE ModelStore ------------------------------
(***************************************************************************)
(* app.ml and the deletion of app.admin: model files on a volume and their *)
(* rows in ml_models, which no transaction spans.  An upload saves a file, *)
(* validates it and commits its row; a deletion unlinks the file and then  *)
(* commits the row's status; a prediction checks the row and loads the     *)
(* file later, in a worker.  Each upload has a row id and a file of its    *)
(* own.                                                                    *)
(***************************************************************************)

CONSTANTS
    Models,      \* uploads, with the rows and files that they may create
    Deletions,   \* DELETE requests of admins
    Runs,        \* prediction requests, each with its worker's run
    Faults,      \* the faults that may happen, see FaultKinds
    NoModel      \* a request that has not begun

VARIABLES
    file,        \* file[m]: what is stored under the path of m
    row,         \* row[m]: the committed status of row m, or "none"
    upload,      \* upload[m]: how far create_model is
    deletion,    \* deletion[d]: the model of a DELETE request, how far it is,
                 \* and whether unlink left the file where it was
    run          \* run[r]: the model of a prediction and how far it is

modelStoreVars == <<file, row, upload, deletion, run>>

\* "process" a handler ends anywhere, "database" a commit or a refresh raises,
\* "disk" a file cannot be unlinked.
FaultKinds == {"process", "database", "disk"}

ASSUME ModelStoreAssumption ==
    /\ Faults \subseteq FaultKinds
    /\ NoModel \notin Models

\* "part" is a file that is still being written or that was cut off, "junk" one
\* that has no model with a predict method in it.
Contents == {"none", "part", "junk", "model"}
RowStatuses == {"none", "uploaded", "deleted"}

\* "refused" is an upload that was turned down; "failed" one whose commit or
\* refresh raised, "kept" one whose file could not be unlinked then, "crashed" one
\* whose process ended.  A deletion is "ended" before its unlink, "cut" after it.
UploadStages == {"none", "writing", "written", "validated", "committed", "done",
                 "refused", "failed", "kept", "crashed"}
DeletionStages == {"none", "read", "unlinked", "done", "ended", "cut"}
RunStages == {"none", "queued", "loaded", "missing"}

-----------------------------------------------------------------------------

ModelStoreInit ==
    /\ file = [m \in Models |-> "none"]
    /\ row = [m \in Models |-> "none"]
    /\ upload = [m \in Models |-> "none"]
    /\ deletion = [d \in Deletions |->
                      [model |-> NoModel, stage |-> "none", kept |-> FALSE]]
    /\ run = [r \in Runs |-> [model |-> NoModel, stage |-> "none"]]

Upload(m, from, to) ==
    /\ upload[m] = from
    /\ upload' = [upload EXCEPT ![m] = to]

\* save_model_upload, after the checks of the form and the file extension.
OpenFile(m) ==
    /\ Upload(m, "none", "writing")
    /\ file' = [file EXCEPT ![m] = "part"]
    /\ UNCHANGED <<row, deletion, run>>

\* The last chunk is written: the client has sent a model or something else.
WriteFile(m) ==
    /\ Upload(m, "writing", "written")
    /\ \E content \in {"junk", "model"} : file' = [file EXCEPT ![m] = content]
    /\ UNCHANGED <<row, deletion, run>>

\* validate_model_artifact
ValidateFile(m) ==
    /\ file[m] = "model"
    /\ Upload(m, "written", "validated")
    /\ UNCHANGED <<file, row, deletion, run>>

\* unlink(missing_ok=True) in an except block, which may raise itself.
RefuseAndKeep(m) ==
    /\ upload' = [upload EXCEPT ![m] = "refused"]
    /\ UNCHANGED file
Discard(m) ==
    \/ /\ file' = [file EXCEPT ![m] = "none"]
       /\ upload' = [upload EXCEPT ![m] = "refused"]
    \/ /\ "disk" \in Faults
       /\ upload' = [upload EXCEPT ![m] = "kept"]
       /\ UNCHANGED file

\* The file is too large, empty, or cannot be read to its end.
RejectFile(m) ==
    /\ upload[m] = "writing"
    /\ Discard(m)
    /\ UNCHANGED <<row, deletion, run>>

\* The artifact cannot be loaded or has no predict method.
RejectModel(m) ==
    /\ upload[m] = "written"
    /\ file[m] # "model"
    /\ Discard(m)
    /\ UNCHANGED <<row, deletion, run>>

InsertUnvalidated(m) ==
    /\ upload[m] \in {"written", "validated"}
    /\ upload' = [upload EXCEPT ![m] = "committed"]
    /\ row' = [row EXCEPT ![m] = "uploaded"]
    /\ UNCHANGED <<file, deletion, run>>
InsertModel(m) ==
    /\ Upload(m, "validated", "committed")
    /\ row' = [row EXCEPT ![m] = "uploaded"]
    /\ UNCHANGED <<file, deletion, run>>

\* commit raises, before or after the database has committed, or refresh does:
\* the handler rolls back and unlinks the file.
InsertFails(m) ==
    /\ "database" \in Faults
    /\ \/ upload[m] = "validated" /\ \E status \in {"none", "uploaded"} :
                                         row' = [row EXCEPT ![m] = status]
       \/ upload[m] = "committed" /\ UNCHANGED row
    /\ \/ /\ file' = [file EXCEPT ![m] = "none"]
          /\ upload' = [upload EXCEPT ![m] = "failed"]
       \/ /\ "disk" \in Faults
          /\ upload' = [upload EXCEPT ![m] = "kept"]
          /\ UNCHANGED file
    /\ UNCHANGED <<deletion, run>>

RefreshModel(m) ==
    /\ Upload(m, "committed", "done")
    /\ UNCHANGED <<file, row, deletion, run>>

UploadCrash(m) ==
    /\ "process" \in Faults
    /\ \E stage \in {"writing", "written", "validated", "committed"} :
           Upload(m, stage, "crashed")
    /\ UNCHANGED <<file, row, deletion, run>>

-----------------------------------------------------------------------------

ReadAnyModel(d, m) ==
    /\ deletion[d].stage = "none"
    /\ deletion' = [deletion EXCEPT ![d].model = m, ![d].stage = "read"]
    /\ UNCHANGED <<file, row, upload, run>>
\* delete_model: any row is found, one that is deleted already, too.
ReadModel(d, m) ==
    /\ deletion[d].stage = "none"
    /\ row[m] # "none"
    /\ deletion' = [deletion EXCEPT ![d].model = m, ![d].stage = "read"]
    /\ UNCHANGED <<file, row, upload, run>>

\* unlink before the commit; an OSError is passed over.
UnlinkFile(d) ==
    LET m == deletion[d].model IN
    /\ deletion[d].stage = "read"
    /\ \/ /\ file' = [file EXCEPT ![m] = "none"]
          /\ deletion' = [deletion EXCEPT ![d].stage = "unlinked", ![d].kept = FALSE]
       \/ /\ "disk" \in Faults
          /\ deletion' = [deletion EXCEPT ![d].stage = "unlinked", ![d].kept = TRUE]
          /\ UNCHANGED file
    /\ UNCHANGED <<row, upload, run>>

CommitUnmarked(d) ==
    /\ deletion[d].stage = "unlinked"
    /\ deletion' = [deletion EXCEPT ![d].stage = "done"]
    /\ UNCHANGED <<file, row, upload, run>>
CommitDeleted(d) ==
    /\ deletion[d].stage = "unlinked"
    /\ row' = [row EXCEPT ![deletion[d].model] = "deleted"]
    /\ deletion' = [deletion EXCEPT ![d].stage = "done"]
    /\ UNCHANGED <<file, upload, run>>

\* The process ends, or the commit raises: the row is as it was.
DeletionCut(d) ==
    /\ \/ "process" \in Faults /\ deletion[d].stage \in {"read", "unlinked"}
       \/ "database" \in Faults /\ deletion[d].stage = "unlinked"
    /\ deletion' = [deletion EXCEPT ![d].stage = IF @ = "read" THEN "ended" ELSE "cut"]
    /\ UNCHANGED <<file, row, upload, run>>

-----------------------------------------------------------------------------

\* create_prediction looks for an uploaded model, and stores its task.
CheckModel(r, m) ==
    /\ run[r].stage = "none"
    /\ row[m] = "uploaded"
    /\ run' = [run EXCEPT ![r] = [model |-> m, stage |-> "queued"]]
    /\ UNCHANGED <<file, row, upload, deletion>>

\* load_model_artifact in the worker, which does not look at the row's status.
LoadModel(r) ==
    /\ run[r].stage = "queued"
    /\ run' = [run EXCEPT ![r].stage =
                  IF file[run[r].model] = "model" THEN "loaded" ELSE "missing"]
    /\ UNCHANGED <<file, row, upload, deletion>>

ModelStoreNext ==
    \/ \E m \in Models :
           \/ OpenFile(m)
           \/ WriteFile(m)
           \/ ValidateFile(m)
           \/ RejectFile(m)
           \/ RejectModel(m)
           \/ InsertModel(m)
           \/ InsertFails(m)
           \/ RefreshModel(m)
           \/ UploadCrash(m)
    \/ \E d \in Deletions :
           \/ \E m \in Models : ReadModel(d, m)
           \/ UnlinkFile(d)
           \/ CommitDeleted(d)
           \/ DeletionCut(d)
    \/ \E r \in Runs :
           \/ \E m \in Models : CheckModel(r, m)
           \/ LoadModel(r)

ModelStoreSpec == ModelStoreInit /\ [][ModelStoreNext]_modelStoreVars

-----------------------------------------------------------------------------

\* Types; and the rows that deletions and predictions have read exist for good
\* (delete_model of app.admin marks a row and never deletes it).
ModelStoreTypeOK ==
    /\ file \in [Models -> Contents]
    /\ row \in [Models -> RowStatuses]
    /\ upload \in [Models -> UploadStages]
    /\ deletion \in [Deletions -> [model: Models \cup {NoModel},
                                   stage: DeletionStages, kept: BOOLEAN]]
    /\ run \in [Runs -> [model: Models \cup {NoModel}, stage: RunStages]]
    /\ \A d \in Deletions : deletion[d].stage # "none" => row[deletion[d].model] # "none"
    /\ \A r \in Runs : run[r].stage # "none" => row[run[r].model] # "none"

\* The file of row m was removed, and the row does not say so yet, or never will:
\* by an upload whose row was committed when it failed, or by a deletion.
RemovedFirst(m) ==
    \/ upload[m] = "failed"
    \/ \E d \in Deletions :
           /\ deletion[d].model = m
           /\ deletion[d].stage \in {"unlinked", "cut"} /\ ~deletion[d].kept

\* docs/ml-models.md, steps 5 to 7: a row that offers a model has a validated
\* file.  The two error paths that remove the file first are all that breaks
\* this: a process that ends in an upload, or a disk that fails, does not.
UploadedHasFile ==
    \A m \in Models :
        row[m] = "uploaded" => (file[m] = "model" <=> ~RemovedFirst(m))

\* docs/security.md: "invalid artifacts are removed from storage", and so is
\* every other file that has no row.  Only a process that ends and an unlink that
\* fails leave one, whatever the database does.  The file of a deleted row is
\* gone once one deletion could unlink it.
NoFileLeftBehind ==
    \A m \in Models :
        file[m] # "none" =>
            /\ \/ upload[m] \in {"writing", "written", "validated", "crashed", "kept"}
               \/ row[m] # "none" /\ file[m] = "model"
            /\ \A d \in Deletions :
                   /\ deletion[d].model = m
                   /\ deletion[d].stage \in {"unlinked", "cut", "done"}
                   => deletion[d].kept

\* docs/api.md: new prediction requests ignore models that are not uploaded.  So
\* a worker misses the file of a model only if an admin has deleted the model
\* meanwhile, or the file was removed before the row could say so.
MissingFileExplained ==
    \A r \in Runs :
        run[r].stage = "missing" =>
            row[run[r].model] = "deleted" \/ RemovedFirst(run[r].model)

=============================================================================
