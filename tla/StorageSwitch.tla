---------------------------- MODULE StorageSwitch ----------------------------
(* The object storage an administrator chooses while the program runs:          *)
(* internal/application/adminstorage/service.go, adapter/storage                *)
(* (runtime_manager.go, resource_objects.go, resource_object_cleanup.go) and    *)
(* the reader and the cleanup of cmd/vector-worker/main.go. The API's process   *)
(* and the worker's each serve from a state of their own, replaced at once, and *)
(* the settings they share are the database's. Local storage and one kind of    *)
(* bucket stand for the three backends; transport is left out, and so are the     *)
(* other writers of the settings: the import of a data exchange, which stores     *)
(* rows unprobed and unannounced, and further processes of the API.               *)
EXTENDS Naturals, FiniteSets

CONSTANTS
  StorageTasks,  \* requests of the API and jobs of the worker under way
  Forms,         \* what administrators submit: [backend, bucket, private, credential]
  BucketKeys,      \* the credential of each bucket: <<bucket, credential>>
  StorageKeys,   \* names of objects, each used once
  MaxEditions    \* bound: times the settings are saved

ASSUME StorageAssumption == "free" \notin StorageTasks /\ MaxEditions \in Nat

VARIABLES storageSettings, serving, locks, storageTasks, reserved, objects, commitUnheard

storageVars == <<storageSettings, serving, locks, storageTasks, reserved, objects, commitUnheard>>

Unlocked == "free"
Unconfigured ==
  [backend |-> "none", bucket |-> "", private |-> FALSE, credential |-> "", edition |-> 0]
NoTask == [phase |-> "idle", config |-> Unconfigured, key |-> 0, since |-> 0]
\* An object, or the reservation of one: where it lies, and whether it is a document.
Object(key, place, document, private) ==
  [key |-> key, place |-> place, document |-> document, private |-> private]
Place(config) == IF config.backend = "local" THEN "local" ELSE config.bucket
PrivateDocumentBackend(config) ==
  config.backend = "local" \/ (config.backend = "s3" /\ config.private)

StorageInit ==
  /\ storageSettings = Unconfigured /\ commitUnheard = FALSE
  /\ serving = [api |-> Unconfigured, worker |-> Unconfigured]
  /\ locks = [api |-> Unlocked, worker |-> Unlocked]
  /\ storageTasks = [t \in StorageTasks |-> NoTask]
  /\ reserved = {} /\ objects = {}

TaskIs(t, task) == storageTasks' = [storageTasks EXCEPT ![t] = task]
At(t, phase) == storageTasks[t].phase = phase
Enters(t, from, phase) == At(t, from) /\ TaskIs(t, [storageTasks[t] EXCEPT !.phase = phase])
Unlock(process) == locks' = [locks EXCEPT ![process] = Unlocked]

-----------------------------------------------------------------------------
(* An update: one at a time in the process (updateMu), to the end.             *)
\* mergeInput: a credential that is left blank is kept.
Merged(form) ==
  [backend |-> form.backend, bucket |-> form.bucket, private |-> form.private,
   credential |-> IF form.credential = "" THEN storageSettings.credential ELSE form.credential,
   edition |-> storageSettings.edition + 1]
ValidConfig(config) == config.backend = "s3" => config.credential # "" /\ config.bucket # ""
BeginUpdate(t) ==
  /\ locks.api = Unlocked /\ At(t, "idle") /\ storageSettings.edition < MaxEditions
  /\ \E form \in Forms :
        /\ ValidConfig(Merged(form))
        /\ TaskIs(t, [NoTask EXCEPT !.phase = "probing", !.config = Merged(form)])
  /\ locks' = [locks EXCEPT !.api = t]
  /\ UNCHANGED <<storageSettings, serving, reserved, objects, commitUnheard>>
\* The probe writes a small object through the prepared, not yet active state.
BackendAnswers(config) == config.backend = "local" \/ <<config.bucket, config.credential>> \in BucketKeys
Probe(t) ==
  /\ \/ BackendAnswers(storageTasks[t].config) /\ Enters(t, "probing", "saving") /\ UNCHANGED locks
     \/ At(t, "probing") /\ TaskIs(t, NoTask) /\ Unlock("api")
  /\ UNCHANGED <<storageSettings, serving, reserved, objects, commitUnheard>>
\* The answer of the commit may be lost.
SaveStorageSettings(t) ==
  /\ At(t, "saving")
  /\ storageSettings' \in {storageSettings, storageTasks[t].config}
  /\ \/ /\ storageSettings' # storageSettings /\ Enters(t, "saving", "activating")
        /\ UNCHANGED <<locks, commitUnheard>>
     \/ /\ TaskIs(t, NoTask) /\ Unlock("api")
        /\ commitUnheard' = (commitUnheard \/ storageSettings' # storageSettings)
  /\ UNCHANGED <<serving, reserved, objects>>
Activate(t) ==
  /\ At(t, "activating") /\ TaskIs(t, NoTask) /\ Unlock("api")
  /\ serving' = [serving EXCEPT !.api = storageTasks[t].config]
  /\ commitUnheard' = FALSE
  /\ UNCHANGED <<storageSettings, reserved, objects>>

-----------------------------------------------------------------------------
(* Uploads, through the state that was active when they began.                 *)
Unused(key) ==
  /\ \A o \in objects : o.key # key
  /\ \A t \in StorageTasks : storageTasks[t].key # key
  /\ \A r \in reserved : r.key # key
BeginUpload(t) ==
  /\ At(t, "idle") /\ serving.api # Unconfigured
  /\ \E key \in StorageKeys, phase \in {"staging", "writing"} :
        /\ Unused(key) /\ (phase = "staging" => PrivateDocumentBackend(serving.api))
        /\ TaskIs(t, [NoTask EXCEPT !.phase = phase, !.config = serving.api, !.key = key])
  /\ UNCHANGED <<storageSettings, serving, locks, reserved, objects, commitUnheard>>
\* A document is reserved before it is written.
StageUpload(t) ==
  /\ Enters(t, "staging", "storing")
  /\ reserved' = reserved \cup
       {Object(storageTasks[t].key, Place(storageTasks[t].config), TRUE, TRUE)}
  /\ UNCHANGED <<storageSettings, serving, locks, objects, commitUnheard>>
\* UploadStream: what was written of a failed upload may remain.
Through(t) == storageTasks[t].config
UploadStream(t) ==
  LET config == Through(t)
      new == Object(storageTasks[t].key, Place(config), At(t, "storing"),
                    PrivateDocumentBackend(config))
  IN /\ At(t, "storing") \/ At(t, "writing")
     /\ TaskIs(t, NoTask)
     /\ objects' \in {objects, objects \cup {new}}
     /\ UNCHANGED <<storageSettings, serving, locks, reserved, commitUnheard>>

-----------------------------------------------------------------------------
(* The worker refreshes its state before it opens or deletes an object.        *)
ActivateStored(t) ==
  \/ /\ At(t, "idle") /\ locks.worker = Unlocked /\ reserved # {}
     /\ locks' = [locks EXCEPT !.worker = t]
     /\ TaskIs(t, [NoTask EXCEPT !.phase = "refreshing", !.config = storageSettings,
                                !.since = storageSettings.edition])
     /\ UNCHANGED <<storageSettings, serving, reserved, objects, commitUnheard>>
  \/ /\ Enters(t, "refreshing", "refreshed") /\ Unlock("worker")
     /\ serving' = [serving EXCEPT !.worker = storageTasks[t].config]
     /\ UNCHANGED <<storageSettings, reserved, objects, commitUnheard>>
\* Only what lies where the active state would put it is touched (cleanupSourceMatches,
\* openRemoteDocument).
SourceMatches(source, config) == source.place = Place(config)
Reads(t) ==
  /\ At(t, "refreshed")
  /\ TaskIs(t, [storageTasks[t] EXCEPT !.phase = "read", !.config = serving.worker])
Open(t) ==
  /\ Reads(t)
  /\ UNCHANGED <<storageSettings, serving, locks, reserved, objects, commitUnheard>>
\* An object that is not there counts as deleted, and its reservation is finished.
DeleteDocument(t) ==
  \E source \in reserved :
     /\ \A u \in StorageTasks : storageTasks[u].key # source.key
     /\ Reads(t)
     /\ PrivateDocumentBackend(serving.worker) /\ SourceMatches(source, serving.worker)
     /\ objects' = {o \in objects : <<o.key, o.place>> # <<source.key, Place(serving.worker)>>}
     /\ reserved' = reserved \ {source}
     /\ UNCHANGED <<storageSettings, serving, locks, commitUnheard>>
JobEnds(t) ==
  /\ At(t, "read") /\ TaskIs(t, NoTask)
  /\ UNCHANGED <<storageSettings, serving, locks, reserved, objects, commitUnheard>>

-----------------------------------------------------------------------------
\* A process ends with its requests; at its start it activates what is stored, or refuses.
OfApi(t) ==
  storageTasks[t].phase \in {"probing", "saving", "activating", "staging", "storing", "writing"}
Restart ==
  \E process \in {"api", "worker"} :
     /\ serving' = [serving EXCEPT ![process] = storageSettings]
     /\ storageTasks' = [t \in StorageTasks |->
                           IF OfApi(t) = (process = "api") THEN NoTask ELSE storageTasks[t]]
     /\ Unlock(process)
     /\ commitUnheard' = (commitUnheard /\ process = "worker")
     /\ UNCHANGED <<storageSettings, reserved, objects>>

StorageNext ==
  \/ \E t \in StorageTasks :
        \/ BeginUpdate(t) \/ Probe(t) \/ SaveStorageSettings(t) \/ Activate(t)
        \/ BeginUpload(t) \/ StageUpload(t) \/ UploadStream(t)
        \/ ActivateStored(t) \/ Open(t) \/ DeleteDocument(t) \/ JobEnds(t)
  \/ Restart

-----------------------------------------------------------------------------
(* Invariants.                                                                *)

\* What the API serves from is what the database holds, whenever no update is under way and
\* no commit's answer was lost: updates do not activate in another order than they commit
\* (UpdateSettings).
ServedIsStored == locks.api = Unlocked /\ ~commitUnheard => serving.api = storageSettings

\* What is stored for the chosen backend was tried as a whole, credential and bucket
\* together, though a form may leave the credential to what an update before it stored.
StoredWasProbed == storageSettings # Unconfigured => BackendAnswers(storageSettings)

\* A document lies where it was reserved, in private storage, until it is deleted, however
\* often the storage is switched between its steps (StoreDocumentWithStaging), and none
\* loses its reservation to a deletion that looked for it elsewhere (DeleteDocument).
DocumentsLieWhereReserved == {o \in objects : o.document} \subseteq reserved

\* A job does not read from settings older than those stored when it began to refresh,
\* whatever other jobs activate between its refresh and its read (ActivateStored).
ReadsAreFresh ==
  \A t \in StorageTasks : At(t, "read") => storageTasks[t].config.edition >= storageTasks[t].since

StorageHolds == ServedIsStored /\ StoredWasProbed /\ DocumentsLieWhereReserved /\ ReadsAreFresh
=============================================================================
