--------------------------- MODULE IngestionUploads ---------------------------
(***************************************************************************)
(* The objects behind uploaded documents.  A document's bytes lie in an    *)
(* object store, its metadata in PostgreSQL, and no transaction spans the  *)
(* two.  An upload request first stages a row for the object, then writes  *)
(* the object, then registers the document, which clears the row; what a   *)
(* failed or stopped request leaves behind is reclaimed by the vector      *)
(* workers: claim rows older than 24 hours under a 15-minute lease, delete *)
(* each object, finish its row.                                            *)
(*                                                                         *)
(* Repository methods run under the advisory lock 'resource_ingestion' and *)
(* are one action each.  A file is one object key: the key holds the       *)
(* client's request id and the checksum, and a transport retry repeats     *)
(* both.  Time is what it decides: a row is due when a staging row is      *)
(* older than 24 hours or the lease of a deleting row has run out.         *)
(*                                                                         *)
(* Assumed of time (the code does not fence these two): a request ends     *)
(* within 24 hours of staging its file, and a cleanup batch, whose context *)
(* lasts one minute, has ended when its 15-minute lease runs out.          *)
(***************************************************************************)
EXTENDS Naturals, FiniteSets

CONSTANTS
  Files,        \* object keys
  Requests,     \* client request ids
  RequestOf,    \* the request id that is part of an object key
  Clients,      \* upload requests in flight at one time
  Cleaners,     \* vector-worker processes running cleanup batches
  Limit,        \* queue limit: 1000, or the tenant's resource_job_limit
  Batch,        \* rows claimed at once (8)
  MaxOthers,    \* bound: rebuild and purge jobs in the queue
  MaxUploads,   \* bound: upload requests ever sent
  None

Rows ==
  [state : {"staging"}, due : BOOLEAN, token : {None}] \cup
  [state : {"deleting"}, due : BOOLEAN, token : Cleaners]

ASSUME UploadsAssumption ==
  /\ Limit \in Nat /\ Batch \in Nat \ {0} /\ MaxOthers \in Nat /\ MaxUploads \in Nat
  /\ None \notin Files \cup Cleaners \cup Requests \cup Rows
  /\ RequestOf \in [Files -> Requests]

VARIABLES
  row,        \* resource_ingestion_uploads: the row of an object key, or None
  older,      \* <<f, g>>: row f has the smaller updated_at
  object,     \* the keys present in the object store
  document,   \* the file registered under a request id, or None
  job,        \* ingest job of a file: "none", "open", "failed" or "done"
  others,     \* pending and running jobs of other kinds
  client,     \* what each upload request in flight has done
  uploads,    \* upload requests sent so far
  cleaner     \* each cleanup batch: what it has left, and what it has just deleted

vars == <<row, older, object, document, job, others, client, uploads, cleaner>>

TypeOK ==
  /\ row \in [Files -> Rows \cup {None}]
  /\ older \in SUBSET (Files \X Files)
  /\ object \in SUBSET Files
  /\ document \in [Requests -> Files \cup {None}]
  /\ job \in [Files -> {"none", "open", "failed", "done"}]
  /\ others \in 0..MaxOthers
  /\ client \in [Clients -> [phase : {"idle"}, file : {None}] \cup [phase : {"staged", "stored"}, file : Files]]
  /\ uploads \in 0..MaxUploads
  /\ cleaner \in [Cleaners -> [todo : SUBSET Files, gone : Files \cup {None}]]

Quiet   == [phase |-> "idle", file |-> None]
Resting == [todo |-> {}, gone |-> None]

Staged(f)     == row[f] # None
Deleting(f)   == Staged(f) /\ row[f].state = "deleting"
Referenced(f) == document[RequestOf[f]] = f
OpenJobs      == Cardinality({f \in Files : job[f] = "open"}) + others
Occupied      == OpenJobs + Cardinality({f \in Files : Staged(f) /\ ~Referenced(f)})

------------------------------------------------------------------------------
(* Upload requests.                                                        *)

Forget(f)  == {p \in older : p[1] # f /\ p[2] # f}
\* updated_at = now: the row becomes the youngest.
Touched(f) == Forget(f) \cup {<<g, f>> : g \in {h \in Files \ {f} : Staged(h)}}

\* Mutant: ON CONFLICT DO NOTHING: a retry does not renew its row.
RefreshNothing(f) ==
  row' = [row EXCEPT ![f] = IF @ = None THEN [state |-> "staging", due |-> FALSE, token |-> None] ELSE @]

Refresh(f) == row' = [row EXCEPT ![f] = [state |-> "staging", due |-> FALSE, token |-> None]]

\* Without a slot, and without a row that already holds one, the request is
\* refused; so is a request for an object that is being deleted.
StageIngestionUpload(c, f) ==
  /\ client[c] = Quiet /\ uploads < MaxUploads
  /\ uploads' = uploads + 1
  /\ IF (~Staged(f) /\ Occupied >= Limit) \/ (~Referenced(f) /\ Deleting(f))
       THEN UNCHANGED <<row, older, client>>
       ELSE /\ client' = [client EXCEPT ![c] = [phase |-> "staged", file |-> f]]
            /\ IF Referenced(f)
                 THEN UNCHANGED <<row, older>>
                 ELSE Refresh(f) /\ older' = Touched(f)
  /\ UNCHANGED <<object, document, job, others, cleaner>>

StoreObject(c) ==
  /\ client[c].phase = "staged"
  /\ object' = object \cup {client[c].file}
  /\ client' = [client EXCEPT ![c].phase = "stored"]
  /\ UNCHANGED <<row, older, document, job, others, uploads, cleaner>>

\* The write fails or times out, and its bytes may have arrived all the same.
StoreFails(c) ==
  /\ client[c].phase = "staged"
  /\ object' \in {object, object \cup {client[c].file}}
  /\ client' = [client EXCEPT ![c] = Quiet]
  /\ UNCHANGED <<row, older, document, job, others, uploads, cleaner>>

Clear(f) == row' = [row EXCEPT ![f] = None] /\ older' = Forget(f)

\* Idempotent per request id; another content under the same id is refused.
RegisterIngestion(c) ==
  LET f == client[c].file
      r == RequestOf[f] IN
  /\ client[c].phase = "stored"
  /\ client' = [client EXCEPT ![c] = Quiet]
  /\ \/ /\ \/ Deleting(f) \/ document[r] \notin {None, f} \/ (document[r] = None /\ OpenJobs >= Limit)
        /\ UNCHANGED <<row, older, document, job>>
     \/ /\ ~Deleting(f) /\ document[r] = f
        /\ Clear(f) /\ UNCHANGED <<document, job>>
     \/ /\ ~Deleting(f) /\ document[r] = None /\ OpenJobs < Limit
        /\ document' = [document EXCEPT ![r] = f]
        /\ job' = [job EXCEPT ![f] = "open"]
        /\ Clear(f)
  /\ UNCHANGED <<object, others, uploads, cleaner>>

\* The caller goes away or the server process stops.
AbandonUpload(c) ==
  /\ client[c].phase = "stored"
  /\ client' = [client EXCEPT ![c] = Quiet]
  /\ UNCHANGED <<row, older, object, document, job, others, uploads, cleaner>>

------------------------------------------------------------------------------
(* The queue the uploads share (see ResourceIngestion for the jobs).       *)

JobEnds(f) ==
  /\ job[f] = "open"
  /\ job' \in {[job EXCEPT ![f] = "done"], [job EXCEPT ![f] = "failed"]}
  /\ UNCHANGED <<row, older, object, document, others, client, uploads, cleaner>>

\* Mutant: A retry asks only for a free job, not for the slots of staged uploads.
RetryIgnoresUploads(f) ==
  /\ job[f] = "failed" /\ OpenJobs < Limit
  /\ job' = [job EXCEPT ![f] = "open"]
  /\ UNCHANGED <<row, older, object, document, others, client, uploads, cleaner>>

RetryIngestion(f) ==
  /\ job[f] = "failed" /\ Occupied < Limit
  /\ job' = [job EXCEPT ![f] = "open"]
  /\ UNCHANGED <<row, older, object, document, others, client, uploads, cleaner>>

\* Rebuilds and purges are enqueued without a look at the limit.
OtherJobs ==
  /\ others' \in 0..MaxOthers \ {others}
  /\ UNCHANGED <<row, older, object, document, job, client, uploads, cleaner>>

------------------------------------------------------------------------------
(* Cleanup of what was never registered.                                   *)

InFlight(f) == \E c \in Clients : client[c].file = f
Handled(f)  == \E k \in Cleaners : f \in cleaner[k].todo \/ cleaner[k].gone = f

\* 24 hours pass since staging, or 15 minutes since the claim.
BecomesDue(f) ==
  /\ Staged(f) /\ ~row[f].due
  /\ IF Deleting(f) THEN ~Handled(f) ELSE ~InFlight(f)
  /\ row' = [row EXCEPT ![f].due = TRUE]
  /\ UNCHANGED <<older, object, document, job, others, client, uploads, cleaner>>

\* Mutant: Rows left in state 'deleting' by a stopped batch are not claimed again.
ClaimableStaging == {f \in Files : Staged(f) /\ row[f].due /\ ~Referenced(f) /\ row[f].state = "staging"}

Claimable == {f \in Files : Staged(f) /\ row[f].due /\ ~Referenced(f)}
\* The first Batch rows ORDER BY updated_at.
Oldest(S) == {f \in S : Cardinality({g \in S : <<g, f>> \in older}) < Batch}

Claimed(k, S) ==
  row' = [f \in Files |->
    CASE f \in S                      -> [state |-> "deleting", due |-> FALSE, token |-> k]
      [] f \notin S /\ Referenced(f)  -> None
      [] OTHER                        -> row[f]]

\* One claim serves a whole batch.  updated_at stays as it was.
ClaimStaleIngestionUploads(k) ==
  /\ cleaner[k] = Resting
  /\ Claimable # {}
  /\ Claimed(k, Oldest(Claimable))
  /\ cleaner' = [cleaner EXCEPT ![k].todo = Oldest(Claimable)]
  /\ older' = {p \in older : ~Referenced(p[1]) /\ ~Referenced(p[2])}
  /\ UNCHANGED <<object, document, job, others, client, uploads>>

DeleteDocument(k, f) ==
  /\ cleaner[k].gone = None /\ f \in cleaner[k].todo
  /\ object' = object \ {f}
  /\ cleaner' = [cleaner EXCEPT ![k] = [todo |-> @.todo \ {f}, gone |-> f]]
  /\ UNCHANGED <<row, older, document, job, others, client, uploads>>

\* Mutant: A failed delete is taken for a finished one.
FailedDeleteCounts(k, f) ==
  /\ cleaner[k].gone = None /\ f \in cleaner[k].todo
  /\ cleaner' = [cleaner EXCEPT ![k] = [todo |-> @.todo \ {f}, gone |-> f]]
  /\ UNCHANGED <<row, older, object, document, job, others, client, uploads>>

\* Mutant: A failed delete hands the row back for another upload at once.
FailureReleasesRow(k, f) ==
  /\ cleaner[k].gone = None /\ f \in cleaner[k].todo
  /\ cleaner' = [cleaner EXCEPT ![k].todo = @ \ {f}]
  /\ row' = [row EXCEPT ![f].state = "staging"]
  /\ UNCHANGED <<older, object, document, job, others, client, uploads>>

\* The batch goes on with the next item; the lease of this one runs out.
DeleteFails(k, f) ==
  /\ cleaner[k].gone = None /\ f \in cleaner[k].todo
  /\ cleaner' = [cleaner EXCEPT ![k].todo = @ \ {f}]
  /\ UNCHANGED <<row, older, object, document, job, others, client, uploads>>

Holds(k, f) == Deleting(f) /\ row[f].token = k /\ ~row[f].due

FinishIngestionUploadCleanup(k) ==
  LET f == cleaner[k].gone IN
  /\ f # None
  /\ IF Holds(k, f) THEN Clear(f) ELSE UNCHANGED <<row, older>>
  /\ cleaner' = [cleaner EXCEPT ![k].gone = None]
  /\ UNCHANGED <<object, document, job, others, client, uploads>>

\* The batch context ends or the process stops, before or after a deletion.
StopBatch(k) ==
  /\ cleaner[k] # Resting
  /\ cleaner' = [cleaner EXCEPT ![k] = Resting]
  /\ UNCHANGED <<row, older, object, document, job, others, client, uploads>>

------------------------------------------------------------------------------
Init ==
  /\ row = [f \in Files |-> None]
  /\ older = {} /\ object = {}
  /\ document = [r \in Requests |-> None]
  /\ job = [f \in Files |-> "none"]
  /\ others = 0
  /\ client = [c \in Clients |-> Quiet]
  /\ uploads = 0
  /\ cleaner = [k \in Cleaners |-> Resting]

Upload(c) ==
  \/ \E f \in Files : StageIngestionUpload(c, f)
  \/ StoreObject(c) \/ StoreFails(c) \/ RegisterIngestion(c) \/ AbandonUpload(c)

RunCleanupBatch(k) ==
  \/ ClaimStaleIngestionUploads(k)
  \/ \E f \in Files : DeleteDocument(k, f) \/ DeleteFails(k, f)
  \/ FinishIngestionUploadCleanup(k)
  \/ StopBatch(k)

Queue == OtherJobs \/ \E f \in Files : JobEnds(f) \/ RetryIngestion(f) \/ BecomesDue(f)

Next == (\E c \in Clients : Upload(c)) \/ (\E k \in Cleaners : RunCleanupBatch(k)) \/ Queue

Spec == Init /\ [][Next]_vars

\* Requests end and time passes; the vector workers keep running batches, and
\* neither the storage nor the workers fail for ever.
FairSpec ==
  /\ Spec
  /\ \A c \in Clients : WF_vars(StoreObject(c) \/ StoreFails(c)) /\ WF_vars(RegisterIngestion(c) \/ AbandonUpload(c))
  /\ \A f \in Files : WF_vars(BecomesDue(f))
  /\ \A k \in Cleaners :
       /\ WF_vars(ClaimStaleIngestionUploads(k))
       /\ SF_vars(FinishIngestionUploadCleanup(k))
       /\ WF_vars(\E f \in Files : DeleteDocument(k, f) \/ DeleteFails(k, f))
       /\ \A f \in Files : SF_vars(DeleteDocument(k, f))

------------------------------------------------------------------------------
(* Properties.                                                             *)

\* A registered document always has its object: cleanup deletes nothing that
\* a request has registered, or is about to register, under the same key.
RegisteredObjectKept == \A f \in Files : Referenced(f) => f \in object

\* Every object without a document has a row, so cleanup can still find it,
\* wherever the request that wrote it stopped.
ObjectsAreTracked == \A f \in object : Referenced(f) \/ Staged(f)

\* Uploads and retries never push the queue above its limit, although the
\* slot of an upload moves from its row to its job while rebuilds and purges
\* come and go without asking.
UploadsRespectLimit ==
  [][Occupied' > Occupied /\ others' = others => Occupied' <= Limit]_vars

\* An abandoned row and its object are eventually gone, unless the document is
\* registered after all: neither the queue slot nor the space leaks.
AbandonedIsReclaimed ==
  \A f \in Files :
    (Staged(f) ~> ~Staged(f) /\ (f \in object => Referenced(f)))

===============================================================================
