-------------------------- MODULE ResourceIngestion --------------------------
(***************************************************************************)
(* The resource ingestion pipeline of one knowledge base: PostgreSQL holds *)
(* documents, index generations, jobs and chunk manifests; Qdrant holds    *)
(* one collection of points per generation; workers move documents from    *)
(* one to the other under a lease.  The two stores share no transaction.   *)
(*                                                                         *)
(* Every repository method that changes metadata runs in one transaction   *)
(* under the advisory lock 'resource_ingestion' (withIngestionTx), so it   *)
(* is one action here, and the metadata it reads and writes is the record  *)
(* db: a handler is a function from db to db.  Parsing, embedding and      *)
(* every Qdrant call happen outside of it and are steps of their own.      *)
(*                                                                         *)
(* Abstractions.  A document has one version (the code creates no other),  *)
(* and its chunks move together: one manifest and one point stand for all  *)
(* the chunks of a document in a generation.  The vector and payload of a  *)
(* point are its embedding_sha256.  Time is what it decides: a lease is    *)
(* live or expired, a retired generation is inside or outside its seven    *)
(* days, a finished job may be older than thirty.  Backoff (available_at)  *)
(* and job priority are the free choice among claimable jobs.              *)
(***************************************************************************)
EXTENDS Naturals

CONSTANTS
  Docs,         \* uploaded documents, each one resource of the knowledge base
  Owners,       \* worker goroutines, each with its own lease owner identity
  Models,       \* verified embedding model versions
  Hashes,       \* embedding hashes a provider may return for a document
  MaxGen,       \* bound: generations the knowledge base may ever number
  MaxAttempts,  \* resource_processing_jobs.max_attempts
  None          \* no owner, no hash, no point, no job, no model

ASSUME ConstantsAssumption ==
  /\ MaxGen \in Nat \ {0}
  /\ MaxAttempts \in Nat \ {0}
  /\ None \notin Owners \cup Hashes \cup Models
  /\ Models # {}

VARIABLES
  db,      \* the metadata in PostgreSQL, see DBType
  model,   \* the active embedding_model_versions row of resource_embedding
  point,   \* Qdrant: the hash stored for a document in a generation, or None
  worker,  \* what each worker goroutine holds in memory
  sweep    \* points a reconciliation pass has judged extra and not yet deleted

vars == <<db, model, point, worker, sweep>>

Gens  == 1..MaxGen
Kinds == {"ingest", "rebuild", "purge"}
Keys  == [kind : Kinds, doc : Docs, gen : Gens]
Key(kind, d, g) == [kind |-> kind, doc |-> d, gen |-> g]

Terminal == {"succeeded", "failed", "dead", "cancelled"}
Statuses == {"pending", "running"} \cup Terminal
JobRows  == [status : Statuses, attempt : 0..MaxAttempts, owner : Owners \cup {None}, expired : BOOLEAN]

\* NULL is neither a row nor an outcome.
ASSUME NoneAssumption == None \notin JobRows /\ None \notin [key : Keys, status : Statuses]

Phases == {"idle", "claimed", "prepared", "written", "deleted", "verified"}

DBType ==
  [ content  : [Docs -> {"none", "DRAFT", "PUBLISHED", "ARCHIVED", "deleted"}],
    chunked  : [Docs -> BOOLEAN],      \* chunk_count > 0: the chunks are stored
    released : [Docs -> BOOLEAN],      \* document_versions.published_at IS NOT NULL
    ready    : [Docs -> BOOLEAN],      \* process_status succeeded, index_status ready
    indexGen : [Docs -> 0..MaxGen],    \* document_versions.index_generation
    state    : [Gens -> {"none", "building", "ready", "active", "retired", "failed"}],
    genModel : [Gens -> Models \cup {None}],
    approved : [Gens -> BOOLEAN],      \* release_approved
    retained : [Gens -> BOOLEAN],      \* retired less than seven days ago
    serving  : 0..MaxGen,              \* knowledge_bases.active_generation
    jobs     : [Keys -> JobRows \cup {None}],
    newer    : SUBSET (Keys \X Keys),  \* <<j, k>>: row j was created after row k
    outcome  : [Docs -> [key : Keys, status : Statuses] \cup {None}],  \* last_ingestion_job
    manifest : [Docs -> [Gens -> {"none", "pending", "indexed", "deleted"}]],
    hash     : [Docs -> [Gens -> Hashes \cup {None}]] ]                \* embedding_sha256

WorkerType == [phase : Phases, job : Keys \cup {None}, attempt : 0..MaxAttempts, hash : Hashes \cup {None}]

TypeOK ==
  /\ db \in DBType
  /\ model \in Models
  /\ point \in [Docs -> [Gens -> Hashes \cup {None}]]
  /\ worker \in [Owners -> WorkerType]
  /\ sweep \subseteq Docs \X Gens

------------------------------------------------------------------------------
(* Documents and the job-state view.                                       *)

Live(s, d) == s.content[d] \in {"DRAFT", "PUBLISHED"}

Status(s, k)  == IF s.jobs[k] = None THEN "none" ELSE s.jobs[k].status
Queued(s, k)  == Status(s, k) \in {"pending", "running"}
Servable(s, g) == s.state[g] \in {"active", "building", "ready"}

\* The archived half of ingestionJobStateSQL: the compact outcome of a document
\* counts while its own row is gone and no surviving row is younger.
Archived(s, d) ==
  /\ s.outcome[d] # None
  /\ s.jobs[s.outcome[d].key] = None
  /\ \A k \in Keys : k.doc = d /\ s.jobs[k] # None => <<k, s.outcome[d].key>> \notin s.newer

\* The status ingestionJobStateSQL reports for a job, "none" if it reports no row.
Outcome(s, k) ==
  IF s.jobs[k] # None THEN s.jobs[k].status
  ELSE IF Archived(s, k.doc) /\ s.outcome[k.doc].key = k THEN s.outcome[k.doc].status
  ELSE "none"

\* ingestionStatusSelect: the youngest job of a document, live or archived.
LatestJobs(s, d) ==
  {k \in Keys : /\ k.doc = d /\ Outcome(s, k) # "none"
                /\ \A j \in Keys : j.doc = d /\ Outcome(s, j) # "none" => <<j, k>> \notin s.newer}

CanRetry(s, d) == Live(s, d) /\ \E k \in LatestJobs(s, d) : Outcome(s, k) \in {"dead", "failed"}

Indexed(s, d, g) == s.chunked[d] /\ s.manifest[d][g] = "indexed"

------------------------------------------------------------------------------
(* The building blocks the transactions share.                             *)

FreshJob == [status |-> "pending", attempt |-> 0, owner |-> None, expired |-> FALSE]

\* enqueueIngestion for every key of K: a queued job is left alone, a terminal one
\* restarts from attempt 0 and keeps its age, a missing one is inserted as youngest.
Enqueue(s, K) ==
  LET new == {k \in K : s.jobs[k] = None}
  IN [s EXCEPT
        !.jobs  = [k \in Keys |-> IF k \in K /\ ~Queued(s, k) THEN FreshJob ELSE s.jobs[k]],
        !.newer = {p \in @ : p[1] \notin new /\ p[2] \notin new}
                    \cup {p \in new \X (Keys \ new) : p[1].doc = p[2].doc}]

\* The jobs enqueueGenerationVersions enqueues: every live document that is not
\* completely indexed in g.
MissingVersions(s, g) ==
  {Key(IF s.content[d] = "DRAFT" THEN "ingest" ELSE "rebuild", d, g)
     : d \in {e \in Docs : Live(s, e) /\ ~Indexed(s, e, g)}}

\* What stops a switch: an unsettled job of a live document.
Barrier(s, g) ==
  \E k \in Keys : /\ k.gen = g /\ k.kind # "purge" /\ Live(s, k.doc)
                  /\ Outcome(s, k) \notin {"none", "succeeded", "cancelled"}

\* Mutant: only drafts are examined, published documents are taken for granted.
IncompleteDrafts(s, g) ==
  \E d \in Docs : /\ s.content[d] = "DRAFT" /\ Outcome(s, Key("ingest", d, g)) = "succeeded"
                  /\ ~Indexed(s, d, g)

Incomplete(s, g) ==
  \E d \in Docs : /\ \/ s.content[d] = "PUBLISHED"
                     \/ s.content[d] = "DRAFT" /\ Outcome(s, Key("ingest", d, g)) = "succeeded"
                  /\ ~Indexed(s, d, g)

\* The documents a switch to g publishes for the first time.
Arriving(s, g) ==
  {d \in Docs : s.content[d] = "DRAFT" /\ Outcome(s, Key("ingest", d, g)) = "succeeded"}

\* The documents whose version a switch to g points at g: those just built there and
\* those published after it.
Released(s, g) ==
  {d \in Docs : Live(s, d) /\ \E kind \in {"ingest", "rebuild"} : Outcome(s, Key(kind, d, g)) = "succeeded"}

Repointed(s, g) == Released(s, g) \cup {d \in Docs : s.content[d] = "PUBLISHED"}

\* The all-at-once switch of the publication contracts to g.
SwitchTo(s, g) ==
  [s EXCEPT
     !.content  = [d \in Docs |-> IF d \in Arriving(s, g) THEN "PUBLISHED" ELSE s.content[d]],
     !.released = [d \in Docs |-> s.released[d] \/ d \in Released(s, g)],
     !.ready    = [d \in Docs |-> s.ready[d] \/ d \in Repointed(s, g)],
     !.indexGen = [d \in Docs |-> IF d \in Repointed(s, g) THEN g ELSE s.indexGen[d]],
     !.retained = [h \in Gens |-> s.retained[h] \/ (s.state[h] = "active" /\ h # g)],
     !.state    = [h \in Gens |-> IF h = g THEN "active"
                                  ELSE IF s.state[h] = "active" THEN "retired" ELSE s.state[h]],
     !.serving  = g]

\* Mutant: a complete build goes live without approval.
ActivateUnapproved(s, g, m) ==
  IF s.state[g] \notin {"building", "ready"} \/ s.genModel[g] # m \/ Barrier(s, g) THEN s
  ELSE IF Incomplete(s, g) THEN Enqueue(s, MissingVersions(s, g))
  ELSE SwitchTo(s, g)

\* activateIngestionGeneration: m is the active embedding model.
Activate(s, g, m) ==
  IF s.state[g] \notin {"building", "ready"} \/ s.genModel[g] # m \/ Barrier(s, g) THEN s
  ELSE IF Incomplete(s, g) THEN Enqueue(s, MissingVersions(s, g))
  ELSE IF ~s.approved[g] THEN [s EXCEPT !.state[g] = "ready"]
  ELSE SwitchTo(s, g)

Builds(s) == {g \in Gens : s.state[g] \in {"building", "ready"}}
Youngest(G) == CHOOSE g \in G : \A h \in G : h <= g
NextGen(s) == 1 + Youngest({0} \cup {g \in Gens : s.state[g] # "none"})

\* ingestionGenerationForModel: the generation new work for model m goes to.
Reusable(s, m, force) ==
  IF ~force /\ s.serving > 0 /\ s.state[s.serving] = "active" /\ s.genModel[s.serving] = m
  THEN {s.serving}
  ELSE {g \in Builds(s) : s.genModel[g] = m}

GenerationFor(s, m, force) ==
  IF Reusable(s, m, force) # {} THEN Youngest(Reusable(s, m, force)) ELSE NextGen(s)

Cancel(s, K) ==
  [s EXCEPT !.jobs = [k \in Keys |->
     IF k \in K /\ Status(s, k) \in {"pending", "running", "failed", "dead"}
     THEN [s.jobs[k] EXCEPT !.status = "cancelled", !.owner = None, !.expired = FALSE]
     ELSE s.jobs[k]]]

\* A superseded build fails and its jobs are cancelled; its successor is numbered
\* next and may go live unattended only where nothing is served yet.
Supersede(s, m) ==
  LET g == NextGen(s)
      t == Cancel(s, {k \in Keys : k.gen \in Builds(s)})
      u == [t EXCEPT
              !.state    = [h \in Gens |-> IF h = g THEN "building"
                                           ELSE IF h \in Builds(s) THEN "failed" ELSE @[h]],
              !.genModel[g] = m,
              !.approved[g] = (s.serving = 0)]
  IN Enqueue(u, MissingVersions(u, g))

WithGeneration(s, m, force) == IF Reusable(s, m, force) # {} THEN s ELSE Supersede(s, m)

\* Bound: no run numbers more than MaxGen generations.
GenAvailable(s, m, force) == GenerationFor(s, m, force) \in Gens

------------------------------------------------------------------------------
(* Uploading, retrying and withdrawing a document (the resource owner).    *)

\* RegisterIngestion: a draft document and its ingest job, in the serving generation
\* or in the build that replaces it.  A repeated registration changes nothing.
RegisterIngestion(d) ==
  /\ db.content[d] = "none"
  /\ GenAvailable(db, model, FALSE)
  /\ LET g == GenerationFor(db, model, FALSE)
         s == WithGeneration(db, model, FALSE)
     IN db' = Enqueue([s EXCEPT !.content[d] = "DRAFT"], {Key("ingest", d, g)})
  /\ UNCHANGED <<model, point, worker, sweep>>

\* RetryIngestion: the failed latest job of a live document runs again, in the build
\* it belonged to if that build is still wanted.
RetryIngestion(d) ==
  /\ CanRetry(db, d)
  /\ \E k \in LatestJobs(db, d) :
       LET build == k.gen \in Builds(db) /\ db.genModel[k.gen] = model
           g     == GenerationFor(db, model, build)
           s     == WithGeneration(db, model, build)
           kind  == IF db.content[d] = "PUBLISHED" THEN "rebuild" ELSE "ingest"
       IN /\ GenAvailable(db, model, build)
          /\ db' = [Enqueue(s, {Key(kind, d, g)}) EXCEPT !.ready[d] = @ /\ db.released[d]]
  /\ UNCHANGED <<model, point, worker, sweep>>

\* WithdrawIngestion: invisible at once, the points are purged generation by
\* generation later.  Unpublishing and then deleting is two withdrawals.
WithdrawIngestion(d, deleted) ==
  /\ db.content[d] \in {"DRAFT", "PUBLISHED"} \cup (IF deleted THEN {"ARCHIVED"} ELSE {})
  /\ LET own  == {k \in Keys : k.doc = d /\ k.kind # "purge"}
         s    == [Cancel(db, own) EXCEPT
                    !.content[d] = IF deleted THEN "deleted" ELSE "ARCHIVED",
                    !.ready[d]   = FALSE,
                    !.outcome[d] = IF @ # None /\ @.key.kind # "purge" /\ @.status \in {"failed", "dead"}
                                   THEN [@ EXCEPT !.status = "cancelled"] ELSE @]
         t    == Enqueue(s, {Key("purge", d, g) : g \in {h \in Gens : s.state[h] # "none"}})
     IN db' = IF Builds(t) = {} THEN t ELSE Activate(t, Youngest(Builds(t)), model)
  /\ UNCHANGED <<model, point, worker, sweep>>

------------------------------------------------------------------------------
(* The worker: claim, work outside of any transaction, commit under the    *)
(* fence.  worker[o] is what survives in its memory between two calls.     *)

Idle == [phase |-> "idle", job |-> None, attempt |-> 0, hash |-> None]

\* Mutant: the fence looks the job up by its id alone.
FencedById(o) ==
  LET k == worker[o].job
  IN k # None /\ db.jobs[k] # None /\ ~db.jobs[k].expired

\* fencedIngestionWork: the caller still owns this attempt, its lease has not run
\* out, and, except for a purge, the document and generation are still wanted.
Fenced(o) ==
  LET k == worker[o].job
      j == db.jobs[k]
  IN /\ k # None
     /\ j # None
     /\ j.status = "running" /\ j.owner = o /\ j.attempt = worker[o].attempt /\ ~j.expired
     /\ k.kind = "purge" \/ (Live(db, k.doc) /\ Servable(db, k.gen))

\* Mutant: an expired lease on the last attempt is overlooked.
ExhaustedPending(s, k) == s.jobs[k] # None /\ s.jobs[k].attempt >= MaxAttempts /\ s.jobs[k].status = "pending"

Exhausted(s, k) ==
  /\ s.jobs[k] # None /\ s.jobs[k].attempt >= MaxAttempts
  /\ s.jobs[k].status = "pending" \/ (s.jobs[k].status = "running" /\ s.jobs[k].expired)

\* The sweep every claim starts with: jobs out of attempts are dead.
BuryExhausted(s) ==
  [s EXCEPT !.jobs = [k \in Keys |->
     IF Exhausted(s, k) THEN [s.jobs[k] EXCEPT !.status = "dead", !.owner = None, !.expired = FALSE]
     ELSE s.jobs[k]]]

\* Mutant: off by one, a job may be claimed once more than max_attempts.
ClaimableOnceMore(s, k) ==
  /\ s.jobs[k] # None /\ s.jobs[k].attempt <= MaxAttempts
  /\ s.jobs[k].status = "pending" \/ (s.jobs[k].status = "running" /\ s.jobs[k].expired)
  /\ k.kind = "purge" \/ Servable(s, k.gen)

Claimable(s, k) ==
  /\ s.jobs[k] # None /\ s.jobs[k].attempt < MaxAttempts
  /\ s.jobs[k].status = "pending" \/ (s.jobs[k].status = "running" /\ s.jobs[k].expired)
  /\ k.kind = "purge" \/ Servable(s, k.gen)

ClaimJob(o, k) ==
  /\ worker[o].phase = "idle"
  /\ Claimable(db, k)
  /\ LET j == [status |-> "running", attempt |-> db.jobs[k].attempt + 1, owner |-> o, expired |-> FALSE]
     IN /\ db' = [BuryExhausted(db) EXCEPT
                    !.jobs[k] = j,
                    !.ready[k.doc] = @ /\ (k.kind = "ingest" => db.released[k.doc])]
        /\ worker' = [worker EXCEPT ![o] = [Idle EXCEPT !.phase = "claimed", !.job = k, !.attempt = j.attempt]]
  /\ UNCHANGED <<model, point, sweep>>

ClaimIngestionJob(o) == \E k \in Keys : ClaimJob(o, k)

\* A poll that finds no candidate still commits the sweep.
PollEmpty(o) ==
  /\ worker[o].phase = "idle"
  /\ \A k \in Keys : ~Claimable(db, k)
  /\ db' = BuryExhausted(db)
  /\ UNCHANGED <<model, point, worker, sweep>>

\* The model check and PrepareIngestionChunks: chunks are stored by the first ingest
\* and reused ever after; a missing manifest of the generation is inserted.
PrepareIngestionChunks(o) ==
  LET k == worker[o].job
  IN /\ worker[o].phase = "claimed" /\ k.kind # "purge"
     /\ Fenced(o) /\ db.genModel[k.gen] = model
     /\ db.chunked[k.doc] \/ k.kind = "ingest"
     /\ db' = [db EXCEPT
                 !.chunked[k.doc] = TRUE,
                 !.manifest[k.doc][k.gen] = IF @ = "none" THEN "pending" ELSE @,
                 !.ready[k.doc] = @ /\ db.released[k.doc]]
     /\ worker' = [worker EXCEPT ![o].phase = "prepared"]
     /\ UNCHANGED <<model, point, sweep>>

\* writeBatch up to the upsert.  Qdrant asks for no fence: a worker whose lease is
\* long gone overwrites whatever is there.
UpsertPoints(o) ==
  LET k == worker[o].job
  IN /\ worker[o].phase = "prepared"
     /\ \E h \in Hashes :
          /\ point' = [point EXCEPT ![k.doc][k.gen] = h]
          /\ worker' = [worker EXCEPT ![o].phase = "written", ![o].hash = h]
     /\ UNCHANGED <<db, model, sweep>>

\* writeBatch reads its points back and process counts them.
VerifyPoints(o) ==
  LET k == worker[o].job
  IN /\ worker[o].phase = "written"
     /\ point[k.doc][k.gen] = worker[o].hash
     /\ worker' = [worker EXCEPT ![o].phase = "verified"]
     /\ UNCHANGED <<db, model, point, sweep>>

DeletePoints(o) ==
  LET k == worker[o].job
  IN /\ worker[o].phase = "claimed" /\ k.kind = "purge"
     /\ point' = [point EXCEPT ![k.doc][k.gen] = None]
     /\ worker' = [worker EXCEPT ![o].phase = "deleted"]
     /\ UNCHANGED <<db, model, sweep>>

CountDeleted(o) ==
  LET k == worker[o].job
  IN /\ worker[o].phase = "deleted"
     /\ point[k.doc][k.gen] = None
     /\ worker' = [worker EXCEPT ![o].phase = "verified"]
     /\ UNCHANGED <<db, model, point, sweep>>

\* publishIngestionVersion: in the serving generation a document goes live by itself.
PublishVersion(s, d, g) ==
  IF s.state[g] # "active" THEN s
  ELSE [s EXCEPT !.released[d] = TRUE, !.ready[d] = TRUE, !.indexGen[d] = g, !.content[d] = "PUBLISHED"]

Succeed(s, k) ==
  [s EXCEPT !.jobs[k].status = "succeeded", !.jobs[k].owner = None, !.jobs[k].expired = FALSE]

Purged(s, k) ==
  [s EXCEPT !.manifest[k.doc][k.gen] = IF @ = "none" THEN @ ELSE "deleted"]

\* A document finished while another generation builds becomes part of that build.
Propagate(s, k) ==
  Enqueue(s, {Key("rebuild", k.doc, g) : g \in {h \in Gens : s.state[h] = "building" /\ h # k.gen}})

Finished(k, h) ==
  IF k.kind = "purge" THEN Activate(Succeed(Purged(db, k), k), k.gen, model)
  ELSE LET s == [db EXCEPT !.manifest[k.doc][k.gen] = "indexed", !.hash[k.doc][k.gen] = h]
           t == Activate(Succeed(PublishVersion(s, k.doc, k.gen), k), k.gen, model)
       IN Propagate(t, k)

\* Mutant: the embedding model is not compared again at the commit.
CompleteUnderAnyModel(o) ==
  LET k == worker[o].job
  IN /\ worker[o].phase = "verified"
     /\ Fenced(o)
     /\ k.kind = "purge" \/ db.manifest[k.doc][k.gen] # "none"
     /\ db' = Finished(k, worker[o].hash)
     /\ worker' = [worker EXCEPT ![o] = Idle]
     /\ UNCHANGED <<model, point, sweep>>

CompleteIngestionJob(o) ==
  LET k == worker[o].job
  IN /\ worker[o].phase = "verified"
     /\ Fenced(o)
     /\ k.kind = "purge" \/ (db.genModel[k.gen] = model /\ db.manifest[k.doc][k.gen] # "none")
     /\ db' = Finished(k, worker[o].hash)
     /\ worker' = [worker EXCEPT ![o] = Idle]
     /\ UNCHANGED <<model, point, sweep>>

\* FailIngestionJob, after any error of any step before the completion.
FailIngestionJob(o, retryable) ==
  LET k == worker[o].job
      out == IF ~retryable THEN "failed"
             ELSE IF db.jobs[k].attempt >= MaxAttempts THEN "dead" ELSE "pending"
  IN /\ worker[o].phase # "idle"
     /\ Fenced(o)
     /\ db' = [db EXCEPT !.jobs[k].status = out, !.jobs[k].owner = None,
                         !.ready[k.doc] = @ /\ (k.kind = "ingest" => db.released[k.doc])]
     /\ worker' = [worker EXCEPT ![o] = Idle]
     /\ UNCHANGED <<model, point, sweep>>

\* The process stops, or a heartbeat or a commit finds the fence closed: the work in
\* memory is dropped and the database keeps what it had.
AbandonWork(o) ==
  /\ worker[o].phase # "idle"
  /\ worker' = [worker EXCEPT ![o] = Idle]
  /\ UNCHANGED <<db, model, point, sweep>>

\* No heartbeat arrived within LeaseDuration.
ExpireLease(k) ==
  /\ Status(db, k) = "running" /\ ~db.jobs[k].expired
  /\ db' = [db EXCEPT !.jobs[k].expired = TRUE]
  /\ UNCHANGED <<model, point, worker, sweep>>

------------------------------------------------------------------------------
(* Administration.                                                         *)

\* ActivateEmbeddingModelVersion: one active version, the previous one is retired.
ActivateEmbeddingModelVersion(m) ==
  /\ m # model
  /\ model' = m
  /\ UNCHANGED <<db, point, worker, sweep>>

\* BeginIngestionRebuild: a build for the active model that waits for approval.
BeginIngestionRebuild ==
  /\ GenAvailable(db, model, TRUE)
  /\ LET g == GenerationFor(db, model, TRUE)
         s == WithGeneration(db, model, TRUE)
         t == [Enqueue(s, MissingVersions(s, g)) EXCEPT !.approved[g] = FALSE]
     IN db' = Activate(t, g, model)
  /\ UNCHANGED <<model, point, worker, sweep>>

\* switchOperationsGeneration: g from its expected state straight to active, or not
\* at all: a switch that activateIngestionGeneration does not finish is rolled back.
Switch(g, from) ==
  /\ db.state[g] = from /\ db.genModel[g] = model
  /\ \A h \in Builds(db) : h = g
  /\ LET s == [db EXCEPT !.state[g] = "ready", !.approved[g] = TRUE, !.retained[g] = FALSE]
         t == Activate(s, g, model)
     IN /\ t.state[g] = "active"
        /\ db' = t
  /\ UNCHANGED <<model, point, worker, sweep>>

Promote(g) == Switch(g, "ready")

Rollback(g) == db.retained[g] /\ Switch(g, "retired")

\* retryOperationsJob
RetryOperationsJob(k) ==
  /\ Status(db, k) \in {"dead", "failed"}
  /\ k.kind = "purge" \/ Servable(db, k.gen)
  /\ db' = [db EXCEPT !.jobs[k] = FreshJob]
  /\ UNCHANGED <<model, point, worker, sweep>>

\* The seven days after retired_at are over.
EndRetention(g) ==
  /\ db.state[g] = "retired" /\ db.retained[g]
  /\ db' = [db EXCEPT !.retained[g] = FALSE]
  /\ UNCHANGED <<model, point, worker, sweep>>

\* Mutant: the removed job replaces the compact outcome even if that is younger.
CleanupForgetsAge(k) ==
  /\ Status(db, k) \in Terminal
  /\ db' = [db EXCEPT !.jobs[k] = None, !.outcome[k.doc] = [key |-> k, status |-> Status(db, k)]]
  /\ UNCHANGED <<model, point, worker, sweep>>

\* CleanupIngestionHistory of one terminal job older than thirty days: its outcome
\* replaces the document's compact outcome unless that one is younger.
CleanupIngestionHistory(k) ==
  /\ Status(db, k) \in Terminal
  /\ LET old == db.outcome[k.doc]
         keep == old # None /\ <<old.key, k>> \in db.newer
     IN db' = [db EXCEPT !.jobs[k] = None,
                         !.outcome[k.doc] = IF keep THEN old ELSE [key |-> k, status |-> Status(db, k)]]
  /\ UNCHANGED <<model, point, worker, sweep>>

------------------------------------------------------------------------------
(* Reconciliation of Qdrant with the manifests.                            *)

\* Mutant: a retired generation is worthless at once, rollback or not.
DesiredUnretired(s, d, g) ==
  Servable(s, g) /\ Live(s, d) /\ s.manifest[d][g] \notin {"none", "deleted"}

\* Mutant: nobody asks whether the document was withdrawn.
DesiredWithdrawn(s, d, g) ==
  /\ Servable(s, g) \/ (s.state[g] = "retired" /\ s.retained[g])
  /\ s.manifest[d][g] \notin {"none", "deleted"}

\* queryIngestionManifests: desired.  A point without a manifest is undesired too.
Desired(s, d, g) ==
  /\ Servable(s, g) \/ (s.state[g] = "retired" /\ s.retained[g])
  /\ Live(s, d)
  /\ s.manifest[d][g] \notin {"none", "deleted"}

Mismatched(d, g) == db.manifest[d][g] = "indexed" /\ point[d][g] # db.hash[d][g]

\* ScheduleIngestionRepair, called for a desired manifest whose point is missing or wrong.
ScheduleIngestionRepair(d, g) ==
  /\ Desired(db, d, g) /\ Mismatched(d, g)
  /\ Servable(db, g) /\ db.genModel[g] = model
  /\ db.content[d] = "PUBLISHED"
  /\ \A kind \in Kinds : ~Queued(db, Key(kind, d, g))
  /\ db' = Enqueue(db, {Key("rebuild", d, g)})
  /\ UNCHANGED <<model, point, worker, sweep>>

\* Reconcile reads a page of points and then their manifests ...
JudgePoints(g) ==
  /\ sweep = {}
  /\ sweep' = {p \in Docs \X {g} : point[p[1]][g] # None /\ ~Desired(db, p[1], g)}
  /\ UNCHANGED <<db, model, point, worker>>

\* ... and deletes the extra ones in a later call.
RemovePoints ==
  /\ sweep # {}
  /\ point' = [d \in Docs |-> [g \in Gens |-> IF <<d, g>> \in sweep THEN None ELSE point[d][g]]]
  /\ sweep' = {}
  /\ UNCHANGED <<db, model, worker>>

------------------------------------------------------------------------------
Init ==
  /\ db = [content  |-> [d \in Docs |-> "none"],
           chunked  |-> [d \in Docs |-> FALSE],
           released |-> [d \in Docs |-> FALSE],
           ready    |-> [d \in Docs |-> FALSE],
           indexGen |-> [d \in Docs |-> 0],
           state    |-> [g \in Gens |-> "none"],
           genModel |-> [g \in Gens |-> None],
           approved |-> [g \in Gens |-> FALSE],
           retained |-> [g \in Gens |-> FALSE],
           serving  |-> 0,
           jobs     |-> [k \in Keys |-> None],
           newer    |-> {},
           outcome  |-> [d \in Docs |-> None],
           manifest |-> [d \in Docs |-> [g \in Gens |-> "none"]],
           hash     |-> [d \in Docs |-> [g \in Gens |-> None]]]
  /\ model \in Models
  /\ point = [d \in Docs |-> [g \in Gens |-> None]]
  /\ worker = [o \in Owners |-> Idle]
  /\ sweep = {}

OwnerStep(d) ==
  \/ RegisterIngestion(d)
  \/ RetryIngestion(d)
  \/ \E deleted \in BOOLEAN : WithdrawIngestion(d, deleted)

Poll(o) == ClaimIngestionJob(o) \/ PollEmpty(o)

WorkerStep(o) ==
  \/ PrepareIngestionChunks(o)
  \/ UpsertPoints(o)
  \/ VerifyPoints(o)
  \/ DeletePoints(o)
  \/ CountDeleted(o)
  \/ CompleteIngestionJob(o)
  \/ \E retryable \in BOOLEAN : FailIngestionJob(o, retryable)
  \/ AbandonWork(o)

AdminStep ==
  \/ \E m \in Models : ActivateEmbeddingModelVersion(m)
  \/ BeginIngestionRebuild
  \/ \E g \in Gens : Promote(g) \/ Rollback(g)
  \/ \E k \in Keys : RetryOperationsJob(k)

TimeStep ==
  \/ \E k \in Keys : ExpireLease(k)
  \/ \E g \in Gens : EndRetention(g)
  \/ \E k \in Keys : CleanupIngestionHistory(k)

ReconcileStep ==
  \/ \E d \in Docs, g \in Gens : ScheduleIngestionRepair(d, g)
  \/ \E g \in Gens : JudgePoints(g)
  \/ RemovePoints

Next ==
  \/ \E d \in Docs : OwnerStep(d)
  \/ \E o \in Owners : Poll(o) \/ WorkerStep(o)
  \/ AdminStep
  \/ TimeStep
  \/ ReconcileStep

Spec == Init /\ [][Next]_vars

\* The scheduling the deployment guarantees: workers poll and work on, claims go by age
\* so that no claimable job is passed over for ever, heartbeats end with the job timeout,
\* and the reconciliation loop returns to every generation.
Fairness ==
  /\ \A o \in Owners : WF_vars(WorkerStep(o)) /\ WF_vars(PollEmpty(o))
  /\ \A k \in Keys : SF_vars(\E o \in Owners : ClaimJob(o, k)) /\ WF_vars(ExpireLease(k))
  /\ \A g \in Gens : WF_vars(JudgePoints(g))
  /\ WF_vars(RemovePoints)

------------------------------------------------------------------------------
(* Safety.                                                                 *)

\* The knowledge base serves exactly the one active generation, and at most one build
\* is under way to replace it: every switch, supersession and rollback keeps the pair
\* active_generation / vector_index_generations.state together.
ServesOneGeneration(s) ==
  /\ \A g \in Gens : s.state[g] = "active" <=> g = s.serving
  /\ \A g, h \in Builds(s) : g = h

OneGeneration == ServesOneGeneration(db)

\* What search requires of a published document (resourceSearchResourceVisibleSQL and
\* resourceSearchChunkVisibleSQL) holds in every state, through rebuilds, switches,
\* rollbacks, retries and failing jobs: publication never outruns or loses its index.
ServesPublished(s) ==
  \A d \in Docs : s.content[d] = "PUBLISHED" =>
    /\ s.serving # 0 /\ s.indexGen[d] = s.serving
    /\ s.released[d] /\ s.ready[d]
    /\ Indexed(s, d, s.serving)

PublishedIsServed == ServesPublished(db)

\* A reconciliation pass deletes by a judgement made calls earlier; none of the points
\* it is about to delete has become wanted in the meantime.
SweepStaysExtra == \A p \in sweep : ~Desired(db, p[1], p[2])

\* A document leaves publication only by being withdrawn and never comes back,
\* whatever workers, retries and switches are still in flight (WithdrawIngestion).
WithdrawalIsFinal ==
  [][\A d \in Docs :
       /\ db.content[d] \in {"ARCHIVED", "deleted"} => db'.content[d] \in {"deleted", db.content[d]}
       /\ db.content[d] = "PUBLISHED" /\ db'.content[d] # "PUBLISHED"
            => \E deleted \in BOOLEAN : WithdrawIngestion(d, deleted)]_vars

\* Once something is served, only an administrator's promote or rollback changes which
\* generation is (release_approved); completions, retries and withdrawals never do.
SwitchNeedsApproval ==
  [][db.serving # 0 /\ db'.serving # db.serving => \E g \in Gens : Promote(g) \/ Rollback(g)]_vars

\* A document is first published, and a generation first served, only under the model
\* that is active at that moment; a superseded build never comes back to life.
OnlyTheActiveModelPublishes ==
  [][/\ db'.serving # db.serving => db'.genModel[db'.serving] = model
     /\ \A d \in Docs : db.content[d] = "DRAFT" /\ db'.content[d] = "PUBLISHED"
                          => db'.genModel[db'.indexGen[d]] = model
     /\ \A g \in Gens : db.state[g] = "failed" => db'.state[g] = "failed"]_vars

SwitchesAreSafe == SwitchNeedsApproval /\ OnlyTheActiveModelPublishes

\* Removing old history changes neither the job a document's status is read from nor
\* what it says (ingestionStatusSelect, CanRetry): the compact outcome stands in for it.
CleanupKeepsStatus ==
  [][\A k \in Keys : CleanupIngestionHistory(k) =>
       \A d \in Docs : Live(db, d) =>
         /\ LatestJobs(db', d) = LatestJobs(db, d)
         /\ \A j \in LatestJobs(db, d) : Outcome(db', j) = Outcome(db, j)]_vars

\* architecture.md: the cleanup does not lose the publication barrier of a build.
CleanupKeepsBarrier ==
  [][\A k \in Keys : CleanupIngestionHistory(k) =>
       \A g \in Builds(db) : Barrier(db, g) => Barrier(db', g)]_vars

------------------------------------------------------------------------------
(* Liveness.                                                               *)

\* Every queued job of a generation that is still wanted comes to an end, however often
\* workers crash in the middle of it: attempts are bounded and exhausted jobs are buried.
JobsSettle ==
  \A k \in Keys : Queued(db, k) ~> (Status(db, k) \in Terminal \/ ~Servable(db, k.gen))

\* The points of a withdrawn document are eventually gone for good, although workers that
\* lost their lease may still upsert after the purge has run.
WithdrawnPointsVanish ==
  \A d \in Docs : db.content[d] \in {"ARCHIVED", "deleted"} ~> [](\A g \in Gens : point[d][g] = None)
==============================================================================
