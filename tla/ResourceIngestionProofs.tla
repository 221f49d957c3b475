----------------------- MODULE ResourceIngestionProofs -----------------------
(***************************************************************************)
(* Proofs about ResourceIngestion, for any number of documents, workers,   *)
(* models and generations.  The handlers are functions on the metadata, so *)
(* the argument is about them: Sound is what every metadata record keeps,  *)
(* Advances(s, t) says that going from s to t keeps it and that documents  *)
(* only ever move from draft to published, and each building block of the  *)
(* transactions is shown to advance.  The actions then compose them.       *)
(* The second half repeats the argument with Fit and Continues, which also *)
(* follow approvals, models, manifests and the age of jobs.                *)
(***************************************************************************)
EXTENDS ResourceIngestion, TLAPS

\* Generations are numbered 1, 2, 3, ... without a gap, so the next number is unused.
Numbered(s) == \E n \in 0..MaxGen : \A g \in Gens : s.state[g] # "none" <=> g <= n

\* A purge exists only for a withdrawn document: completing one never touches the
\* manifest of anything published.
PurgesWithdrawn(s) ==
  \A k \in Keys : k.kind = "purge" /\ s.jobs[k] # None => s.content[k.doc] \in {"ARCHIVED", "deleted"}

\* The inductive part over the metadata.
Sound(s) ==
  /\ Numbered(s)
  /\ ServesOneGeneration(s)
  /\ PurgesWithdrawn(s)
  /\ ServesPublished(s)


Advances(s, t) ==
  /\ t \in DBType
  /\ Sound(t)
  /\ t.chunked = s.chunked
  /\ \A d \in Docs : t.content[d] = s.content[d] \/ (s.content[d] = "DRAFT" /\ t.content[d] = "PUBLISHED")

\* Prepares(s, t): besides, no document changes its publication.
Prepares(s, t) == Advances(s, t) /\ t.content = s.content /\ t.released = s.released

\* The building blocks of one transaction run one after the other.
LEMMA AdvancesTransitive ==
  ASSUME NEW s, NEW t, NEW u, Advances(s, t), Advances(t, u)
  PROVE  /\ Advances(s, u)
         /\ Prepares(s, t) /\ Prepares(t, u) => Prepares(s, u)
  BY DEF Advances, Prepares

------------------------------------------------------------------------------
(* The operators on metadata keep DBType.                                  *)

\* A job as enqueueIngestion inserts or restarts it.
LEMMA FreshJobType == FreshJob \in JobRows
  BY ConstantsAssumption DEF FreshJob, JobRows, Statuses, Terminal

\* enqueueIngestion keeps the type.
LEMMA EnqueueType ==
  ASSUME NEW s \in DBType, NEW K \in SUBSET Keys
  PROVE  Enqueue(s, K) \in DBType
<1> DEFINE new == {k \in K : s.jobs[k] = None}
           jobs == [k \in Keys |-> IF k \in K /\ ~Queued(s, k) THEN FreshJob ELSE s.jobs[k]]
           newer == {p \in s.newer : p[1] \notin new /\ p[2] \notin new}
                      \cup {p \in new \X (Keys \ new) : p[1].doc = p[2].doc}
<1>1. jobs \in [Keys -> JobRows \cup {None}]
  BY FreshJobType DEF DBType
<1>2. newer \in SUBSET (Keys \X Keys)
  BY DEF DBType
<1>3. Enqueue(s, K) = [s EXCEPT !.jobs = jobs, !.newer = newer]
  BY DEF Enqueue
<1> HIDE DEF jobs, newer
<1> QED BY <1>1, <1>2, <1>3, ZenonT(30) DEF DBType

\* So does a switch; it changes seven fields, three records deep.
LEMMA SwitchToType ==
  ASSUME NEW s \in DBType, NEW g \in Gens
  PROVE  SwitchTo(s, g) \in DBType
<1> DEFINE content == [d \in Docs |-> IF d \in Arriving(s, g) THEN "PUBLISHED" ELSE s.content[d]]
           released == [d \in Docs |-> s.released[d] \/ d \in Released(s, g)]
           ready == [d \in Docs |-> s.ready[d] \/ d \in Repointed(s, g)]
           indexGen == [d \in Docs |-> IF d \in Repointed(s, g) THEN g ELSE s.indexGen[d]]
           retained == [h \in Gens |-> s.retained[h] \/ (s.state[h] = "active" /\ h # g)]
           state == [h \in Gens |-> IF h = g THEN "active"
                                    ELSE IF s.state[h] = "active" THEN "retired" ELSE s.state[h]]
<1>1. content \in [Docs -> {"none", "DRAFT", "PUBLISHED", "ARCHIVED", "deleted"}]
  BY DEF DBType
<1>2. released \in [Docs -> BOOLEAN]
  BY Zenon DEF DBType
<1>3. ready \in [Docs -> BOOLEAN]
  BY Zenon DEF DBType
<1>4. indexGen \in [Docs -> 0..MaxGen]
  BY DEF DBType, Gens
<1>5. retained \in [Gens -> BOOLEAN]
  BY Zenon DEF DBType
<1>6. state \in [Gens -> {"none", "building", "ready", "active", "retired", "failed"}]
  BY DEF DBType
<1>7. g \in 0..MaxGen
  BY DEF Gens
<1> DEFINE s1 == [s EXCEPT !.content = content, !.released = released]
           s2 == [s1 EXCEPT !.ready = ready, !.indexGen = indexGen]
           s3 == [s2 EXCEPT !.retained = retained, !.state = state]
<1>8. SwitchTo(s, g) = [s3 EXCEPT !.serving = g]
  BY Zenon DEF SwitchTo
<1> HIDE DEF content, released, ready, indexGen, retained, state
<1>9. s1 \in DBType
  BY <1>1, <1>2 DEF DBType
<1> HIDE DEF s1
<1>10. s2 \in DBType
  BY <1>3, <1>4, <1>9 DEF DBType
<1> HIDE DEF s2
<1>11. s3 \in DBType
  BY <1>5, <1>6, <1>10 DEF DBType
<1> HIDE DEF s3
<1> QED BY <1>7, <1>8, <1>11, ZenonT(30) DEF DBType

\* So does cancelling jobs,
LEMMA CancelType ==
  ASSUME NEW s \in DBType, NEW K \in SUBSET Keys
  PROVE  Cancel(s, K) \in DBType
<1> DEFINE row(k) == [s.jobs[k] EXCEPT !.status = "cancelled", !.owner = None, !.expired = FALSE]
           hit(k) == k \in K /\ Status(s, k) \in {"pending", "running", "failed", "dead"}
           jobs == [k \in Keys |-> IF hit(k) THEN row(k) ELSE s.jobs[k]]
<1>1. ASSUME NEW k \in Keys, hit(k) PROVE row(k) \in JobRows
  <2>1. s.jobs[k] \in JobRows
    BY <1>1 DEF Status, DBType
  <2> QED BY <2>1 DEF JobRows, Statuses, Terminal
<1> HIDE DEF row, hit
<1>2. jobs \in [Keys -> JobRows \cup {None}]
  BY <1>1 DEF DBType
<1>3. Cancel(s, K) = [s EXCEPT !.jobs = jobs]
  BY DEF Cancel, row, hit
<1> HIDE DEF jobs
<1> QED BY <1>2, <1>3, ZenonT(30) DEF DBType

\* and so does the sweep for exhausted jobs.
LEMMA BuryExhaustedType ==
  ASSUME NEW s \in DBType
  PROVE  BuryExhausted(s) \in DBType
<1> DEFINE row(k) == [s.jobs[k] EXCEPT !.status = "dead", !.owner = None, !.expired = FALSE]
           jobs == [k \in Keys |-> IF Exhausted(s, k) THEN row(k) ELSE s.jobs[k]]
<1>1. ASSUME NEW k \in Keys, Exhausted(s, k) PROVE row(k) \in JobRows
  <2>1. s.jobs[k] \in JobRows
    BY <1>1 DEF Exhausted, DBType
  <2> QED BY <2>1 DEF JobRows, Statuses, Terminal
<1> HIDE DEF row
<1>2. jobs \in [Keys -> JobRows \cup {None}]
  BY <1>1 DEF DBType
<1>3. BuryExhausted(s) = [s EXCEPT !.jobs = jobs]
  BY DEF BuryExhausted, row
<1> HIDE DEF jobs
<1> QED BY <1>2, <1>3, ZenonT(30) DEF DBType

\* One job row replaced.
LEMMA JobType ==
  ASSUME NEW s \in DBType, NEW k \in Keys, NEW row \in JobRows \cup {None}
  PROVE  [s EXCEPT !.jobs[k] = row] \in DBType
<1>1. [s.jobs EXCEPT ![k] = row] \in [Keys -> JobRows \cup {None}]
  BY DEF DBType
<1>2. [s EXCEPT !.jobs = [s.jobs EXCEPT ![k] = row]] \in DBType
  BY <1>1 DEF DBType
<1> QED BY <1>2

\* So does completing a job.
LEMMA SucceedType ==
  ASSUME NEW s \in DBType, NEW k \in Keys, s.jobs[k] # None
  PROVE  Succeed(s, k) \in DBType
<1> DEFINE row == [s.jobs[k] EXCEPT !.status = "succeeded", !.owner = None, !.expired = FALSE]
<1>1. s.jobs[k] \in JobRows
  BY DEF DBType
<1>2. row \in JobRows
  BY <1>1 DEF JobRows, Statuses, Terminal
<1>3. Succeed(s, k) = [s EXCEPT !.jobs[k] = row]
  BY <1>1, ZenonT(30) DEF Succeed, JobRows, DBType
<1> HIDE DEF row
<1> QED BY <1>2, <1>3, JobType

------------------------------------------------------------------------------
(* The operators on metadata keep Sound.                                   *)

\* What changes only job rows, and no purge for a document that is not withdrawn.
LEMMA JobsSound ==
  ASSUME NEW s \in DBType, NEW t \in DBType, Sound(s), PurgesWithdrawn(t),
         t.content = s.content, t.chunked = s.chunked, t.released = s.released, t.ready = s.ready,
         t.indexGen = s.indexGen, t.state = s.state, t.serving = s.serving, t.manifest = s.manifest
  PROVE  Sound(t)
  BY DEF Sound, Numbered, ServesOneGeneration, Builds, ServesPublished, Indexed

\* Enqueued jobs publish nothing by themselves.
LEMMA EnqueueSound ==
  ASSUME NEW s \in DBType, Sound(s), NEW K \in SUBSET Keys,
         \A k \in K : k.kind = "purge" => s.content[k.doc] \in {"ARCHIVED", "deleted"}
  PROVE  Prepares(s, Enqueue(s, K))
<1> DEFINE t == Enqueue(s, K)
<1>1. t \in DBType
  BY EnqueueType
<1>2. /\ t.content = s.content /\ t.chunked = s.chunked /\ t.released = s.released /\ t.ready = s.ready
      /\ t.indexGen = s.indexGen /\ t.state = s.state /\ t.serving = s.serving /\ t.manifest = s.manifest
      /\ t.jobs = [k \in Keys |-> IF k \in K /\ ~Queued(s, k) THEN FreshJob ELSE s.jobs[k]]
  BY DEF Enqueue, DBType
<1> HIDE DEF t
<1>3. PurgesWithdrawn(t)
  BY <1>2 DEF PurgesWithdrawn, Sound
<1> QED BY <1>1, <1>2, <1>3, JobsSound DEF t, Advances, Prepares

\* Nor do cancelled ones.
LEMMA CancelSound ==
  ASSUME NEW s \in DBType, Sound(s), NEW K \in SUBSET Keys
  PROVE  Prepares(s, Cancel(s, K))
<1> DEFINE t == Cancel(s, K)
<1>1. t \in DBType
  BY CancelType
<1>2. /\ t.content = s.content /\ t.chunked = s.chunked /\ t.released = s.released /\ t.ready = s.ready
      /\ t.indexGen = s.indexGen /\ t.state = s.state /\ t.serving = s.serving /\ t.manifest = s.manifest
  BY DEF Cancel, DBType
<1>3. \A k \in Keys : t.jobs[k] # None => s.jobs[k] # None
  BY DEF Cancel, DBType, Status
<1> HIDE DEF t
<1>4. PurgesWithdrawn(t)
  BY <1>2, <1>3 DEF PurgesWithdrawn, Sound
<1> QED BY <1>1, <1>2, <1>4, JobsSound DEF t, Advances, Prepares

\* A build indexes, it never purges.
LEMMA MissingVersionsType ==
  ASSUME NEW s, NEW g \in Gens
  PROVE  MissingVersions(s, g) \in SUBSET Keys /\ \A k \in MissingVersions(s, g) : k.kind # "purge"
  BY DEF MissingVersions, Key, Keys, Kinds

\* The fields a switch sets, and those it leaves alone.
LEMMA SwitchToFields ==
  ASSUME NEW s \in DBType, NEW g \in Gens
  PROVE  LET t == SwitchTo(s, g) IN
         /\ t.content = [d \in Docs |-> IF d \in Arriving(s, g) THEN "PUBLISHED" ELSE s.content[d]]
         /\ t.released = [d \in Docs |-> s.released[d] \/ d \in Released(s, g)]
         /\ t.ready = [d \in Docs |-> s.ready[d] \/ d \in Repointed(s, g)]
         /\ t.indexGen = [d \in Docs |-> IF d \in Repointed(s, g) THEN g ELSE s.indexGen[d]]
         /\ t.state = [h \in Gens |-> IF h = g THEN "active"
                                      ELSE IF s.state[h] = "active" THEN "retired" ELSE s.state[h]]
         /\ t.serving = g
         /\ t.chunked = s.chunked /\ t.manifest = s.manifest /\ t.jobs = s.jobs
<1> DEFINE content == [d \in Docs |-> IF d \in Arriving(s, g) THEN "PUBLISHED" ELSE s.content[d]]
           released == [d \in Docs |-> s.released[d] \/ d \in Released(s, g)]
           ready == [d \in Docs |-> s.ready[d] \/ d \in Repointed(s, g)]
           indexGen == [d \in Docs |-> IF d \in Repointed(s, g) THEN g ELSE s.indexGen[d]]
           retained == [h \in Gens |-> s.retained[h] \/ (s.state[h] = "active" /\ h # g)]
           state == [h \in Gens |-> IF h = g THEN "active"
                                    ELSE IF s.state[h] = "active" THEN "retired" ELSE s.state[h]]
           t == [s EXCEPT !.content = content, !.released = released, !.ready = ready,
                          !.indexGen = indexGen, !.retained = retained, !.state = state, !.serving = g]
<1>1. SwitchTo(s, g) = t
  BY Zenon DEF SwitchTo
<1> HIDE DEF content, released, ready, indexGen, retained, state
<1>2. /\ t.content = content /\ t.released = released /\ t.ready = ready /\ t.indexGen = indexGen
      /\ t.state = state /\ t.serving = g
      /\ t.chunked = s.chunked /\ t.manifest = s.manifest /\ t.jobs = s.jobs
  BY DEF DBType
<1> HIDE DEF t
<1> QED BY Zenon, <1>1, <1>2 DEF content, released, ready, indexGen, state

\* A switch to a generation in which nothing is missing keeps published documents served.
LEMMA SwitchToSound ==
  ASSUME NEW s \in DBType, Sound(s), NEW g \in Gens, s.state[g] # "none", ~Incomplete(s, g)
  PROVE  Advances(s, SwitchTo(s, g))
<1> DEFINE t == SwitchTo(s, g)
<1>1. t \in DBType
  BY SwitchToType
<1>2. /\ t.content = [d \in Docs |-> IF d \in Arriving(s, g) THEN "PUBLISHED" ELSE s.content[d]]
      /\ t.released = [d \in Docs |-> s.released[d] \/ d \in Released(s, g)]
      /\ t.ready = [d \in Docs |-> s.ready[d] \/ d \in Repointed(s, g)]
      /\ t.indexGen = [d \in Docs |-> IF d \in Repointed(s, g) THEN g ELSE s.indexGen[d]]
      /\ t.state = [h \in Gens |-> IF h = g THEN "active"
                                   ELSE IF s.state[h] = "active" THEN "retired" ELSE s.state[h]]
      /\ t.serving = g
      /\ t.chunked = s.chunked /\ t.manifest = s.manifest /\ t.jobs = s.jobs
  BY Zenon, SwitchToFields
<1> HIDE DEF t
<1>3. Numbered(t)
  BY <1>2 DEF Numbered, Sound
<1>4. ServesOneGeneration(t)
  BY <1>2 DEF ServesOneGeneration, Builds, Sound
<1>5. PurgesWithdrawn(t)
  <2>1. \A d \in Docs : s.content[d] \in {"ARCHIVED", "deleted"} => t.content[d] = s.content[d]
    BY <1>2 DEF Arriving
  <2>2. \A k \in Keys : k.doc \in Docs
    BY DEF Keys
  <2> QED BY <1>2, <2>1, <2>2 DEF PurgesWithdrawn, Sound
<1>6. ServesPublished(t)
  <2> SUFFICES ASSUME NEW d \in Docs, t.content[d] = "PUBLISHED"
               PROVE  /\ t.indexGen[d] = g /\ t.released[d] /\ t.ready[d]
                      /\ Indexed(t, d, g)
    BY <1>2 DEF ServesPublished, Gens
  <2>1. d \in Arriving(s, g) \/ s.content[d] = "PUBLISHED"
    BY <1>2
  <2>2. Indexed(s, d, g)
    BY <2>1 DEF Incomplete, Arriving
  <2>3. d \in Repointed(s, g)
    BY <2>1 DEF Repointed, Released, Arriving, Live
  <2>4. d \in Released(s, g) \/ s.released[d]
    BY <2>1 DEF Released, Arriving, Live, Sound, ServesPublished
  <2> QED BY <1>2, <2>2, <2>3, <2>4 DEF Indexed
<1>7. \A d \in Docs : t.content[d] = s.content[d] \/ (s.content[d] = "DRAFT" /\ t.content[d] = "PUBLISHED")
  BY <1>2, ZenonT(30) DEF Arriving
<1> QED BY <1>1, <1>2, <1>3, <1>4, <1>5, <1>6, <1>7 DEF Sound, t, Advances

\* activateIngestionGeneration, whichever way it ends.
LEMMA ActivateSound ==
  ASSUME NEW s \in DBType, Sound(s), NEW g \in Gens, NEW m \in Models
  PROVE  Advances(s, Activate(s, g, m))
<1>1. s.state[g] \in {"building", "ready"} =>
        Advances(s, [s EXCEPT !.state[g] = "ready"])
  <2> SUFFICES ASSUME s.state[g] \in {"building", "ready"}
               PROVE  Advances(s, [s EXCEPT !.state[g] = "ready"])
    OBVIOUS
  <2> DEFINE t == [s EXCEPT !.state[g] = "ready"]
  <2>1. t \in DBType
    BY DEF DBType
  <2>2. /\ t.content = s.content /\ t.chunked = s.chunked /\ t.released = s.released /\ t.ready = s.ready
        /\ t.indexGen = s.indexGen /\ t.serving = s.serving /\ t.manifest = s.manifest /\ t.jobs = s.jobs
        /\ t.state = [s.state EXCEPT ![g] = "ready"] /\ s.state \in [Gens -> {"none", "building", "ready", "active", "retired", "failed"}]
    BY DEF DBType
  <2> HIDE DEF t
  <2>3. Numbered(t) /\ ServesOneGeneration(t)
    BY <2>2 DEF Sound, Numbered, ServesOneGeneration, Builds
  <2>4. PurgesWithdrawn(t) /\ ServesPublished(t)
    BY <2>2 DEF Sound, PurgesWithdrawn, ServesPublished, Indexed
  <2> QED BY <2>1, <2>2, <2>3, <2>4 DEF Sound, t, Advances
<1>2. Advances(s, s)
  BY DEF Advances
<1> QED BY <1>1, <1>2, SwitchToSound, EnqueueSound, MissingVersionsType DEF Activate, Prepares

\* The number after the largest one is free.
LEMMA NextGenIsFree ==
  ASSUME NEW s \in DBType, Sound(s), NextGen(s) \in Gens
  PROVE  /\ s.state[NextGen(s)] = "none"
         /\ \A g \in Gens : s.state[g] # "none" => g < NextGen(s)
         /\ \A g \in Gens : g < NextGen(s) => s.state[g] # "none"
<1> DEFINE used == {0} \cup {g \in Gens : s.state[g] # "none"}
<1>1. PICK n \in 0..MaxGen : \A g \in Gens : s.state[g] # "none" <=> g <= n
  BY DEF Sound, Numbered
<1>2. n \in used /\ \A h \in used : h <= n
  BY <1>1, ConstantsAssumption DEF Gens
<1>3. Youngest(used) \in used /\ \A h \in used : h <= Youngest(used)
  BY <1>2 DEF Youngest
<1>4. Youngest(used) = n
  BY <1>2, <1>3, ConstantsAssumption DEF Gens
<1>5. NextGen(s) = 1 + n
  BY <1>4 DEF NextGen
<1> QED BY <1>1, <1>5, ConstantsAssumption DEF Gens

\* A new build fails the old one, and serving goes on.
LEMMA SupersedeSound ==
  ASSUME NEW s \in DBType, Sound(s), NEW m \in Models, NextGen(s) \in Gens
  PROVE  Prepares(s, Supersede(s, m))
<1> DEFINE g == NextGen(s)
           t == Cancel(s, {k \in Keys : k.gen \in Builds(s)})
           state == [h \in Gens |-> IF h = g THEN "building"
                                    ELSE IF h \in Builds(s) THEN "failed" ELSE t.state[h]]
           t1 == [t EXCEPT !.state = state, !.genModel[g] = m]
           u == [t1 EXCEPT !.approved[g] = (s.serving = 0)]
<1>1. t \in DBType /\ Sound(t) /\ t.state = s.state
  <2>1. t \in DBType /\ Sound(t)
    BY CancelSound DEF Advances, Prepares
  <2>2. t.state = s.state
    BY DEF Cancel, DBType
  <2> QED BY <2>1, <2>2
<1> HIDE DEF t
<1>2. state \in [Gens -> {"none", "building", "ready", "active", "retired", "failed"}]
  BY <1>1 DEF DBType
<1>3. t1 \in DBType /\ u \in DBType
  <2> HIDE DEF state
  <2>1. t1 \in DBType
    BY <1>1, <1>2 DEF DBType
  <2> HIDE DEF t1
  <2> QED BY <2>1, (s.serving = 0) \in BOOLEAN, ZenonT(30) DEF DBType
<1>4. /\ u.content = t.content /\ u.chunked = t.chunked /\ u.released = t.released /\ u.ready = t.ready
      /\ u.indexGen = t.indexGen /\ u.serving = t.serving /\ u.manifest = t.manifest /\ u.jobs = t.jobs
      /\ u.state = state
  <2> HIDE DEF state
  <2>1. /\ t1.content = t.content /\ t1.chunked = t.chunked /\ t1.released = t.released /\ t1.ready = t.ready
        /\ t1.indexGen = t.indexGen /\ t1.serving = t.serving /\ t1.manifest = t.manifest /\ t1.jobs = t.jobs
        /\ t1.state = state /\ t1 \in DBType
    BY <1>1, <1>3 DEF DBType
  <2> HIDE DEF t1
  <2> QED BY <2>1 DEF DBType
<1> HIDE DEF u, t1
<1>5. Numbered(u)
  <2>1. \A h \in Gens : u.state[h] # "none" <=> h <= g
    BY <1>1, <1>4, NextGenIsFree DEF Builds, Gens
  <2> QED BY <2>1 DEF Numbered, Gens
<1>6. ServesOneGeneration(u)
  <2>1. t.serving = s.serving
    BY DEF t, Cancel, DBType
  <2> QED BY <1>1, <1>4, <2>1, NextGenIsFree DEF ServesOneGeneration, Builds, Sound
<1>7. PurgesWithdrawn(u) /\ ServesPublished(u)
  BY <1>1, <1>4 DEF Sound, PurgesWithdrawn, ServesPublished, Indexed
<1>8. Sound(u)
  BY <1>5, <1>6, <1>7 DEF Sound
<1>9. Supersede(s, m) = Enqueue(u, MissingVersions(u, g))
  BY Zenon DEF Supersede, u, t1, state, t
<1>10. Prepares(s, t)
  BY CancelSound DEF t
<1>11. Prepares(t, u)
  BY <1>3, <1>4, <1>8 DEF Advances, Prepares
<1>12. Prepares(u, Enqueue(u, MissingVersions(u, g)))
  BY <1>3, <1>8, EnqueueSound, MissingVersionsType
<1> QED BY <1>9, <1>10, <1>11, <1>12, AdvancesTransitive DEF Prepares

\* ingestionGenerationForModel.
LEMMA WithGenerationSound ==
  ASSUME NEW s \in DBType, Sound(s), NEW m \in Models, NEW force, GenAvailable(s, m, force)
  PROVE  /\ Prepares(s, WithGeneration(s, m, force))
         /\ GenerationFor(s, m, force) \in Gens
  BY SupersedeSound DEF WithGeneration, GenAvailable, GenerationFor, Advances, Prepares

------------------------------------------------------------------------------
(* The actions keep the invariant.                                         *)

\* What a worker has in memory is backed by the database: past the preparation the
\* chunks of its document are stored.  Chunks are never unstored.
WorkersPrepared ==
  \A o \in Owners :
    LET w == worker[o]
    IN /\ w.phase # "idle" => w.job \in Keys
       /\ w.phase = "deleted" => w.job.kind = "purge"
       /\ w.phase \in {"prepared", "written", "verified"} /\ w.job.kind # "purge"
            => db.chunked[w.job.doc]

IInv == TypeOK /\ Sound(db) /\ WorkersPrepared

\* The body of WithdrawalIsFinal.
KeepsWithdrawal ==
  \A d \in Docs :
    /\ db.content[d] \in {"ARCHIVED", "deleted"} => db'.content[d] \in {"deleted", db.content[d]}
    /\ db.content[d] = "PUBLISHED" /\ db'.content[d] # "PUBLISHED"
         => \E deleted \in BOOLEAN : WithdrawIngestion(d, deleted)

\* The parts of a job key.
LEMMA KeyParts ==
  ASSUME NEW k \in Keys
  PROVE  k.kind \in Kinds /\ k.doc \in Docs /\ k.gen \in Gens
  BY DEF Keys

\* Steps that leave the workers alone and advance the metadata.
LEMMA AdvanceStep ==
  ASSUME IInv, Advances(db, db'), UNCHANGED worker,
         model' \in Models, point' \in [Docs -> [Gens -> Hashes \cup {None}]], sweep' \subseteq Docs \X Gens
  PROVE  IInv'
  BY KeyParts DEF IInv, TypeOK, Advances, WorkersPrepared

\* RegisterIngestion.
LEMMA RegisterSound ==
  ASSUME IInv, NEW d \in Docs, RegisterIngestion(d)
  PROVE  IInv' /\ KeepsWithdrawal
<1> DEFINE g == GenerationFor(db, model, FALSE)
           s == WithGeneration(db, model, FALSE)
           t == [s EXCEPT !.content[d] = "DRAFT"]
           K == {Key("ingest", d, g)}
<1>1. Prepares(db, s) /\ g \in Gens
  BY WithGenerationSound DEF RegisterIngestion, IInv, TypeOK
<1>2. db' = Enqueue(t, K) /\ db.content[d] = "none" /\ UNCHANGED <<model, point, worker, sweep>>
  BY DEF RegisterIngestion
<1> HIDE DEF s, g
<1>3. /\ t \in DBType
      /\ t.content = [s.content EXCEPT ![d] = "DRAFT"]
      /\ t.chunked = s.chunked /\ t.released = s.released /\ t.ready = s.ready
      /\ t.indexGen = s.indexGen /\ t.state = s.state /\ t.serving = s.serving
      /\ t.manifest = s.manifest /\ t.jobs = s.jobs
      /\ s.content \in [Docs -> {"none", "DRAFT", "PUBLISHED", "ARCHIVED", "deleted"}]
  BY <1>1 DEF Prepares, Advances, DBType
<1> HIDE DEF t
<1>4. Sound(t)
  <2>1. PurgesWithdrawn(t)
    BY <1>1, <1>2, <1>3, KeyParts DEF PurgesWithdrawn, Sound, Prepares, Advances
  <2>2. ServesPublished(t)
    BY <1>1, <1>3 DEF ServesPublished, Sound, Indexed, Prepares, Advances
  <2> QED BY <1>1, <1>3, <2>1, <2>2 DEF Sound, Prepares, Advances, Numbered, ServesOneGeneration, Builds
<1>5. K \in SUBSET Keys /\ \A k \in K : k.kind # "purge"
  BY <1>1 DEF Key, Keys, Kinds
<1> HIDE DEF K
<1>6. Advances(t, db')
  BY <1>2, <1>3, <1>4, <1>5, EnqueueSound DEF Prepares
<1>7. db' \in DBType /\ Sound(db') /\ db'.chunked = db.chunked
  BY <1>1, <1>3, <1>6 DEF Prepares, Advances
<1>8. IInv'
  BY <1>2, <1>7, KeyParts DEF IInv, TypeOK, WorkersPrepared
<1>9. KeepsWithdrawal
  BY <1>1, <1>2, <1>3, <1>6 DEF KeepsWithdrawal, Prepares, Advances
<1> QED BY <1>8, <1>9

\* Changing whether documents are ready, as long as published ones stay so.
LEMMA ReadySound ==
  ASSUME NEW s \in DBType, Sound(s), NEW d \in Docs, NEW r \in BOOLEAN,
         s.content[d] = "PUBLISHED" => r
  PROVE  Prepares(s, [s EXCEPT !.ready[d] = r])
<1> DEFINE t == [s EXCEPT !.ready[d] = r]
<1>1. /\ t \in DBType
      /\ t.ready = [s.ready EXCEPT ![d] = r] /\ s.ready \in [Docs -> BOOLEAN]
      /\ t.content = s.content /\ t.chunked = s.chunked /\ t.released = s.released
      /\ t.indexGen = s.indexGen /\ t.state = s.state /\ t.serving = s.serving
      /\ t.manifest = s.manifest /\ t.jobs = s.jobs
  BY DEF DBType
<1> HIDE DEF t
<1>2. ServesPublished(t)
  BY <1>1 DEF ServesPublished, Sound, Indexed
<1>3. Sound(t)
  BY <1>1, <1>2 DEF Sound, Numbered, ServesOneGeneration, Builds, PurgesWithdrawn
<1> QED BY <1>1, <1>3 DEF Prepares, Advances, t

\* RetryIngestion: a published document stays ready because it was released.
LEMMA RetrySound ==
  ASSUME IInv, NEW d \in Docs, RetryIngestion(d)
  PROVE  Advances(db, db')
<1> PICK k \in LatestJobs(db, d) :
      LET build == k.gen \in Builds(db) /\ db.genModel[k.gen] = model
          g     == GenerationFor(db, model, build)
          s     == WithGeneration(db, model, build)
          kind  == IF db.content[d] = "PUBLISHED" THEN "rebuild" ELSE "ingest"
      IN /\ GenAvailable(db, model, build)
         /\ db' = [Enqueue(s, {Key(kind, d, g)}) EXCEPT !.ready[d] = @ /\ db.released[d]]
  BY DEF RetryIngestion
<1> DEFINE build == k.gen \in Builds(db) /\ db.genModel[k.gen] = model
           g     == GenerationFor(db, model, build)
           s     == WithGeneration(db, model, build)
           kind  == IF db.content[d] = "PUBLISHED" THEN "rebuild" ELSE "ingest"
           t     == Enqueue(s, {Key(kind, d, g)})
           r     == t.ready[d] /\ db.released[d]
<1>1. Prepares(db, s) /\ g \in Gens
  BY WithGenerationSound DEF IInv, TypeOK
<1>2. db' = [t EXCEPT !.ready[d] = r]
  BY Zenon
<1> HIDE DEF s, g
<1>3. Key(kind, d, g) \in Keys /\ Key(kind, d, g).kind # "purge"
  BY <1>1 DEF Key, Keys, Kinds
<1>4. Prepares(s, t)
  BY <1>1, <1>3, EnqueueSound DEF Prepares, Advances
<1> HIDE DEF t
<1>5. Prepares(db, t) /\ t \in DBType /\ Sound(t)
  BY <1>1, <1>4, AdvancesTransitive DEF Prepares, Advances
<1>6. t.content[d] = "PUBLISHED" => r
  BY <1>5 DEF Prepares, Sound, ServesPublished
<1>7. r \in BOOLEAN
  BY Zenon
<1> HIDE DEF r
<1> DEFINE u == [t EXCEPT !.ready[d] = r]
<1>8. Prepares(t, u)
  BY <1>5, <1>6, <1>7, ReadySound
<1> HIDE DEF u
<1>9. Advances(db, u)
  BY <1>5, <1>8, AdvancesTransitive DEF Prepares
<1>10. db' = u
  BY Zenon, <1>2 DEF u
<1> QED BY Zenon, <1>9, <1>10

\* With at most one build there is a youngest one.
LEMMA YoungestOfOne ==
  ASSUME NEW G \in SUBSET Gens, G # {}, \A g, h \in G : g = h
  PROVE  Youngest(G) \in G
<1>1. PICK g \in G : TRUE
  OBVIOUS
<1>2. \A h \in G : h <= g
  BY ConstantsAssumption DEF Gens
<1> QED BY <1>2 DEF Youngest

\* WithdrawIngestion.
LEMMA WithdrawSound ==
  ASSUME IInv, NEW d \in Docs, NEW deleted \in BOOLEAN, WithdrawIngestion(d, deleted)
  PROVE  IInv' /\ KeepsWithdrawal
<1> DEFINE own == {k \in Keys : k.doc = d /\ k.kind # "purge"}
           c == Cancel(db, own)
           fate == IF deleted THEN "deleted" ELSE "ARCHIVED"
           out == IF c.outcome[d] # None /\ c.outcome[d].key.kind # "purge"
                       /\ c.outcome[d].status \in {"failed", "dead"}
                  THEN [c.outcome[d] EXCEPT !.status = "cancelled"] ELSE c.outcome[d]
           s1 == [c EXCEPT !.content[d] = fate, !.ready[d] = FALSE]
           s == [s1 EXCEPT !.outcome[d] = out]
           K == {Key("purge", d, g) : g \in {h \in Gens : s.state[h] # "none"}}
           t == Enqueue(s, K)
           u == IF Builds(t) = {} THEN t ELSE Activate(t, Youngest(Builds(t)), model)
<1>1. Prepares(db, c) /\ c \in DBType /\ Sound(c)
  BY CancelSound DEF IInv, TypeOK, Prepares, Advances
<1> HIDE DEF c
<1>2. out \in [key : Keys, status : Statuses] \cup {None}
  <2>1. c.outcome[d] \in [key : Keys, status : Statuses] \cup {None}
    BY <1>1 DEF DBType
  <2> QED BY <2>1 DEF Statuses, Terminal
<1> HIDE DEF out
<1>3. /\ s1 \in DBType /\ s1.outcome = c.outcome
      /\ s1.content = [c.content EXCEPT ![d] = fate] /\ s1.ready = [c.ready EXCEPT ![d] = FALSE]
      /\ s1.chunked = c.chunked /\ s1.released = c.released /\ s1.indexGen = c.indexGen
      /\ s1.state = c.state /\ s1.serving = c.serving /\ s1.manifest = c.manifest /\ s1.jobs = c.jobs
  BY <1>1 DEF DBType
<1>4. db' = u /\ UNCHANGED <<model, point, worker, sweep>>
  BY Zenon, <1>3 DEF WithdrawIngestion, own, c, out, s1
<1>5. db.content[d] \in {"DRAFT", "PUBLISHED"} \/ fate = "deleted"
  BY DEF WithdrawIngestion
<1> HIDE DEF s1
<1>6. /\ s \in DBType
      /\ s.content = [c.content EXCEPT ![d] = fate] /\ s.ready = [c.ready EXCEPT ![d] = FALSE]
      /\ s.chunked = c.chunked /\ s.released = c.released /\ s.indexGen = c.indexGen
      /\ s.state = c.state /\ s.serving = c.serving /\ s.manifest = c.manifest /\ s.jobs = c.jobs
  BY <1>2, <1>3 DEF DBType
<1> HIDE DEF s
<1>7. /\ c.content \in [Docs -> {"none", "DRAFT", "PUBLISHED", "ARCHIVED", "deleted"}]
      /\ c.ready \in [Docs -> BOOLEAN]
  BY <1>1 DEF DBType
<1>8. Sound(s)
  <2>1. PurgesWithdrawn(s)
    BY <1>1, <1>6, <1>7, KeyParts DEF PurgesWithdrawn, Sound
  <2>2. ServesPublished(s)
    BY <1>1, <1>6, <1>7 DEF ServesPublished, Sound, Indexed
  <2> QED BY <1>1, <1>6, <2>1, <2>2 DEF Sound, Numbered, ServesOneGeneration, Builds
<1>9. K \in SUBSET Keys /\ \A k \in K : s.content[k.doc] \in {"ARCHIVED", "deleted"}
  BY <1>6, <1>7 DEF Key, Keys, Kinds
<1> HIDE DEF K
<1>10. Prepares(s, t) /\ t \in DBType /\ Sound(t)
  BY <1>6, <1>8, <1>9, EnqueueSound DEF Prepares, Advances
<1> HIDE DEF t
<1>11. Advances(s, u)
  <2>1. CASE Builds(t) = {}
    BY <1>10, <2>1 DEF Prepares
  <2>2. CASE Builds(t) # {}
    <3>1. Youngest(Builds(t)) \in Gens
      BY <1>10, <2>2, YoungestOfOne DEF Sound, ServesOneGeneration, Builds
    <3>2. Advances(t, u)
      BY <1>10, <2>2, <3>1, ActivateSound DEF IInv, TypeOK
    <3> QED BY <1>10, <3>2, AdvancesTransitive DEF Prepares
  <2> QED BY <2>1, <2>2
<1> HIDE DEF u
<1>12. u \in DBType /\ Sound(u) /\ u.chunked = db.chunked
  BY <1>1, <1>6, <1>11 DEF Prepares, Advances
<1>13. IInv'
  BY <1>4, <1>12, KeyParts DEF IInv, TypeOK, WorkersPrepared
<1>14. ASSUME NEW e \in Docs, db.content[e] \in {"ARCHIVED", "deleted"}
       PROVE  u.content[e] \in {"deleted", db.content[e]}
  BY <1>1, <1>5, <1>6, <1>7, <1>11, <1>14 DEF Prepares, Advances
<1>15. ASSUME NEW e \in Docs, db.content[e] = "PUBLISHED", u.content[e] # "PUBLISHED"
       PROVE  e = d
  BY <1>1, <1>6, <1>7, <1>11, <1>15 DEF Prepares, Advances
<1> QED BY <1>4, <1>13, <1>14, <1>15 DEF KeepsWithdrawal

\* One job row replaced.
LEMMA JobSound ==
  ASSUME NEW s \in DBType, Sound(s), NEW k \in Keys, NEW row \in JobRows \cup {None},
         k.kind = "purge" /\ row # None => s.content[k.doc] \in {"ARCHIVED", "deleted"}
  PROVE  Prepares(s, [s EXCEPT !.jobs[k] = row])
<1> DEFINE t == [s EXCEPT !.jobs[k] = row]
<1>1. t \in DBType
  BY JobType
<1>2. /\ t.content = s.content /\ t.chunked = s.chunked /\ t.released = s.released /\ t.ready = s.ready
      /\ t.indexGen = s.indexGen /\ t.state = s.state /\ t.serving = s.serving /\ t.manifest = s.manifest
      /\ t.jobs = [s.jobs EXCEPT ![k] = row] /\ s.jobs \in [Keys -> JobRows \cup {None}]
  BY DEF DBType
<1> HIDE DEF t
<1>3. PurgesWithdrawn(t)
  BY <1>2 DEF PurgesWithdrawn, Sound
<1> QED BY <1>1, <1>2, <1>3, JobsSound DEF t, Advances, Prepares

\* The sweep for exhausted jobs.
LEMMA BuryExhaustedSound ==
  ASSUME NEW s \in DBType, Sound(s)
  PROVE  Prepares(s, BuryExhausted(s))
<1> DEFINE t == BuryExhausted(s)
<1>1. t \in DBType
  BY BuryExhaustedType
<1>2. /\ t.content = s.content /\ t.chunked = s.chunked /\ t.released = s.released /\ t.ready = s.ready
      /\ t.indexGen = s.indexGen /\ t.state = s.state /\ t.serving = s.serving /\ t.manifest = s.manifest
  BY DEF BuryExhausted, DBType
<1>3. \A k \in Keys : t.jobs[k] # None => s.jobs[k] # None
  BY DEF BuryExhausted, DBType, Exhausted
<1> HIDE DEF t
<1>4. PurgesWithdrawn(t)
  BY <1>2, <1>3 DEF PurgesWithdrawn, Sound
<1> QED BY <1>1, <1>2, <1>3, <1>4, JobsSound DEF t, Advances, Prepares

\* A worker with nothing in memory.
LEMMA IdleType == Idle \in WorkerType
  BY ConstantsAssumption DEF Idle, WorkerType, Phases

\* ClaimIngestionJob.
LEMMA ClaimSound ==
  ASSUME IInv, NEW o \in Owners, NEW k \in Keys, ClaimJob(o, k)
  PROVE  IInv' /\ Advances(db, db')
<1> DEFINE s == BuryExhausted(db)
           row == [status |-> "running", attempt |-> db.jobs[k].attempt + 1, owner |-> o, expired |-> FALSE]
           t == [s EXCEPT !.jobs[k] = row]
           r == t.ready[k.doc] /\ (k.kind = "ingest" => db.released[k.doc])
           u == [t EXCEPT !.ready[k.doc] = r]
           w == [Idle EXCEPT !.phase = "claimed", !.job = k, !.attempt = row.attempt]
<1>1. Prepares(db, s) /\ s \in DBType /\ Sound(s)
  BY BuryExhaustedSound DEF IInv, TypeOK, Prepares, Advances
<1> HIDE DEF s
<1>2. db.jobs[k] \in JobRows /\ db.jobs[k] # None /\ db.jobs[k].attempt < MaxAttempts
  BY DEF ClaimJob, Claimable, IInv, TypeOK, DBType
<1>3. row \in JobRows /\ row.attempt \in 0..MaxAttempts
  BY <1>2, ConstantsAssumption DEF JobRows, Statuses
<1>4. db' = u /\ worker' = [worker EXCEPT ![o] = w] /\ UNCHANGED <<model, point, sweep>>
  BY Zenon DEF ClaimJob, s
<1> HIDE DEF row
<1>5. w.phase = "claimed" /\ w.job = k /\ w \in WorkerType
  <2>1. row.attempt \in 0..MaxAttempts
    BY <1>3
  <2> QED BY <2>1, IdleType DEF WorkerType, Phases
<1> HIDE DEF w
<1>6. k.kind = "purge" => s.content[k.doc] \in {"ARCHIVED", "deleted"}
  BY <1>1, <1>2 DEF Prepares, IInv, Sound, PurgesWithdrawn
<1>7. Prepares(s, t) /\ t \in DBType /\ Sound(t)
  BY <1>1, <1>3, <1>6, JobSound DEF Prepares, Advances
<1> HIDE DEF t
<1>8. Prepares(db, t)
  BY <1>1, <1>7, AdvancesTransitive DEF Prepares
<1>9. t.content[k.doc] = "PUBLISHED" => r
  BY <1>7, <1>8, KeyParts DEF Prepares, Sound, ServesPublished
<1>10. r \in BOOLEAN
  BY Zenon
<1> HIDE DEF r
<1>11. Prepares(t, u)
  BY <1>7, <1>9, <1>10, ReadySound, KeyParts
<1> HIDE DEF u
<1>12. Advances(db, u)
  BY <1>8, <1>11, AdvancesTransitive DEF Prepares
<1>13. worker' \in [Owners -> WorkerType]
  BY <1>4, <1>5 DEF IInv, TypeOK
<1>14. WorkersPrepared'
  BY <1>4, <1>5, <1>12 DEF WorkersPrepared, Advances, IInv, TypeOK
<1>15. Advances(db, db')
  BY Zenon, <1>4, <1>12
<1> QED BY <1>4, <1>13, <1>14, <1>15 DEF IInv, TypeOK, Advances


\* PrepareIngestionChunks: chunks are stored, no manifest loses its index.
LEMMA PrepareSound ==
  ASSUME IInv, NEW o \in Owners, PrepareIngestionChunks(o)
  PROVE  IInv' /\ \A d \in Docs : db'.content[d] = db.content[d]
<1> DEFINE k == worker[o].job
           d == k.doc
           m == IF db.manifest[d][k.gen] = "none" THEN "pending" ELSE db.manifest[d][k.gen]
           s == [db EXCEPT !.chunked[d] = TRUE, !.manifest[d][k.gen] = m]
           r == s.ready[d] /\ db.released[d]
           t == [s EXCEPT !.ready[d] = r]
<1>1. k \in Keys /\ db \in DBType /\ Sound(db)
  BY DEF PrepareIngestionChunks, IInv, TypeOK, WorkersPrepared
<1>2. k.kind \in Kinds /\ d \in Docs /\ k.gen \in Gens
  BY <1>1, KeyParts
<1>3. db' = t /\ worker' = [worker EXCEPT ![o].phase = "prepared"] /\ UNCHANGED <<model, point, sweep>>
  <2>1. PrepareIngestionChunks(o) => db' = [db EXCEPT
                 !.chunked[k.doc] = TRUE,
                 !.manifest[k.doc][k.gen] = IF @ = "none" THEN "pending" ELSE @,
                 !.ready[k.doc] = @ /\ db.released[k.doc]]
    BY Zenon DEF PrepareIngestionChunks
  <2>2. s.ready[d] = db.ready[d]
    BY <1>1 DEF DBType
  <2> QED BY Zenon, <2>1, <2>2 DEF PrepareIngestionChunks
<1> HIDE DEF k
<1>4. m \in {"none", "pending", "indexed", "deleted"} /\ (db.manifest[d][k.gen] = "indexed" => m = "indexed")
  BY <1>1, <1>2 DEF DBType
<1> HIDE DEF m
<1>5. /\ s \in DBType
      /\ s.chunked = [db.chunked EXCEPT ![d] = TRUE] /\ db.chunked \in [Docs -> BOOLEAN]
      /\ s.manifest = [db.manifest EXCEPT ![d][k.gen] = m]
      /\ db.manifest \in [Docs -> [Gens -> {"none", "pending", "indexed", "deleted"}]]
      /\ s.content = db.content /\ s.released = db.released /\ s.ready = db.ready
      /\ s.indexGen = db.indexGen /\ s.state = db.state /\ s.serving = db.serving /\ s.jobs = db.jobs
  BY <1>1, <1>2, <1>4 DEF DBType
<1> HIDE DEF s
<1>6. Sound(s)
  <2>1. \A e \in Docs, g \in Gens : Indexed(db, e, g) => Indexed(s, e, g)
    BY <1>2, <1>4, <1>5 DEF Indexed
  <2>2. db.serving # 0 => db.serving \in Gens
    BY <1>1, ConstantsAssumption DEF DBType, Gens
  <2>3. ServesPublished(s)
    BY <1>1, <1>5, <2>1, <2>2 DEF ServesPublished, Sound
  <2> QED BY <1>1, <1>5, <2>3 DEF Sound, Numbered, ServesOneGeneration, Builds, PurgesWithdrawn
<1>7. s.content[d] = "PUBLISHED" => r
  BY <1>1, <1>2, <1>5 DEF Sound, ServesPublished
<1>8. r \in BOOLEAN
  BY Zenon
<1> HIDE DEF r
<1>9. Prepares(s, t)
  BY <1>2, <1>5, <1>6, <1>7, <1>8, ReadySound
<1> HIDE DEF t
<1>10. worker' \in [Owners -> WorkerType]
  BY <1>3 DEF IInv, TypeOK, WorkerType, Phases
<1>11. \A e \in Docs : db.chunked[e] => t.chunked[e]
  BY <1>2, <1>5, <1>9 DEF Prepares, Advances
<1>12. t.chunked[d]
  BY <1>2, <1>5, <1>9 DEF Prepares, Advances
<1>13. \A p \in Owners : worker'[p] = IF p = o THEN [worker[o] EXCEPT !.phase = "prepared"] ELSE worker[p]
  BY <1>3 DEF IInv, TypeOK
<1>14. worker'[o].phase = "prepared" /\ worker'[o].job = k
  BY <1>3 DEF IInv, TypeOK, WorkerType, k
<1>15. WorkersPrepared'
  <2> SUFFICES ASSUME NEW p \in Owners
               PROVE  /\ worker'[p].phase # "idle" => worker'[p].job \in Keys
                      /\ worker'[p].phase = "deleted" => worker'[p].job.kind = "purge"
                      /\ worker'[p].phase \in {"prepared", "written", "verified"} /\ worker'[p].job.kind # "purge"
                           => t.chunked[worker'[p].job.doc]
    BY <1>3 DEF WorkersPrepared
  <2>1. CASE p = o
    BY <1>1, <1>12, <1>14, <2>1
  <2>2. CASE p # o
    BY <1>11, <1>13, <2>2, KeyParts DEF IInv, WorkersPrepared
  <2> QED BY <2>1, <2>2
<1>16. t \in DBType /\ Sound(t) /\ t.content = db.content
  BY <1>5, <1>9 DEF Prepares, Advances
<1> QED BY <1>3, <1>10, <1>15, <1>16 DEF IInv, TypeOK

\* A completed job.
LEMMA SucceedSound ==
  ASSUME NEW s \in DBType, Sound(s), NEW k \in Keys, s.jobs[k] # None
  PROVE  Prepares(s, Succeed(s, k))
<1> DEFINE row == [s.jobs[k] EXCEPT !.status = "succeeded", !.owner = None, !.expired = FALSE]
<1>1. s.jobs[k] \in JobRows
  BY DEF DBType
<1>2. row \in JobRows
  BY <1>1 DEF JobRows, Statuses, Terminal
<1>3. Succeed(s, k) = [s EXCEPT !.jobs[k] = row]
  BY <1>1, ZenonT(30) DEF Succeed, JobRows, DBType
<1> HIDE DEF row
<1> QED BY <1>2, <1>3, JobSound DEF Sound, PurgesWithdrawn

\* The transaction of CompleteIngestionJob, of a purge and of an indexing job.
LEMMA FinishedSound ==
  ASSUME IInv, NEW k \in Keys, NEW h \in Hashes \cup {None}, db.jobs[k] # None,
         k.kind # "purge" => Live(db, k.doc) /\ db.chunked[k.doc]
  PROVE  Advances(db, Finished(k, h))
<1>0. /\ k.doc \in Docs /\ k.gen \in Gens /\ db \in DBType /\ Sound(db) /\ model \in Models
      /\ db.manifest \in [Docs -> [Gens -> {"none", "pending", "indexed", "deleted"}]]
      /\ (db.serving # 0 => db.serving \in Gens)
  BY KeyParts, ConstantsAssumption DEF IInv, TypeOK, DBType, Gens
<1>1. CASE k.kind = "purge"
  <2> DEFINE s == Purged(db, k)
  <2>1. /\ s \in DBType
        /\ \A d \in Docs, g \in Gens : d # k.doc => s.manifest[d][g] = db.manifest[d][g]
        /\ s.content = db.content /\ s.released = db.released /\ s.ready = db.ready
        /\ s.chunked = db.chunked
        /\ s.indexGen = db.indexGen /\ s.state = db.state /\ s.serving = db.serving /\ s.jobs = db.jobs
    BY <1>0, ZenonT(30) DEF Purged, DBType
  <2> HIDE DEF s
  <2>2. db.content[k.doc] \in {"ARCHIVED", "deleted"}
    BY <1>0, <1>1 DEF Sound, PurgesWithdrawn
  <2>3. ServesPublished(s)
    BY <1>0, <2>1, <2>2 DEF Sound, ServesPublished, Indexed
  <2>4. Sound(s)
    BY <1>0, <2>1, <2>3 DEF Sound, Numbered, ServesOneGeneration, Builds, PurgesWithdrawn
  <2>5. Advances(db, s)
    BY <2>1, <2>4 DEF Advances
  <2>6. Prepares(s, Succeed(s, k))
    BY <2>1, <2>4, SucceedSound
  <2>7. Advances(Succeed(s, k), Activate(Succeed(s, k), k.gen, model))
    BY <1>0, <2>6, ActivateSound DEF Prepares, Advances
  <2>8. Finished(k, h) = Activate(Succeed(s, k), k.gen, model)
    BY Zenon, <1>1 DEF Finished, s
  <2> QED BY <2>5, <2>6, <2>7, <2>8, AdvancesTransitive DEF Prepares
<1>2. CASE k.kind # "purge"
  <2> DEFINE s == [db EXCEPT !.manifest[k.doc][k.gen] = "indexed", !.hash[k.doc][k.gen] = h]
             p == PublishVersion(s, k.doc, k.gen)
             t == Activate(Succeed(p, k), k.gen, model)
             K == {Key("rebuild", k.doc, g) : g \in {i \in Gens : t.state[i] = "building" /\ i # k.gen}}
  <2>1. /\ s \in DBType
        /\ \A d \in Docs, g \in Gens : db.manifest[d][g] = "indexed" => s.manifest[d][g] = "indexed"
        /\ s.manifest[k.doc][k.gen] = "indexed"
        /\ s.content = db.content /\ s.released = db.released /\ s.ready = db.ready
        /\ s.chunked = db.chunked
        /\ s.indexGen = db.indexGen /\ s.state = db.state /\ s.serving = db.serving /\ s.jobs = db.jobs
    BY <1>0, ZenonT(30) DEF DBType
  <2>2. Finished(k, h) = Enqueue(t, K)
    BY Zenon, <1>2 DEF Finished, Propagate
  <2> HIDE DEF s
  <2>3. ServesPublished(s)
    BY <1>0, <2>1 DEF Sound, ServesPublished, Indexed
  <2>4. Sound(s)
    BY <1>0, <2>1, <2>3 DEF Sound, Numbered, ServesOneGeneration, Builds, PurgesWithdrawn
  <2>5. Advances(db, s) /\ Indexed(s, k.doc, k.gen) /\ Live(s, k.doc)
    BY <1>0, <1>2, <2>1, <2>4 DEF Advances, Indexed, Live
  <2>6. Advances(s, p) /\ p.jobs = s.jobs
    <3>1. CASE s.state[k.gen] # "active"
      BY <2>1, <2>4, <3>1 DEF PublishVersion, Advances
    <3>2. CASE s.state[k.gen] = "active"
      <4> DEFINE p1 == [s EXCEPT !.released[k.doc] = TRUE, !.ready[k.doc] = TRUE]
                 p2 == [p1 EXCEPT !.indexGen[k.doc] = k.gen, !.content[k.doc] = "PUBLISHED"]
      <4>0. k.gen \in 0..MaxGen
        BY <1>0 DEF Gens
      <4>1. /\ p1 \in DBType
            /\ p1.released = [s.released EXCEPT ![k.doc] = TRUE] /\ p1.ready = [s.ready EXCEPT ![k.doc] = TRUE]
            /\ p1.content = s.content /\ p1.indexGen = s.indexGen /\ p1.chunked = s.chunked
            /\ p1.manifest = s.manifest /\ p1.state = s.state /\ p1.serving = s.serving /\ p1.jobs = s.jobs
        BY <1>0, <2>1 DEF DBType
      <4> HIDE DEF p1
      <4>2. /\ p2 \in DBType
            /\ p2.indexGen = [s.indexGen EXCEPT ![k.doc] = k.gen]
            /\ p2.content = [s.content EXCEPT ![k.doc] = "PUBLISHED"]
            /\ p2.released = p1.released /\ p2.ready = p1.ready /\ p2.chunked = s.chunked
            /\ p2.manifest = s.manifest /\ p2.state = s.state /\ p2.serving = s.serving /\ p2.jobs = s.jobs
        BY <1>0, <4>0, <4>1 DEF DBType
      <4>3. p = p2
        BY Zenon, <3>2 DEF PublishVersion, p1
      <4> HIDE DEF p2
      <4>4. /\ s.content \in [Docs -> {"none", "DRAFT", "PUBLISHED", "ARCHIVED", "deleted"}]
            /\ s.released \in [Docs -> BOOLEAN] /\ s.ready \in [Docs -> BOOLEAN]
            /\ s.indexGen \in [Docs -> 0..MaxGen]
        BY <2>1 DEF DBType
      <4>5. s.serving = k.gen /\ s.serving # 0
        BY <1>0, <2>4, <3>2, ConstantsAssumption DEF Sound, ServesOneGeneration, Gens
      <4>6. ServesPublished(p2)
        BY <1>0, <2>4, <2>5, <4>1, <4>2, <4>4, <4>5 DEF Sound, ServesPublished, Indexed
      <4>7. PurgesWithdrawn(p2)
        BY <1>0, <2>4, <2>5, <4>2, <4>4, KeyParts DEF Sound, PurgesWithdrawn, Live
      <4>8. Sound(p2)
        BY <2>4, <4>2, <4>6, <4>7 DEF Sound, Numbered, ServesOneGeneration, Builds
      <4> QED BY <2>5, <4>2, <4>3, <4>4, <4>8 DEF Advances, Live
    <3> QED BY <3>1, <3>2
  <2> HIDE DEF p
  <2>7. Prepares(p, Succeed(p, k))
    BY <2>1, <2>6, SucceedSound DEF Advances
  <2>8. Advances(Succeed(p, k), t)
    BY <1>0, <2>7, ActivateSound DEF Prepares, Advances
  <2> HIDE DEF t
  <2>9. K \in SUBSET Keys /\ \A j \in K : j.kind # "purge"
    BY <1>0 DEF Key, Keys, Kinds
  <2> HIDE DEF K
  <2>10. Advances(t, Enqueue(t, K))
    BY <2>8, <2>9, EnqueueSound DEF Prepares, Advances
  <2> QED BY <2>2, <2>5, <2>6, <2>7, <2>8, <2>10, AdvancesTransitive DEF Prepares
<1> QED BY <1>1, <1>2

\* A worker that drops its job, whatever happens to the metadata.
LEMMA ReleaseStep ==
  ASSUME IInv, NEW o \in Owners, Advances(db, db'), worker' = [worker EXCEPT ![o] = Idle],
         UNCHANGED <<model, point, sweep>>
  PROVE  IInv'
<1>1. Idle.phase = "idle"
  BY DEF Idle
<1>2. worker' \in [Owners -> WorkerType]
  BY IdleType DEF IInv, TypeOK
<1>3. WorkersPrepared'
  BY <1>1, KeyParts DEF IInv, TypeOK, WorkersPrepared, Advances
<1> QED BY <1>2, <1>3 DEF IInv, TypeOK, Advances

\* CompleteIngestionJob: the fence gives the document and generation it needs.
LEMMA CompleteSound ==
  ASSUME IInv, NEW o \in Owners, CompleteIngestionJob(o)
  PROVE  IInv' /\ Advances(db, db')
<1> DEFINE k == worker[o].job
<1>1. k \in Keys /\ db.jobs[k] # None
  BY DEF CompleteIngestionJob, Fenced, IInv, WorkersPrepared
<1>2. k.kind # "purge" => Live(db, k.doc) /\ db.chunked[k.doc]
  BY DEF CompleteIngestionJob, Fenced, IInv, WorkersPrepared
<1>3. worker[o].hash \in Hashes \cup {None}
  BY DEF IInv, TypeOK, WorkerType
<1>4. Advances(db, Finished(k, worker[o].hash))
  BY <1>1, <1>2, <1>3, FinishedSound
<1>5. Advances(db, db')
  BY <1>4 DEF CompleteIngestionJob
<1> QED BY <1>5, ReleaseStep DEF CompleteIngestionJob

\* FailIngestionJob.
LEMMA FailSound ==
  ASSUME IInv, NEW o \in Owners, NEW retryable \in BOOLEAN, FailIngestionJob(o, retryable)
  PROVE  IInv' /\ Advances(db, db')
<1> DEFINE k == worker[o].job
           out == IF ~retryable THEN "failed"
                  ELSE IF db.jobs[k].attempt >= MaxAttempts THEN "dead" ELSE "pending"
           row == [db.jobs[k] EXCEPT !.status = out, !.owner = None]
           s == [db EXCEPT !.jobs[k] = row]
           r == s.ready[k.doc] /\ (k.kind = "ingest" => db.released[k.doc])
           t == [s EXCEPT !.ready[k.doc] = r]
<1>1. k \in Keys /\ db.jobs[k] # None /\ db \in DBType /\ Sound(db) /\ k.doc \in Docs
  BY KeyParts DEF FailIngestionJob, Fenced, IInv, TypeOK, WorkersPrepared
<1>2. db.jobs[k] \in JobRows
  BY <1>1 DEF DBType
<1>3. row \in JobRows
  BY <1>2 DEF JobRows, Statuses, Terminal
<1>4. db' = t
  <2>1. db' = [db EXCEPT !.jobs[k].status = out, !.jobs[k].owner = None,
                         !.ready[k.doc] = @ /\ (k.kind = "ingest" => db.released[k.doc])]
    BY Zenon DEF FailIngestionJob
  <2>2. s = [db EXCEPT !.jobs[k].status = out, !.jobs[k].owner = None]
    BY <1>1, <1>2, ZenonT(30) DEF JobRows, DBType
  <2>3. s.ready[k.doc] = db.ready[k.doc]
    BY <1>1 DEF DBType
  <2> QED BY Zenon, <2>1, <2>2, <2>3
<1> HIDE DEF row
<1>5. Prepares(db, s) /\ s \in DBType /\ Sound(s)
  <2>1. k.kind = "purge" => db.content[k.doc] \in {"ARCHIVED", "deleted"}
    BY <1>1 DEF Sound, PurgesWithdrawn
  <2> HIDE DEF k
  <2> QED BY <1>1, <1>3, <2>1, JobSound DEF Prepares, Advances
<1> HIDE DEF s
<1>6. s.content[k.doc] = "PUBLISHED" => r
  BY <1>1, <1>5 DEF Prepares, Sound, ServesPublished
<1>7. r \in BOOLEAN
  BY Zenon
<1> HIDE DEF r
<1>8. Prepares(s, t)
  BY <1>1, <1>5, <1>6, <1>7, ReadySound
<1> HIDE DEF t
<1>9. Advances(db, t)
  BY <1>5, <1>8, AdvancesTransitive DEF Prepares
<1>10. Advances(db, db')
  BY Zenon, <1>4, <1>9
<1> QED BY <1>10, ReleaseStep DEF FailIngestionJob

\* The steps of a worker outside of any transaction.
LEMMA WorkSound ==
  ASSUME IInv, NEW o \in Owners, UpsertPoints(o) \/ VerifyPoints(o) \/ DeletePoints(o) \/ CountDeleted(o)
  PROVE  IInv' /\ UNCHANGED db
<1>1. worker[o].job \in Keys /\ worker[o].job.doc \in Docs /\ worker[o].job.gen \in Gens
  BY KeyParts DEF IInv, WorkersPrepared, UpsertPoints, VerifyPoints, DeletePoints, CountDeleted
<1>2. CASE UpsertPoints(o)
  <2>1. PICK h \in Hashes :
          /\ point' = [point EXCEPT ![worker[o].job.doc][worker[o].job.gen] = h]
          /\ worker' = [worker EXCEPT ![o].phase = "written", ![o].hash = h]
    BY <1>2 DEF UpsertPoints
  <2>2. worker[o].phase = "prepared" /\ UNCHANGED <<db, model, sweep>>
    BY <1>2 DEF UpsertPoints
  <2>3. point' \in [Docs -> [Gens -> Hashes \cup {None}]]
    BY <1>1, <2>1 DEF IInv, TypeOK
  <2>4. worker' \in [Owners -> WorkerType]
    BY <2>1, ZenonT(30) DEF IInv, TypeOK, WorkerType, Phases
  <2>5. \A p \in Owners : p # o => worker'[p] = worker[p]
    BY <2>1 DEF IInv, TypeOK
  <2>6. worker'[o].phase = "written" /\ worker'[o].job = worker[o].job
    BY <2>1 DEF IInv, TypeOK, WorkerType
  <2>7. WorkersPrepared'
    BY <1>1, <2>2, <2>5, <2>6 DEF IInv, WorkersPrepared
  <2> QED BY <2>2, <2>3, <2>4, <2>7 DEF IInv, TypeOK
<1>3. CASE VerifyPoints(o)
  <2>1. worker[o].phase = "written" /\ worker' = [worker EXCEPT ![o].phase = "verified"]
        /\ UNCHANGED <<db, model, point, sweep>>
    BY <1>3 DEF VerifyPoints
  <2>2. worker' \in [Owners -> WorkerType]
    BY <2>1 DEF IInv, TypeOK, WorkerType, Phases
  <2>3. WorkersPrepared'
    BY <1>1, <2>1 DEF IInv, TypeOK, WorkersPrepared, WorkerType
  <2> QED BY <2>1, <2>2, <2>3 DEF IInv, TypeOK
<1>4. CASE DeletePoints(o)
  <2>1. worker[o].job.kind = "purge" /\ worker' = [worker EXCEPT ![o].phase = "deleted"]
        /\ point' = [point EXCEPT ![worker[o].job.doc][worker[o].job.gen] = None]
        /\ UNCHANGED <<db, model, sweep>>
    BY <1>4 DEF DeletePoints
  <2>2. worker' \in [Owners -> WorkerType]
    BY <2>1 DEF IInv, TypeOK, WorkerType, Phases
  <2>3. point' \in [Docs -> [Gens -> Hashes \cup {None}]]
    BY <1>1, <2>1 DEF IInv, TypeOK
  <2>4. WorkersPrepared'
    BY <1>1, <2>1 DEF IInv, TypeOK, WorkersPrepared, WorkerType
  <2> QED BY <2>1, <2>2, <2>3, <2>4 DEF IInv, TypeOK
<1>5. CASE CountDeleted(o)
  <2>1. worker[o].phase = "deleted" /\ worker' = [worker EXCEPT ![o].phase = "verified"]
        /\ UNCHANGED <<db, model, point, sweep>>
    BY <1>5 DEF CountDeleted
  <2>2. worker' \in [Owners -> WorkerType]
    BY <2>1 DEF IInv, TypeOK, WorkerType, Phases
  <2>3. WorkersPrepared'
    BY <1>1, <2>1 DEF IInv, TypeOK, WorkersPrepared, WorkerType
  <2> QED BY <2>1, <2>2, <2>3 DEF IInv, TypeOK
<1> QED BY <1>2, <1>3, <1>4, <1>5

\* BeginIngestionRebuild.
LEMMA BeginRebuildSound ==
  ASSUME IInv, BeginIngestionRebuild
  PROVE  Advances(db, db')
<1> DEFINE g == GenerationFor(db, model, TRUE)
           s == WithGeneration(db, model, TRUE)
           e == Enqueue(s, MissingVersions(s, g))
           t == [e EXCEPT !.approved[g] = FALSE]
<1>1. Prepares(db, s) /\ g \in Gens
  BY WithGenerationSound DEF BeginIngestionRebuild, IInv, TypeOK
<1>2. db' = Activate(t, g, model)
  BY Zenon DEF BeginIngestionRebuild
<1> HIDE DEF g, s
<1>3. Prepares(s, e)
  BY <1>1, EnqueueSound, MissingVersionsType DEF Prepares, Advances
<1> HIDE DEF e
<1>4. /\ t \in DBType /\ t.content = e.content /\ t.chunked = e.chunked /\ t.released = e.released
      /\ t.ready = e.ready /\ t.indexGen = e.indexGen /\ t.state = e.state /\ t.serving = e.serving
      /\ t.manifest = e.manifest /\ t.jobs = e.jobs
  BY <1>1, <1>3 DEF Prepares, Advances, DBType
<1> HIDE DEF t
<1>5. Sound(t)
  BY <1>3, <1>4, JobsSound DEF Prepares, Advances, Sound, PurgesWithdrawn
<1>6. Advances(e, t)
  BY <1>4, <1>5 DEF Advances
<1> DEFINE u == Activate(t, g, model)
<1>7. Advances(t, u)
  BY <1>1, <1>4, <1>5, ActivateSound DEF IInv, TypeOK
<1> HIDE DEF u
<1>8. Advances(db, u)
  BY <1>1, <1>3, <1>6, <1>7, AdvancesTransitive DEF Prepares
<1> QED BY Zenon, <1>2, <1>8 DEF u

\* Promote and Rollback.
LEMMA SwitchSound ==
  ASSUME IInv, NEW g \in Gens, NEW from \in {"ready", "retired"}, Switch(g, from)
  PROVE  Advances(db, db')
<1> DEFINE s == [db EXCEPT !.state[g] = "ready", !.approved[g] = TRUE, !.retained[g] = FALSE]
           t == Activate(s, g, model)
<1>1. /\ s \in DBType /\ s.content = db.content /\ s.chunked = db.chunked /\ s.released = db.released
      /\ s.ready = db.ready /\ s.indexGen = db.indexGen /\ s.serving = db.serving
      /\ s.manifest = db.manifest /\ s.jobs = db.jobs /\ s.state = [db.state EXCEPT ![g] = "ready"]
      /\ db.state \in [Gens -> {"none", "building", "ready", "active", "retired", "failed"}]
  BY DEF IInv, TypeOK, DBType
<1>2. db.state[g] = from /\ (\A h \in Builds(db) : h = g) /\ db' = t
  BY Zenon DEF Switch
<1> HIDE DEF s
<1>3. Numbered(s) /\ ServesOneGeneration(s)
  BY <1>1, <1>2 DEF IInv, Sound, Numbered, ServesOneGeneration, Builds
<1>4. Sound(s)
  BY <1>1, <1>3 DEF IInv, Sound, PurgesWithdrawn, ServesPublished, Indexed
<1>5. Advances(db, s)
  BY <1>1, <1>4 DEF Advances
<1>6. Advances(s, t)
  BY <1>1, <1>4, ActivateSound DEF IInv, TypeOK
<1> HIDE DEF t
<1>7. Advances(db, t)
  BY <1>5, <1>6, AdvancesTransitive
<1> QED BY Zenon, <1>2, <1>7

\* RetryOperationsJob, and a lease running out.
LEMMA JobStepSound ==
  ASSUME IInv, NEW k \in Keys, RetryOperationsJob(k) \/ ExpireLease(k)
  PROVE  Advances(db, db')
<1>1. db.jobs[k] # None /\ db.jobs[k] \in JobRows
  BY DEF RetryOperationsJob, ExpireLease, Status, IInv, TypeOK, DBType
<1>2. PICK row \in JobRows : db' = [db EXCEPT !.jobs[k] = row]
  <2>1. CASE RetryOperationsJob(k)
    BY <2>1, FreshJobType DEF RetryOperationsJob
  <2>2. CASE ExpireLease(k)
    <3> DEFINE row == [db.jobs[k] EXCEPT !.expired = TRUE]
    <3>1. row \in JobRows
      BY <1>1 DEF JobRows
    <3>2. db' = [db EXCEPT !.jobs[k] = row]
      BY <2>2 DEF ExpireLease, IInv, TypeOK, DBType
    <3> QED BY <3>1, <3>2
  <2> QED BY <2>1, <2>2
<1> DEFINE u == [db EXCEPT !.jobs[k] = row]
<1>3. k.kind = "purge" => db.content[k.doc] \in {"ARCHIVED", "deleted"}
  BY <1>1 DEF IInv, Sound, PurgesWithdrawn
<1>4. Advances(db, u)
  BY <1>3, JobSound DEF IInv, TypeOK, Prepares
<1> HIDE DEF u
<1> QED BY Zenon, <1>2, <1>4 DEF u

\* The end of the rollback window.
LEMMA EndRetentionSound ==
  ASSUME IInv, NEW g \in Gens, EndRetention(g)
  PROVE  Advances(db, db')
<1> DEFINE t == [db EXCEPT !.retained[g] = FALSE]
<1>1. /\ t \in DBType /\ t.content = db.content /\ t.chunked = db.chunked /\ t.released = db.released
      /\ t.ready = db.ready /\ t.indexGen = db.indexGen /\ t.state = db.state /\ t.serving = db.serving
      /\ t.manifest = db.manifest /\ t.jobs = db.jobs
  BY DEF IInv, TypeOK, DBType
<1> HIDE DEF t
<1>2. Sound(t)
  BY <1>1, JobsSound DEF IInv, TypeOK, Sound, PurgesWithdrawn
<1>3. Advances(db, t)
  BY <1>1, <1>2 DEF Advances
<1> QED BY Zenon, <1>3 DEF EndRetention, t

\* CleanupIngestionHistory.
LEMMA CleanupSound ==
  ASSUME IInv, NEW k \in Keys, CleanupIngestionHistory(k)
  PROVE  Advances(db, db')
<1> DEFINE old == db.outcome[k.doc]
           keep == old # None /\ <<old.key, k>> \in db.newer
           out == IF keep THEN old ELSE [key |-> k, status |-> Status(db, k)]
           t == [db EXCEPT !.jobs[k] = None, !.outcome[k.doc] = out]
<1>1. out \in [key : Keys, status : Statuses] \cup {None}
  <2>1. Status(db, k) \in Statuses
    BY DEF CleanupIngestionHistory, Statuses
  <2>2. old \in [key : Keys, status : Statuses] \cup {None}
    BY KeyParts DEF IInv, TypeOK, DBType
  <2> QED BY <2>1, <2>2
<1>2. db' = t
  BY Zenon DEF CleanupIngestionHistory
<1> HIDE DEF out
<1>3. /\ t \in DBType /\ t.content = db.content /\ t.chunked = db.chunked /\ t.released = db.released
      /\ t.ready = db.ready /\ t.indexGen = db.indexGen /\ t.state = db.state /\ t.serving = db.serving
      /\ t.manifest = db.manifest /\ t.jobs = [db.jobs EXCEPT ![k] = None]
      /\ db.jobs \in [Keys -> JobRows \cup {None}]
  BY <1>1, KeyParts DEF IInv, TypeOK, DBType
<1> HIDE DEF t
<1>4. Sound(t)
  BY <1>3, JobsSound DEF IInv, TypeOK, Sound, PurgesWithdrawn
<1>5. Advances(db, t)
  BY <1>3, <1>4 DEF Advances
<1> QED BY Zenon, <1>2, <1>5

\* ScheduleIngestionRepair.
LEMMA RepairSound ==
  ASSUME IInv, NEW d \in Docs, NEW g \in Gens, ScheduleIngestionRepair(d, g)
  PROVE  Advances(db, db')
<1> DEFINE K == {Key("rebuild", d, g)}
           t == Enqueue(db, K)
<1>1. K \in SUBSET Keys /\ \A k \in K : k.kind # "purge"
  BY DEF Key, Keys, Kinds
<1>2. db' = t
  BY DEF ScheduleIngestionRepair
<1> HIDE DEF K
<1>3. Advances(db, t)
  BY <1>1, EnqueueSound DEF IInv, TypeOK, Prepares
<1> HIDE DEF t
<1> QED BY Zenon, <1>2, <1>3

------------------------------------------------------------------------------
(* The theorems.                                                           *)

\* Advancing metadata ends no publication.
LEMMA AdvancesKeepWithdrawal ==
  ASSUME Advances(db, db') \/ \A d \in Docs : db'.content[d] = db.content[d]
  PROVE  KeepsWithdrawal
  BY DEF Advances, KeepsWithdrawal

\* The empty knowledge base.
LEMMA InitSound == Init => IInv
<1> SUFFICES ASSUME Init PROVE IInv
  OBVIOUS
<1>1. db \in DBType
  BY ConstantsAssumption DEF Init, DBType
<1>2. /\ db.content = [d \in Docs |-> "none"] /\ db.state = [g \in Gens |-> "none"] /\ db.serving = 0
      /\ db.jobs = [k \in Keys |-> None]
  BY DEF Init
<1>3. \A g \in Gens : g > 0
  BY DEF Gens
<1>4. Numbered(db)
  BY <1>2, <1>3, ConstantsAssumption DEF Numbered, Gens
<1>5. Sound(db)
  BY <1>2, <1>3, <1>4 DEF Sound, ServesOneGeneration, Builds, PurgesWithdrawn, ServesPublished
<1>6. worker \in [Owners -> WorkerType] /\ point \in [Docs -> [Gens -> Hashes \cup {None}]]
      /\ model \in Models /\ sweep = {}
  BY IdleType DEF Init
<1>7. WorkersPrepared
  BY DEF Init, WorkersPrepared, Idle
<1> QED BY <1>1, <1>5, <1>6, <1>7 DEF IInv, TypeOK

\* Every step keeps the invariant, one case per action.
LEMMA StepSound == IInv /\ [Next]_vars => IInv' /\ (KeepsWithdrawal \/ UNCHANGED vars)
<1> SUFFICES ASSUME IInv, [Next]_vars PROVE IInv' /\ (KeepsWithdrawal \/ UNCHANGED vars)
  OBVIOUS
<1> USE AdvancesKeepWithdrawal
<1>0. model \in Models /\ point \in [Docs -> [Gens -> Hashes \cup {None}]] /\ sweep \subseteq Docs \X Gens
  BY DEF IInv, TypeOK
<1>1. ASSUME NEW d \in Docs, OwnerStep(d) PROVE IInv' /\ KeepsWithdrawal
  <2>1. CASE RegisterIngestion(d)
    BY <2>1, RegisterSound
  <2>2. CASE RetryIngestion(d)
    <3>1. Advances(db, db') /\ UNCHANGED <<model, point, worker, sweep>>
      BY <2>2, RetrySound DEF RetryIngestion
    <3> QED BY <1>0, <3>1, AdvanceStep
  <2>3. CASE \E deleted \in BOOLEAN : WithdrawIngestion(d, deleted)
    BY <2>3, WithdrawSound
  <2> QED BY <1>1, <2>1, <2>2, <2>3 DEF OwnerStep
<1>2. ASSUME NEW o \in Owners, Poll(o) PROVE IInv' /\ KeepsWithdrawal
  <2>1. CASE ClaimIngestionJob(o)
    BY <2>1, ClaimSound DEF ClaimIngestionJob
  <2>2. CASE PollEmpty(o)
    <3>1. Advances(db, BuryExhausted(db))
      BY BuryExhaustedSound DEF IInv, TypeOK, Prepares
    <3>2. Advances(db, db') /\ UNCHANGED <<model, point, worker, sweep>>
      BY <2>2, <3>1 DEF PollEmpty
    <3> QED BY <1>0, <3>2, AdvanceStep
  <2> QED BY <1>2, <2>1, <2>2 DEF Poll
<1>3. ASSUME NEW o \in Owners, WorkerStep(o) PROVE IInv' /\ KeepsWithdrawal
  <2>1. CASE PrepareIngestionChunks(o)
    BY <2>1, PrepareSound
  <2>2. CASE UpsertPoints(o) \/ VerifyPoints(o) \/ DeletePoints(o) \/ CountDeleted(o)
    BY <2>2, WorkSound
  <2>3. CASE CompleteIngestionJob(o)
    BY <2>3, CompleteSound
  <2>4. CASE \E retryable \in BOOLEAN : FailIngestionJob(o, retryable)
    BY <2>4, FailSound
  <2>5. CASE AbandonWork(o)
    <3>1. Advances(db, db') /\ worker' = [worker EXCEPT ![o] = Idle] /\ UNCHANGED <<model, point, sweep>>
      BY <2>5 DEF AbandonWork, Advances, IInv, TypeOK
    <3> QED BY <3>1, ReleaseStep
  <2> QED BY <1>3, <2>1, <2>2, <2>3, <2>4, <2>5 DEF WorkerStep
<1>4. ASSUME AdminStep PROVE IInv' /\ KeepsWithdrawal
  <2>1. CASE \E m \in Models : ActivateEmbeddingModelVersion(m)
    <3>1. Advances(db, db') /\ model' \in Models /\ UNCHANGED <<point, worker, sweep>>
      BY <2>1 DEF ActivateEmbeddingModelVersion, Advances, IInv, TypeOK
    <3> QED BY <1>0, <3>1, AdvanceStep
  <2>2. CASE BeginIngestionRebuild
    <3>1. Advances(db, db') /\ UNCHANGED <<model, point, worker, sweep>>
      BY <2>2, BeginRebuildSound DEF BeginIngestionRebuild
    <3> QED BY <1>0, <3>1, AdvanceStep
  <2>3. CASE \E g \in Gens : Promote(g) \/ Rollback(g)
    <3>1. PICK g \in Gens, from \in {"ready", "retired"} : Switch(g, from)
      BY <2>3 DEF Promote, Rollback
    <3>2. Advances(db, db') /\ UNCHANGED <<model, point, worker, sweep>>
      BY <3>1, SwitchSound DEF Switch
    <3> QED BY <1>0, <3>2, AdvanceStep
  <2>4. CASE \E k \in Keys : RetryOperationsJob(k)
    <3>1. Advances(db, db') /\ UNCHANGED <<model, point, worker, sweep>>
      BY <2>4, JobStepSound DEF RetryOperationsJob
    <3> QED BY <1>0, <3>1, AdvanceStep
  <2> QED BY <1>4, <2>1, <2>2, <2>3, <2>4 DEF AdminStep
<1>5. ASSUME TimeStep PROVE IInv' /\ KeepsWithdrawal
  <2>1. Advances(db, db') /\ UNCHANGED <<model, point, worker, sweep>>
    <3>1. CASE \E k \in Keys : ExpireLease(k)
      BY <3>1, JobStepSound DEF ExpireLease
    <3>2. CASE \E g \in Gens : EndRetention(g)
      BY <3>2, EndRetentionSound DEF EndRetention
    <3>3. CASE \E k \in Keys : CleanupIngestionHistory(k)
      BY <3>3, CleanupSound DEF CleanupIngestionHistory
    <3> QED BY <1>5, <3>1, <3>2, <3>3 DEF TimeStep
  <2> QED BY <1>0, <2>1, AdvanceStep
<1>6. ASSUME ReconcileStep PROVE IInv' /\ KeepsWithdrawal
  <2>1. CASE \E d \in Docs, g \in Gens : ScheduleIngestionRepair(d, g)
    <3>1. Advances(db, db') /\ UNCHANGED <<model, point, worker, sweep>>
      BY <2>1, RepairSound DEF ScheduleIngestionRepair
    <3> QED BY <1>0, <3>1, AdvanceStep
  <2>2. CASE (\E g \in Gens : JudgePoints(g)) \/ RemovePoints
    <3>1. sweep' \subseteq Docs \X Gens
      BY <2>2 DEF JudgePoints, RemovePoints
    <3>2. point' \in [Docs -> [Gens -> Hashes \cup {None}]]
      <4>1. CASE RemovePoints
        <5>1. \A d \in Docs, g \in Gens : point[d][g] \in Hashes \cup {None}
          BY <1>0
        <5>2. point' = [d \in Docs |-> [g \in Gens |-> IF <<d, g>> \in sweep THEN None ELSE point[d][g]]]
          BY <4>1 DEF RemovePoints
        <5> QED BY <5>1, <5>2
      <4> QED BY <1>0, <2>2, <4>1 DEF JudgePoints
    <3>3. Advances(db, db') /\ UNCHANGED <<model, worker>>
      BY <2>2 DEF JudgePoints, RemovePoints, Advances, IInv, TypeOK
    <3> QED BY <1>0, <3>1, <3>2, <3>3, AdvanceStep
  <2> QED BY <1>6, <2>1, <2>2 DEF ReconcileStep
<1>7. CASE UNCHANGED vars
  BY <1>7 DEF vars, IInv, TypeOK, WorkersPrepared, Sound, Numbered, ServesOneGeneration, Builds,
              PurgesWithdrawn, ServesPublished, Indexed
<1> QED BY <1>1, <1>2, <1>3, <1>4, <1>5, <1>6, <1>7 DEF Next

\* Every reachable state satisfies the inductive invariant.
LEMMA InductiveInvariant == Spec => []IInv
<1>1. Init => IInv
  BY InitSound
<1>2. IInv /\ [Next]_vars => IInv'
  BY StepSound
<1> QED BY <1>1, <1>2, PTL DEF Spec

\* Every variable keeps its type; in particular no job is ever attempted more than
\* max_attempts times and no generation number is used twice.
THEOREM TypeCorrect == Spec => []TypeOK
<1>1. IInv => TypeOK
  BY DEF IInv
<1> QED BY <1>1, InductiveInvariant, PTL

\* active_generation and the generation states agree, and at most one build is under
\* way, after any sequence of rebuilds, supersessions, promotes and rollbacks.
THEOREM ServesOneActiveGeneration == Spec => []OneGeneration
<1>1. IInv => OneGeneration
  BY DEF IInv, Sound, OneGeneration
<1> QED BY <1>1, InductiveInvariant, PTL

\* A published document is always complete in the generation that is served
\* (the visibility conditions of resource search), whatever jobs fail or are retried.
THEOREM PublishedStaysServed == Spec => []PublishedIsServed
<1>1. IInv => PublishedIsServed
  BY DEF IInv, Sound, PublishedIsServed
<1> QED BY <1>1, InductiveInvariant, PTL

\* WithdrawIngestion is final: nothing in flight brings a withdrawn document back, and
\* nothing else ends a publication.
THEOREM WithdrawalStaysFinal == Spec => WithdrawalIsFinal
<1>1. IInv /\ [Next]_vars => [KeepsWithdrawal]_vars
  BY StepSound DEF vars
<1>2. [KeepsWithdrawal]_vars <=>
        [\A d \in Docs :
           /\ db.content[d] \in {"ARCHIVED", "deleted"} => db'.content[d] \in {"deleted", db.content[d]}
           /\ db.content[d] = "PUBLISHED" /\ db'.content[d] # "PUBLISHED"
                => \E deleted \in BOOLEAN : WithdrawIngestion(d, deleted)]_vars
  BY DEF KeepsWithdrawal
<1> QED BY <1>1, <1>2, InductiveInvariant, PTL DEF Spec, WithdrawalIsFinal

------------------------------------------------------------------------------
(* Switches, points and history.  Fit(s) adds to Sound what keeps a build  *)
(* from going live unasked, a manifest from losing its point's trail and   *)
(* the job history in order; Continues(s, t, m) says that a handler, run   *)
(* while m is the active model, keeps all of it and switches nothing.      *)

Withdrawn(s, d) == s.content[d] \in {"ARCHIVED", "deleted"}

\* A generation that never serves again.
Gone(s, g) == s.state[g] = "failed" \/ (s.state[g] = "retired" /\ ~s.retained[g])

\* A build may go live unattended only where nothing is served yet.
Vetted(s) == \A g \in Gens : g \in Builds(s) /\ s.approved[g] => s.serving = 0

\* A manifest belongs to an uploaded document and a numbered generation, and is
\* deleted only with its document.
Known(s) ==
  \A d \in Docs, g \in Gens : s.manifest[d][g] # "none" =>
    /\ s.content[d] # "none" /\ s.state[g] # "none"
    /\ s.manifest[d][g] = "deleted" => Withdrawn(s, d)

\* The jobs that count for a document: its rows and its compact outcome.
Born(s, d) == {k \in Keys : k.doc = d /\ (s.jobs[k] # None \/ (s.outcome[d] # None /\ s.outcome[d].key = k))}

\* The jobs of a document that is not withdrawn are told apart by age.
LinearOn(N, B) ==
  /\ \A i \in B : <<i, i>> \notin N
  /\ \A i, j \in B : i # j => <<i, j>> \in N \/ <<j, i>> \in N
  /\ \A i, j, k \in B : <<i, j>> \in N /\ <<j, k>> \in N => <<i, k>> \in N

Ordered(s) ==
  \A d \in Docs :
    /\ s.outcome[d] # None => s.outcome[d].key.doc = d
    /\ s.content[d] = "none" => Born(s, d) = {}
    /\ ~Withdrawn(s, d) => LinearOn(s.newer, Born(s, d))

Fit(s) == s \in DBType /\ Sound(s) /\ Vetted(s) /\ Known(s) /\ Ordered(s)

\* What is over stays over.
Keeps(s, t) ==
  /\ \A g \in Gens : /\ s.state[g] # "none" => t.state[g] # "none" /\ t.genModel[g] = s.genModel[g]
                     /\ s.state[g] = "failed" => t.state[g] = "failed"
                     /\ Gone(s, g) => Gone(t, g)
  /\ \A d \in Docs : /\ s.content[d] # "none" => t.content[d] # "none"
                     /\ Withdrawn(s, d) => Withdrawn(t, d)
                     /\ \A g \in Gens : /\ s.manifest[d][g] # "none" => t.manifest[d][g] # "none"
                                        /\ s.manifest[d][g] = "deleted" => t.manifest[d][g] = "deleted"

\* Whatever goes live, goes live in a generation of model m.
Arrives(s, t, m) ==
  t.serving # s.serving \/ (\E d \in Docs : s.content[d] = "DRAFT" /\ t.content[d] = "PUBLISHED")
    => t.serving \in Gens /\ t.genModel[t.serving] = m

Continues(s, t, m) ==
  /\ Fit(t) /\ Keeps(s, t) /\ Arrives(s, t, m)
  /\ s.serving # 0 => t.serving = s.serving

\* Points and the workers' knowledge of them.
PointsKnown == \A d \in Docs, g \in Gens : point[d][g] # None => db.manifest[d][g] # "none"
WorkersKnown ==
  \A o \in Owners :
    LET w == worker[o]
    IN /\ w.phase = "prepared" => w.job.kind # "purge"
       /\ w.phase \in {"prepared", "written"} => db.manifest[w.job.doc][w.job.gen] # "none"
SweepKnown == \A p \in sweep : db.manifest[p[1]][p[2]] # "none" /\ ~Desired(db, p[1], p[2])

History == IInv /\ Fit(db) /\ PointsKnown /\ WorkersKnown /\ SweepKnown

------------------------------------------------------------------------------
(* The building blocks keep the history and switch nothing by themselves.  *)

\* What is over stays over through a whole transaction.
LEMMA ContinuesTransitive ==
  ASSUME NEW s, NEW t, NEW u, NEW m, Fit(s), Continues(s, t, m), Continues(t, u, m)
  PROVE  Continues(s, u, m)
<1>1. Fit(u) /\ Keeps(s, u) /\ (s.serving # 0 => u.serving = s.serving)
  <2>1. Fit(u) /\ (s.serving # 0 => u.serving = s.serving)
    BY DEF Continues
  <2>2. Keeps(s, u)
    BY DEF Continues, Keeps
  <2> QED BY <2>1, <2>2
<1>2. ASSUME u.serving # s.serving \/ \E d \in Docs : s.content[d] = "DRAFT" /\ u.content[d] = "PUBLISHED"
      PROVE  u.serving \in Gens /\ u.genModel[u.serving] = m
  <2>1. CASE u.serving # t.serving \/ \E d \in Docs : t.content[d] = "DRAFT" /\ u.content[d] = "PUBLISHED"
    BY <2>1 DEF Continues, Arrives
  <2>2. CASE u.serving = t.serving /\ ~ \E d \in Docs : t.content[d] = "DRAFT" /\ u.content[d] = "PUBLISHED"
    <3>1. ASSUME NEW d \in Docs, s.content[d] = "DRAFT", u.content[d] = "PUBLISHED" PROVE t.content[d] = "PUBLISHED"
      <4>1. t.content[d] \in {"none", "DRAFT", "PUBLISHED", "ARCHIVED", "deleted"}
        BY DEF Continues, Fit, DBType
      <4>2. t.content[d] # "none"
        BY <3>1 DEF Continues, Keeps
      <4>3. ~Withdrawn(t, d)
        BY <3>1 DEF Continues, Keeps, Withdrawn
      <4> QED BY <2>2, <3>1, <4>1, <4>2, <4>3 DEF Withdrawn
    <3>2. t.serving \in Gens /\ t.genModel[t.serving] = m
      BY <1>2, <2>2, <3>1 DEF Continues, Arrives
    <3>3. t.state[t.serving] # "none"
      BY <3>2 DEF Continues, Fit, Sound, ServesOneGeneration
    <3> QED BY <2>2, <3>2, <3>3 DEF Continues, Keeps
  <2> QED BY <2>1, <2>2
<1> QED BY <1>1, <1>2 DEF Continues, Arrives

\* Changes of anything but documents, generations and manifests.
LEMMA FrameContinues ==
  ASSUME NEW s, NEW t, NEW m, Fit(s), t \in DBType, Sound(t), Ordered(t),
         t.content = s.content, t.state = s.state, t.genModel = s.genModel, t.approved = s.approved,
         t.retained = s.retained, t.serving = s.serving, t.manifest = s.manifest
  PROVE  Continues(s, t, m)
<1>1. Vetted(t) /\ Known(t)
  BY DEF Fit, Vetted, Known, Builds, Withdrawn
<1>2. Keeps(s, t)
  BY DEF Keeps, Gone, Withdrawn
<1> QED BY <1>1, <1>2 DEF Continues, Fit, Arrives

\* The order by age survives as long as no row is added.
LEMMA OrderedFrame ==
  ASSUME NEW s \in DBType, NEW t \in DBType, Ordered(s), t.newer = s.newer, t.outcome = s.outcome, t.content = s.content,
         \A k \in Keys : t.jobs[k] # None => s.jobs[k] # None
  PROVE  Ordered(t)
<1>1. \A d \in Docs : Born(t, d) \subseteq Born(s, d)
  BY DEF Born
<1> QED BY <1>1 DEF Ordered, LinearOn, Withdrawn

\* What enqueueIngestion changes.
LEMMA EnqueueFields ==
  ASSUME NEW s \in DBType, NEW K \in SUBSET Keys
  PROVE  LET t   == Enqueue(s, K)
             new == {k \in K : s.jobs[k] = None}
         IN /\ t.content = s.content /\ t.state = s.state /\ t.genModel = s.genModel /\ t.approved = s.approved
            /\ t.retained = s.retained /\ t.serving = s.serving /\ t.manifest = s.manifest /\ t.outcome = s.outcome
            /\ t.jobs = [k \in Keys |-> IF k \in K /\ ~Queued(s, k) THEN FreshJob ELSE s.jobs[k]]
            /\ t.newer = {p \in s.newer : p[1] \notin new /\ p[2] \notin new}
                           \cup {p \in new \X (Keys \ new) : p[1].doc = p[2].doc}
  BY DEF Enqueue, DBType

\* A job that is enqueued for a document becomes its youngest.
LEMMA EnqueueOrdered ==
  ASSUME NEW s \in DBType, Ordered(s), NEW K \in SUBSET Keys,
         \A k \in K : s.content[k.doc] # "none",
         \A j, k \in K : j.doc = k.doc /\ ~Withdrawn(s, k.doc) => j = k
  PROVE  Ordered(Enqueue(s, K))
<1> DEFINE t == Enqueue(s, K)
           new == {k \in K : s.jobs[k] = None}
<1>1. /\ t.content = s.content /\ t.outcome = s.outcome
      /\ t.jobs = [k \in Keys |-> IF k \in K /\ ~Queued(s, k) THEN FreshJob ELSE s.jobs[k]]
      /\ t.newer = {p \in s.newer : p[1] \notin new /\ p[2] \notin new}
                     \cup {p \in new \X (Keys \ new) : p[1].doc = p[2].doc}
  BY EnqueueFields
<1> HIDE DEF t
<1>2. \A k \in Keys : t.jobs[k] # None => s.jobs[k] # None \/ k \in new
  BY <1>1 DEF Queued, Status
<1>3. new \subseteq K /\ new \subseteq Keys
  OBVIOUS
<1>4. \A i, j \in Keys : i.doc = j.doc =>
        (<<i, j>> \in t.newer <=> \/ i \notin new /\ j \notin new /\ <<i, j>> \in s.newer
                                  \/ i \in new /\ j \notin new)
  BY <1>1, <1>3
<1> HIDE DEF new
<1>5. ASSUME NEW d \in Docs PROVE /\ s.content[d] = "none" => Born(t, d) = {}
                                  /\ ~Withdrawn(s, d) => LinearOn(t.newer, Born(t, d))
  <2>1. Born(t, d) \subseteq Keys /\ (\A k \in Born(t, d) : k.doc = d) /\ \A k \in Born(t, d) : k \in Born(s, d) \/ k \in new
    BY <1>1, <1>2 DEF Born
  <2>2. s.content[d] = "none" => Born(t, d) = {}
    BY <1>3, <2>1 DEF Ordered
  <2>3. ASSUME ~Withdrawn(s, d) PROVE LinearOn(t.newer, Born(t, d))
    <3>1. \A i, j \in Born(t, d) : i \in new /\ j \in new => i = j
      BY <1>3, <2>1, <2>3
    <3>2. LinearOn(s.newer, Born(s, d))
      BY <2>3 DEF Ordered
    <3>3. \A i, j \in Born(t, d) :
            (<<i, j>> \in t.newer <=> \/ i \notin new /\ j \notin new /\ <<i, j>> \in s.newer
                                      \/ i \in new /\ j \notin new)
      BY <1>4, <2>1
    <3> QED BY <2>1, <3>1, <3>2, <3>3 DEF LinearOn
  <2> QED BY <2>2, <2>3
<1> QED BY <1>1, <1>5 DEF Ordered, t, Withdrawn

\* Enqueueing: purges only for what is withdrawn, else one job per document.
LEMMA EnqueueContinues ==
  ASSUME NEW s, NEW m, Fit(s), NEW K \in SUBSET Keys,
         \A k \in K : k.kind = "purge" => Withdrawn(s, k.doc),
         \A k \in K : s.content[k.doc] # "none",
         \A j, k \in K : j.doc = k.doc /\ ~Withdrawn(s, k.doc) => j = k
  PROVE  Continues(s, Enqueue(s, K), m)
<1> DEFINE t == Enqueue(s, K)
<1>1. t \in DBType /\ Sound(t)
  BY EnqueueSound DEF Fit, Withdrawn, Prepares, Advances
<1>2. Ordered(t)
  BY EnqueueOrdered DEF Fit
<1>3. /\ t.content = s.content /\ t.state = s.state /\ t.genModel = s.genModel /\ t.approved = s.approved
      /\ t.retained = s.retained /\ t.serving = s.serving /\ t.manifest = s.manifest
  BY EnqueueFields DEF Fit
<1> HIDE DEF t
<1>4. Continues(s, t, m)
  BY <1>1, <1>2, <1>3, FrameContinues
<1> QED BY <1>4 DEF t

\* One job of one live document.
LEMMA EnqueueOneContinues ==
  ASSUME NEW s, NEW m, Fit(s), NEW k \in Keys, k.kind # "purge", s.content[k.doc] # "none"
  PROVE  Continues(s, Enqueue(s, {k}), m)
<1> DEFINE K == {k}
<1>1. K \in SUBSET Keys /\ \A j \in K : j = k
  OBVIOUS
<1> HIDE DEF K
<1>2. Continues(s, Enqueue(s, K), m)
  BY <1>1, EnqueueContinues
<1> QED BY <1>2 DEF K

\* A build enqueues one job for each live document.
LEMMA MissingContinues ==
  ASSUME NEW s, NEW m, Fit(s), NEW g \in Gens
  PROVE  Continues(s, Enqueue(s, MissingVersions(s, g)), m)
<1> DEFINE K == MissingVersions(s, g)
<1>1. K \in SUBSET Keys /\ \A k \in K : k.kind # "purge"
  BY MissingVersionsType
<1>2. \A k \in K : k.doc \in Docs /\ Live(s, k.doc)
                   /\ k = Key(IF s.content[k.doc] = "DRAFT" THEN "ingest" ELSE "rebuild", k.doc, g)
  BY DEF MissingVersions, Key
<1>3. \A k \in K : s.content[k.doc] # "none"
  BY <1>2 DEF Live
<1>4. \A j, k \in K : j.doc = k.doc => j = k
  BY <1>2
<1> HIDE DEF K
<1>5. Continues(s, Enqueue(s, K), m)
  BY <1>1, <1>3, <1>4, EnqueueContinues
<1> QED BY <1>5 DEF K

\* Cancelling touches job rows only.
LEMMA CancelContinues ==
  ASSUME NEW s, NEW m, Fit(s), NEW K \in SUBSET Keys
  PROVE  Continues(s, Cancel(s, K), m)
<1> DEFINE t == Cancel(s, K)
<1>1. t \in DBType /\ Sound(t)
  BY CancelSound DEF Fit, Prepares, Advances
<1>2. /\ t.content = s.content /\ t.state = s.state /\ t.genModel = s.genModel /\ t.approved = s.approved
      /\ t.retained = s.retained /\ t.serving = s.serving /\ t.manifest = s.manifest
      /\ t.newer = s.newer /\ t.outcome = s.outcome
  BY DEF Cancel, DBType, Fit
<1>3. \A k \in Keys : t.jobs[k] # None => s.jobs[k] # None
  BY DEF Cancel, DBType, Status, Fit
<1> HIDE DEF t
<1>4. Ordered(t)
  BY <1>1, <1>2, <1>3, OrderedFrame DEF Fit
<1>5. Continues(s, t, m)
  BY <1>1, <1>2, <1>4, FrameContinues
<1> QED BY <1>5 DEF t

\* So does the sweep for exhausted jobs.
LEMMA BuryContinues ==
  ASSUME NEW s, NEW m, Fit(s)
  PROVE  Continues(s, BuryExhausted(s), m)
<1> DEFINE t == BuryExhausted(s)
<1>1. t \in DBType /\ Sound(t)
  BY BuryExhaustedSound DEF Fit, Prepares, Advances
<1>2. /\ t.content = s.content /\ t.state = s.state /\ t.genModel = s.genModel /\ t.approved = s.approved
      /\ t.retained = s.retained /\ t.serving = s.serving /\ t.manifest = s.manifest
      /\ t.newer = s.newer /\ t.outcome = s.outcome
  BY DEF BuryExhausted, DBType, Fit
<1>3. \A k \in Keys : t.jobs[k] # None => s.jobs[k] # None
  BY DEF BuryExhausted, DBType, Exhausted, Fit
<1> HIDE DEF t
<1>4. Ordered(t)
  BY <1>1, <1>2, <1>3, OrderedFrame DEF Fit
<1>5. Continues(s, t, m)
  BY <1>1, <1>2, <1>4, FrameContinues
<1> QED BY <1>5 DEF t

\* One existing job row replaced.
LEMMA JobContinues ==
  ASSUME NEW s, NEW m, Fit(s), NEW k \in Keys, s.jobs[k] # None, NEW row \in JobRows
  PROVE  Continues(s, [s EXCEPT !.jobs[k] = row], m)
<1> DEFINE t == [s EXCEPT !.jobs[k] = row]
<1>1. k.kind = "purge" => s.content[k.doc] \in {"ARCHIVED", "deleted"}
  BY DEF Fit, Sound, PurgesWithdrawn
<1>2. t \in DBType /\ Sound(t)
  BY <1>1, JobSound DEF Fit, Prepares, Advances
<1>3. /\ t.content = s.content /\ t.state = s.state /\ t.genModel = s.genModel /\ t.approved = s.approved
      /\ t.retained = s.retained /\ t.serving = s.serving /\ t.manifest = s.manifest
      /\ t.newer = s.newer /\ t.outcome = s.outcome /\ t.jobs = [s.jobs EXCEPT ![k] = row]
      /\ s.jobs \in [Keys -> JobRows \cup {None}]
  BY DEF DBType, Fit
<1> HIDE DEF t
<1>4. \A j \in Keys : t.jobs[j] # None => s.jobs[j] # None
  BY <1>3
<1>5. Ordered(t)
  BY <1>2, <1>3, <1>4, OrderedFrame DEF Fit
<1>6. Continues(s, t, m)
  BY <1>2, <1>3, <1>5, FrameContinues
<1> QED BY <1>6 DEF t

\* A completed job.
LEMMA SucceedContinues ==
  ASSUME NEW s, NEW m, Fit(s), NEW k \in Keys, s.jobs[k] # None
  PROVE  Continues(s, Succeed(s, k), m)
<1> DEFINE row == [s.jobs[k] EXCEPT !.status = "succeeded", !.owner = None, !.expired = FALSE]
<1>1. s.jobs[k] \in JobRows
  BY DEF DBType, Fit
<1>2. row \in JobRows
  BY <1>1 DEF JobRows, Statuses, Terminal
<1>3. Succeed(s, k) = [s EXCEPT !.jobs[k] = row]
  BY <1>1, ZenonT(30) DEF Succeed, JobRows, DBType, Fit
<1> HIDE DEF row
<1> QED BY <1>2, <1>3, JobContinues

\* Whether a document is ready.
LEMMA ReadyContinues ==
  ASSUME NEW s, NEW m, Fit(s), NEW d \in Docs, NEW r \in BOOLEAN, s.content[d] = "PUBLISHED" => r
  PROVE  Continues(s, [s EXCEPT !.ready[d] = r], m)
<1> DEFINE t == [s EXCEPT !.ready[d] = r]
<1>1. t \in DBType /\ Sound(t)
  BY ReadySound DEF Fit, Prepares, Advances
<1>2. /\ t.content = s.content /\ t.state = s.state /\ t.genModel = s.genModel /\ t.approved = s.approved
      /\ t.retained = s.retained /\ t.serving = s.serving /\ t.manifest = s.manifest
      /\ t.newer = s.newer /\ t.outcome = s.outcome /\ t.jobs = s.jobs
  BY DEF DBType, Fit
<1> HIDE DEF t
<1>3. Ordered(t)
  BY <1>1, <1>2, OrderedFrame DEF Fit
<1>4. Continues(s, t, m)
  BY <1>1, <1>2, <1>3, FrameContinues
<1> QED BY <1>4 DEF t

\* What a switch does to the fields that SwitchToFields leaves out.
LEMMA SwitchToRest ==
  ASSUME NEW s \in DBType, NEW g \in Gens
  PROVE  LET t == SwitchTo(s, g) IN
         /\ t.retained = [h \in Gens |-> s.retained[h] \/ (s.state[h] = "active" /\ h # g)]
         /\ t.genModel = s.genModel /\ t.approved = s.approved /\ t.newer = s.newer /\ t.outcome = s.outcome
<1> DEFINE content == [d \in Docs |-> IF d \in Arriving(s, g) THEN "PUBLISHED" ELSE s.content[d]]
           released == [d \in Docs |-> s.released[d] \/ d \in Released(s, g)]
           ready == [d \in Docs |-> s.ready[d] \/ d \in Repointed(s, g)]
           indexGen == [d \in Docs |-> IF d \in Repointed(s, g) THEN g ELSE s.indexGen[d]]
           retained == [h \in Gens |-> s.retained[h] \/ (s.state[h] = "active" /\ h # g)]
           state == [h \in Gens |-> IF h = g THEN "active"
                                    ELSE IF s.state[h] = "active" THEN "retired" ELSE s.state[h]]
           t == [s EXCEPT !.content = content, !.released = released, !.ready = ready,
                          !.indexGen = indexGen, !.retained = retained, !.state = state, !.serving = g]
<1>1. SwitchTo(s, g) = t
  BY Zenon DEF SwitchTo
<1> HIDE DEF content, released, ready, indexGen, retained, state
<1>2. /\ t.retained = retained
      /\ t.genModel = s.genModel /\ t.approved = s.approved /\ t.newer = s.newer /\ t.outcome = s.outcome
  BY DEF DBType
<1> HIDE DEF t
<1> QED BY Zenon, <1>1, <1>2 DEF retained

\* A switch to the one build there is.
LEMMA SwitchToContinues ==
  ASSUME NEW s \in DBType, NEW m, Sound(s), Known(s), Ordered(s),
         NEW g \in Builds(s), s.genModel[g] = m, ~Incomplete(s, g)
  PROVE  Fit(SwitchTo(s, g)) /\ Keeps(s, SwitchTo(s, g)) /\ Arrives(s, SwitchTo(s, g), m)
<1> DEFINE t == SwitchTo(s, g)
<1>0. g \in Gens /\ s \in DBType /\ s.state[g] \in {"building", "ready"} /\ \A h \in Builds(s) : h = g
  BY DEF Builds, Sound, ServesOneGeneration
<1>1. /\ t.content = [d \in Docs |-> IF d \in Arriving(s, g) THEN "PUBLISHED" ELSE s.content[d]]
      /\ t.state = [h \in Gens |-> IF h = g THEN "active"
                                   ELSE IF s.state[h] = "active" THEN "retired" ELSE s.state[h]]
      /\ t.serving = g
      /\ t.manifest = s.manifest /\ t.jobs = s.jobs
  BY <1>0, Zenon, SwitchToFields
<1>2. /\ t.retained = [h \in Gens |-> s.retained[h] \/ (s.state[h] = "active" /\ h # g)]
      /\ t.genModel = s.genModel /\ t.approved = s.approved /\ t.newer = s.newer /\ t.outcome = s.outcome
  BY <1>0, Zenon, SwitchToRest
<1>3. t \in DBType /\ Sound(t)
  BY <1>0, SwitchToSound DEF Advances
<1> HIDE DEF t
<1>4. Vetted(t)
  <2>1. Builds(t) = {}
    BY <1>0, <1>1 DEF Builds
  <2> QED BY <2>1 DEF Vetted
<1>5. \A d \in Docs : /\ t.content[d] = s.content[d] \/ (s.content[d] = "DRAFT" /\ t.content[d] = "PUBLISHED")
                      /\ Withdrawn(t, d) <=> Withdrawn(s, d)
                      /\ s.content[d] = "none" <=> t.content[d] = "none"
  BY <1>1 DEF Arriving, Withdrawn
<1>6. \A h \in Gens : s.state[h] # "none" => t.state[h] # "none"
  BY <1>1
<1>7. Known(t)
  BY <1>1, <1>5, <1>6 DEF Known
<1>8. Ordered(t)
  <2>1. \A d \in Docs : Born(t, d) = Born(s, d)
    BY <1>1, <1>2 DEF Born
  <2> QED BY <1>2, <1>5, <2>1, ZenonT(30) DEF Ordered
<1>9. \A h \in Gens : /\ s.state[h] = "failed" => t.state[h] = "failed"
                      /\ Gone(s, h) => Gone(t, h)
  BY <1>0, <1>1, <1>2 DEF Gone
<1>10. Keeps(s, t)
  BY <1>1, <1>2, <1>5, <1>6, <1>9 DEF Keeps
<1>11. Arrives(s, t, m)
  BY <1>0, <1>1, <1>2 DEF Arrives
<1> QED BY <1>3, <1>4, <1>7, <1>8, <1>10, <1>11 DEF Fit, t

\* activateIngestionGeneration never switches what is already serving.
LEMMA ActivateContinues ==
  ASSUME NEW s, NEW m, Fit(s), NEW g \in Gens, m \in Models
  PROVE  Continues(s, Activate(s, g, m), m)
<1>0. Continues(s, s, m)
  BY FrameContinues DEF Fit
<1>1. CASE s.state[g] \notin {"building", "ready"} \/ s.genModel[g] # m \/ Barrier(s, g)
  BY <1>0, <1>1 DEF Activate
<1>2. CASE ~(s.state[g] \notin {"building", "ready"} \/ s.genModel[g] # m \/ Barrier(s, g))
  <2>1. CASE Incomplete(s, g)
    BY <1>2, <2>1, MissingContinues DEF Activate
  <2>2. CASE ~Incomplete(s, g) /\ ~s.approved[g]
    <3> DEFINE t == [s EXCEPT !.state[g] = "ready"]
    <3>1. /\ t.content = s.content /\ t.genModel = s.genModel /\ t.approved = s.approved
          /\ t.retained = s.retained /\ t.serving = s.serving /\ t.manifest = s.manifest
          /\ t.newer = s.newer /\ t.outcome = s.outcome /\ t.jobs = s.jobs
          /\ t.state = [s.state EXCEPT ![g] = "ready"]
          /\ s.state \in [Gens -> {"none", "building", "ready", "active", "retired", "failed"}]
      BY DEF DBType, Fit
    <3>2. Activate(s, g, m) = t
      BY <1>2, <2>2 DEF Activate
    <3>3. t \in DBType /\ Sound(t)
      BY <3>2, ActivateSound DEF Fit, Advances
    <3> HIDE DEF t
    <3>4. Ordered(t)
      BY <3>1, <3>3, OrderedFrame DEF Fit
    <3>5. Builds(t) = Builds(s)
      BY <1>2, <3>1 DEF Builds
    <3>6. Vetted(t)
      BY <3>1, <3>5 DEF Fit, Vetted
    <3>7. \A h \in Gens : /\ s.state[h] # "none" => t.state[h] # "none"
                          /\ s.state[h] = "failed" => t.state[h] = "failed"
                          /\ Gone(s, h) => Gone(t, h)
      BY <1>2, <3>1 DEF Gone
    <3>8. Known(t) /\ Keeps(s, t) /\ Arrives(s, t, m)
      BY <3>1, <3>7 DEF Fit, Known, Keeps, Arrives, Withdrawn
    <3>9. Continues(s, t, m)
      BY <3>1, <3>3, <3>4, <3>6, <3>8 DEF Continues, Fit
    <3> QED BY <3>2, <3>9
  <2>3. CASE ~Incomplete(s, g) /\ s.approved[g]
    <3>1. Activate(s, g, m) = SwitchTo(s, g) /\ g \in Builds(s) /\ s.genModel[g] = m
      BY <1>2, <2>3 DEF Activate, Builds
    <3>2. s.serving = 0
      BY <2>3, <3>1 DEF Fit, Vetted
    <3> QED BY <2>3, <3>1, <3>2, SwitchToContinues DEF Continues, Fit
  <2> QED BY <2>1, <2>2, <2>3
<1> QED BY <1>1, <1>2

\* A new build fails the old one and needs approval where something is served.
LEMMA SupersedeContinues ==
  ASSUME NEW s, NEW m \in Models, Fit(s), NextGen(s) \in Gens
  PROVE  Continues(s, Supersede(s, m), m)
<1> DEFINE g == NextGen(s)
           t == Cancel(s, {k \in Keys : k.gen \in Builds(s)})
           state == [h \in Gens |-> IF h = g THEN "building"
                                    ELSE IF h \in Builds(s) THEN "failed" ELSE t.state[h]]
           t1 == [t EXCEPT !.state = state, !.genModel[g] = m]
           u == [t1 EXCEPT !.approved[g] = (s.serving = 0)]
<1>1. Continues(s, t, m)
  BY CancelContinues
<1>2. t \in DBType /\ t.state = s.state /\ t.serving = s.serving
  <2>1. t \in DBType
    BY <1>1 DEF Continues, Fit
  <2>2. t.state = s.state /\ t.serving = s.serving
    BY DEF Cancel, DBType, Fit
  <2> QED BY <2>1, <2>2
<1>3. /\ s.state[g] = "none" /\ \A h \in Gens : s.state[h] # "none" => h < g
      /\ \A h \in Gens : h < g => s.state[h] # "none"
  BY NextGenIsFree DEF Fit
<1> HIDE DEF t
<1>4. state \in [Gens -> {"none", "building", "ready", "active", "retired", "failed"}]
  BY <1>2 DEF DBType
<1>5. t1 \in DBType /\ u \in DBType
  <2> HIDE DEF state
  <2>1. t1 \in DBType
    BY <1>2, <1>4 DEF DBType
  <2> HIDE DEF t1
  <2> QED BY <2>1, (s.serving = 0) \in BOOLEAN, ZenonT(30) DEF DBType
<1>6. /\ u.content = t.content /\ u.chunked = t.chunked /\ u.released = t.released /\ u.ready = t.ready
      /\ u.indexGen = t.indexGen /\ u.serving = t.serving /\ u.manifest = t.manifest /\ u.jobs = t.jobs
      /\ u.retained = t.retained /\ u.newer = t.newer /\ u.outcome = t.outcome
      /\ u.state = state /\ u.genModel = [t.genModel EXCEPT ![g] = m]
      /\ u.approved = [t.approved EXCEPT ![g] = (s.serving = 0)]
      /\ t.genModel \in [Gens -> Models \cup {None}] /\ t.approved \in [Gens -> BOOLEAN]
  <2> HIDE DEF state
  <2>1. /\ t1.content = t.content /\ t1.chunked = t.chunked /\ t1.released = t.released /\ t1.ready = t.ready
        /\ t1.indexGen = t.indexGen /\ t1.serving = t.serving /\ t1.manifest = t.manifest /\ t1.jobs = t.jobs
        /\ t1.retained = t.retained /\ t1.newer = t.newer /\ t1.outcome = t.outcome /\ t1.approved = t.approved
        /\ t1.state = state /\ t1.genModel = [t.genModel EXCEPT ![g] = m] /\ t1 \in DBType
        /\ t.genModel \in [Gens -> Models \cup {None}] /\ t.approved \in [Gens -> BOOLEAN]
    BY <1>2, <1>5 DEF DBType
  <2> HIDE DEF t1
  <2> QED BY <2>1 DEF DBType
<1> HIDE DEF u, t1
<1>7. Sound(u)
  <2>1. Sound(t)
    BY <1>1 DEF Continues, Fit
  <2>2. Numbered(u)
    <3>1. \A h \in Gens : u.state[h] # "none" <=> h <= g
      BY <1>2, <1>3, <1>6 DEF Builds, Gens
    <3> QED BY <3>1 DEF Numbered, Gens
  <2>3. ServesOneGeneration(u)
    BY <1>2, <1>3, <1>6 DEF ServesOneGeneration, Builds, Fit, Sound
  <2>4. PurgesWithdrawn(u) /\ ServesPublished(u)
    BY <1>6, <2>1 DEF Sound, PurgesWithdrawn, ServesPublished, Indexed
  <2> QED BY <2>2, <2>3, <2>4 DEF Sound
<1>8. Ordered(u)
  BY <1>1, <1>2, <1>5, <1>6, OrderedFrame DEF Continues, Fit
<1>9. Vetted(u)
  <2>1. \A h \in Builds(u) : h = g
    BY <1>2, <1>6 DEF Builds
  <2> QED BY <1>2, <1>6, <2>1 DEF Vetted
<1>10. \A h \in Gens : /\ t.state[h] # "none" => u.state[h] # "none" /\ u.genModel[h] = t.genModel[h]
                       /\ t.state[h] = "failed" => u.state[h] = "failed"
                       /\ Gone(t, h) => Gone(u, h)
  BY <1>2, <1>3, <1>6 DEF Gone, Builds
<1>11. Known(u) /\ Keeps(t, u) /\ Arrives(t, u, m)
  BY <1>1, <1>6, <1>10 DEF Continues, Fit, Known, Keeps, Arrives, Withdrawn
<1>12. Continues(t, u, m)
  BY <1>5, <1>6, <1>7, <1>8, <1>9, <1>11 DEF Continues, Fit
<1>13. Continues(u, Enqueue(u, MissingVersions(u, g)), m)
  BY <1>12, MissingContinues DEF Continues
<1>14. Supersede(s, m) = Enqueue(u, MissingVersions(u, g))
  BY Zenon DEF Supersede, u, t1, state, t
<1>15. Continues(s, u, m)
  BY <1>1, <1>12, ContinuesTransitive
<1> QED BY <1>13, <1>14, <1>15, ContinuesTransitive

\* The generation new work goes to is there, or a new build takes its place.
LEMMA WithGenerationContinues ==
  ASSUME NEW s, NEW m \in Models, Fit(s), NEW force, GenAvailable(s, m, force)
  PROVE  Continues(s, WithGeneration(s, m, force), m)
<1>1. CASE Reusable(s, m, force) # {}
  <2>1. Continues(s, s, m)
    BY FrameContinues DEF Fit
  <2> QED BY <1>1, <2>1 DEF WithGeneration
<1>2. CASE Reusable(s, m, force) = {}
  BY <1>2, SupersedeContinues DEF WithGeneration, GenAvailable, GenerationFor
<1> QED BY <1>1, <1>2

------------------------------------------------------------------------------
(* The actions keep it.                                                    *)

\* Nothing changes.
LEMMA SameContinues ==
  ASSUME NEW s, NEW m, Fit(s)
  PROVE  Continues(s, s, m)
  BY FrameContinues DEF Fit

\* RegisterIngestion: the document has neither jobs nor manifests yet.
LEMMA RegisterContinues ==
  ASSUME IInv, Fit(db), NEW d \in Docs, RegisterIngestion(d)
  PROVE  Continues(db, db', model)
<1> DEFINE g == GenerationFor(db, model, FALSE)
           s == WithGeneration(db, model, FALSE)
           t == [s EXCEPT !.content[d] = "DRAFT"]
           k == Key("ingest", d, g)
<1>1. Prepares(db, s) /\ g \in Gens /\ Continues(db, s, model)
  BY WithGenerationSound, WithGenerationContinues DEF RegisterIngestion, IInv, TypeOK
<1>2. db' = Enqueue(t, {k}) /\ db.content[d] = "none"
  BY DEF RegisterIngestion
<1> HIDE DEF s, g
<1>3. /\ t \in DBType
      /\ t.content = [s.content EXCEPT ![d] = "DRAFT"]
      /\ s.content \in [Docs -> {"none", "DRAFT", "PUBLISHED", "ARCHIVED", "deleted"}]
      /\ t.chunked = s.chunked /\ t.released = s.released /\ t.ready = s.ready
      /\ t.indexGen = s.indexGen /\ t.state = s.state /\ t.serving = s.serving
      /\ t.manifest = s.manifest /\ t.jobs = s.jobs
  BY <1>1 DEF Prepares, Advances, DBType
<1>4. /\ t.genModel = s.genModel /\ t.approved = s.approved /\ t.retained = s.retained
      /\ t.newer = s.newer /\ t.outcome = s.outcome
  BY <1>1 DEF Prepares, Advances, DBType
<1> HIDE DEF t
<1>5. Fit(s) /\ s.content[d] = "none"
  BY <1>1, <1>2 DEF Prepares, Advances, Continues
<1>6. Sound(t)
  <2>1. PurgesWithdrawn(t)
    BY <1>3, <1>5, KeyParts DEF PurgesWithdrawn, Sound, Fit
  <2>2. ServesPublished(t)
    BY <1>3, <1>5 DEF ServesPublished, Sound, Indexed, Fit
  <2> QED BY <1>3, <1>5, <2>1, <2>2 DEF Sound, Fit, Numbered, ServesOneGeneration, Builds
<1>7. Vetted(t) /\ Known(t)
  BY <1>3, <1>4, <1>5 DEF Fit, Vetted, Known, Builds, Withdrawn
<1>8. Ordered(t)
  <2>1. \A e \in Docs : Born(t, e) = Born(s, e)
    BY <1>3, <1>4 DEF Born
  <2>2. Born(s, d) = {}
    BY <1>5 DEF Fit, Ordered
  <2>3. LinearOn(t.newer, {})
    BY DEF LinearOn
  <2> QED BY <1>3, <1>4, <1>5, <2>1, <2>2, <2>3 DEF Fit, Ordered, Withdrawn
<1>9. Keeps(s, t) /\ Arrives(s, t, model)
  BY <1>3, <1>4, <1>5 DEF Keeps, Arrives, Gone, Withdrawn
<1>10. Continues(s, t, model) /\ Fit(t)
  BY <1>3, <1>6, <1>7, <1>8, <1>9 DEF Continues, Fit
<1>11. k \in Keys /\ k.kind # "purge" /\ k.doc = d
  BY <1>1 DEF Key, Keys, Kinds
<1> HIDE DEF k
<1>12. Continues(t, Enqueue(t, {k}), model)
  BY <1>3, <1>10, <1>11, EnqueueOneContinues
<1> QED BY <1>1, <1>2, <1>5, <1>10, <1>12, ContinuesTransitive DEF IInv, TypeOK

\* RetryIngestion.
LEMMA RetryContinues ==
  ASSUME IInv, Fit(db), NEW d \in Docs, RetryIngestion(d)
  PROVE  Continues(db, db', model)
<1> PICK k \in LatestJobs(db, d) :
      LET build == k.gen \in Builds(db) /\ db.genModel[k.gen] = model
          g     == GenerationFor(db, model, build)
          s     == WithGeneration(db, model, build)
          kind  == IF db.content[d] = "PUBLISHED" THEN "rebuild" ELSE "ingest"
      IN /\ GenAvailable(db, model, build)
         /\ db' = [Enqueue(s, {Key(kind, d, g)}) EXCEPT !.ready[d] = @ /\ db.released[d]]
  BY DEF RetryIngestion
<1> DEFINE build == k.gen \in Builds(db) /\ db.genModel[k.gen] = model
           g     == GenerationFor(db, model, build)
           s     == WithGeneration(db, model, build)
           kind  == IF db.content[d] = "PUBLISHED" THEN "rebuild" ELSE "ingest"
           j     == Key(kind, d, g)
           t     == Enqueue(s, {j})
           r     == t.ready[d] /\ db.released[d]
           u     == [t EXCEPT !.ready[d] = r]
<1>1. Prepares(db, s) /\ g \in Gens /\ Continues(db, s, model)
  BY WithGenerationSound, WithGenerationContinues DEF IInv, TypeOK
<1>2. db' = u
  BY Zenon
<1>3. db.content[d] # "none"
  BY DEF RetryIngestion, CanRetry, Live
<1> HIDE DEF s, g
<1>4. j \in Keys /\ j.kind # "purge" /\ j.doc = d
  BY <1>1 DEF Key, Keys, Kinds
<1>5. Fit(s) /\ s.content[d] # "none" /\ s \in DBType /\ Sound(s)
  BY <1>1, <1>3 DEF Continues, Prepares, Advances, Fit
<1> HIDE DEF j
<1>6. Prepares(s, t)
  BY <1>4, <1>5, EnqueueSound
<1>7. Continues(s, t, model)
  BY <1>4, <1>5, EnqueueOneContinues
<1> HIDE DEF t
<1>8. t.content[d] = "PUBLISHED" => r
  BY <1>1, <1>6 DEF Prepares, Advances, Sound, ServesPublished
<1>9. r \in BOOLEAN
  BY Zenon
<1> HIDE DEF r
<1>10. Continues(t, u, model)
  BY <1>7, <1>8, <1>9, ReadyContinues DEF Continues
<1> HIDE DEF u
<1>11. Continues(s, u, model)
  BY <1>5, <1>7, <1>10, ContinuesTransitive
<1>12. Continues(db, u, model)
  BY <1>1, <1>11, ContinuesTransitive
<1> QED BY <1>2, <1>12

\* WithdrawIngestion: the purges belong to a document that is withdrawn by now, and the
\* build it may have held up is activated, never over something that serves.
LEMMA WithdrawContinues ==
  ASSUME IInv, Fit(db), NEW d \in Docs, NEW deleted \in BOOLEAN, WithdrawIngestion(d, deleted)
  PROVE  Continues(db, db', model)
<1> DEFINE own == {k \in Keys : k.doc = d /\ k.kind # "purge"}
           c == Cancel(db, own)
           fate == IF deleted THEN "deleted" ELSE "ARCHIVED"
           out == IF c.outcome[d] # None /\ c.outcome[d].key.kind # "purge"
                       /\ c.outcome[d].status \in {"failed", "dead"}
                  THEN [c.outcome[d] EXCEPT !.status = "cancelled"] ELSE c.outcome[d]
           s1 == [c EXCEPT !.content[d] = fate, !.ready[d] = FALSE]
           s == [s1 EXCEPT !.outcome[d] = out]
           K == {Key("purge", d, g) : g \in {h \in Gens : s.state[h] # "none"}}
           t == Enqueue(s, K)
           u == IF Builds(t) = {} THEN t ELSE Activate(t, Youngest(Builds(t)), model)
<1>1. Prepares(db, c) /\ c \in DBType /\ Sound(c) /\ Continues(db, c, model)
  BY CancelSound, CancelContinues DEF IInv, TypeOK, Prepares, Advances
<1> HIDE DEF c
<1>2. /\ out \in [key : Keys, status : Statuses] \cup {None}
      /\ out # None => c.outcome[d] # None /\ out.key = c.outcome[d].key
      /\ c.outcome \in [Docs -> [key : Keys, status : Statuses] \cup {None}]
  <2>1. c.outcome[d] \in [key : Keys, status : Statuses] \cup {None}
        /\ c.outcome \in [Docs -> [key : Keys, status : Statuses] \cup {None}]
    BY <1>1 DEF DBType
  <2>2. CASE c.outcome[d] # None /\ c.outcome[d].key.kind # "purge" /\ c.outcome[d].status \in {"failed", "dead"}
    <3>1. out = [c.outcome[d] EXCEPT !.status = "cancelled"] /\ c.outcome[d] \in [key : Keys, status : Statuses]
      BY <2>1, <2>2
    <3>2. out \in [key : Keys, status : Statuses] /\ out.key = c.outcome[d].key
      BY <3>1 DEF Statuses, Terminal
    <3> QED BY <2>1, <2>2, <3>2
  <2>3. CASE ~(c.outcome[d] # None /\ c.outcome[d].key.kind # "purge" /\ c.outcome[d].status \in {"failed", "dead"})
    <3>1. out = c.outcome[d]
      BY <2>3
    <3> QED BY <2>1, <3>1
  <2> QED BY <2>2, <2>3
<1> HIDE DEF out
<1>3. /\ s1 \in DBType /\ s1.outcome = c.outcome
      /\ s1.content = [c.content EXCEPT ![d] = fate] /\ s1.ready = [c.ready EXCEPT ![d] = FALSE]
      /\ s1.chunked = c.chunked /\ s1.released = c.released /\ s1.indexGen = c.indexGen
      /\ s1.state = c.state /\ s1.serving = c.serving /\ s1.manifest = c.manifest /\ s1.jobs = c.jobs
      /\ s1.genModel = c.genModel /\ s1.approved = c.approved /\ s1.retained = c.retained /\ s1.newer = c.newer
  BY <1>1 DEF DBType
<1>4. db' = u
  BY Zenon, <1>3 DEF WithdrawIngestion, own, c, out, s1
<1>5. db.content[d] # "none"
  BY DEF WithdrawIngestion
<1> HIDE DEF s1
<1>6. /\ s \in DBType /\ s.outcome = [c.outcome EXCEPT ![d] = out]
      /\ s.content = [c.content EXCEPT ![d] = fate] /\ s.ready = [c.ready EXCEPT ![d] = FALSE]
      /\ s.chunked = c.chunked /\ s.released = c.released /\ s.indexGen = c.indexGen
      /\ s.state = c.state /\ s.serving = c.serving /\ s.manifest = c.manifest /\ s.jobs = c.jobs
      /\ s.genModel = c.genModel /\ s.approved = c.approved /\ s.retained = c.retained /\ s.newer = c.newer
  BY <1>2, <1>3 DEF DBType
<1> HIDE DEF s
<1>7. /\ c.content \in [Docs -> {"none", "DRAFT", "PUBLISHED", "ARCHIVED", "deleted"}]
      /\ c.ready \in [Docs -> BOOLEAN]
  BY <1>1 DEF DBType
<1>8. Sound(s)
  <2>1. PurgesWithdrawn(s)
    BY <1>1, <1>6, <1>7, KeyParts DEF PurgesWithdrawn, Sound
  <2>2. ServesPublished(s)
    BY <1>1, <1>6, <1>7 DEF ServesPublished, Sound, Indexed
  <2> QED BY <1>1, <1>6, <2>1, <2>2 DEF Sound, Numbered, ServesOneGeneration, Builds
<1>9. Fit(c) /\ c.content[d] # "none"
  BY <1>1, <1>5 DEF Continues, Keeps
<1>10. Withdrawn(s, d) /\ s.content[d] # "none"
       /\ \A e \in Docs : /\ e # d => s.content[e] = c.content[e] /\ s.outcome[e] = c.outcome[e]
                          /\ Withdrawn(c, e) => Withdrawn(s, e)
  BY <1>2, <1>6, <1>7 DEF Withdrawn
<1>11. Vetted(s) /\ Known(s)
  BY <1>6, <1>9, <1>10 DEF Fit, Vetted, Known, Builds
<1>12. Ordered(s)
  <2>1. \A e \in Docs : Born(s, e) \subseteq Born(c, e)
    BY <1>2, <1>6, <1>10 DEF Born
  <2>2. \A e \in Docs : s.outcome[e] # None => s.outcome[e].key.doc = e
    BY <1>2, <1>6, <1>9 DEF Fit, Ordered
  <2>3. ASSUME NEW e \in Docs, ~Withdrawn(s, e) PROVE LinearOn(s.newer, Born(s, e))
    BY <1>6, <1>9, <1>10, <2>1, <2>3 DEF Fit, Ordered, LinearOn
  <2>4. ASSUME NEW e \in Docs, s.content[e] = "none" PROVE Born(s, e) = {}
    BY <1>9, <1>10, <2>1, <2>4 DEF Fit, Ordered
  <2> QED BY <2>2, <2>3, <2>4 DEF Ordered
<1>13. Keeps(c, s) /\ Arrives(c, s, model)
  BY <1>6, <1>7, <1>9, <1>10 DEF Keeps, Arrives, Gone, Withdrawn
<1>14. Continues(c, s, model) /\ Fit(s)
  BY <1>6, <1>8, <1>11, <1>12, <1>13 DEF Continues, Fit
<1>15. K \in SUBSET Keys /\ \A k \in K : k.doc = d
  BY DEF Key, Keys, Kinds
<1> HIDE DEF K
<1>16. Continues(s, t, model)
  BY <1>10, <1>14, <1>15, EnqueueContinues
<1> HIDE DEF t
<1>17. Continues(t, u, model)
  <2>0. Fit(t) /\ model \in Models
    BY <1>16 DEF Continues, IInv, TypeOK
  <2>1. CASE Builds(t) = {}
    BY <2>0, <2>1, SameContinues
  <2>2. CASE Builds(t) # {}
    <3>1. Youngest(Builds(t)) \in Gens
      BY <2>0, <2>2, YoungestOfOne DEF Fit, Sound, ServesOneGeneration, Builds
    <3> QED BY <2>0, <2>2, <3>1, ActivateContinues
  <2> QED BY <2>1, <2>2
<1> HIDE DEF u
<1>18. Continues(c, u, model)
  BY <1>9, <1>14, <1>16, <1>17, ContinuesTransitive
<1> QED BY <1>1, <1>4, <1>18, ContinuesTransitive

\* ClaimIngestionJob.
LEMMA ClaimContinues ==
  ASSUME IInv, Fit(db), NEW o \in Owners, NEW k \in Keys, ClaimJob(o, k)
  PROVE  Continues(db, db', model)
<1> DEFINE s == BuryExhausted(db)
           row == [status |-> "running", attempt |-> db.jobs[k].attempt + 1, owner |-> o, expired |-> FALSE]
           t == [s EXCEPT !.jobs[k] = row]
           r == t.ready[k.doc] /\ (k.kind = "ingest" => db.released[k.doc])
           u == [t EXCEPT !.ready[k.doc] = r]
<1>1. Prepares(db, s) /\ Continues(db, s, model) /\ Fit(s) /\ s.content = db.content /\ s.released = db.released
  BY BuryExhaustedSound, BuryContinues DEF IInv, TypeOK, Prepares, Continues
<1>2. db.jobs[k] \in JobRows /\ db.jobs[k] # None /\ db.jobs[k].attempt < MaxAttempts
  BY DEF ClaimJob, Claimable, IInv, TypeOK, DBType
<1>3. row \in JobRows
  BY <1>2, ConstantsAssumption DEF JobRows, Statuses
<1>4. db' = u
  BY Zenon DEF ClaimJob, s
<1>5. s.jobs[k] # None
  <2>1. s.jobs[k] = IF Exhausted(db, k) THEN [db.jobs[k] EXCEPT !.status = "dead", !.owner = None, !.expired = FALSE]
                    ELSE db.jobs[k]
    BY DEF BuryExhausted, IInv, TypeOK, DBType
  <2>2. ~Exhausted(db, k)
    BY <1>2, ConstantsAssumption DEF Exhausted, JobRows
  <2> QED BY <1>2, <2>1, <2>2
<1> HIDE DEF row, s
<1>6. Continues(s, t, model)
  BY <1>1, <1>3, <1>5, JobContinues
<1>7. t.content = s.content /\ t.released = s.released /\ Fit(t)
  BY <1>1, <1>6 DEF Continues, Fit, DBType
<1> HIDE DEF t
<1>8. t.content[k.doc] = "PUBLISHED" => r
  BY <1>1, <1>7, KeyParts DEF Fit, Sound, ServesPublished
<1>9. r \in BOOLEAN
  BY Zenon
<1> HIDE DEF r
<1>10. Continues(t, u, model)
  BY <1>7, <1>8, <1>9, ReadyContinues, KeyParts
<1> HIDE DEF u
<1>11. Continues(s, u, model)
  BY <1>1, <1>6, <1>10, ContinuesTransitive
<1> QED BY <1>1, <1>4, <1>11, ContinuesTransitive

\* PrepareIngestionChunks inserts a missing manifest of a live document in a generation
\* that is still built or served.
LEMMA PrepareContinues ==
  ASSUME IInv, Fit(db), NEW o \in Owners, PrepareIngestionChunks(o)
  PROVE  /\ Continues(db, db', model)
         /\ db'.manifest[worker[o].job.doc][worker[o].job.gen] # "none"
<1> DEFINE k == worker[o].job
           d == k.doc
           m == IF db.manifest[d][k.gen] = "none" THEN "pending" ELSE db.manifest[d][k.gen]
           s == [db EXCEPT !.chunked[d] = TRUE, !.manifest[d][k.gen] = m]
           r == s.ready[d] /\ db.released[d]
           t == [s EXCEPT !.ready[d] = r]
<1>1. k \in Keys /\ db \in DBType /\ Sound(db)
  BY DEF PrepareIngestionChunks, IInv, TypeOK, WorkersPrepared
<1>2. k.kind \in Kinds /\ d \in Docs /\ k.gen \in Gens
  BY <1>1, KeyParts
<1>3. db' = t
  <2>1. PrepareIngestionChunks(o) => db' = [db EXCEPT
                 !.chunked[k.doc] = TRUE,
                 !.manifest[k.doc][k.gen] = IF @ = "none" THEN "pending" ELSE @,
                 !.ready[k.doc] = @ /\ db.released[k.doc]]
    BY Zenon DEF PrepareIngestionChunks
  <2>2. s.ready[d] = db.ready[d]
    BY <1>1 DEF DBType
  <2> QED BY Zenon, <2>1, <2>2
<1>4. Live(db, d) /\ Servable(db, k.gen)
  BY DEF PrepareIngestionChunks, Fenced
<1> HIDE DEF k
<1>5. /\ m \in {"pending", "indexed", "deleted"}
      /\ db.manifest[d][k.gen] = "indexed" => m = "indexed"
      /\ m = "deleted" <=> db.manifest[d][k.gen] = "deleted"
  BY <1>1, <1>2 DEF DBType
<1> HIDE DEF m
<1>6. /\ s \in DBType
      /\ s.manifest = [db.manifest EXCEPT ![d][k.gen] = m] /\ s.chunked = [db.chunked EXCEPT ![d] = TRUE]
      /\ db.manifest \in [Docs -> [Gens -> {"none", "pending", "indexed", "deleted"}]]
      /\ db.chunked \in [Docs -> BOOLEAN]
      /\ s.content = db.content /\ s.released = db.released /\ s.ready = db.ready
      /\ s.indexGen = db.indexGen /\ s.state = db.state /\ s.serving = db.serving /\ s.jobs = db.jobs
  BY <1>1, <1>2, <1>5 DEF DBType
<1>7. /\ s.genModel = db.genModel /\ s.approved = db.approved /\ s.retained = db.retained
      /\ s.newer = db.newer /\ s.outcome = db.outcome
  BY <1>1 DEF DBType
<1> HIDE DEF s
<1>8. Sound(s)
  <2>1. \A e \in Docs, g \in Gens : Indexed(db, e, g) => Indexed(s, e, g)
    BY <1>2, <1>5, <1>6 DEF Indexed
  <2>2. db.serving # 0 => db.serving \in Gens
    BY <1>1, ConstantsAssumption DEF DBType, Gens
  <2>3. ServesPublished(s)
    BY <1>1, <1>6, <2>1, <2>2 DEF ServesPublished, Sound
  <2> QED BY <1>1, <1>6, <2>3 DEF Sound, Numbered, ServesOneGeneration, Builds, PurgesWithdrawn
<1>9. \A e \in Docs, g \in Gens : /\ db.manifest[e][g] # "none" => s.manifest[e][g] # "none"
                                  /\ db.manifest[e][g] = "deleted" <=> s.manifest[e][g] = "deleted"
                                  /\ s.manifest[e][g] # "none" => db.manifest[e][g] # "none" \/ (e = d /\ g = k.gen)
  BY <1>2, <1>5, <1>6
<1>10. Vetted(s)
  BY <1>6, <1>7 DEF Fit, Vetted, Builds
<1>11. Known(s)
  BY <1>4, <1>6, <1>9 DEF Fit, Known, Withdrawn, Live, Servable
<1>12. Ordered(s)
  BY <1>1, <1>6, <1>7, OrderedFrame DEF Fit
<1>13. Continues(db, s, model) /\ Fit(s)
  BY <1>6, <1>7, <1>8, <1>9, <1>10, <1>11, <1>12 DEF Continues, Fit, Keeps, Arrives, Gone, Withdrawn
<1>14. s.content[d] = "PUBLISHED" => r
  BY <1>1, <1>2, <1>6 DEF Sound, ServesPublished
<1>15. r \in BOOLEAN
  BY Zenon
<1> HIDE DEF r
<1>16. Continues(s, t, model)
  BY <1>2, <1>13, <1>14, <1>15, ReadyContinues
<1>17. t.manifest = s.manifest
  BY <1>6 DEF DBType
<1> HIDE DEF t
<1>18. s.manifest[d][k.gen] # "none"
  BY <1>2, <1>5, <1>6
<1> QED BY <1>3, <1>13, <1>16, <1>17, <1>18, ContinuesTransitive DEF k

\* A manifest of the job's own document and generation moves on, and its hash with it.
LEMMA ManifestContinues ==
  ASSUME NEW s, NEW m, Fit(s), NEW d \in Docs, NEW g \in Gens, NEW x \in {"indexed", "deleted"},
         NEW t \in DBType, t.manifest = [s.manifest EXCEPT ![d][g] = x], Sound(t),
         s.manifest[d][g] # "none", x = "deleted" => Withdrawn(s, d), x = "indexed" => ~Withdrawn(s, d),
         t.content = s.content, t.state = s.state, t.genModel = s.genModel, t.approved = s.approved,
         t.retained = s.retained, t.serving = s.serving, t.jobs = s.jobs, t.newer = s.newer, t.outcome = s.outcome
  PROVE  Continues(s, t, m)
<1>1. s \in DBType /\ s.manifest \in [Docs -> [Gens -> {"none", "pending", "indexed", "deleted"}]]
  BY DEF Fit, DBType
<1>2. \A e \in Docs, h \in Gens : t.manifest[e][h] = IF e = d /\ h = g THEN x ELSE s.manifest[e][h]
  BY <1>1
<1>3. s.manifest[d][g] = "deleted" => x = "deleted"
  BY DEF Fit, Known
<1>4. Vetted(t) /\ Known(t)
  BY <1>2 DEF Fit, Vetted, Known, Builds, Withdrawn
<1>5. Ordered(t)
  BY <1>1, OrderedFrame DEF Fit
<1>6. Keeps(s, t) /\ Arrives(s, t, m)
  BY <1>2, <1>3 DEF Keeps, Arrives, Gone, Withdrawn
<1> QED BY <1>4, <1>5, <1>6 DEF Continues, Fit

\* publishIngestionVersion: a document goes live by itself in the generation of its job.
LEMMA PublishContinues ==
  ASSUME NEW s, NEW m, Fit(s), NEW d \in Docs, NEW g \in Gens, s.genModel[g] = m,
         Live(s, d), Indexed(s, d, g)
  PROVE  /\ Continues(s, PublishVersion(s, d, g), m)
         /\ PublishVersion(s, d, g).jobs = s.jobs
<1>0. s \in DBType /\ Sound(s)
  BY DEF Fit
<1>1. CASE s.state[g] # "active"
  BY <1>1, SameContinues DEF PublishVersion
<1>2. CASE s.state[g] = "active"
  <2> DEFINE p1 == [s EXCEPT !.released[d] = TRUE, !.ready[d] = TRUE]
             p2 == [p1 EXCEPT !.indexGen[d] = g, !.content[d] = "PUBLISHED"]
  <2>0. g \in 0..MaxGen
    BY DEF Gens
  <2>1. /\ p1 \in DBType
        /\ p1.released = [s.released EXCEPT ![d] = TRUE] /\ p1.ready = [s.ready EXCEPT ![d] = TRUE]
        /\ p1.content = s.content /\ p1.indexGen = s.indexGen /\ p1.chunked = s.chunked
        /\ p1.manifest = s.manifest /\ p1.state = s.state /\ p1.serving = s.serving /\ p1.jobs = s.jobs
    BY <1>0 DEF DBType
  <2>2. /\ p1.genModel = s.genModel /\ p1.approved = s.approved /\ p1.retained = s.retained
        /\ p1.newer = s.newer /\ p1.outcome = s.outcome
    BY <1>0 DEF DBType
  <2> HIDE DEF p1
  <2>3. /\ p2 \in DBType
        /\ p2.indexGen = [s.indexGen EXCEPT ![d] = g]
        /\ p2.content = [s.content EXCEPT ![d] = "PUBLISHED"]
        /\ p2.released = p1.released /\ p2.ready = p1.ready /\ p2.chunked = s.chunked
        /\ p2.manifest = s.manifest /\ p2.state = s.state /\ p2.serving = s.serving /\ p2.jobs = s.jobs
    BY <2>0, <2>1 DEF DBType
  <2>4. /\ p2.genModel = s.genModel /\ p2.approved = s.approved /\ p2.retained = s.retained
        /\ p2.newer = s.newer /\ p2.outcome = s.outcome
    BY <2>1, <2>2 DEF DBType
  <2>5. PublishVersion(s, d, g) = p2
    BY Zenon, <1>2 DEF PublishVersion, p1
  <2> HIDE DEF p2
  <2>6. /\ s.content \in [Docs -> {"none", "DRAFT", "PUBLISHED", "ARCHIVED", "deleted"}]
        /\ s.released \in [Docs -> BOOLEAN] /\ s.ready \in [Docs -> BOOLEAN]
        /\ s.indexGen \in [Docs -> 0..MaxGen]
    BY <1>0 DEF DBType
  <2>7. s.serving = g /\ s.serving # 0
    BY <1>0, <1>2, ConstantsAssumption DEF Sound, ServesOneGeneration, Gens
  <2>8. ServesPublished(p2)
    BY <1>0, <2>1, <2>3, <2>6, <2>7 DEF Sound, ServesPublished, Indexed
  <2>9. PurgesWithdrawn(p2)
    BY <1>0, <2>3, <2>6, KeyParts DEF Sound, PurgesWithdrawn, Live
  <2>10. Sound(p2)
    BY <1>0, <2>3, <2>8, <2>9 DEF Sound, Numbered, ServesOneGeneration, Builds
  <2>11. \A e \in Docs : /\ Withdrawn(p2, e) <=> Withdrawn(s, e)
                         /\ p2.content[e] = "none" <=> s.content[e] = "none"
    BY <2>3, <2>6 DEF Withdrawn, Live
  <2>12. Vetted(p2) /\ Known(p2)
    BY <2>3, <2>4, <2>11 DEF Fit, Vetted, Known, Builds
  <2>13. Ordered(p2)
    <3>1. \A e \in Docs : Born(p2, e) = Born(s, e)
      BY <2>3, <2>4 DEF Born
    <3> QED BY <2>4, <2>11, <3>1 DEF Fit, Ordered
  <2>14. Keeps(s, p2) /\ Arrives(s, p2, m)
    BY <2>3, <2>4, <2>7, <2>11 DEF Keeps, Arrives, Gone
  <2> QED BY <2>3, <2>5, <2>10, <2>12, <2>13, <2>14 DEF Continues, Fit
<1> QED BY <1>1, <1>2

\* The transaction of CompleteIngestionJob.  The manifest of an indexing job is still
\* there: its document is live, and manifests go only with their document.
LEMMA FinishedContinues ==
  ASSUME IInv, Fit(db), NEW k \in Keys, NEW h \in Hashes \cup {None}, db.jobs[k] # None,
         k.kind # "purge" => /\ Live(db, k.doc) /\ db.chunked[k.doc]
                             /\ db.genModel[k.gen] = model /\ db.manifest[k.doc][k.gen] # "none"
  PROVE  Continues(db, Finished(k, h), model)
<1>0. /\ k.doc \in Docs /\ k.gen \in Gens /\ db \in DBType /\ Sound(db) /\ model \in Models
      /\ db.manifest \in [Docs -> [Gens -> {"none", "pending", "indexed", "deleted"}]]
      /\ (db.serving # 0 => db.serving \in Gens)
  BY KeyParts, ConstantsAssumption DEF IInv, TypeOK, DBType, Gens
<1>1. CASE k.kind = "purge"
  <2> DEFINE s == Purged(db, k)
             t == Succeed(s, k)
             u == Activate(t, k.gen, model)
  <2>1. /\ s \in DBType
        /\ s.manifest = [db.manifest EXCEPT ![k.doc][k.gen] = IF @ = "none" THEN @ ELSE "deleted"]
        /\ s.content = db.content /\ s.released = db.released /\ s.ready = db.ready
        /\ s.chunked = db.chunked
        /\ s.indexGen = db.indexGen /\ s.state = db.state /\ s.serving = db.serving /\ s.jobs = db.jobs
    BY <1>0 DEF Purged, DBType
  <2>2. /\ s.genModel = db.genModel /\ s.approved = db.approved /\ s.retained = db.retained
        /\ s.newer = db.newer /\ s.outcome = db.outcome
    BY <1>0 DEF Purged, DBType
  <2>3. Finished(k, h) = u
    BY Zenon, <1>1 DEF Finished
  <2>4. Withdrawn(db, k.doc)
    BY <1>0, <1>1 DEF Sound, PurgesWithdrawn, Withdrawn
  <2> HIDE DEF s
  <2>5. Sound(s)
    <3>1. \A d \in Docs, g \in Gens : d # k.doc => s.manifest[d][g] = db.manifest[d][g]
      BY <1>0, <2>1
    <3>2. ServesPublished(s)
      BY <1>0, <2>1, <2>4, <3>1 DEF Sound, ServesPublished, Indexed, Withdrawn
    <3> QED BY <1>0, <2>1, <3>2 DEF Sound, Numbered, ServesOneGeneration, Builds, PurgesWithdrawn
  <2>6. Continues(db, s, model)
    <3>1. CASE db.manifest[k.doc][k.gen] = "none"
      <4>1. s.manifest = db.manifest
        BY <1>0, <2>1, <3>1
      <4>2. Ordered(s)
        BY <1>0, <2>1, <2>2, OrderedFrame DEF Fit
      <4> QED BY <2>1, <2>2, <2>5, <4>1, <4>2, FrameContinues
    <3>2. CASE db.manifest[k.doc][k.gen] # "none"
      <4>1. s.manifest = [db.manifest EXCEPT ![k.doc][k.gen] = "deleted"]
        BY <1>0, <2>1, <3>2
      <4> QED BY <1>0, <2>1, <2>2, <2>4, <2>5, <3>2, <4>1, ManifestContinues
    <3> QED BY <3>1, <3>2
  <2>7. Continues(s, t, model)
    BY <2>1, <2>6, SucceedContinues DEF Continues
  <2> HIDE DEF t
  <2>8. Continues(t, u, model)
    BY <1>0, <2>7, ActivateContinues DEF Continues
  <2> HIDE DEF u
  <2>9. Continues(db, t, model)
    BY <2>6, <2>7, ContinuesTransitive
  <2> QED BY <2>3, <2>8, <2>9, ContinuesTransitive
<1>2. CASE k.kind # "purge"
  <2> DEFINE s == [db EXCEPT !.manifest[k.doc][k.gen] = "indexed", !.hash[k.doc][k.gen] = h]
             p == PublishVersion(s, k.doc, k.gen)
             q == Succeed(p, k)
             t == Activate(q, k.gen, model)
             K == {Key("rebuild", k.doc, g) : g \in {i \in Gens : t.state[i] = "building" /\ i # k.gen}}
  <2>1. /\ s \in DBType
        /\ s.manifest = [db.manifest EXCEPT ![k.doc][k.gen] = "indexed"]
        /\ s.content = db.content /\ s.released = db.released /\ s.ready = db.ready
        /\ s.chunked = db.chunked
        /\ s.indexGen = db.indexGen /\ s.state = db.state /\ s.serving = db.serving /\ s.jobs = db.jobs
    BY <1>0 DEF DBType
  <2>2. /\ s.genModel = db.genModel /\ s.approved = db.approved /\ s.retained = db.retained
        /\ s.newer = db.newer /\ s.outcome = db.outcome
    BY <1>0 DEF DBType
  <2>3. Finished(k, h) = Enqueue(t, K)
    BY Zenon, <1>2 DEF Finished, Propagate
  <2> HIDE DEF s
  <2>4. Sound(s)
    <3>1. /\ s.manifest[k.doc][k.gen] = "indexed"
          /\ \A d \in Docs, g \in Gens : db.manifest[d][g] = "indexed" => s.manifest[d][g] = "indexed"
      BY <1>0, <2>1
    <3>2. ServesPublished(s)
      BY <1>0, <2>1, <3>1 DEF Sound, ServesPublished, Indexed
    <3> QED BY <1>0, <2>1, <3>2 DEF Sound, Numbered, ServesOneGeneration, Builds, PurgesWithdrawn
  <2>5. Continues(db, s, model) /\ Fit(s)
    <3>1. ~Withdrawn(db, k.doc)
      BY <1>2 DEF Live, Withdrawn
    <3>2. "indexed" \in {"indexed", "deleted"} /\ "indexed" # "deleted"
      OBVIOUS
    <3>3. Continues(db, s, model)
      BY <1>0, <1>2, <2>1, <2>2, <2>4, <3>1, <3>2, ManifestContinues
    <3> QED BY <3>3 DEF Continues
  <2>6. s.genModel[k.gen] = model /\ Live(s, k.doc) /\ Indexed(s, k.doc, k.gen)
    BY <1>0, <1>2, <2>1, <2>2 DEF Live, Indexed
  <2>7. Continues(s, p, model) /\ p.jobs = s.jobs
    BY <1>0, <2>5, <2>6, PublishContinues
  <2> HIDE DEF p
  <2>8. Continues(p, q, model)
    BY <2>1, <2>7, SucceedContinues DEF Continues
  <2> HIDE DEF q
  <2>9. Continues(q, t, model)
    BY <1>0, <2>8, ActivateContinues DEF Continues
  <2> HIDE DEF t
  <2>10. Continues(s, q, model)
    BY <2>5, <2>7, <2>8, ContinuesTransitive
  <2>11. Continues(s, t, model)
    BY <2>5, <2>9, <2>10, ContinuesTransitive
  <2>12. Fit(t) /\ t.content[k.doc] # "none"
    BY <1>0, <2>6, <2>11 DEF Continues, Keeps, Live
  <2>13. \A i, j \in Gens : t.state[i] = "building" /\ t.state[j] = "building" => i = j
    BY <2>12 DEF Fit, Sound, ServesOneGeneration, Builds
  <2>14. /\ K \in SUBSET Keys
         /\ \A j \in K : j.kind # "purge" /\ j.doc = k.doc
         /\ \A i, j \in K : i = j
    BY <1>0, <2>13 DEF Key, Keys, Kinds
  <2> HIDE DEF K
  <2>15. Continues(t, Enqueue(t, K), model)
    BY <2>12, <2>14, EnqueueContinues
  <2>16. Continues(db, t, model)
    BY <2>5, <2>11, ContinuesTransitive
  <2> QED BY <2>3, <2>15, <2>16, ContinuesTransitive
<1> QED BY <1>1, <1>2

\* CompleteIngestionJob.
LEMMA CompleteContinues ==
  ASSUME IInv, Fit(db), NEW o \in Owners, CompleteIngestionJob(o)
  PROVE  Continues(db, db', model)
<1> DEFINE k == worker[o].job
<1>1. k \in Keys /\ db.jobs[k] # None
  BY DEF CompleteIngestionJob, Fenced, IInv, WorkersPrepared
<1>2. k.kind # "purge" => /\ Live(db, k.doc) /\ db.chunked[k.doc]
                          /\ db.genModel[k.gen] = model /\ db.manifest[k.doc][k.gen] # "none"
  BY DEF CompleteIngestionJob, Fenced, IInv, WorkersPrepared
<1>3. worker[o].hash \in Hashes \cup {None}
  BY DEF IInv, TypeOK, WorkerType
<1>4. Continues(db, Finished(k, worker[o].hash), model)
  BY <1>1, <1>2, <1>3, FinishedContinues
<1> QED BY <1>4 DEF CompleteIngestionJob

\* FailIngestionJob.
LEMMA FailContinues ==
  ASSUME IInv, Fit(db), NEW o \in Owners, NEW retryable \in BOOLEAN, FailIngestionJob(o, retryable)
  PROVE  Continues(db, db', model)
<1> DEFINE k == worker[o].job
           out == IF ~retryable THEN "failed"
                  ELSE IF db.jobs[k].attempt >= MaxAttempts THEN "dead" ELSE "pending"
           row == [db.jobs[k] EXCEPT !.status = out, !.owner = None]
           s == [db EXCEPT !.jobs[k] = row]
           r == s.ready[k.doc] /\ (k.kind = "ingest" => db.released[k.doc])
           t == [s EXCEPT !.ready[k.doc] = r]
<1>1. k \in Keys /\ db.jobs[k] # None /\ db \in DBType /\ Sound(db) /\ k.doc \in Docs
  BY KeyParts DEF FailIngestionJob, Fenced, IInv, TypeOK, WorkersPrepared
<1>2. db.jobs[k] \in JobRows
  BY <1>1 DEF DBType
<1>3. row \in JobRows
  BY <1>2 DEF JobRows, Statuses, Terminal
<1>4. db' = t
  <2>1. db' = [db EXCEPT !.jobs[k].status = out, !.jobs[k].owner = None,
                         !.ready[k.doc] = @ /\ (k.kind = "ingest" => db.released[k.doc])]
    BY Zenon DEF FailIngestionJob
  <2>2. s = [db EXCEPT !.jobs[k].status = out, !.jobs[k].owner = None]
    BY <1>1, <1>2, ZenonT(30) DEF JobRows, DBType
  <2>3. s.ready[k.doc] = db.ready[k.doc]
    BY <1>1 DEF DBType
  <2> QED BY Zenon, <2>1, <2>2, <2>3
<1> HIDE DEF row
<1>5. Continues(db, s, model)
  <2> HIDE DEF k
  <2> QED BY <1>1, <1>3, JobContinues
<1>6. s.content = db.content /\ s.released = db.released /\ Fit(s)
  BY <1>1, <1>5 DEF Continues, DBType
<1> HIDE DEF s
<1>7. s.content[k.doc] = "PUBLISHED" => r
  BY <1>1, <1>6 DEF Fit, Sound, ServesPublished
<1>8. r \in BOOLEAN
  BY Zenon
<1> HIDE DEF r
<1>9. Continues(s, t, model)
  BY <1>1, <1>6, <1>7, <1>8, ReadyContinues
<1> HIDE DEF t
<1> QED BY <1>4, <1>5, <1>9, ContinuesTransitive

\* BeginIngestionRebuild takes an approval away.
LEMMA BeginRebuildContinues ==
  ASSUME IInv, Fit(db), BeginIngestionRebuild
  PROVE  Continues(db, db', model)
<1> DEFINE g == GenerationFor(db, model, TRUE)
           s == WithGeneration(db, model, TRUE)
           e == Enqueue(s, MissingVersions(s, g))
           t == [e EXCEPT !.approved[g] = FALSE]
           u == Activate(t, g, model)
<1>1. g \in Gens /\ model \in Models /\ Continues(db, s, model)
  BY WithGenerationSound, WithGenerationContinues DEF BeginIngestionRebuild, IInv, TypeOK
<1>2. db' = u
  BY Zenon DEF BeginIngestionRebuild
<1> HIDE DEF g, s
<1>3. Fit(s) /\ Continues(s, e, model)
  BY <1>1, MissingContinues DEF Continues
<1> HIDE DEF e
<1>4. Fit(e) /\ e \in DBType
  BY <1>3 DEF Continues, Fit
<1>5. /\ t \in DBType /\ t.content = e.content /\ t.chunked = e.chunked /\ t.released = e.released
      /\ t.ready = e.ready /\ t.indexGen = e.indexGen /\ t.state = e.state /\ t.serving = e.serving
      /\ t.manifest = e.manifest /\ t.jobs = e.jobs
  BY <1>1, <1>4 DEF DBType
<1>6. /\ t.genModel = e.genModel /\ t.retained = e.retained /\ t.newer = e.newer /\ t.outcome = e.outcome
      /\ t.approved = [e.approved EXCEPT ![g] = FALSE] /\ e.approved \in [Gens -> BOOLEAN]
  BY <1>1, <1>4 DEF DBType
<1> HIDE DEF t
<1>7. Sound(t)
  BY <1>4, <1>5, JobsSound DEF Fit, Sound, PurgesWithdrawn
<1>8. Vetted(t)
  BY <1>4, <1>5, <1>6 DEF Fit, Vetted, Builds
<1>9. Ordered(t)
  BY <1>4, <1>5, <1>6, OrderedFrame DEF Fit
<1>10. Known(t) /\ Keeps(e, t) /\ Arrives(e, t, model)
  BY <1>4, <1>5, <1>6 DEF Fit, Known, Keeps, Arrives, Gone, Withdrawn
<1>11. Continues(e, t, model) /\ Fit(t)
  BY <1>5, <1>7, <1>8, <1>9, <1>10 DEF Continues, Fit
<1>12. Continues(t, u, model)
  BY <1>1, <1>11, ActivateContinues
<1> HIDE DEF u
<1>13. Continues(db, e, model)
  BY <1>1, <1>3, ContinuesTransitive
<1>14. Continues(db, t, model)
  BY <1>11, <1>13, ContinuesTransitive
<1> QED BY <1>2, <1>12, <1>14, ContinuesTransitive

\* RetryOperationsJob, and a lease running out.
LEMMA JobStepContinues ==
  ASSUME IInv, Fit(db), NEW k \in Keys, RetryOperationsJob(k) \/ ExpireLease(k)
  PROVE  Continues(db, db', model)
<1>1. db.jobs[k] # None /\ db.jobs[k] \in JobRows
  BY DEF RetryOperationsJob, ExpireLease, Status, IInv, TypeOK, DBType
<1>2. PICK row \in JobRows : db' = [db EXCEPT !.jobs[k] = row]
  <2>1. CASE RetryOperationsJob(k)
    BY <2>1, FreshJobType DEF RetryOperationsJob
  <2>2. CASE ExpireLease(k)
    <3> DEFINE row == [db.jobs[k] EXCEPT !.expired = TRUE]
    <3>1. row \in JobRows
      BY <1>1 DEF JobRows
    <3>2. db' = [db EXCEPT !.jobs[k] = row]
      BY <2>2 DEF ExpireLease, IInv, TypeOK, DBType
    <3> QED BY <3>1, <3>2
  <2> QED BY <2>1, <2>2
<1> QED BY <1>1, <1>2, JobContinues

\* A retired generation whose seven days are over is gone.
LEMMA EndRetentionContinues ==
  ASSUME IInv, Fit(db), NEW g \in Gens, EndRetention(g)
  PROVE  Continues(db, db', model)
<1> DEFINE t == [db EXCEPT !.retained[g] = FALSE]
<1>1. /\ t \in DBType /\ t.content = db.content /\ t.chunked = db.chunked /\ t.released = db.released
      /\ t.ready = db.ready /\ t.indexGen = db.indexGen /\ t.state = db.state /\ t.serving = db.serving
      /\ t.manifest = db.manifest /\ t.jobs = db.jobs
  BY DEF IInv, TypeOK, DBType
<1>2. /\ t.genModel = db.genModel /\ t.approved = db.approved /\ t.newer = db.newer /\ t.outcome = db.outcome
      /\ t.retained = [db.retained EXCEPT ![g] = FALSE] /\ db.retained \in [Gens -> BOOLEAN]
  BY DEF IInv, TypeOK, DBType
<1> HIDE DEF t
<1>3. Sound(t)
  BY <1>1, JobsSound DEF IInv, TypeOK, Sound, PurgesWithdrawn
<1>4. Ordered(t)
  BY <1>1, <1>2, OrderedFrame DEF Fit
<1>5. Vetted(t) /\ Known(t) /\ Keeps(db, t) /\ Arrives(db, t, model)
  BY <1>1, <1>2 DEF Fit, Vetted, Known, Keeps, Arrives, Gone, Withdrawn, Builds
<1>6. Continues(db, t, model)
  BY <1>1, <1>3, <1>4, <1>5 DEF Continues, Fit
<1> QED BY Zenon, <1>6 DEF EndRetention, t

\* ScheduleIngestionRepair.
LEMMA RepairContinues ==
  ASSUME IInv, Fit(db), NEW d \in Docs, NEW g \in Gens, ScheduleIngestionRepair(d, g)
  PROVE  Continues(db, db', model)
<1> DEFINE k == Key("rebuild", d, g)
<1>1. k \in Keys /\ k.kind # "purge" /\ k.doc = d
  BY DEF Key, Keys, Kinds
<1>2. db' = Enqueue(db, {k}) /\ db.content[d] = "PUBLISHED"
  BY DEF ScheduleIngestionRepair
<1> HIDE DEF k
<1> QED BY <1>1, <1>2, EnqueueOneContinues

\* What CleanupIngestionHistory changes.
LEMMA CleanupFields ==
  ASSUME IInv, NEW k \in Keys, CleanupIngestionHistory(k)
  PROVE  LET old  == db.outcome[k.doc]
             keep == old # None /\ <<old.key, k>> \in db.newer
             out  == IF keep THEN old ELSE [key |-> k, status |-> Status(db, k)]
         IN /\ db' \in DBType /\ Sound(db')
            /\ db.jobs[k] # None /\ db.jobs[k] \in JobRows /\ Status(db, k) = db.jobs[k].status
            /\ db'.content = db.content /\ db'.state = db.state /\ db'.genModel = db.genModel
            /\ db'.approved = db.approved /\ db'.retained = db.retained /\ db'.serving = db.serving
            /\ db'.manifest = db.manifest /\ db'.newer = db.newer
            /\ db'.jobs = [db.jobs EXCEPT ![k] = None]
            /\ db'.outcome = [db.outcome EXCEPT ![k.doc] = out]
<1> DEFINE old  == db.outcome[k.doc]
           keep == old # None /\ <<old.key, k>> \in db.newer
           out  == IF keep THEN old ELSE [key |-> k, status |-> Status(db, k)]
           t == [db EXCEPT !.jobs[k] = None, !.outcome[k.doc] = out]
<1>1. db' = t
  BY Zenon DEF CleanupIngestionHistory
<1>2. db.jobs[k] # None /\ db.jobs[k] \in JobRows /\ Status(db, k) = db.jobs[k].status
  BY DEF CleanupIngestionHistory, Status, Terminal, IInv, TypeOK, DBType
<1>3. db' \in DBType /\ Sound(db')
  BY CleanupSound DEF Advances
<1> HIDE DEF out
<1>4. /\ t.content = db.content /\ t.state = db.state /\ t.genModel = db.genModel
      /\ t.approved = db.approved /\ t.retained = db.retained /\ t.serving = db.serving
      /\ t.manifest = db.manifest /\ t.newer = db.newer
      /\ t.jobs = [db.jobs EXCEPT ![k] = None]
      /\ t.outcome = [db.outcome EXCEPT ![k.doc] = out]
  BY DEF IInv, TypeOK, DBType
<1> HIDE DEF t
<1> QED BY <1>1, <1>2, <1>3, <1>4 DEF out

\* CleanupIngestionHistory: what is left was there before.
LEMMA CleanupContinues ==
  ASSUME IInv, Fit(db), NEW k \in Keys, CleanupIngestionHistory(k)
  PROVE  Continues(db, db', model)
<1> DEFINE old  == db.outcome[k.doc]
           keep == old # None /\ <<old.key, k>> \in db.newer
           out  == IF keep THEN old ELSE [key |-> k, status |-> Status(db, k)]
<1>0. db \in DBType /\ k.doc \in Docs /\ db.outcome \in [Docs -> [key : Keys, status : Statuses] \cup {None}]
      /\ db.jobs \in [Keys -> JobRows \cup {None}]
  BY KeyParts DEF Fit, DBType
<1>1. /\ db' \in DBType /\ Sound(db')
      /\ db.jobs[k] # None
      /\ db'.content = db.content /\ db'.state = db.state /\ db'.genModel = db.genModel
      /\ db'.approved = db.approved /\ db'.retained = db.retained /\ db'.serving = db.serving
      /\ db'.manifest = db.manifest /\ db'.newer = db.newer
      /\ db'.jobs = [db.jobs EXCEPT ![k] = None]
      /\ db'.outcome = [db.outcome EXCEPT ![k.doc] = out]
  BY CleanupFields
<1>2. out # None => out.key = k \/ (old # None /\ out.key = old.key)
  OBVIOUS
<1> HIDE DEF out
<1>3. \A d \in Docs : Born(db', d) \subseteq Born(db, d)
  <2> SUFFICES ASSUME NEW d \in Docs, NEW j \in Born(db', d) PROVE j \in Born(db, d)
    OBVIOUS
  <2>1. j \in Keys /\ j.doc = d /\ (db'.jobs[j] # None \/ (db'.outcome[d] # None /\ db'.outcome[d].key = j))
    BY DEF Born
  <2>2. CASE db'.jobs[j] # None
    BY <1>0, <1>1, <2>1, <2>2 DEF Born
  <2>3. CASE db'.outcome[d] # None /\ db'.outcome[d].key = j
    <3>1. CASE d = k.doc
      BY <1>0, <1>1, <1>2, <2>1, <2>3, <3>1 DEF Born
    <3>2. CASE d # k.doc
      BY <1>0, <1>1, <2>1, <2>3, <3>2 DEF Born
    <3> QED BY <3>1, <3>2
  <2> QED BY <2>1, <2>2, <2>3
<1>4. \A d \in Docs : db'.outcome[d] # None => db'.outcome[d].key.doc = d
  BY <1>0, <1>1, <1>2 DEF Fit, Ordered
<1>5. Ordered(db')
  <2>1. ASSUME NEW d \in Docs, ~Withdrawn(db', d) PROVE LinearOn(db'.newer, Born(db', d))
    BY <1>1, <1>3, <2>1 DEF Fit, Ordered, LinearOn, Withdrawn
  <2>2. ASSUME NEW d \in Docs, db'.content[d] = "none" PROVE Born(db', d) = {}
    BY <1>1, <1>3, <2>2 DEF Fit, Ordered
  <2> QED BY <1>4, <2>1, <2>2 DEF Ordered
<1> QED BY <1>1, <1>5, FrameContinues

\* Promote and Rollback switch to a generation that is ready or still retained; from
\* there it is the switch of a build, though one that something else serves in front of.
LEMMA SwitchContinues ==
  ASSUME IInv, Fit(db), NEW g \in Gens, NEW from \in {"ready", "retired"}, Switch(g, from),
         from = "retired" => db.retained[g]
  PROVE  Fit(db') /\ Keeps(db, db') /\ Arrives(db, db', model)
<1> DEFINE s == [db EXCEPT !.state[g] = "ready", !.approved[g] = TRUE, !.retained[g] = FALSE]
           t == Activate(s, g, model)
<1>1. /\ s \in DBType /\ s.content = db.content /\ s.chunked = db.chunked /\ s.released = db.released
      /\ s.ready = db.ready /\ s.indexGen = db.indexGen /\ s.serving = db.serving
      /\ s.manifest = db.manifest /\ s.jobs = db.jobs /\ s.state = [db.state EXCEPT ![g] = "ready"]
      /\ db.state \in [Gens -> {"none", "building", "ready", "active", "retired", "failed"}]
  BY DEF IInv, TypeOK, DBType
<1>2. /\ s.genModel = db.genModel /\ s.newer = db.newer /\ s.outcome = db.outcome
      /\ \A h \in Gens : h # g => s.retained[h] = db.retained[h]
  BY DEF IInv, TypeOK, DBType
<1>3. /\ db.state[g] = from /\ db.genModel[g] = model /\ (\A h \in Builds(db) : h = g)
      /\ db' = t /\ t.state[g] = "active"
  BY Zenon DEF Switch
<1> HIDE DEF s
<1>4. Numbered(s) /\ ServesOneGeneration(s)
  BY <1>1, <1>3 DEF IInv, Sound, Numbered, ServesOneGeneration, Builds
<1>5. Sound(s)
  BY <1>1, <1>4 DEF IInv, Sound, PurgesWithdrawn, ServesPublished, Indexed
<1>6. Known(s) /\ Keeps(db, s)
  BY <1>1, <1>2, <1>3 DEF Fit, Known, Keeps, Gone, Withdrawn
<1>7. Ordered(s)
  BY <1>1, <1>2, OrderedFrame DEF Fit
<1>8. g \in Builds(s) /\ s.genModel[g] = model
  BY <1>1, <1>2, <1>3 DEF Builds
<1>9. t = SwitchTo(s, g) /\ ~Incomplete(s, g)
  <2>1. CASE s.state[g] \notin {"building", "ready"} \/ s.genModel[g] # model \/ Barrier(s, g)
    BY <1>1, <1>3, <2>1 DEF Activate
  <2>2. CASE ~(s.state[g] \notin {"building", "ready"} \/ s.genModel[g] # model \/ Barrier(s, g)) /\ Incomplete(s, g)
    <3>1. t = Enqueue(s, MissingVersions(s, g))
      BY <2>2 DEF Activate
    <3>2. t.state = s.state
      <4> DEFINE K == MissingVersions(s, g)
      <4>1. K \in SUBSET Keys
        BY MissingVersionsType
      <4> HIDE DEF K
      <4>2. Enqueue(s, K).state = s.state
        BY <1>1, <4>1, EnqueueFields
      <4> QED BY <3>1, <4>2 DEF K
    <3> HIDE DEF t
    <3> QED BY <1>1, <1>3, <3>2
  <2>3. CASE ~(s.state[g] \notin {"building", "ready"} \/ s.genModel[g] # model \/ Barrier(s, g)) /\ ~Incomplete(s, g)
    <3>1. CASE ~s.approved[g]
      <4>1. t = [s EXCEPT !.state[g] = "ready"]
        BY <2>3, <3>1 DEF Activate
      <4>2. t.state[g] = "ready"
        BY <1>1, <4>1 DEF DBType
      <4> QED BY <1>3, <4>2
    <3>2. CASE s.approved[g]
      BY <2>3, <3>2 DEF Activate
    <3> QED BY <3>1, <3>2
  <2> QED BY <2>1, <2>2, <2>3
<1>10. Fit(t) /\ Keeps(s, t) /\ Arrives(s, t, model)
  BY <1>1, <1>5, <1>6, <1>7, <1>8, <1>9, SwitchToContinues
<1> HIDE DEF t
<1>11. Keeps(db, t)
  BY <1>6, <1>10 DEF Keeps
<1>12. Arrives(db, t, model)
  BY <1>1, <1>10 DEF Arrives
<1> QED BY <1>3, <1>10, <1>11, <1>12

\* A job with a reported status counts for its document.
LEMMA ReportedIsBorn ==
  ASSUME IInv, NEW d \in Docs, NEW j \in Keys, j.doc = d, Outcome(db, j) # "none"
  PROVE  j \in Born(db, d)
  BY DEF Outcome, Archived, Born

\* What CleanupIngestionHistory leaves of the statuses: either they are all as before,
\* or the removed job is silent and some younger job of its document is not.
LEMMA CleanupStatuses ==
  ASSUME IInv, Fit(db), NEW k \in Keys, CleanupIngestionHistory(k), Live(db, k.doc)
  PROVE  /\ \A j \in Keys : j.doc = k.doc /\ j # k => Outcome(db', j) = Outcome(db, j)
         /\ \/ Outcome(db', k) = Outcome(db, k)
            \/ /\ Outcome(db', k) = "none"
               /\ \E i \in Keys : i # k /\ i.doc = k.doc /\ Outcome(db, i) # "none" /\ <<i, k>> \in db.newer
<1> DEFINE d    == k.doc
           old  == db.outcome[k.doc]
           keep == old # None /\ <<old.key, k>> \in db.newer
           out  == IF keep THEN old ELSE [key |-> k, status |-> Status(db, k)]
           N    == db.newer
           B    == Born(db, k.doc)
<1>0. db \in DBType /\ d \in Docs /\ db.outcome \in [Docs -> [key : Keys, status : Statuses] \cup {None}]
      /\ db.jobs \in [Keys -> JobRows \cup {None}]
  BY KeyParts DEF Fit, DBType
<1>1. /\ db.jobs[k] # None /\ db.jobs[k] \in JobRows /\ Status(db, k) = db.jobs[k].status
      /\ db'.newer = N /\ db'.jobs = [db.jobs EXCEPT ![k] = None]
      /\ db'.outcome = [db.outcome EXCEPT ![k.doc] = out]
  BY CleanupFields
<1>2. /\ LinearOn(N, B) /\ k \in B /\ B \subseteq Keys
      /\ old # None => old.key \in B /\ old.key \in Keys /\ old.key.doc = d /\ old \in [key : Keys, status : Statuses]
  <2>1. LinearOn(N, B)
    BY <1>0 DEF Fit, Ordered, Withdrawn, Live
  <2>2. k \in B /\ B \subseteq Keys
    BY <1>1 DEF Born
  <2>3. old # None => old.key.doc = d /\ old \in [key : Keys, status : Statuses]
    BY <1>0 DEF Fit, Ordered
  <2> QED BY <2>1, <2>2, <2>3 DEF Born
<1>3. /\ db'.jobs[k] = None
      /\ \A j \in Keys : j # k => db'.jobs[j] = db.jobs[j]
      /\ db'.outcome[d] = out
  BY <1>0, <1>1
<1>4. /\ keep <=> old # None /\ <<old.key, k>> \in N
      /\ keep => out = old
      /\ ~keep => out = [key |-> k, status |-> db.jobs[k].status]
      /\ old = db.outcome[d] /\ d = k.doc /\ db'.newer = N /\ db.newer = N
  BY <1>1
<1>5. \A j \in Keys : j.doc = d /\ db.jobs[j] # None => j \in B /\ Outcome(db, j) = db.jobs[j].status /\ Outcome(db, j) # "none"
  <2> SUFFICES ASSUME NEW j \in Keys, j.doc = d, db.jobs[j] # None
               PROVE  j \in B /\ Outcome(db, j) = db.jobs[j].status /\ Outcome(db, j) # "none"
    OBVIOUS
  <2>1. j \in B /\ Outcome(db, j) = db.jobs[j].status /\ db.jobs[j] \in JobRows
    BY <1>0 DEF Born, Outcome
  <2>2. db.jobs[j].status # "none"
    BY <2>1 DEF JobRows, Statuses, Terminal
  <2> QED BY <2>1, <2>2
<1> HIDE DEF N, B, d, keep, out, old
<1>6. /\ \A i \in B : <<i, i>> \notin N
      /\ \A i, j \in B : i # j => <<i, j>> \in N \/ <<j, i>> \in N
      /\ \A i, j, l \in B : <<i, j>> \in N /\ <<j, l>> \in N => <<i, l>> \in N
  BY Zenon, <1>2 DEF LinearOn
<1>7. CASE keep
  <2>1. out = old /\ old # None /\ <<old.key, k>> \in N /\ old.key \in B /\ old.key \in Keys /\ old.key.doc = d
    BY <1>2, <1>4, <1>7
  <2>2. old.key # k /\ <<k, old.key>> \notin N
    BY <1>2, <1>6, <2>1
  <2>3. db'.jobs[old.key] = db.jobs[old.key]
    BY <1>3, <2>1, <2>2
  <2>4. Archived(db', d) <=> Archived(db, d)
    <3>1. Archived(db, d) <=> /\ db.jobs[old.key] = None
                              /\ \A i \in Keys : i.doc = d /\ db.jobs[i] # None => <<i, old.key>> \notin N
      BY <1>4, <2>1 DEF Archived
    <3>2. Archived(db', d) <=> /\ db.jobs[old.key] = None
                               /\ \A i \in Keys : i.doc = d /\ db'.jobs[i] # None => <<i, old.key>> \notin N
      BY <1>3, <1>4, <2>1, <2>3 DEF Archived
    <3> QED BY <1>3, <2>2, <3>1, <3>2
  <2>5. \A j \in Keys : j.doc = d /\ j # k => Outcome(db', j) = Outcome(db, j)
    BY <1>3, <1>4, <2>1, <2>4 DEF Outcome
  <2>6. Outcome(db', k) = "none"
    BY <1>3, <1>4, <2>1, <2>2 DEF Outcome
  <2>7. \E i \in Keys : i # k /\ i.doc = d /\ Outcome(db, i) # "none" /\ <<i, k>> \in N
    <3>1. CASE db.jobs[old.key] # None
      BY <1>5, <2>1, <2>2, <3>1
    <3>2. CASE db.jobs[old.key] = None /\ Archived(db, d)
      <4>1. Outcome(db, old.key) = old.status
        BY <1>4, <2>1, <3>2 DEF Outcome
      <4>2. old.status # "none"
        BY <1>2, <2>1 DEF Statuses, Terminal
      <4> QED BY <2>1, <2>2, <4>1, <4>2
    <3>3. CASE db.jobs[old.key] = None /\ ~Archived(db, d)
      <4>1. PICK i \in Keys : i.doc = d /\ db.jobs[i] # None /\ <<i, old.key>> \in N
        BY <1>4, <2>1, <3>3 DEF Archived
      <4>2. i \in B /\ Outcome(db, i) # "none"
        BY <1>5, <4>1
      <4>3. <<i, k>> \in N
        BY <1>2, <1>6, <2>1, <4>1, <4>2
      <4>4. i # k
        BY <2>2, <4>1
      <4> QED BY <4>1, <4>2, <4>3, <4>4
    <3> QED BY <3>1, <3>2, <3>3
  <2> QED BY <1>4, <2>5, <2>6, <2>7
<1>8. CASE ~keep
  <2>1. /\ out = [key |-> k, status |-> db.jobs[k].status] /\ out.key = k /\ out.status = db.jobs[k].status
        /\ db.jobs[k].status \in Statuses
    BY <1>1, <1>4, <1>8 DEF JobRows
  <2>2. out # None
    BY <2>1, NoneAssumption
  <2>3. ~Archived(db, d)
    <3>1. SUFFICES ASSUME Archived(db, d) PROVE FALSE
      OBVIOUS
    <3>2. old # None /\ db.jobs[old.key] = None
      BY <1>4, <3>1 DEF Archived
    <3>3. <<k, old.key>> \notin N
      BY <1>1, <1>4, <3>1 DEF Archived
    <3>4. <<old.key, k>> \notin N
      BY <1>4, <1>8, <3>2
    <3>5. old.key # k
      BY <1>1, <3>2
    <3> QED BY <1>2, <1>6, <3>2, <3>3, <3>4, <3>5
  <2>4. \A j \in Keys : j.doc = d /\ j # k => Outcome(db', j) = Outcome(db, j)
    BY <1>3, <2>1, <2>3 DEF Outcome
  <2>5. CASE Archived(db', d)
    <3>1. Outcome(db', k) = db.jobs[k].status
      BY <1>3, <1>4, <2>1, <2>5 DEF Outcome
    <3>2. Outcome(db, k) = db.jobs[k].status
      BY <1>1 DEF Outcome
    <3> QED BY <1>4, <2>4, <3>1, <3>2
  <2>6. CASE ~Archived(db', d)
    <3>1. Outcome(db', k) = "none"
      BY <1>3, <1>4, <2>6 DEF Outcome
    <3>2. PICK i \in Keys : i.doc = d /\ db'.jobs[i] # None /\ <<i, k>> \in N
      BY <1>3, <1>4, <2>1, <2>2, <2>6 DEF Archived
    <3>3. i # k /\ db.jobs[i] # None
      BY <1>3, <3>2
    <3>4. Outcome(db, i) # "none"
      BY <1>5, <3>2, <3>3
    <3> QED BY <1>4, <2>4, <3>1, <3>2, <3>3, <3>4
  <2> QED BY <2>5, <2>6
<1> QED BY <1>7, <1>8

\* The body of CleanupKeepsStatus.
KeepsStatus ==
  \A k \in Keys : CleanupIngestionHistory(k) =>
    \A d \in Docs : Live(db, d) =>
      /\ LatestJobs(db', d) = LatestJobs(db, d)
      /\ \A j \in LatestJobs(db, d) : Outcome(db', j) = Outcome(db, j)

\* A job that falls silent was not the latest: a younger one speaks.
LEMMA CleanupKeepsLatest == IInv /\ Fit(db) => KeepsStatus
<1> SUFFICES ASSUME IInv, Fit(db), NEW k \in Keys, CleanupIngestionHistory(k), NEW d \in Docs, Live(db, d)
             PROVE  /\ LatestJobs(db', d) = LatestJobs(db, d)
                    /\ \A j \in LatestJobs(db, d) : Outcome(db', j) = Outcome(db, j)
  BY Zenon DEF KeepsStatus
<1> DEFINE N == db.newer
           B == Born(db, d)
<1>1. /\ db'.newer = N /\ db'.jobs = [db.jobs EXCEPT ![k] = None]
      /\ \A e \in Docs : e # k.doc => db'.outcome[e] = db.outcome[e]
      /\ db.jobs \in [Keys -> JobRows \cup {None}]
  <2>1. db.outcome \in [Docs -> [key : Keys, status : Statuses] \cup {None}] /\ db.jobs \in [Keys -> JobRows \cup {None}]
    BY DEF Fit, DBType
  <2> QED BY <2>1, CleanupFields
<1>2. CASE d # k.doc
  <2>1. \A j \in Keys : j.doc = d => db'.jobs[j] = db.jobs[j]
    BY <1>1, <1>2
  <2>2. Archived(db', d) <=> Archived(db, d)
    <3>1. db.outcome[d] # None => db.outcome[d].key \in Keys /\ db.outcome[d].key.doc = d
      BY DEF Fit, DBType, Ordered
    <3> QED BY <1>1, <1>2, <2>1, <3>1 DEF Archived
  <2>3. \A j \in Keys : j.doc = d => Outcome(db', j) = Outcome(db, j)
    BY <1>1, <1>2, <2>1, <2>2 DEF Outcome
  <2> QED BY <1>1, <2>3 DEF LatestJobs
<1>3. CASE d = k.doc
  <2>1. /\ \A j \in Keys : j.doc = d /\ j # k => Outcome(db', j) = Outcome(db, j)
        /\ \/ Outcome(db', k) = Outcome(db, k)
           \/ /\ Outcome(db', k) = "none"
              /\ \E i \in Keys : i # k /\ i.doc = d /\ Outcome(db, i) # "none" /\ <<i, k>> \in N
    BY <1>3, CleanupStatuses
  <2>2. LinearOn(N, B)
    BY DEF Fit, Ordered, Withdrawn, Live
  <2>3. \A j \in Keys : j.doc = d /\ Outcome(db, j) # "none" => j \in B
    BY ReportedIsBorn
  <2>4. k \in B
    BY <1>3, CleanupFields DEF Born
  <2> HIDE DEF N, B
  <2>5. \A i, j, l \in B : <<i, j>> \in N /\ <<j, l>> \in N => <<i, l>> \in N
    BY Zenon, <2>2 DEF LinearOn
  <2>6. /\ LatestJobs(db, d) = {j \in Keys : /\ j.doc = d /\ Outcome(db, j) # "none"
                                             /\ \A i \in Keys : i.doc = d /\ Outcome(db, i) # "none" => <<i, j>> \notin N}
        /\ LatestJobs(db', d) = {j \in Keys : /\ j.doc = d /\ Outcome(db', j) # "none"
                                              /\ \A i \in Keys : i.doc = d /\ Outcome(db', i) # "none" => <<i, j>> \notin N}
    BY <1>1 DEF LatestJobs, N
  <2>7. CASE Outcome(db', k) = Outcome(db, k)
    <3>1. \A j \in Keys : j.doc = d => Outcome(db', j) = Outcome(db, j)
      BY <2>1, <2>7
    <3> QED BY <2>6, <3>1
  <2>8. CASE Outcome(db', k) # Outcome(db, k)
    <3>1. PICK i \in Keys : i # k /\ i.doc = d /\ Outcome(db, i) # "none" /\ <<i, k>> \in N
      BY <2>1, <2>8
    <3>2. Outcome(db', k) = "none" /\ Outcome(db', i) # "none" /\ i \in B
      BY <2>1, <2>3, <2>8, <3>1
    <3>3. k \notin LatestJobs(db, d) /\ k \notin LatestJobs(db', d)
      BY <2>6, <3>1, <3>2
    <3>4. ASSUME NEW j \in Keys, j.doc = d, j # k, Outcome(db, j) # "none", <<k, j>> \in N
          PROVE  <<i, j>> \in N
      BY <2>3, <2>4, <2>5, <3>1, <3>2, <3>4
    <3>5. ASSUME NEW j \in Keys, j # k PROVE j \in LatestJobs(db, d) <=> j \in LatestJobs(db', d)
      BY <2>1, <2>6, <3>1, <3>2, <3>4, <3>5
    <3>6. LatestJobs(db, d) \subseteq Keys /\ LatestJobs(db', d) \subseteq Keys
      BY <2>6
    <3>7. LatestJobs(db', d) = LatestJobs(db, d)
      BY <3>3, <3>5, <3>6
    <3>8. \A j \in LatestJobs(db, d) : Outcome(db', j) = Outcome(db, j)
      BY <2>1, <2>6, <3>3
    <3> QED BY <3>7, <3>8
  <2> QED BY <2>7, <2>8
<1> QED BY <1>2, <1>3

\* What is undesired stays undesired, once there is a manifest.
LEMMA UndesiredStays ==
  ASSUME NEW s, NEW t, Fit(s), Fit(t), Keeps(s, t), NEW d \in Docs, NEW g \in Gens,
         s.manifest[d][g] # "none", ~Desired(s, d, g)
  PROVE  t.manifest[d][g] # "none" /\ ~Desired(t, d, g)
<1>1. t.manifest[d][g] # "none" /\ s.content[d] # "none" /\ s.state[g] # "none"
  BY DEF Keeps, Fit, Known
<1>2. CASE ~(Servable(s, g) \/ (s.state[g] = "retired" /\ s.retained[g]))
  <2>1. s.state[g] \in {"none", "building", "ready", "active", "retired", "failed"}
    BY DEF Fit, DBType
  <2>2. Gone(t, g)
    BY <1>1, <1>2, <2>1 DEF Servable, Gone, Keeps
  <2>3. t.state[g] \in {"failed", "retired"} /\ (t.state[g] = "retired" => ~t.retained[g])
    BY <2>2 DEF Gone
  <2> QED BY <1>1, <2>3 DEF Desired, Servable
<1>3. CASE ~Live(s, d)
  <2>1. s.content[d] \in {"none", "DRAFT", "PUBLISHED", "ARCHIVED", "deleted"}
    BY DEF Fit, DBType
  <2>2. Withdrawn(t, d)
    BY <1>1, <1>3, <2>1 DEF Live, Withdrawn, Keeps
  <2> QED BY <1>1, <2>2 DEF Desired, Live, Withdrawn
<1>4. CASE s.manifest[d][g] \in {"none", "deleted"}
  BY <1>1, <1>4 DEF Desired, Keeps
<1> QED BY <1>2, <1>3, <1>4 DEF Desired

\* What every step does to the metadata.
Moves ==
  /\ Fit(db') /\ Keeps(db, db') /\ Arrives(db, db', model)
  /\ db.serving # 0 /\ db'.serving # db.serving => \E g \in Gens : Promote(g) \/ Rollback(g)

\* One case per action.
LEMMA StepMoves ==
  ASSUME IInv, Fit(db), Next
  PROVE  Moves
<1>0. Continues(db, db', model) => Moves
  BY DEF Continues, Moves
<1>1. UNCHANGED db => Moves
  BY SameContinues, <1>0
<1>2. ASSUME NEW d \in Docs, OwnerStep(d) PROVE Moves
  <2>1. Continues(db, db', model)
    BY <1>2, RegisterContinues, RetryContinues, WithdrawContinues DEF OwnerStep
  <2> QED BY <1>0, <2>1
<1>3. ASSUME NEW o \in Owners, Poll(o) PROVE Moves
  <2>1. CASE ClaimIngestionJob(o)
    BY <1>0, <2>1, ClaimContinues DEF ClaimIngestionJob
  <2>2. CASE PollEmpty(o)
    BY <1>0, <2>2, BuryContinues DEF PollEmpty
  <2> QED BY <1>3, <2>1, <2>2 DEF Poll
<1>4. ASSUME NEW o \in Owners, WorkerStep(o) PROVE Moves
  <2>1. CASE PrepareIngestionChunks(o)
    BY <1>0, <2>1, PrepareContinues
  <2>2. CASE UpsertPoints(o) \/ VerifyPoints(o) \/ DeletePoints(o) \/ CountDeleted(o) \/ AbandonWork(o)
    BY <1>1, <2>2 DEF UpsertPoints, VerifyPoints, DeletePoints, CountDeleted, AbandonWork
  <2>3. CASE CompleteIngestionJob(o)
    BY <1>0, <2>3, CompleteContinues
  <2>4. CASE \E retryable \in BOOLEAN : FailIngestionJob(o, retryable)
    BY <1>0, <2>4, FailContinues
  <2> QED BY <1>4, <2>1, <2>2, <2>3, <2>4 DEF WorkerStep
<1>5. ASSUME AdminStep PROVE Moves
  <2>1. CASE \E m \in Models : ActivateEmbeddingModelVersion(m)
    BY <1>1, <2>1 DEF ActivateEmbeddingModelVersion
  <2>2. CASE BeginIngestionRebuild
    BY <1>0, <2>2, BeginRebuildContinues
  <2>3. ASSUME NEW g \in Gens, Promote(g) \/ Rollback(g) PROVE Moves
    <3>1. CASE Promote(g)
      BY <3>1, SwitchContinues DEF Promote, Moves
    <3>2. CASE Rollback(g)
      BY <3>2, SwitchContinues DEF Rollback, Moves
    <3> QED BY <2>3, <3>1, <3>2
  <2>4. CASE \E k \in Keys : RetryOperationsJob(k)
    BY <1>0, <2>4, JobStepContinues
  <2> QED BY <1>5, <2>1, <2>2, <2>3, <2>4 DEF AdminStep
<1>6. ASSUME TimeStep PROVE Moves
  BY <1>0, <1>6, JobStepContinues, EndRetentionContinues, CleanupContinues DEF TimeStep
<1>7. ASSUME ReconcileStep PROVE Moves
  <2>1. CASE \E d \in Docs, g \in Gens : ScheduleIngestionRepair(d, g)
    BY <1>0, <2>1, RepairContinues
  <2>2. CASE (\E g \in Gens : JudgePoints(g)) \/ RemovePoints
    BY <1>1, <2>2 DEF JudgePoints, RemovePoints
  <2> QED BY <1>7, <2>1, <2>2 DEF ReconcileStep
<1> QED BY <1>2, <1>3, <1>4, <1>5, <1>6, <1>7 DEF Next

------------------------------------------------------------------------------
(* The invariant with points, workers and the sweep, and its theorems.     *)

\* A worker that neither prepares nor upserts holds no more points than before.
Rests ==
  /\ \A d \in Docs, g \in Gens : point'[d][g] # None => point[d][g] # None
  /\ \A o \in Owners : worker'[o] = worker[o] \/ worker'[o].phase \notin {"prepared", "written"}
  /\ sweep' \subseteq sweep

\* What rests keeps the invariant.
LEMMA RestsKeepHistory ==
  ASSUME History, IInv', Moves, Rests
  PROVE  History'
<1>0. Keeps(db, db') /\ Fit(db) /\ Fit(db')
  BY DEF Moves, History
<1>1. \A d \in Docs, g \in Gens : db.manifest[d][g] # "none" => db'.manifest[d][g] # "none"
  BY <1>0 DEF Keeps
<1>2. PointsKnown'
  BY <1>1 DEF History, PointsKnown, Rests
<1>3. WorkersKnown'
  <2> SUFFICES ASSUME NEW o \in Owners, worker'[o].phase \in {"prepared", "written"}
               PROVE  /\ worker'[o].phase = "prepared" => worker'[o].job.kind # "purge"
                      /\ db'.manifest[worker'[o].job.doc][worker'[o].job.gen] # "none"
    BY DEF WorkersKnown
  <2>1. worker'[o] = worker[o]
    BY DEF Rests
  <2>2. worker[o].job \in Keys
    BY <2>1 DEF History, IInv, WorkersPrepared
  <2> QED BY <1>1, <2>1, <2>2, KeyParts DEF History, WorkersKnown
<1>4. SweepKnown'
  <2> SUFFICES ASSUME NEW p \in sweep' PROVE db'.manifest[p[1]][p[2]] # "none" /\ ~Desired(db', p[1], p[2])
    BY DEF SweepKnown
  <2>1. p \in sweep /\ p \in Docs \X Gens
    BY DEF Rests, History, IInv, TypeOK
  <2>2. p[1] \in Docs /\ p[2] \in Gens /\ db.manifest[p[1]][p[2]] # "none" /\ ~Desired(db, p[1], p[2])
    BY <2>1 DEF History, SweepKnown
  <2> QED BY <1>0, <2>2, UndesiredStays
<1> QED BY <1>0, <1>2, <1>3, <1>4 DEF History

\* Everything but the preparation, the upsert and the judgement rests.
LEMMA StepRests ==
  ASSUME IInv, [Next]_vars
  PROVE  \/ Rests
         \/ \E o \in Owners : PrepareIngestionChunks(o) \/ UpsertPoints(o)
         \/ \E g \in Gens : JudgePoints(g)
<1>0. /\ worker \in [Owners -> WorkerType] /\ Idle.phase = "idle"
      /\ point \in [Docs -> [Gens -> Hashes \cup {None}]]
  BY DEF IInv, TypeOK, Idle
<1>1. UNCHANGED <<point, worker, sweep>> => Rests
  BY DEF Rests
<1>2. ASSUME NEW o \in Owners, NEW w, w.phase \notin {"prepared", "written"}, worker' = [worker EXCEPT ![o] = w],
             UNCHANGED <<point, sweep>>
      PROVE  Rests
  BY <1>0, <1>2 DEF Rests
<1>3. ASSUME NEW d \in Docs, OwnerStep(d) PROVE Rests
  BY <1>1, <1>3 DEF OwnerStep, RegisterIngestion, RetryIngestion, WithdrawIngestion
<1>4. ASSUME NEW o \in Owners, Poll(o) PROVE Rests
  <2>1. CASE PollEmpty(o)
    BY <1>1, <2>1 DEF PollEmpty
  <2>2. ASSUME NEW k \in Keys, ClaimJob(o, k) PROVE Rests
    <3> DEFINE w == [Idle EXCEPT !.phase = "claimed", !.job = k, !.attempt = db.jobs[k].attempt + 1]
    <3>1. worker' = [worker EXCEPT ![o] = w] /\ UNCHANGED <<point, sweep>>
      BY <2>2 DEF ClaimJob
    <3>2. w.phase = "claimed"
      BY DEF Idle
    <3> HIDE DEF w
    <3> QED BY <1>2, <3>1, <3>2
  <2> QED BY <1>4, <2>1, <2>2 DEF Poll, ClaimIngestionJob
<1>5. ASSUME NEW o \in Owners, WorkerStep(o), ~PrepareIngestionChunks(o), ~UpsertPoints(o) PROVE Rests
  <2>1. CASE CompleteIngestionJob(o) \/ AbandonWork(o) \/ \E retryable \in BOOLEAN : FailIngestionJob(o, retryable)
    BY <1>0, <1>2, <2>1 DEF CompleteIngestionJob, AbandonWork, FailIngestionJob
  <2>2. CASE VerifyPoints(o) \/ CountDeleted(o)
    <3> DEFINE w == [worker[o] EXCEPT !.phase = "verified"]
    <3>1. worker' = [worker EXCEPT ![o] = w] /\ UNCHANGED <<point, sweep>>
      BY <2>2 DEF VerifyPoints, CountDeleted
    <3>2. w.phase = "verified"
      BY <1>0 DEF WorkerType
    <3> HIDE DEF w
    <3> QED BY <1>2, <3>1, <3>2
  <2>3. CASE DeletePoints(o)
    <3> DEFINE k == worker[o].job
    <3>1. worker' = [worker EXCEPT ![o].phase = "deleted"] /\ point' = [point EXCEPT ![k.doc][k.gen] = None]
          /\ sweep' = sweep
      BY <2>3 DEF DeletePoints
    <3>2. k \in Keys
      BY <2>3 DEF DeletePoints, IInv, WorkersPrepared
    <3>3. \A d \in Docs, g \in Gens : point'[d][g] # None => point[d][g] # None
      BY <1>0, <3>1, <3>2, KeyParts
    <3>4. \A i \in Owners : worker'[i] = worker[i] \/ worker'[i].phase = "deleted"
      BY <1>0, <3>1 DEF WorkerType
    <3> QED BY <3>1, <3>3, <3>4 DEF Rests
  <2> QED BY <1>5, <2>1, <2>2, <2>3 DEF WorkerStep
<1>6. ASSUME AdminStep PROVE Rests
  BY <1>1, <1>6 DEF AdminStep, ActivateEmbeddingModelVersion, BeginIngestionRebuild, Promote, Rollback, Switch,
                    RetryOperationsJob
<1>7. ASSUME TimeStep PROVE Rests
  BY <1>1, <1>7 DEF TimeStep, ExpireLease, EndRetention, CleanupIngestionHistory
<1>8. ASSUME ReconcileStep, ~\E g \in Gens : JudgePoints(g) PROVE Rests
  <2>1. CASE RemovePoints
    BY <2>1 DEF RemovePoints, Rests
  <2>2. CASE \E d \in Docs, g \in Gens : ScheduleIngestionRepair(d, g)
    BY <1>1, <2>2 DEF ScheduleIngestionRepair
  <2> QED BY <1>8, <2>1, <2>2 DEF ReconcileStep
<1>9. CASE UNCHANGED vars
  BY <1>1, <1>9 DEF vars
<1> QED BY <1>3, <1>4, <1>5, <1>6, <1>7, <1>8, <1>9 DEF Next

\* The inductive invariant with the history.
LEMMA InitHistory == Init => History
<1> SUFFICES ASSUME Init PROVE History
  OBVIOUS
<1>1. IInv
  BY InitSound
<1>2. /\ db.content = [d \in Docs |-> "none"] /\ db.state = [g \in Gens |-> "none"] /\ db.serving = 0
      /\ db.jobs = [k \in Keys |-> None] /\ db.newer = {} /\ db.outcome = [d \in Docs |-> None]
      /\ db.manifest = [d \in Docs |-> [g \in Gens |-> "none"]]
  BY DEF Init
<1>3. Vetted(db) /\ Known(db)
  BY <1>2 DEF Vetted, Known, Builds
<1>4. \A d \in Docs : Born(db, d) = {}
  BY <1>2 DEF Born
<1>5. Ordered(db)
  BY <1>2, <1>4 DEF Ordered, LinearOn
<1>6. PointsKnown /\ WorkersKnown /\ SweepKnown
  BY DEF Init, PointsKnown, WorkersKnown, SweepKnown, Idle
<1> QED BY <1>1, <1>3, <1>5, <1>6 DEF History, Fit, IInv, TypeOK

\* Every step keeps the invariant and moves the metadata as Moves says.
LEMMA StepHistory == History /\ [Next]_vars => History' /\ (Moves \/ UNCHANGED vars)
<1> SUFFICES ASSUME History, [Next]_vars PROVE History' /\ (Moves \/ UNCHANGED vars)
  OBVIOUS
<1>1. IInv /\ Fit(db) /\ IInv'
  BY StepSound DEF History
<1>2. CASE UNCHANGED vars
  <2>1. Moves
    <3>1. db' = db
      BY <1>2 DEF vars
    <3>2. Continues(db, db, model)
      BY <1>1, SameContinues
    <3> QED BY <3>1, <3>2 DEF Continues, Moves
  <2>2. Rests
    BY <1>2 DEF vars, Rests
  <2> QED BY <1>1, <1>2, <2>1, <2>2, RestsKeepHistory
<1>3. CASE Next
  <2>0. Moves
    BY <1>1, <1>3, StepMoves
  <2>1. CASE Rests
    BY <1>1, <2>0, <2>1, RestsKeepHistory
  <2>2. ASSUME NEW o \in Owners, PrepareIngestionChunks(o) PROVE History'
    <3> DEFINE k == worker[o].job
    <3>1. /\ k.kind # "purge" /\ k \in Keys
          /\ worker' = [worker EXCEPT ![o].phase = "prepared"] /\ point' = point /\ sweep' = sweep
      BY <1>1, <2>2 DEF PrepareIngestionChunks, IInv, WorkersPrepared
    <3>2. db'.manifest[k.doc][k.gen] # "none"
      BY <1>1, <2>2, PrepareContinues
    <3>3. worker \in [Owners -> WorkerType]
      BY <1>1 DEF IInv, TypeOK
    <3>4. \A d \in Docs, g \in Gens : db.manifest[d][g] # "none" => db'.manifest[d][g] # "none"
      BY <2>0 DEF Moves, Keeps
    <3>5. WorkersKnown'
      <4> SUFFICES ASSUME NEW i \in Owners
                   PROVE  /\ worker'[i].phase = "prepared" => worker'[i].job.kind # "purge"
                          /\ worker'[i].phase \in {"prepared", "written"}
                               => db'.manifest[worker'[i].job.doc][worker'[i].job.gen] # "none"
        BY DEF WorkersKnown
      <4>1. CASE i = o
        BY <3>1, <3>2, <3>3, <4>1 DEF WorkerType
      <4>2. CASE i # o
        <5>1. worker'[i] = worker[i]
          BY <3>1, <3>3, <4>2
        <5>2. worker[i].phase # "idle" => worker[i].job \in Keys
          BY <1>1 DEF IInv, WorkersPrepared
        <5> QED BY <3>4, <5>1, <5>2, KeyParts DEF History, WorkersKnown
      <4> QED BY <4>1, <4>2
    <3>6. PointsKnown'
      BY <3>1, <3>4 DEF History, PointsKnown
    <3>7. SweepKnown'
      <4> SUFFICES ASSUME NEW p \in sweep PROVE db'.manifest[p[1]][p[2]] # "none" /\ ~Desired(db', p[1], p[2])
        BY <3>1 DEF SweepKnown
      <4>1. p[1] \in Docs /\ p[2] \in Gens /\ db.manifest[p[1]][p[2]] # "none" /\ ~Desired(db, p[1], p[2])
        BY <1>1 DEF History, SweepKnown, IInv, TypeOK
      <4> QED BY <1>1, <2>0, <4>1, UndesiredStays DEF Moves
    <3> QED BY <1>1, <2>0, <3>5, <3>6, <3>7 DEF History, Moves
  <2>3. ASSUME NEW o \in Owners, UpsertPoints(o) PROVE History'
    <3> DEFINE k == worker[o].job
    <3>1. PICK h \in Hashes : /\ point' = [point EXCEPT ![k.doc][k.gen] = h]
                              /\ worker' = [worker EXCEPT ![o].phase = "written", ![o].hash = h]
                              /\ db' = db /\ sweep' = sweep /\ worker[o].phase = "prepared"
      BY <2>3 DEF UpsertPoints
    <3>2. k \in Keys /\ db.manifest[k.doc][k.gen] # "none" /\ worker \in [Owners -> WorkerType]
          /\ point \in [Docs -> [Gens -> Hashes \cup {None}]]
      BY <1>1, <3>1 DEF History, WorkersKnown, IInv, WorkersPrepared, TypeOK
    <3>3. PointsKnown'
      BY <3>1, <3>2, KeyParts DEF History, PointsKnown
    <3>4. \A i \in Owners : worker'[i].job = worker[i].job /\ (i # o => worker'[i] = worker[i])
                            /\ worker'[o].phase = "written"
      BY <3>1, <3>2 DEF WorkerType
    <3>5. WorkersKnown'
      BY <3>1, <3>2, <3>4 DEF History, WorkersKnown
    <3>6. SweepKnown'
      BY <3>1 DEF History, SweepKnown
    <3> QED BY <1>1, <2>0, <3>3, <3>5, <3>6 DEF History, Moves
  <2>4. ASSUME NEW g \in Gens, JudgePoints(g) PROVE History'
    <3>1. /\ sweep' = {p \in Docs \X {g} : point[p[1]][g] # None /\ ~Desired(db, p[1], g)}
          /\ UNCHANGED <<db, model, point, worker>>
      BY <2>4 DEF JudgePoints
    <3>2. SweepKnown'
      <4> SUFFICES ASSUME NEW p \in sweep' PROVE db.manifest[p[1]][p[2]] # "none" /\ ~Desired(db, p[1], p[2])
        BY <3>1 DEF SweepKnown
      <4>1. p[1] \in Docs /\ p[2] = g /\ point[p[1]][g] # None /\ ~Desired(db, p[1], g)
        BY <3>1
      <4> QED BY <4>1 DEF History, PointsKnown
    <3>3. PointsKnown' /\ WorkersKnown'
      BY <3>1 DEF History, PointsKnown, WorkersKnown
    <3> QED BY <1>1, <2>0, <3>2, <3>3 DEF History, Moves
  <2> QED BY <1>1, <2>0, <2>1, <2>2, <2>3, <2>4, StepRests
<1> QED BY <1>2, <1>3

\* Every reachable state satisfies it.
LEMMA HistoryInvariant == Spec => []History
<1>1. Init => History
  BY InitHistory
<1>2. History /\ [Next]_vars => History'
  BY StepHistory
<1> QED BY <1>1, <1>2, PTL DEF Spec

\* A reconciliation pass never deletes a point that has become wanted again: a retired
\* generation out of its rollback window, a failed build and a withdrawn document stay so.
THEOREM SweepDeletesOnlyExtra == Spec => []SweepStaysExtra
<1>1. History => SweepStaysExtra
  BY DEF History, SweepKnown, SweepStaysExtra
<1> QED BY <1>1, HistoryInvariant, PTL

\* Nothing but a promote or a rollback changes what is served, and whatever goes live
\* goes live under the embedding model of that moment.
THEOREM SwitchesStaySafe == Spec => SwitchesAreSafe
<1> DEFINE A == db.serving # 0 /\ db'.serving # db.serving => \E g \in Gens : Promote(g) \/ Rollback(g)
           C == /\ db'.serving # db.serving => db'.genModel[db'.serving] = model
                /\ \A d \in Docs : db.content[d] = "DRAFT" /\ db'.content[d] = "PUBLISHED"
                                     => db'.genModel[db'.indexGen[d]] = model
                /\ \A g \in Gens : db.state[g] = "failed" => db'.state[g] = "failed"
<1>1. ASSUME History, Moves PROVE A /\ C
  <2>1. A
    BY <1>1 DEF Moves
  <2>2. db'.serving # db.serving => db'.genModel[db'.serving] = model
    BY <1>1 DEF Moves, Arrives
  <2>3. ASSUME NEW d \in Docs, db.content[d] = "DRAFT", db'.content[d] = "PUBLISHED"
        PROVE  db'.genModel[db'.indexGen[d]] = model
    <3>1. db'.genModel[db'.serving] = model
      BY <1>1, <2>3 DEF Moves, Arrives
    <3>2. db'.indexGen[d] = db'.serving
      BY <1>1, <2>3 DEF Moves, Fit, Sound, ServesPublished
    <3> QED BY <3>1, <3>2
  <2>4. \A g \in Gens : db.state[g] = "failed" => db'.state[g] = "failed"
    BY <1>1 DEF Moves, Keeps
  <2> QED BY <2>1, <2>2, <2>3, <2>4
<1>2. History /\ [Next]_vars => [A]_vars /\ [C]_vars
  BY <1>1, StepHistory
<1>3. Spec => [][A]_vars /\ [][C]_vars
  BY <1>2, HistoryInvariant, PTL DEF Spec
<1> QED BY <1>3 DEF SwitchesAreSafe, SwitchNeedsApproval, OnlyTheActiveModelPublishes

\* Removing old job rows changes neither the latest job of a document nor its status.
THEOREM CleanupStatusStays == Spec => CleanupKeepsStatus
<1>1. History /\ [Next]_vars => [KeepsStatus]_vars
  BY CleanupKeepsLatest DEF History
<1>2. Spec => [][KeepsStatus]_vars
  BY <1>1, HistoryInvariant, PTL DEF Spec
<1> QED BY <1>2 DEF CleanupKeepsStatus, KeepsStatus
==============================================================================
