# Verification of the MathStudyPlatform backend

This directory holds TLA+ models of the Go backend in `src/backend`, the TLC
configurations that check them on small instances, and proofs about them checked
by TLAPS. Every module is translated from the code it names; `PROJECT.json` maps
each definition to the lines it stands for, lists the runs, the theorems, the
hazards of the code with the properties that cover them, and a mutant for every
property: a plausible bug in a mapped definition that violates it.

## 1. The system

One API process (or several) and a number of vector-worker processes run over
four stores: PostgreSQL (everything durable), Redis (leases of AI calls, rate
limits, login counters), Qdrant (vectors of teaching material) and an object
store (uploaded files). Transactions exist in PostgreSQL only. The frontend is
a client of the HTTP API that may repeat, abandon and reorder calls. AI
providers are external services that may answer late, partially or not at all.

What makes the code hard is the same everywhere: work that takes seconds or
minutes (parsing, embedding, a model's reply) happens outside of the
transaction that started it and before the one that records it, so the world
may have moved in between. The code protects the second transaction with a
*fence*: a lease owner and attempt number, a claim token, a revision, a version
or a snapshot. The models keep exactly these fences, the order of the reads and
writes around them, and the failures between them.

### Components

| Component (`src/backend/internal/...`) | State it keeps | Operations | Hard behaviour | What makes it correct |
|---|---|---|---|---|
| resource ingestion (`application/resource`, `adapter/postgres/resource_ingestion_*`) | contents and versions, jobs with lease and attempt, chunks, manifests, index generations; points in Qdrant | register, claim, prepare, upsert, verify, complete, fail, retry, withdraw, history cleanup | two stores without a common transaction; workers that lost their lease go on writing to Qdrant | what is published is completely indexed in the served generation; a withdrawal is final; jobs end |
| index operations (`application/resource/operations*`, `cmd/vector-*`) | `release_approved`, retention of retired generations | rebuild, promote, rollback, operator retry, reconciliation | switching a whole knowledge base at once while documents arrive and leave | one active generation; only an administrator switches; reconciliation deletes nothing that is wanted |
| upload staging (`resource_ingestion_uploads.go`) | staging rows, objects, queue slots | stage, store, register, claim and delete stale rows | an object store outside of the transaction; retries of a request under cleanup | a registered document keeps its object; no object is forgotten; the queue limit |
| chat sessions (`application/session`, `adapter/postgres/session_*`) | sessions, messages, first-chat claims, usage ledger, in-memory tasks | start chat, replay, chat, stop, end, delete | clients retry, leave and stop; claims expire under a running generator | one reply per first chat; one charge per complete reply; a successful stop left its reply |
| AI risk guard (`application/airisk`, `adapter/redis/ai_risk_slot_store.go`) | settings, access blocks, daily ledger (PostgreSQL), slots (Redis) | acquire, review, charge, release | two stores; lost answers; settings change | concurrency and quota limits; slots come back |
| knowledge-study flow (`session_study_*`) | stage and revision, turns | create, start, next, structured and plain turns | prompts are built from a stage read long before the turn is recorded | every passed stage is backed by a completed turn of its own |
| daily question (`application/dailyquestion`, `daily_question_repository.go`) | a row per student and day, strategy, schedule | prepare (visit, make-up, worker), answer, switch strategy, replace the schedule | AI preparation by several actors at once; teacher edits meanwhile | one question per student and day, for good; one strategy per day; every preparation ends |
| exercises (`application/exercise`, `exercise_repository.go`, `mistake_review_repository.go`) | attempts, registered responses, assignments, review plans | submit on four routes, archive, solution | grading outside of the tracking lock | a submission is decided once; an archived plan is not revived by a late answer; a verdict is for what is asked |
| grading (`exercise`, `mathsolver`, `answerocr`) | none | normalize, compare, judge, check generated questions | two representations of a choice, doubtful outcomes of a solver | a sure verdict is right; a stored question was solved, matched and confirmed |
| learning record (`exercise`, `progress`, `portrait`) | sessions, profile, mastery, portrait | next exercise, tracking, portrait, clear | pages read without a lock; counters read and written back | counters equal the answers; a cleared portrait does not come back |
| paths, insights, mistake book (`progress`, `learningrange`, `mistake`) | none of their own | path, chart, streak, rank, comparison, lists, statistics | several reads without a transaction | ordered and open paths; figures that add up; lists without gaps |
| choice and reminders of the daily question (`dailyquestion`) | assignments over days, settings, reminder events | choose, repeat, replace, remind, alert, statistics | days in a row, withdrawals, a roster that changes | nothing repeats unless it says so; one reminder a day; figures add up |
| WeChat (`application/wechat`, `wechatreminder`) | bindings, tickets, event claims; leased reminder jobs | callbacks, bind, unbind; claim, renew, send, reschedule, requeue | repeated and reordered callbacks; a lease lost while sending | one ticket binds one follower; no needless second reminder; every reminder ends |
| authentication (`application/auth`, `adminuser`, `ratelimit`) | refresh sessions (Redis, process), `auth_version`, captcha, counters | login, refresh, revoke, password changes and resets, suspension | two processes and a failing Redis; requests that read an account before it changes | a token rotates once; what is accepted belongs to the password of now; guesses are bounded |
| resource search (`application/resource/search*.go`) | none | recall, fuse, rerank, neighbours, authorize twice, build the context | the library changes between the queries | only what is readable at the second authorization is shown |
| object storage (`application/adminstorage`, `adapter/storage`) | settings, the active backend of each process | update, activate, store, read, clean up | a switch under uploads, a commit without an answer | what serves is what is stored; documents lie where they were reserved |
| AI channels and relay (`adminaiconfig`, `llmrouting`, `einoagent`, `openaicompat`) | providers, models, defaults, active embedding, agent configuration; learned protocols | edit, probe, activate; order, retry, fall back, translate | two administrators; pieces already delivered; two streaming protocols | an activation is what was probed; one voice; nothing is lost in translation |
| data exchange (`application/adminsettings`) | none | export, import | tables exported by separate queries; rows that fail | every row is counted; good rows arrive; secrets stay |
| classes and notices (`classroom`, `notice`) | enrollments, history, recipients | join, leave, remove, disband, notify, confirm | racing joins, two clocks | one class per student and a history that says the same |
| question bank (`question`, `knowledge`) | questions, nodes, relations, plan | create, edit, publish, archive, plan, delete | validation before the transaction; questions held by plans | planned questions are published; used nodes stay |
| messages, announcements, forum | channels, cutoffs, dismissals, posts, notifications | send, read, archive, edit, dismiss, reply, like, report, moderate | two clocks, late acknowledgements, moderation under interaction | what is newer than what was shown stays unread; edits come back; a thread is whole |
| document parsing, e-mail, identity provider, statistics, HTTP layer, migrations, frontend, deployment | rows written in single transactions, or none | CRUD, reads, pure computations | none that depends on interleaving | see the reasons in `PROJECT.json` |

### Interactions

* Uploading (`IngestionUploads`) ends in `RegisterIngestion`, where
  `ResourceIngestion` begins: the first module sees the object and a job that
  is open, failed or done; the second sees the document and the whole life of
  that job. Both sides run under one advisory lock, so each repository method
  is one step in both.
* A student's AI call goes through the guard (`AIRiskGuard`), which the chat
  (`SessionFirstChat`) sees as a lease that is granted or refused and given
  back at the end; the charge of a chat is part of the transaction that stores
  its reply, that of any other response comes after its delivery.
* A chat of a study session also records a turn; `StudyProgress` models that
  half, `SessionFirstChat` the other (claims, tasks, stops, charges).
* The daily question takes its AI slot as an unmetered request of the guard.
* An answer to the daily question or to an exercise (`ExerciseSubmission`) is what
  `DailyQuestion` sees as the first answer of the day, what `LearningRecord`
  counts and what `MistakeBook` lists; its verdict comes from `AnswerGrading`.
* Notices, threads, the daily question and the low-stock alert (`Classes`,
  `Messages`, `DailyReminders`) enqueue jobs whose life is `WechatReminders`;
  whether a follower may be sent to is `WechatBinding`.
* Every AI call asks `AIChannels` for its candidates and goes through `AIRelay`,
  which may translate it (`ResponsesBridge`). The embedding model activated there
  is the one `ResourceIngestion` indexes with.
* `ResourceSearch` reads what `ResourceIngestion` has published; `StorageSwitch`
  changes the object store under `IngestionUploads`, which models one store.


## 2. The modules

Every module declares its parameters as CONSTANTS with a named assumption, one
action per operation or step between two calls, and its properties with the
reason the code gives for them. `MC*` modules hold instances for TLC; the three
that join many modules (`MCLearning`, `MCSchool`, `MCPlatform`) also hold the
specification the composed theorems are about, with its constants left open.
No module of the project declares a RECURSIVE operator.

| Module | Models | Instance for TLC | Proofs |
|---|---|---|---|
| `ResourceIngestion` | jobs, workers, generations, reconciliation | `MCIngestion` | `ResourceIngestionProofs` |
| `IngestionUploads` | staging, objects, cleanup, the queue limit | `MCUploads` | `IngestionUploadsProofs` |
| `DailyQuestion` | the daily question of one class | `MCDaily`, `MCSettling` | `DailyQuestionProofs` |
| `SessionFirstChat` | first chat, replays, later chats, stops, restarts | `MCSchool`, `MCFailures` | `FailuresProofs` |
| `WechatReminders` | the leased reminder queue | `MCFailures` | `FailuresProofs` |
| `AIRiskGuard` | the guard of one student | `MCSettling` | `FailuresProofs` |
| `StudyProgress` | the learning flow of one session | `MCLearning` | `LearningProofs` |
| `ExerciseSubmission`, `SubmissionRegister` | answers, plans, solutions; the abstract register they implement | `MCLearning` | `LearningProofs` |
| `LearningRecord`, `MistakeBook` | what is kept of the answers, and listed of them | `MCLearning` | `LearningProofs` |
| `AnswerGrading` | verdicts; questions a model writes | `MCLearning` | `LearningProofs` (the questions) |
| `LearningPath`, `LearningInsight`, `DailyChoice` | what is computed and chosen for the student | `MCLearning` | |
| `Messages`, `Announcements`, `Classes`, `QuestionBank` | what student and teacher share | `MCSchool` | `SchoolProofs` |
| `AccountSessions`, `LoginGates`, `WechatBinding` | who may do what | `MCPlatform` | `AccessProofs` |
| `DailyReminders`, `StorageSwitch` | who is reminded; object storage under a switch | `MCPlatform` | `AccessProofs` |
| `Forum` | one post, its replies and its notifications | `MCPlatform` | `PlatformProofs` |
| `AIChannels`, `AIRelay` | the way to the language models | `MCPlatform` | `PlatformProofs` |
| `ResponsesBridge`, `ResourceSearch`, `DataExchange` | two protocols; search; export and import | `MCPlatform` | |

**ResourceIngestion.** The metadata in PostgreSQL is one record `db`: every
repository method runs in `withIngestionTx` under the advisory lock
`resource_ingestion`, so a handler is a function from `db` to `db` and an action
applies it. `Activate`, `Enqueue`, `Supersede`, `Cancel`, `SwitchTo` are the
helpers of the Go code under the same names where it has them. `point` is
Qdrant, `worker[o]` what a worker goroutine remembers between two calls, `sweep`
the points a reconciliation pass is about to delete. A document's chunks move
together (one manifest, one point); the hash of its embedding stands for its
content, and two workers may get different hashes from the provider. Backoff and
priority are the free choice among claimable jobs. `Fenced` is
`fencedIngestionWork`; the upsert and the deletion of points ask for no fence,
as in the code.

**IngestionUploads.** A file is an object key (request id and checksum); two
files may belong to one request id. A row is due when 24 hours have passed
since staging or 15 minutes since the claim. `older` is the order of
`updated_at`, which the claim of a batch follows.

**SessionFirstChat.** A request is one HTTP call and `at` its program counter
between two calls of the repository, the guard or the model. A claim token is
the request itself. `task` is the process's `activeTasks` and `stoppedTasks`.
`Troubles` selects what may go wrong: deletion (and re-creation), ending,
restart of the process, failing or ambiguous calls, a failing release of the
claim. An ambiguous call is one that returns an error although it committed.

**AIRiskGuard.** One student and one Shanghai day. A request reads its access,
the settings, the count of today's replies (PostgreSQL) and takes a slot with
that count (Redis script). `high`, `missed` and `stale` are bookkeeping for the
properties.

**StudyProgress.** `turns` is the table `session_study_turns` in order; a chat
keeps the revision it read before it built its prompt. The bookkeeping variable
`base` is the revision the row started from: rows from before migration 0027 are
initial states at any stage.

**DailyQuestion.** One class; `row[s][d]` is the assignment, whose `retry` count
stands for the generation token, `job[w]` a preparation in progress, `save[e]` a
schedule save split where PostgreSQL takes its snapshot and where it gets the
row lock. `practice` are the student's ordinary submissions, which the comparison
of questions counts too, `at` and the newest `HistoryLimit` (200 in the code) say how
far it looks back, and `batch` is a run of the worker: whom it has still to take, and
whether it asks for another five minutes later instead of at midnight.

**ExerciseSubmission** follows one question and one student. A request is a route
(ordinary, daily, redo, review) with the client's key; it reads, grades without a
lock, and records under the student's tracking lock, where `StillAnswerable`
reads everything again. `plan` is the review plan, `assignment` the question of
the day, `content` the teacher's version of the question. `SubmissionRegister` is
what the endpoint promises: a slot (route and key) is decided at most once, for
good. The refinement maps a slot to the attempt stored under it.

**AnswerGrading** computes the verdict of every pair of answers over a small
alphabet of letters, texts, numbers with sign, point and exponent, and formulas; the parser
and the solver are external results. It also carries a generated question from
its draft over solution, match and check to the table.

**LearningRecord** has pages that look for the next exercise without a lock, the
answer that raises profile and mastery, and the portrait with its revision.
**LearningPath** and **LearningInsight** are computations over every small graph
and every small set of counts. **MistakeBook** reads its lists statement by
statement while answers arrive. **DailyChoice** prepares a day in one step and
follows six days of one student.

**WechatReminders** is one reminder and two workers: a send may end in doubt, a
lease may lapse at any step, the source may be withdrawn or repeated.
**DailyReminders** decides who is reminded, when, and how often.
**WechatBinding** delivers callbacks in any order, repeated and overlapping; a
claim in Redis may run out under its handler.

**AccountSessions** reads an account in one step and acts on it in a later one,
as the handlers do; refresh sessions live in Redis and, when it fails, in a
process. **LoginGates** is the captcha, its proof, the lock and the rate limit; the
counter, the lock and the attempts a process remembers run out one by one.

**Messages** models conversations and question threads with one clock that may
step back; a cutoff is what a reader was handed, and acknowledging it marks all
that is older, pages never loaded included. **Classes** has the application's clock
and the database's: a joining takes its time before its transaction, a leaving
inside its own, and both may be committed later. **QuestionBank** splits every handler at
its transactions, with the row locks of the plan. **Forum** is one post; a
notification is a row with recipient, actor, event and reply.

**AIChannels** splits the choice of a default, the configuration of the agent and
the activation of an embedding where the code reads before it writes. **AIRelay**
orders the channels of a request and delivers pieces. **ResponsesBridge** writes
the events of one protocol from the deltas of the other, reads them back, and
converts requests both ways; texts are sequences of pieces.

**ResourceSearch** takes a step per query and lets the library change between
them. **DataExchange** exports table by table and imports batch by batch.
**StorageSwitch** has an API process and a vector worker, each with a backend of
its own, the settings they share, and the objects by bucket; an import that
writes settings rows unprobed, and further API processes, are left out.

## 3. The runs

All runs are small enough for a few minutes of TLC with two workers. Deadlock
is not checked where a behaviour may legitimately stop (all clients served, all
bounds reached).

Large components are checked in **scenes**, and modules that share no state in
the model are checked in **parts** of one run: the initial state picks one, and
the behaviour stays in it while the rest keeps its initial state. Every scene
starts from the ordinary initial state and every step of it is a step of the
module's `Next`, so a scene only leaves behaviours out; together the scenes take
every action. A property of such a run is the conjunction of its parts' own
properties, which are named below and defined, with their reasons, in the
modules.

| Run | Instance | Checks |
|---|---|---|
| `ingestion` | five scenes: *fences* (1 document, 2 workers, 2 hashes, leases expire, processes stop), *switches* twice (2 documents; or 2 models), *reconcile*, *history*; 2 generations, 2 attempts | `PublishedIsServed`, `SweepStaysExtra`, `WithdrawalIsFinal`, `SwitchesAreSafe`, `CleanupKeepsStatus` |
| `ingestion_liveness` | the scene *fences* with fairness | `JobsSettle`, `WithdrawnPointsVanish` |
| `ingestion_barrier` | the scene *history*; finds a violation | `CleanupKeepsBarrier` |
| `uploads` | 3 object keys under 2 request ids, 2 requests in flight, 4 in all, limit 2, one foreign job, batches of one | `RegisteredObjectKept`, `ObjectsAreTracked`, `UploadsRespectLimit`, `AbandonedIsReclaimed` |
| `school` | *first chat* (2 starts with the same or different questions, 1 later chat whose client may leave, deletion); *conversation*, *thread*; *announcements*; *roster*, *notice*; *plan*, *choice*, *graph* of the bank | `FirstChatHolds` (`AnswersAgree`, `OpenChatIsUntouched`), `ChargedWhenStored`, `SchoolTypeOK`, `NewsAgree` (`MessagesHold`, `OneForAnAudience`), `NewsIsSeen` (`NewMessageIsSeen`, `EditsAreShown`), `ClassesAgree` (`RosterAgrees`, `PlannedIsPublished`, `ChoiceUnlessOverlapped`), `PastStands` (`PastIsSettled`, `NodesInUseStay`) |
| `bank_concepts` | the question bank alone; finds a violation | `ConceptsExist` |
| `failures` | *chat* (1 start, 1 later chat, 1 stop; deletion, ending, restart, failing and ambiguous calls); *reminder* (2 workers, 2 doubtful outcomes, 1 requeue), with fairness | `RepliesSettle` (`StopIsStored`, `NoOrphanClaim`), `ReminderHolds` (`NoNeedlessRepeat`, `AttemptsAreBounded`), `WorkFinishes` (`StopIsAnswered`, `ReminderFinishes`), `SentStays` |
| `settling` | *guard* (a chat, a metered response, an unmetered request; two settings); *daily* (1 student, a visit and a worker goroutine), with fairness | `ConcurrencyHeld`, `QuotaHeldUnlessStale`, `SlotsReturn`, `PreparationSettles` |
| `daily` | five scenes with up to 2 students, 2 visits, a worker goroutine, a teacher, 2 days, 2 questions, `HistoryLimit` 1 and a practised exercise | `RowsHold` (`OneStrategyPerDay`, `UniformDayAgrees`, `NoRepeatedQuestion`, `ReclaimsBounded`), `GivenStays`, `HolderSettles` |
| `daily_save` | two saves of one schedule; finds a violation | `SavesReplaceWhatTheyShowed` |
| `learning` | *study* (2 chats, every kind of start; a third once the flow has come to its check); *long exercise*, *racing exercise*; *grading*; *looking*, *counting*, *portraying*; *path* (all graphs of 3 nodes); *insight*; *book*; *repeating*, *replacing* | `LearningTypeOK`, `StudyHolds` (`EvidenceForEveryStage`, `PromptFitsTurn`), `LearningHolds` (`PlanHolds`, `GeneratedIsVerified`, `RecordHolds`, `BookHolds`), `FiguresHold` (`VerdictsAreRight`, `PathHolds`, `InsightsAgree`, `ChoiceHolds`), `RecordsStand` (`AnswersStand`, `GradedOnWhatIsAsked`, `PortraitIsRenewed`), `SubmissionsAreRegistered` (refinement) |
| `platform` | *tokens*, *account*; *captcha*, *guesses*; *subscriptions*, *tickets*; *thread*, *news*; *defaults*, *embedding*, *agent*; *relay*, *relays*; *protocols*; *reminding*, *stock*, *statistics*; *search*; *exchange*; *storage* | `PlatformTypeOK`, `AccessHolds` (`AccountsHold`, `GatesHold`, `BindingsHold`, `RemindersHold`, `StorageHolds`), `ServicesHold` (`ForumAgrees`, `ChannelsHold`, `RelayHolds`), `ResultsHold` (`SearchHolds`, `ExchangeHolds`, `ProtocolsAgree`), `FactsStand` (`LogoutIsFinal`, `NewFactsAreTold`, `ActivatedAsProbed`) |

Why the bounds are enough for the question asked:

* *ingestion*: a race needs two workers and one job, a switch two generations,
  a document left behind by a switch two documents; `MaxAttempts = 2` has a
  first attempt, a takeover and exhaustion. A third generation adds a second
  retired one, which behaves like the first.
* *uploads*: two keys of one request id are the conflict the code refuses, the
  third competes for the slot; four requests allow a retry of every kind after
  a cleanup. One cleaner suffices because a batch is over before its lease ends
  (see below); the proofs cover any number.
* *first chat*: two starts and a chat are the generator, the replay that takes
  its claim over and the chat that closes it. A session id may be created twice.
* *guard*: one request of every kind, a reply limit below the concurrency and
  the reverse, so either limit is the tighter one and both may change.
* *study*: two chats race for every stage; the check wants a question and an
  answer of its own, so there a third chat may come in between.
* *daily*: every property relates two students, two days, two reservations of
  one row or two saves, and each has a scene with two of them. With a limit of one a
  single exercise pushes a question out of what is compared.
* *exercises*: a plan is made by a first wrong answer, moved by a second and
  mastered or undone by a third (`SuccessTarget = 2`); two clients with two keys
  are a retry, a race on one slot and a race on two. The question has two
  versions, since a comparison only asks whether it changed.
* *grading*: two letters, three options and numbers with a sign, a point and an
  exponent up to 2 reach every branch of the comparison; the figures of
  *insight* take ages around every week and semester border.
* *daily choice*: six days are enough for every one of four questions to be
  given, to be repeated, and for the rotation to begin again; with `HistoryLimit = 2`
  questions fall out of what is compared on the third day.
* *reminder*: a second worker takes over from one that lost its lease; two
  doubts let it lose it in turn.
* *tokens*: two processes, one slot of local memory and two outages of Redis
  make each copy of a session outlive the other; in *account* one token is enough
  beside a password reset, which ends them all alike.
* *subscriptions*: what a follower's row says depends on the order of following
  and leaving; one text among them shows that it changes neither.
* *embedding*: the revision of a provider moves once, which is what a stale
  snapshot differs by; the choice of a default does not look at it.
* *protocols*: three events and three messages interleave a text, two calls and
  their arguments in every order, with blank and missing pieces.
* *search*: five chunks have a duplicate, a neighbour that contains another, a
  second version and another kind; two changes withdraw and restore.
* *storage*: two tasks are an update beside an update, an upload or a read.

### Fairness

Safety runs have no fairness. The liveness properties assume:

* *Ingestion*: workers poll and finish or drop what they hold; leases end
  because heartbeats stop with the job's timeout; claims follow age, so a
  claimable job is not passed over for ever (strong fairness of its claim); the
  reconciliation loop returns to every generation. No fairness is assumed for
  success: a worker may stop or fail at every step, every time.
* *Uploads*: requests end, time passes, batches run; storage does not refuse
  one object for ever (strong fairness of `DeleteDocument`). Without the last a
  row whose deletion always fails stays, which the code also does.
* *First chat*: the process serves every request it has accepted; nothing is
  assumed of clients, and a restart may drop everything.
* *Reminders*: the workers poll every few seconds and each step of one has a
  timeout; delays pass and leases lapse. Deaths and doubtful sends are bounded,
  as `MaxDoubts` says, since a queue whose workers all die for ever sends nothing.
* *Guard*: a started request runs to its end (every handler has a timeout) and
  a lease nobody holds runs out.
* *Daily question*: the worker runs at midnight, when its process starts, and five
  minutes after a run that met an error or left a student preparing, and not otherwise
  (`worker.go:125`); a run takes each student once, and each attempt ends by
  `StudentTimeout`. A run that is due begins, its steps are strongly fair because
  an attempt cut short by a restart is made again, and nothing makes a run due that
  the code does not. Visits are not fair: a student may never come. So a
  visit's preparation that dies after the day's last run stays as it is until the
  student comes back, and `PreparationSettles` does not claim otherwise: it is about a
  preparation that is under way while the worker has a run open or due.

## 4. The proofs

The theorems hold for every value of the constants that satisfies the module's
assumptions. An invariant that is not inductive is strengthened; the strengthening
says why the code works.

* `ResourceIngestionProofs`: handlers are functions on `db`, and so is the
  argument. `Sound(db)`: generations are numbered without a gap, exactly the
  served one is active and at most one is being built, purges exist for
  withdrawn documents only, and whatever is published is released, ready and
  indexed in the served generation. `Advances(s, t)` says that a handler keeps
  this and moves documents only from draft to published; each building block
  (enqueue, cancel, supersede, activate, switch, publish) is shown to advance
  once, and the actions compose them. `WorkersPrepared` ties a worker's memory
  to the database: past preparation its chunks are stored. The second half of the
  module is about time. `History` adds to the invariant what cannot come back
  (`Keeps`: a failed build, a retired generation past its retention, a withdrawn
  document, a deleted manifest), that jobs and outcomes of one document keep
  their order (`Ordered`), and that a point a sweep has judged has a manifest and is
  wanted by nobody (`SweepKnown`); each building block then `Continues` the
  history, and only a switch under the active model `Arrives`. That needs one more
  assumption on the constants, `NoneAssumption`: NULL is no row. Theorems:
  `TypeCorrect`, `ServesOneActiveGeneration`, `PublishedStaysServed`,
  `WithdrawalStaysFinal`, `SweepDeletesOnlyExtra`, `SwitchesStaySafe`,
  `CleanupStatusStays`.
* `IngestionUploadsProofs`: a registered document has its object and no row
  (`Settled`); a request in flight holds a fresh row (`Protected`) and what it
  wrote is there (`Written`); a batch holds the lease of what it handles
  (`Leased`), so what it deleted stays deleted (`Gone`). Theorems:
  `UploadsTypeCorrect`, `RegisteredObjectsStay`, `ObjectsStayTracked`. For the
  queue limit every step is of one of four kinds (`SlotSteps`): it takes no slot,
  takes one after looking at the limit, moves one from a row to its job, or is a
  rebuild or purge. The third rests on `Protected`: a request about to register
  holds the slot. Files need not be finitely many; the slots taken are
  (`SlotsFinite`). Theorem: `UploadsStayWithinLimit`.
* `DailyQuestionProofs`: a preparation that still holds its row works under the
  row's strategy and, for a uniform day, on a chosen content (`JobFits`); rows
  only grow (`RowsGrow`); the worker's reservations are counted by the row's
  retries and one goroutine works for a student at a time (`ReclaimsFit`,
  `BackgroundFits`). Theorems: `DailyTypeCorrect`, `DailyOneStrategy`,
  `DailyUniformAgrees`, `DailyNoRepeat`, `DailyReclaimsBounded`,
  `DailyGivenStays`, `DailyHolderSettles`.
* `FailuresProofs` has three parts that share nothing but what they are about.
  *The first chat*: the reply comes with the completion of the first chat's row
  and lasts as long as the session (`RowsAgree`, `RepliesLast`); a start that goes
  on has compared its question with the row it saw, and until the id is created a
  second time that is the row there is (`Matched`, `ViewsAgree`, `OwnQuestion`);
  what a client was handed is what is stored (`AnswersStored`); a later chat goes
  ahead only behind a completed first one (`ChatsFollow`); a charge belongs to
  one end of one chat (`ChargedOnce`); and the process knows of a task whether it was
  stopped until it restarts (`TasksKnown`, `StopsKnown`). For any mixture of
  troubles. Theorems: `ChatTypeCorrect`, `FirstChatIsOne`, `RepliesAreSettled`,
  `RepliesAreCharged`.
  *The reminder queue* is counted: calls the provider accepted, calls workers are
  committed to, and the one the queue may still allow sum up to at most one more
  than the doubts (`CallsAreCounted`), and a call without a good lease has cost a
  doubt of its own (`StraysAreDoubted`), so a requeue may start again from zero.
  For any finite set of workers. Theorems: `RemindersHold`, `SentJobsStay`.
  *The guard*: whoever is being served holds a lease, and there are
  never more leases than the largest concurrency; a metered request that has
  overlooked nothing counted every reply it must count (`Fresh`), so that replies
  delivered and under way fit the limit when a slot is granted on such a count.
  Theorems: `GuardTypeCorrect`, `ConcurrencyIsHeld`, `QuotaHeldBehindFreshCounts`.
* `LearningProofs`, the flow: each chat records one turn (`TurnsOnce`), a view's
  revision and stage go together (`ViewsFit`), and evidence is never taken away
  except with the whole session. Theorems: `StudyTypeCorrect`,
  `StagesAreEarned`, `PromptsFitTheirTurns`, `ModeIsLocked`, `EndedFlowsAreFrozen`.
* `LearningProofs`, the exercises: what a request has read again under the tracking
  lock stays true until it records (`LockProtects`), since whoever writes
  the student's rows waits for the lock, and a teacher's edit for the question it
  holds FOR SHARE; with that, plan, attempts and assignment agree
  after every answer (`PlanAgrees`, `AssignmentAgrees`), and the plan's revision
  counts its changes (`RevisionFits`). The refinement: recording decides a slot
  that was free, because the stored response was looked for under the lock;
  every other step leaves the verdicts as they are. Theorems:
  `ExerciseTypeCorrect`, `PlanStory`, `TheFirstAnswerStands`,
  `ArchivedMistakesRest`, `SolutionsAreDue` (together `AnswersAreFinal`),
  `VerdictsFitTheirQuestions`, `SubmissionsRefineTheRegister`.
* `LearningProofs`, the record: what a page under the lock has read is what is
  stored, so writing it back with one answer more keeps counters and answers in
  agreement; a page without the lock knows the newest answers only as long as
  there is no other (`PageFits`), which is why the offer asks again whether the
  session is fresh; a portrait under way is written only over the revision it found.
  The counters are cardinalities of the answers about a concept, and one answer
  more is one more in each of them (`OneMore`). Theorem: `RecordsAgree`.
* `LearningProofs`, the mistake book: the rows of the first pages of a list
  are those with fewer rows ahead of them than fit on the pages (`RowsUpto`), for
  every order a list may be sorted in (`PageOfRows`), so in a book that stays as it
  is the pages follow without a gap or a repetition (`ListFits`); a card has a
  plan that is not archived, and is the latest kept mistake about its question
  (`PlansRest`, `CardsRest`), which is what the card opens (`OpeningFits`).
  Theorem: `BooksAgree`.
* `LearningProofs`, the questions a model writes: what was checked of a draft was
  checked in its own attempt and in order, and the option it names is the one it
  means (`DraftFits`). Theorem: `GeneratedQuestionsAreVerified`. At the end,
  `LearningIsItsModules`: a step of the whole is, for each of the five modules, a
  step of it or leaves it alone, so their theorems hold of the whole. Theorems:
  `LearningTypeCorrect`, `StudyIsKept`, `LearningIsKept`, `LearningRecordsStand`.
* `SchoolProofs`. *Announcements*: a dismissal is of a revision the announcement
  has had (`DismissalsLag`), so an edit, which makes a later one, is shown again.
  *Messages*: what a side has marked as read, and every cutoff it was handed, is
  not beyond the newest it was shown, and times follow commits although the clock may
  step back (`ChannelInv`); a new message is then later than all and read by nobody,
  and what is unread is the newest part of what the other side sent.
  *Classes*: an identifier names one row of the history, and a student whose
  enrollment an open transaction has deleted is still in that class (`ClassInv`);
  the time of a joining is that of an earlier moment (`JoinsFit`), a leaving under
  way belongs to an enrollment that nothing else can delete (`LeavesFit`).
  *Question bank*: no two calls hold one row, what an update writes of a choice was
  right for the question it read, and a node about to be removed is unused
  (`CallsFit`). Each part has one lemma saying that a step keeps the invariant
  and does what the action property asks. Theorems: `AnnouncementsStayWhole`,
  `EditsStayShown`, `MessagesAgree`, `NewMessagesStaySeen`, `RosterStays`,
  `PastStaysSettled`, `PlanStaysPublished`, `UsedNodesAreKept`, and of the school as a
  whole `SchoolTypeCorrect`, `NewsStayAgreed`, `ClassesStayAgreed`, `NewsStaySeen`,
  `PastStaysPut`.
* `AccessProofs`. *Accounts*: a token or a row that was read is one of the account's
  past: of the version it has now it has the password and the suspensions of now
  (`OfThePast`), so comparing versions is enough; a token has as many copies as
  outages allow, and fewer once consumed (`CopiesOf`, `StoreSide`). *Gates*: a puzzle is
  in one store at a time unless an outage doubled it, and each place it is in is a
  login to come (`PuzzlesFit`); wrong passwords are at most those Redis
  counted and its outages, and past the lock only those compare who had passed
  it (`GuessesFit`). *Binding*: a follower's row says what the latest callback
  said (`FollowersFit`), and whoever is about to be bound by a ticket is the one it
  is reserved for (`TicketsFit`). *Reminders*: who got the automatic reminder of a day
  has its job, which was sent, and a job is of an event that is past or of today
  (`QueueInv`). *Storage*: an update holds the API's lock and works on the edition
  after the stored one (`UpdatesFit`), a document under way is reserved where
  it is written (`UploadsFit`), and one job at a time refreshes the worker, to
  nothing older than other jobs count on (`JobsFit`). Theorems: `AccountsStay`,
  `LogoutsAreFinal`, `GatesStay`, `BindingsStay`, `RemindersStay`, `StorageStays`.
* `PlatformProofs`. *Forum*: a notification of a like or an acceptance, read or not,
  is about one that stands, or about a reply that is deleted (`NewsKnown`), and an
  unread one is about a visible post, an active reply and the current selection
  (`NewsCurrent`); the first is why a repeated like or acceptance is new to its
  recipient, the second why the counting query hides nothing. *Channels*: unless
  two requests overlapped, one at most chooses a default, a provider has no second
  one, and none once the request has cleared it (`ChoicesFit`); a live model has a
  live provider. *Relay*: a call that is trying has heard at most the channel it
  is at, which comes later in its plan than those it left (`CallFits`). Theorems:
  `ForumTypeCorrect`, `ForumStaysWhole`, `NewFactsStayTold`, `ChannelsStay`,
  `ActivationsAreProbed`, `RelayStays`. Of the platform as a whole, by the invariant of
  all eight modules: `PlatformTypeCorrect`, `AccessStays`, `ServicesStay`,
  `PlatformFactsStand`.

The composed specifications bound their scenes in `Next` (which steps a part takes);
a bound only takes steps away, so what is proved of every step of a module holds
under it, and the modules' own theorems are about all of its steps.

The proofs assume what the modules name as assumptions on their constants, which
TLC evaluates in the runs, and nothing else: names that must differ do (NULL is no
row, the lock's "free" no client), bounds are numbers, positive where the code's
are, the sets that are counted are finite (workers, requests, channels, learners,
contents), an announcement can be edited and a class lives for two instants, the
application's clock is ahead of the database's by less than what separates an open
row from the last instant (`ClassAssumption`), the teacher is no learner, and the first question is one that
may be scheduled.

Model-checked only:

* the liveness properties (`JobsSettle`, `WithdrawnPointsVanish`,
  `AbandonedIsReclaimed`, `WorkFinishes`, `SlotsReturn`, `PreparationSettles`): they
  need fairness and ENABLED, which the prover does not treat;
* `FiguresHold`: the verdict on a pair of answers goes through powers of ten, the
  path through chains of prerequisites, the charts through counts over days, the
  exercise of the day through streaks and rotations;
* `ResultsHold`: ranks of a search, the order of an export and the events of a
  protocol are folds over sequences.

The last two are what functions defined by recursion compute for every input, an
induction over data that the installed provers cannot instantiate; they are checked
over all small inputs instead.

An attempt to prove `ChoiceUnlessOverlapped` corrected the model: `BatchDuplicate`
(`question_repository.go:591`) copies a choice as it is, so the copy of a question
whose edits overlapped may be wrong as well, and the bookkeeping of the exception now
passes to the copy. TLC's scene was too short to reach it.

### What is assumed

* `IngestionUploads`: a request ends within 24 hours of staging, and a batch
  (one-minute context) within its 15-minute lease. The code relies on both and
  fences neither.
* `AIRiskGuard`: the ten-minute TTL of a slot exceeds the timeout of every
  request that holds one. A slot whose script's answer was lost is left to its
  TTL. Recording a delivered response may fail; it is then not charged, as in
  the code.
* `DailyQuestion`: one API process runs the worker (`src/docs/TODO.md:57` says so),
  and when an attempt has failed not both the write of the failure and the reading
  back of the row fail, on which `retryNeeded` rests. The class has fixed
  members. Nothing deletes a question for good (an account deleted with what it
  owns could leave a ready row without one, which `Claimable` would take over).
* `AccountSessions`: hashes do not collide and signatures are not forged; a
  process-local session is found only by the process that keeps it.
* `LearningInsight`, `LearningPath`, `AnswerGrading`: floating point arithmetic is
  replaced by ordered steps and exact fractions; thresholds keep their direction.
* `AIRelay`, `ResponsesBridge`: a provider's answer is any sequence of the pieces
  its protocol allows, cut off anywhere.
* Calls of PostgreSQL may fail after they have committed where the code's
  reaction matters (`SessionFirstChat`, `StudyProgress`); ingestion commits
  that fail leave their lease to expire, which is a stopped worker there.

## 5. What was found

Three runs end in a violation, on purpose; each states what the repository says of
itself and shows a behaviour of the code against it.

* `ingestion_barrier`: removing old job rows keeps one outcome per document, the
  youngest, so an older failed job of a build that is removed no longer holds
  the build back (`resource_ingestion_history.go:60` against
  `docs/technical/architecture.md:91`). `PublishedIsServed` holds nevertheless:
  completeness is read from the manifests.
* `daily_save`: the schedule's version is read by the statement that waits for
  the class row, from the snapshot before the wait; two overlapping saves opened
  at one version both succeed (`daily_question_repository.go:726`).

* `bank_concepts`: `DeleteNode` keeps writers out while it looks for uses, but a
  question's concepts are looked up before its transaction
  (`question/service.go:641`, `knowledge_repository.go:313`): a node deleted in
  between stays in the question.

Behaviour met while modelling that has no run of its own; where a property
would not hold without it, the property names it as the exception:

* A slot may be granted on a count that misses a reply recorded since
  (`airisk/guard.go:49`): the day's quota can be exceeded by as many replies.
  `QuotaHeldUnlessStale` states exactly this exception.
* The lease of a stopped worker is taken over only while the job's generation
  is wanted (`resource_ingestion_jobs.go:67`); `vector-operations.md:89` promises
  it without that. `JobsSettle` carries the restriction.
* Neither a claim nor a failed deletion touches `updated_at`, so rows whose
  object cannot be deleted stay first in the cleanup's order
  (`resource_ingestion_uploads.go:99`); a whole batch of them would keep younger
  rows waiting. `AbandonedIsReclaimed` therefore needs its fairness.
* A first chat deleted and created again under one id between two reads of a
  replay can hand out the reply to the other question (`start_chat.go:238`);
  `AnswersAgree` is stated up to the second creation in that respect.
* Authentication: outside of strict environments a session that Redis stored
  without answering, and the process kept too, is consumed twice
  (`OneTimeRotation`); `ChangePassword` stores over a version it does not
  compare; two reset requests may be pending at once.
* Channels: `SetDefaultModel` is three statements without a transaction
  (`admin_ai_config_repository.go:481`) and `CreateModel` counts without a lock,
  so two defaults are possible (`OneDefaultModel`); choosing a default changes
  the row's version and thereby silently takes the embedding out of service.
* Questions: `normalizeMultipleChoiceUpdate` reads before the transaction
  (`ChoiceUnlessOverlapped`); `BatchPublish` audits its first ids without a
  transaction; batch duplication goes on after a failed item although PostgreSQL
  has aborted the transaction. A saved choice whose option is the letter of
  another one is read as that letter.
* Announcements: a dismissal records the revision stored now, so an edit the
  reader has not seen is dismissed with it (`announcement_repository.go:200`).
* Classes: leaving right after joining fails while the database's clock is behind
  the application's.
* Learning: the pending exercise is looked up in the newest session of any kind,
  so a new chat hides it. Forgetting decays by 0.025 in `dkt.go` and by 0.05 in
  `masteryprojection`. A target that is mastered with low confidence may get a
  path of itself alone, locked by a node that is not on it.
* Mistake book: the filter for archived cards can never show one, and the
  statistics count answers while the list counts questions.
* Daily question: the fallback for repeats looks among the candidates first, so a
  single active candidate is repeated every day while other questions rest. The
  count of recipients grows with every reconciliation for a student whose job is
  skipped. The alert counts questions that are not published.
* Search: a neighbour that is itself a hit below the cut is lost, and a text whose
  first copy becomes unreadable between the two authorizations is dropped though
  its copy is readable.
* Data exchange: `session_id` is redacted on export, so messages never import; an
  export without a snapshot may leave an open history row without an enrollment,
  and the student can then join no class (`RosterAgreesWithHistory`).
* Storage: a commit whose answer is lost leaves the API on the old backend until
  the next update or a restart (`ServedIsStored`); objects of a storage that is
  no longer selected can be neither read nor deleted.
* Protocols: a tool that is named only after its first piece, and arguments that
  are streamed but blank, make a stream this program's own reader refuses
  (`ReadBack`).

## 6. What is not modelled

Not modelled at all: document parsing and the moderation client (external
results), the transport to Qdrant, uploads of images, e-mail and its
codes, the Xidian identity provider, the security log, statistics and the
message centre (reads), the HTTP layer, the platform packages, migrations, the
frontend and deployment; `PROJECT.json` has the reason of each. Inside the
modelled components these parts are left out: command line, evidence files,
audit rows and metrics of index operations; signing and size quotas of uploads;
prompts, titles, attachments and streaming of chats; keyword and category rules
of the guard; topics of the learning flow; the hour of the daily reminder, its
delay and a request that spans midnight; registration by e-mail; the probabilities
behind an estimate; prices of models; the wording of everything.

## 7. What is left

Every invariant and action property of a passing run but `FiguresHold` and
`ResultsHold` is a theorem. Left, in this order:

1. `SearchHolds` without the ranks: what is shown is readable in the second
   authorization, whatever changed since the first; and `NewUnlessSaid` and
   `ReviewsFollowMistakes` of `DailyChoice`, which need no fold.
2. More abstract specifications: a published index (documents appear complete and
   disappear for good) behind `ResourceIngestion`, a once-assigned register
   behind `DailyQuestion`; the step simulations follow from `History` and from
   `RowsGrow`.
3. The components section 6 names that keep state of their own: e-mail codes, the
   security log, the message centre.
