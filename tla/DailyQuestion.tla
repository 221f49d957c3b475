---------------------------- MODULE DailyQuestion ----------------------------
(***************************************************************************)
(* The daily question of one class: one row per student and day, prepared   *)
(* by a page visit, by the background worker or by a make-up visit to an    *)
(* earlier day, any of which may die half way; the exercises the students   *)
(* practise on their own; and the class schedule that its teacher replaces, *)
(* and the strategy the teacher switches, meanwhile.                        *)
(*                                                                         *)
(* A generation token is a fresh UUID per reservation and retry_count grows *)
(* by one with each, so a row's retry stands for its token.                 *)
(***************************************************************************)
EXTENDS Naturals, FiniteSets

CONSTANTS
  Students, Contents,
  Visitors,    \* page requests (PrepareToday, GetDate)
  Background,  \* goroutines of the midnight worker
  Editors,     \* schedule saves of the teacher
  LastDay,     \* bound: the days are 0..LastDay
  MaxRetries,  \* maxBackgroundPreparationRetries
  HistoryLimit,   \* dailyQuestionHistoryLimit
  PracticeBound,  \* bound: ordinary submissions of one student
  RetryBound,  \* bound: reservations of one row
  SaveBound,   \* bound: schedule versions
  None

ASSUME DailyAssumption ==
  /\ LastDay \in Nat /\ MaxRetries \in Nat \ {0} /\ RetryBound \in Nat /\ SaveBound \in Nat
  /\ HistoryLimit \in Nat /\ PracticeBound \in Nat
  /\ Visitors \cap Background = {} /\ None \notin Contents \cup Students

VARIABLES
  today,
  row,        \* daily_question_assignments by student and day, or None
  strategy,   \* daily_question_class_settings.strategy
  version,    \* daily_question_class_settings.schedule_version
  selection,  \* daily_question_class_selections by day
  job,        \* what each preparation is doing
  save,       \* what each schedule save is doing
  reclaims,   \* background reservations of an existing row (bookkeeping)
  practice,   \* content_attempts submitted outside of the daily question
  batch       \* the run of the worker: its day, who is left, and whether it asks
              \* for another in five minutes

vars == <<today, row, strategy, version, selection, job, save, reclaims, practice, batch>>
schedule == <<strategy, version, selection, save>>

Days == 0..LastDay
Workers == Visitors \cup Background
Strategies == {"uniform", "personalized"}
\* selection_reason: the priority a personalized target came from is one value.
Reasons == {"uniform", "personalized", "repeat"}
Statuses == {"preparing", "ready", "completed", "unavailable"}
\* at is assigned_at, set by the first reservation: of two dated things (rows and
\* ordinary submissions) of a student the later one has the larger number.
Rows == [status : Statuses, reason : Reasons, content : Contents \cup {None},
         retry : 0..RetryBound, stale : BOOLEAN, at : Nat]
Submissions == [content : Contents, at : Nat]
Batches == [day : Days, left : SUBSET Students, retry : BOOLEAN]
ASSUME RowAssumption == None \notin Rows
NoGen == RetryBound + 1
Jobs == [at : {"idle", "read", "context", "select", "reserve", "choose", "finish", "fail"},
         s : Students \cup {None}, d : Days, kind : {"visit", "makeup", "background"},
         strategy : Strategies, gen : 0..NoGen, choice : Contents \cup {None},
         reason : Reasons, tries : 0..2]
Saves == [at : {"idle", "open", "saving"}, base : 0..SaveBound, seen : 0..SaveBound,
          start : 0..(LastDay + 1)]

StrategyOf(r) == IF r.reason = "uniform" THEN "uniform" ELSE "personalized"
Preparing(r) == r # None /\ r.status = "preparing"
Given(r) == r # None /\ r.status \in {"ready", "completed"}
RowsOn(d) == {s \in Students : row[s][d] # None}
\* The first reservation of a class and day fixes its strategy; which row was
\* first does not matter when OneStrategyPerDay holds.
\* Mutant: the setting alone decides.
EffectiveSetting(d) == {strategy}
Effective(d) ==
  IF RowsOn(d) = {} THEN {strategy} ELSE {StrategyOf(row[s][d]) : s \in RowsOn(d)}
\* What the student was given on the days in D.
GivenOn(s, D) == {row[s][e].content : e \in {f \in D : Given(row[s][f])}}
\* How many of the student's questions of the days in D and ordinary submissions
\* are newer than n; and what may not be given again: the newest HistoryLimit.
Newer(s, D, n) == Cardinality({e \in D : Given(row[s][e]) /\ row[s][e].at > n})
                    + Cardinality({t \in practice[s] : t.at > n})
Recent(s, D) ==
  GivenOn(s, {e \in D : Given(row[s][e]) /\ Newer(s, D, row[s][e].at) < HistoryLimit})
    \cup {t.content : t \in {u \in practice[s] : Newer(s, D, u.at) < HistoryLimit}}
Dated(s) == Cardinality({d \in Days : row[s][d] # None}) + Cardinality(practice[s])

IdleJob(w) ==
  [at |-> "idle", s |-> None, d |-> 0,
   kind |-> IF w \in Background THEN "background" ELSE "visit",
   strategy |-> "personalized", gen |-> NoGen, choice |-> None,
   reason |-> "personalized", tries |-> 0]
IdleSave == [at |-> "idle", base |-> 0, seen |-> 0, start |-> 0]

Init ==
  /\ today = 0 /\ strategy = "personalized" /\ version = 0
  /\ row = [s \in Students |-> [d \in Days |-> None]]
  /\ selection = [d \in Days |-> None]
  /\ job = [w \in Workers |-> IdleJob(w)]
  /\ save = [e \in Editors |-> IdleSave]
  /\ reclaims = [s \in Students |-> [d \in Days |-> 0]]
  /\ practice = [s \in Students |-> {}]
  /\ batch = [day |-> 0, left |-> Students, retry |-> FALSE]

RowOf(w) == row[job[w].s][job[w].d]
Goto(w, where) == job' = [job EXCEPT ![w].at = where]
Quit(w) == job' = [job EXCEPT ![w] = IdleJob(w)]
SetRow(w, r) == row' = [row EXCEPT ![job[w].s][job[w].d] = r]
\* The row still belongs to the reservation this worker made (or read).
\* Mutant: the token is not compared.
HoldsAny(w) == Preparing(RowOf(w))
Holds(w) == HoldsAny(w) /\ RowOf(w).retry = job[w].gen

-----------------------------------------------------------------------------
(* One preparation.                                                         *)

\* PrepareToday or PrepareTodayInBackground prepares the current day; GetDate
\* an earlier row that failed, or whose preparation was abandoned.  The worker
\* takes the students of its batch, once each.
Start(w, s, d) ==
  /\ job[w].at = "idle"
  /\ w \in Background => batch.day = today /\ s \in batch.left
  /\ \/ /\ d = today
        /\ job' = [job EXCEPT ![w].at = "read", ![w].s = s, ![w].d = d]
     \/ /\ w \in Visitors /\ d <= today /\ row[s][d] # None
        /\ \/ row[s][d].status = "unavailable"
           \/ Preparing(row[s][d]) /\ row[s][d].stale
        /\ job' = [job EXCEPT ![w].at = "read", ![w].s = s, ![w].d = d,
                              ![w].kind = "makeup"]
  /\ UNCHANGED <<today, row, reclaims, practice, schedule>>

\* Mutant: the persisted count is not consulted.
NeverExhausted(w) == FALSE
Exhausted(w) == job[w].kind = "background" /\ RowOf(w).retry >= MaxRetries
Settled(w) ==
  RowOf(w) # None /\ \/ Given(RowOf(w)) /\ RowOf(w).content # None
                     \/ Preparing(RowOf(w)) /\ ~RowOf(w).stale
                     \/ ~Preparing(RowOf(w)) /\ Exhausted(w)
\* GetAssignment and the returns of prepareDate that follow it.  Recording the
\* page visit (MarkOpened) moves neither the status nor the recovery window.
Read(w) ==
  /\ job[w].at = "read"
  /\ \/ Settled(w) /\ Quit(w)
     \/ /\ ~Settled(w) /\ Preparing(RowOf(w)) /\ Exhausted(w)
        /\ job' = [job EXCEPT ![w].at = "fail", ![w].gen = RowOf(w).retry]
     \/ /\ ~Settled(w) /\ ~(RowOf(w) # None /\ Exhausted(w))
        /\ job' = [job EXCEPT ![w].at = "context",
             ![w].gen = IF Preparing(RowOf(w)) THEN RowOf(w).retry ELSE NoGen]
  /\ UNCHANGED <<today, row, reclaims, practice, schedule>>

\* GetStudentContext: an existing row keeps the strategy it was reserved under.
Context(w) ==
  /\ job[w].at = "context"
  /\ \E k \in (IF RowOf(w) # None THEN {StrategyOf(RowOf(w))} ELSE Effective(job[w].d)) :
       job' = [job EXCEPT ![w].strategy = k,
                          ![w].at = IF k = "uniform" THEN "select" ELSE "reserve"]
  /\ UNCHANGED <<today, row, reclaims, practice, schedule>>

\* GetClassSelection: without one a stale row that was read is failed, and the
\* student is told that nothing is assigned.
Select(w) ==
  /\ job[w].at = "select"
  /\ \/ selection[job[w].d] # None /\ Goto(w, "reserve")
     \/ selection[job[w].d] = None /\ job[w].gen # NoGen /\ Goto(w, "fail")
     \/ selection[job[w].d] = None /\ job[w].gen = NoGen /\ Quit(w)
  /\ UNCHANGED <<today, row, reclaims, practice, schedule>>

\* Mutants: the upsert has no WHERE; or leaves an abandoned row alone.
ClaimableAlways(r) == TRUE
ClaimableFailed(r) == r = None \/ (r # None /\ r.status = "unavailable")
\* The WHERE of the upsert.  A ready row without a question is left by a content
\* that is deleted for good, which no operation in scope does.
Claimable(r) ==
  \/ ClaimableFailed(r)
  \/ Preparing(r) /\ r.stale
  \/ r # None /\ r.status = "ready" /\ r.content = None
\* ReservePreparation holds the class row FOR SHARE, so strategy and schedule
\* stand still until it commits.  A strategy that changed since it was read is
\* read again twice (ErrStrategyChanged).
StrategyChanged(w) ==
  /\ job[w].at = "reserve" /\ \E k \in Effective(job[w].d) : k # job[w].strategy
  /\ IF job[w].tries < 2
     THEN job' = [job EXCEPT ![w] = [IdleJob(w) EXCEPT !.at = "read", !.s = job[w].s,
            !.d = job[w].d, !.kind = job[w].kind, !.tries = job[w].tries + 1]]
     ELSE Quit(w)
  /\ UNCHANGED <<today, row, reclaims, practice, schedule>>
NotClaimed(w) ==
  /\ job[w].at = "reserve" /\ job[w].strategy \in Effective(job[w].d) /\ ~Claimable(RowOf(w))
  /\ Quit(w)
  /\ UNCHANGED <<today, row, reclaims, practice, schedule>>
Claim(w) ==
  LET old == RowOf(w) # None
      n == IF old THEN RowOf(w).retry + 1 ELSE 0  IN
  /\ job[w].at = "reserve" /\ job[w].strategy \in Effective(job[w].d) /\ Claimable(RowOf(w))
  /\ n <= RetryBound
  /\ SetRow(w, [status |-> "preparing", content |-> None, retry |-> n,
                reason |-> job[w].strategy, stale |-> FALSE,
                at |-> IF old THEN RowOf(w).at ELSE Dated(job[w].s)])
  /\ job' = [job EXCEPT ![w].at = "choose", ![w].gen = n]
  /\ reclaims' = IF old /\ w \in Background
       THEN [reclaims EXCEPT ![job[w].s][job[w].d] = @ + 1] ELSE reclaims
  /\ UNCHANGED <<today, practice, schedule>>
Reserve(w) == StrategyChanged(w) \/ NotClaimed(w) \/ Claim(w)

\* chooseTeacherContent, the AI generator and the repeat fallback.  A uniform
\* day has one candidate; any other content is given as a repeat or is new among
\* the recent ones (ListHistoricalQuestionBodies; a question of the bank must be
\* new among all, a generated text need not be); each source may have nothing, or
\* fail.
Choose(w) ==
  LET past == Recent(job[w].s, {e \in Days : e < job[w].d}) IN
  /\ job[w].at = "choose"
  /\ \/ Goto(w, "fail")
     \/ \E c \in Contents, why \in Reasons :
          /\ (job[w].strategy = "uniform") = (why = "uniform")
          /\ why = "uniform" => selection[job[w].d] = c
          /\ why # "repeat" => c \notin past
          /\ job' = [job EXCEPT ![w].at = "finish", ![w].choice = c, ![w].reason = why]
  /\ UNCHANGED <<today, row, reclaims, practice, schedule>>

\* Mutant: only earlier days are compared.
RepeatsEarlier(w) ==
  job[w].reason # "repeat"
    /\ job[w].choice \in Recent(job[w].s, {e \in Days : e < job[w].d})
Repeats(w) ==
  job[w].reason # "repeat" /\ job[w].choice \in Recent(job[w].s, Days \ {job[w].d})
\* Mutant: the snapshot columns are not written.
ReadyRowBare(w) == [RowOf(w) EXCEPT !.status = "ready", !.stale = FALSE]
ReadyRow(w) == [RowOf(w) EXCEPT !.status = "ready", !.stale = FALSE,
                                !.content = job[w].choice, !.reason = job[w].reason]
\* FinishPreparation, under the student's tracking lock.  A row taken over, a
\* selection that is gone or a content no longer published leaves the row be; a
\* question found to be a repeat, or an error, fails it.
Ready(w) ==
  /\ job[w].at = "finish" /\ Holds(w) /\ ~Repeats(w)
  /\ RowOf(w).reason = "uniform" => selection[job[w].d] = job[w].choice
  /\ SetRow(w, ReadyRow(w)) /\ Quit(w)
  /\ UNCHANGED <<today, reclaims, practice, schedule>>
NotReady(w) ==
  /\ job[w].at = "finish" /\ (Quit(w) \/ Goto(w, "fail"))
  /\ UNCHANGED <<today, row, reclaims, practice, schedule>>
Finish(w) == Ready(w) \/ NotReady(w)

\* FailPreparation, also the end of every abort.
Fail(w) ==
  /\ job[w].at = "fail"
  /\ IF Holds(w) THEN SetRow(w, [RowOf(w) EXCEPT !.status = "unavailable", !.stale = FALSE])
     ELSE UNCHANGED row
  /\ Quit(w)
  /\ UNCHANGED <<today, reclaims, practice, schedule>>

\* A deadline, a lost connection, a restart: nothing more is written.
Abandon(w) ==
  /\ job[w].at # "idle" /\ Quit(w)
  /\ UNCHANGED <<today, row, reclaims, practice, schedule>>

-----------------------------------------------------------------------------
(* Time, answers and the teacher.                                           *)

\* preparationStaleAfter has passed since the reservation.
Age(s, d) ==
  /\ Preparing(row[s][d]) /\ ~row[s][d].stale
  /\ row' = [row EXCEPT ![s][d].stale = TRUE]
  /\ UNCHANGED <<today, job, reclaims, practice, schedule>>

Midnight ==
  /\ today < LastDay /\ today' = today + 1
  /\ UNCHANGED <<row, job, reclaims, practice, schedule>>

\* ApplyDailyAttempt: the first answer; a correction keeps the question.
Answer(s, d) ==
  /\ row[s][d] # None /\ row[s][d].status = "ready"
  /\ row' = [row EXCEPT ![s][d].status = "completed"]
  /\ UNCHANGED <<today, job, reclaims, practice, schedule>>

\* The student submits an exercise that is not the daily question.
Practise(s, c) ==
  /\ Cardinality(practice[s]) < PracticeBound
  /\ practice' = [practice EXCEPT ![s] = @ \cup {[content |-> c, at |-> Dated(s)]}]
  /\ UNCHANGED <<today, row, job, reclaims, schedule>>

\* UpsertClassSettings, under the class row FOR UPDATE.
SetStrategy ==
  /\ \E k \in Strategies \ {strategy} : strategy' = k
  /\ UNCHANGED <<today, row, version, selection, job, save, reclaims, practice>>

\* The schedule is opened in the editor: GetClassUniformSchedule.
OpenSchedule(e) ==
  /\ save[e].at = "idle"
  /\ save' = [save EXCEPT ![e] = [IdleSave EXCEPT !.at = "open", !.base = version]]
  /\ UNCHANGED <<today, row, strategy, version, selection, job, reclaims, practice>>

\* lockClassUniformScheduleState is one statement: its snapshot is taken before
\* it waits for the class row, and what it read is not read again after.
BeginSave(e) ==
  /\ save[e].at = "open"
  /\ \E k \in Effective(today) :
       save' = [save EXCEPT ![e].at = "saving", ![e].seen = version,
         ![e].start = IF RowsOn(today) # {} /\ k = "personalized" THEN today + 1 ELSE today]
  /\ UNCHANGED <<today, row, strategy, version, selection, job, reclaims, practice>>

\* Mutant: the day the plan starts on is not locked.
LockedAfter(from) == {d \in Days : d > from /\ RowsOn(d) # {}}
Locked(from) == {d \in Days : d >= from /\ RowsOn(d) # {}}
\* The contents of consecutive days from `from`, no content twice.
Plans(from) ==
  {p \in [{d \in Days : d >= from} -> Contents \cup {None}] :
     /\ \A d, e \in DOMAIN p : d < e /\ p[d] = None => p[e] = None
     /\ \A d, e \in DOMAIN p : d # e /\ p[d] # None => p[d] # p[e]}
\* What the class was given before; a locked day keeps its content anyway.
Acceptable(p, from) ==
  /\ \A d \in Locked(from) : p[d] # None /\ p[d] = selection[d]
  /\ \A d \in DOMAIN p \ Locked(from) :
       p[d] # None => \A s \in Students : p[d] \notin GivenOn(s, {e \in Days : e < from})
\* ReplaceClassUniformSchedule, once it has the class row FOR UPDATE.
CommitSave(e) ==
  LET from == save[e].start IN
  /\ save[e].at = "saving"
  /\ \/ /\ save[e].seen = save[e].base /\ version < SaveBound
        /\ \E p \in Plans(from) :
             /\ Acceptable(p, from)
             /\ selection' = [d \in Days |-> IF d \in DOMAIN p THEN p[d] ELSE selection[d]]
        /\ version' = version + 1
     \/ UNCHANGED <<version, selection>>   \* refused, or the client went away
  /\ save' = [save EXCEPT ![e] = IdleSave]
  /\ UNCHANGED <<today, row, strategy, job, reclaims, practice>>

-----------------------------------------------------------------------------
(* The runs of the worker.                                                  *)

\* A preparation that ends with its row still preparing asks for another run
\* (classifyWorkerPreparation: the row is read back when the attempt failed); of
\* the others those whose failure may pass.
Asks(r) == IF Preparing(r) THEN {TRUE} ELSE BOOLEAN
BatchFollows ==
  LET Ends == {w \in Background : job[w].at # "idle" /\ job'[w].at = "idle"}
      Runs == {w \in Background : job'[w].at # "idle"}
  IN \E asks \in IF Ends = {} THEN {FALSE} ELSE UNION {Asks(row'[job[w].s][job[w].d]) : w \in Ends} :
       batch' = [batch EXCEPT !.left = @ \ {job'[w].s : w \in Runs}, !.retry = @ \/ asks]

BatchRests == \A w \in Background : job[w].at = "idle"
\* The next run is due: at midnight, or five minutes after one that asks for it.
Due == batch.day # today \/ (batch.left = {} /\ batch.retry)
\* Run begins a run when one is due, and when its process starts.
BeginBatch ==
  /\ BatchRests
  /\ batch' = [day |-> today, left |-> Students, retry |-> FALSE]
  /\ UNCHANGED <<today, row, job, reclaims, practice, schedule>>
\* listActiveStudentPage gives up: the run ends and is made again.
ListFails ==
  /\ BatchRests /\ batch.left # {}
  /\ batch' = [batch EXCEPT !.left = {}, !.retry = TRUE]
  /\ UNCHANGED <<today, row, job, reclaims, practice, schedule>>

Step(w) ==
  Read(w) \/ Context(w) \/ Select(w) \/ Reserve(w) \/ Choose(w) \/ Finish(w) \/ Fail(w)

RowsNext ==
  \/ \E w \in Workers : (\E s \in Students, d \in Days : Start(w, s, d)) \/ Step(w) \/ Abandon(w)
  \/ \E s \in Students, d \in Days : Age(s, d) \/ Answer(s, d)
  \/ \E s \in Students, c \in Contents : Practise(s, c)
  \/ Midnight \/ SetStrategy
  \/ \E e \in Editors : OpenSchedule(e) \/ BeginSave(e) \/ CommitSave(e)

Next == (RowsNext /\ BatchFollows) \/ BeginBatch \/ ListFails

Spec == Init /\ [][Next]_vars

\* Time passes; a run that is due begins; the students of a run are taken in turn
\* and each attempt ends by its StudentTimeout, unless the process stops again and
\* again: a run cut short is made again.  No run is due after one that asks for none.
Fairness ==
  /\ \A s \in Students, d \in Days : WF_vars(Age(s, d) /\ BatchFollows)
  /\ WF_vars(Due /\ BeginBatch)
  /\ \A s \in Students : SF_vars(\E w \in Background : Start(w, s, today) /\ BatchFollows)
  /\ \A w \in Background :
       /\ SF_vars(Read(w) /\ BatchFollows) /\ SF_vars(Context(w) /\ BatchFollows)
       /\ SF_vars(Select(w) /\ BatchFollows) /\ SF_vars(Reserve(w) /\ BatchFollows)
       /\ SF_vars(Fail(w) /\ BatchFollows) /\ WF_vars(Step(w) /\ BatchFollows)
       /\ WF_vars(Abandon(w) /\ BatchFollows)

-----------------------------------------------------------------------------
(* Properties.                                                              *)

\* The columns of the rows, which hold a question exactly when it is given
\* (ck_daily_question_assignment_question_snapshot), the schedule and the jobs.
RowsTyped ==
  /\ today \in Days /\ strategy \in Strategies /\ version \in 0..SaveBound
  /\ row \in [Students -> [Days -> Rows \cup {None}]]
  /\ \A s \in Students, d \in Days :
       row[s][d] # None => (Given(row[s][d]) <=> row[s][d].content # None)
  /\ selection \in [Days -> Contents \cup {None}]
  /\ job \in [Workers -> Jobs] /\ save \in [Editors -> Saves]
  /\ reclaims \in [Students -> [Days -> Nat]]
  /\ practice \in [Students -> SUBSET Submissions] /\ \A s \in Students : IsFiniteSet(practice[s])
TypeOK == RowsTyped /\ batch \in Batches

\* A class works under one strategy per day: reservations racing a teacher's
\* switch never leave a uniform and a personalized row on one day
\* (ReservePreparation compares under the class row).
OneStrategyPerDay ==
  \A d \in Days : \A s, t \in RowsOn(d) : StrategyOf(row[s][d]) = StrategyOf(row[t][d])

\* Every student given a uniform question has the one the schedule shows for
\* the day, however often the schedule was replaced around the reservations.
UniformDayAgrees ==
  \A s \in Students, d \in Days :
    Given(row[s][d]) /\ row[s][d].reason = "uniform" => selection[d] = row[s][d].content

\* A student is given one question on two days only as a repeat fallback, or when
\* HistoryLimit other questions and submissions of the student are newer than one
\* of the two rows: also when the days are prepared at the same time
\* (FinishPreparation compares with the newest dailyQuestionHistoryLimit).
NoRepeatedQuestion ==
  \A s \in Students : \A d, e \in Days :
    /\ d # e /\ Given(row[s][d]) /\ Given(row[s][e])
    /\ row[s][d].content = row[s][e].content
    /\ "repeat" \notin {row[s][d].reason, row[s][e].reason}
    => \/ Newer(s, Days \ {d}, row[s][e].at) >= HistoryLimit
       \/ Newer(s, Days \ {e}, row[s][d].at) >= HistoryLimit

\* What the rows of a class promise its students, and the schedule its teacher.
RowsAgree == OneStrategyPerDay /\ UniformDayAgrees /\ NoRepeatedQuestion

\* The worker takes a row over at most MaxRetries times, visits in between
\* included (retry_count in prepareDate).
ReclaimsBounded == \A s \in Students, d \in Days : reclaims[s][d] <= MaxRetries

\* The rows keep their promises and cost no more than MaxRetries takeovers each.
RowsHold == RowsAgree /\ ReclaimsBounded

\* A question once given is the student's for good: no preparation that was
\* overtaken, late visit or new schedule replaces it, and an answered day does
\* not open again.
GivenStays ==
  [][\A s \in Students, d \in Days : Given(row[s][d]) =>
       /\ Given(row'[s][d]) /\ row[s][d].content = row'[s][d].content
       /\ row[s][d].status = "completed" => row'[s][d].status = "completed"]_vars

\* Only the holder of the latest reservation ends a preparation: a worker whose
\* row was taken over writes neither its question nor its failure.
HolderSettles ==
  [][\A s \in Students, d \in Days :
       Preparing(row[s][d]) /\ ~Preparing(row'[s][d]) =>
         \E w \in Workers : /\ job[w].at \in {"finish", "fail"} /\ job[w].s = s
                            /\ job[w].d = d /\ job[w].gen = row[s][d].retry]_vars

\* The worker has still to come back to the student: the day's run is ahead or has
\* not reached the student, works on the student, or asks for another run.
Watched(s) ==
  \/ batch.day # today \/ s \in batch.left \/ batch.retry
  \/ \E w \in Background : job[w].at # "idle" /\ job[w].s = s

\* A preparation that nobody finishes is ended on its day by the worker, taken over
\* or failed once the retries are used up (background_retry_exhausted), if it is
\* under way while the worker has still to come back to the student.
PreparationSettles ==
  \A s \in Students, d \in Days :
    (d = today /\ Preparing(row[s][d]) /\ Watched(s)) ~> (today # d \/ ~Preparing(row[s][d]))

\* "the schedule save uses the version to refuse concurrent overwriting": a
\* save that changes the schedule started from the schedule it replaces.
SavesReplaceWhatTheyShowed ==
  [][version' # version =>
       \E e \in Editors : save[e].at = "saving" /\ save'[e].at = "idle" /\ save[e].base = version]_vars
=============================================================================
