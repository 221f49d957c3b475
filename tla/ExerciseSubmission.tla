------------------------- MODULE ExerciseSubmission -------------------------
(***************************************************************************)
(* One student and one question: answers submitted on four routes (an      *)
(* ordinary exercise, the question of the day, the redo of a mistake, the  *)
(* review of a mistake), the mistake's review plan, the archive of the     *)
(* mistake, and the solutions shown on the same four routes.  An answer is *)
(* graded outside of any transaction against the question it read; the     *)
(* transaction then takes the student's tracking lock, reads everything    *)
(* again and records the attempt with all that follows from it.  The       *)
(* estimates of mastery, the profile's counters and the learning session   *)
(* that the same transaction updates are left out.                         *)
(***************************************************************************)
EXTENDS Integers, Sequences, FiniteSets

CONSTANTS Clients,        \* requests in flight
          SubmissionIds,  \* the clients' submission ids
          SuccessTarget,  \* mistakeReviewSuccessTarget
          MaxAttempts,    \* bound: recorded attempts
          MaxVersion      \* bound: edits of the question

ASSUME ExerciseAssumption == /\ SuccessTarget \in Nat \ {0}
                             /\ MaxAttempts \in Nat
                             /\ MaxVersion \in Nat \ {0}
                             /\ "free" \notin Clients

VARIABLES content,      \* the question in the teacher's bank
          assignment,   \* the day's assignment of this question
          attempts,     \* content_attempts, in the order of their commits
          plan,         \* the row of mistake_review_tasks
          requests,     \* per client, the request it is working on
          trackingLock  \* the student's advisory lock: a client, or "free"

exerciseVars == <<content, assignment, attempts, plan, requests, trackingLock>>

Routes == {"regular", "daily", "redo", "review"}
Request(route, key, revision, source) ==
    [phase |-> "idle", route |-> route, key |-> key, revision |-> revision, source |-> source,
     exercise |-> 0, correct |-> FALSE, scheduled |-> FALSE, correction |-> FALSE]
NoRequest == Request("regular", "none", 0, 0)
NoPlan == [status |-> "none", source |-> 0, assigned |-> FALSE, exercise |-> 0, due |-> "never",
           successes |-> 0, errors |-> 0, last |-> 0, revision |-> 0]
NoAssignment == [status |-> "none", exercise |-> 0, first |-> 0, result |-> "none", corrected |-> 0]

ExerciseInit ==
    /\ content = [version |-> 1, open |-> TRUE]
    /\ assignment = NoAssignment
    /\ attempts = <<>>
    /\ plan = NoPlan
    /\ requests = [c \in Clients |-> NoRequest]
    /\ trackingLock = "free"

-----------------------------------------------------------------------------
(* What a request reads *)

Stored(r) == {i \in DOMAIN attempts : attempts[i].route = r.route /\ attempts[i].key = r.key}

OpenMistakes == {i \in DOMAIN attempts : ~attempts[i].correct /\ ~attempts[i].archived}
Representative(i) == \A j \in OpenMistakes : j <= i
NewestMistake == IF OpenMistakes = {} THEN 0 ELSE CHOOSE i \in OpenMistakes : Representative(i)

Correctable == /\ assignment.status = "completed"
               /\ assignment.result = "incorrect"
               /\ assignment.corrected = 0
Active == plan.status \in {"pending", "verification_due"}

ReviewOpen(r) == /\ plan.status \notin {"none", "archived"}
                 /\ plan.source = r.source
                 /\ plan.revision = r.revision
RedoOpen(r) == r.source \in OpenMistakes /\ Representative(r.source)
RegularOpen == content.open /\ assignment.status # "ready"
DailyOpen == \/ assignment.status = "ready" /\ assignment.first = 0
             \/ Correctable

RouteOpen(r) == \/ r.route = "review" /\ ReviewOpen(r)
                \/ r.route = "redo" /\ RedoOpen(r)
                \/ r.route = "regular" /\ RegularOpen
                \/ r.route = "daily" /\ DailyOpen

ExerciseOf(r) == CASE r.route = "review" -> plan.exercise
                   [] r.route = "redo" -> attempts[r.source].exercise
                   [] r.route = "daily" -> assignment.exercise
                   [] OTHER -> content.version

(* What the student's page holds when it submits: a plan that has moved on, or
   a mistake that is no longer the newest, is refused and changes nothing. *)
Asked(route, key) ==
    CASE route = "review" -> Request(route, key, plan.revision, plan.source)
      [] route = "redo" -> Request(route, key, 0, NewestMistake)
      [] OTHER -> Request(route, key, 0, 0)

(* SubmitAnswer up to the verdict.  A slot that is already answered is replied
   to from the stored response, or refused when the payload differs; an
   indeterminate verdict is replied to and not recorded: nothing changes. *)
SubmitAnswer(c, route, key, correct) ==
    LET r == Asked(route, key) IN
    /\ requests[c].phase = "idle"
    /\ Len(attempts) < MaxAttempts
    /\ Stored(r) = {}
    /\ RouteOpen(r)
    /\ requests' = [requests EXCEPT ![c] =
                      [r EXCEPT !.phase = "graded", !.exercise = ExerciseOf(r), !.correct = correct]]
    /\ UNCHANGED <<content, assignment, attempts, plan, trackingLock>>

\* mutant: reads again whether the slot and the route are open, not the question
StillOpen(r) == Stored(r) = {} /\ RouteOpen(r)

\* mutant: does not look for a stored response again
StillAnswerableUnstored(r) == RouteOpen(r) /\ ExerciseOf(r) = r.exercise

(* the transaction's second reading, under the student's lock *)
StillAnswerable(r) ==
    /\ Stored(r) = {}
    /\ RouteOpen(r)
    /\ r.route = "review" => RedoOpen(r)
    /\ ExerciseOf(r) = r.exercise

ReadAgain(c) ==
    LET r == requests[c] IN
    /\ r.phase = "graded"
    /\ trackingLock = "free"
    /\ IF StillAnswerable(r)
       THEN /\ trackingLock' = c
            /\ requests' = [requests EXCEPT
                 ![c].phase = "locked",
                 ![c].scheduled = r.route = "review" /\ Active /\ plan.due = "now",
                 ![c].correction = r.route = "review" /\ plan.assigned /\ Correctable]
       ELSE /\ requests' = [requests EXCEPT ![c] = NoRequest]
            /\ UNCHANGED trackingLock
    /\ UNCHANGED <<content, assignment, attempts, plan>>

-----------------------------------------------------------------------------
(* What a recorded attempt changes *)

AssignedAttempt(r) == r.route = "daily" \/ r.correction

NewAttempt(r, counted) ==
    [route |-> r.route, key |-> r.key, correct |-> r.correct,
     exercise |-> r.exercise, assigned |-> AssignedAttempt(r), counted |-> counted, archived |-> FALSE]

\* mutant: a correction is written over the first answer
AnswerAssignmentAgain(n, correct) ==
    [assignment EXCEPT !.status = "completed", !.first = n,
                       !.result = IF correct THEN "correct" ELSE "incorrect"]

(* ApplyDailyAttempt: the first answer of the day, or its first correction *)
AnswerAssignment(n, correct) ==
    IF assignment.status = "ready"
    THEN [assignment EXCEPT !.status = "completed", !.first = n,
                            !.result = IF correct THEN "correct" ELSE "incorrect"]
    ELSE [assignment EXCEPT !.corrected = IF correct THEN n ELSE 0]

WrongAttempts == {i \in DOMAIN attempts : ~attempts[i].correct}

(* newMistakeReviewTask *)
NewPlan(n, r) == [NoPlan EXCEPT !.status = "pending", !.source = n, !.assigned = AssignedAttempt(r),
                                !.exercise = r.exercise, !.due = "later",
                                !.errors = Cardinality(WrongAttempts) + 1]

(* applyMistakeReviewOutcome *)
Touched(n, r, counted) ==
    [plan EXCEPT !.revision = @ + 1, !.last = IF r.route = "review" \/ counted THEN n ELSE @]

Failed(n, r, counted) ==
    [Touched(n, r, counted) EXCEPT
        !.last = IF r.route = "review" \/ counted THEN n ELSE 0,
        !.source = n, !.assigned = AssignedAttempt(r), !.exercise = r.exercise,
        !.status = "pending", !.due = "later", !.successes = 0, !.errors = @ + 1]

Succeeded(n, r) ==
    LET done == plan.successes + 1 IN
    [Touched(n, r, TRUE) EXCEPT
        !.successes = done,
        !.status = IF done >= SuccessTarget THEN "mastered" ELSE "verification_due",
        !.due = IF done >= SuccessTarget THEN "never" ELSE "later"]

(* updateMistakeReviewTask: an answer counts as a review when it was due, or
   when it corrects the assignment the plan came from *)
Counted(r) == \/ r.scheduled
              \/ /\ Active
                 /\ plan.assigned
                 /\ AssignedAttempt(r)
                 /\ r.route = "review" => r.correction

PlanAfter(n, r) ==
    IF plan.status = "none" THEN IF r.correct THEN plan ELSE NewPlan(n, r)
    ELSE IF ~r.correct THEN Failed(n, r, Counted(r))
    ELSE IF Counted(r) THEN Succeeded(n, r)
    ELSE IF r.route = "review" THEN Touched(n, r, FALSE)
    ELSE plan

\* mutant: the lock outlives the transaction
ReleaseRequest(c) == /\ requests' = [requests EXCEPT ![c] = NoRequest]
                     /\ UNCHANGED trackingLock

Release(c) == /\ requests' = [requests EXCEPT ![c] = NoRequest]
              /\ trackingLock' = IF trackingLock = c THEN "free" ELSE trackingLock

RecordAttempt(c) ==
    LET r == requests[c]
        n == Len(attempts) + 1
    IN
    /\ r.phase = "locked"
    /\ Len(attempts) < MaxAttempts
    /\ AssignedAttempt(r) => assignment.status = "ready" \/ Correctable
    /\ attempts' = Append(attempts, NewAttempt(r, plan.status # "none" /\ Counted(r)))
    /\ assignment' = IF AssignedAttempt(r) THEN AnswerAssignment(n, r.correct) ELSE assignment
    /\ plan' = PlanAfter(n, r)
    /\ Release(c)
    /\ UNCHANGED content

(* an OCR, solver or database failure, a cancelled request, a crash: nothing
   is recorded and the lock goes with the transaction *)
AbandonRequest(c) == /\ requests[c].phase # "idle"
                     /\ Release(c)
                     /\ UNCHANGED <<content, assignment, attempts, plan>>

\* mutant: archives only the attempt named
ArchiveOne(i) ==
    /\ trackingLock = "free"
    /\ i \in OpenMistakes
    /\ Representative(i)
    /\ attempts' = [attempts EXCEPT ![i].archived = TRUE]
    /\ plan' = IF plan.status \in {"none", "archived"} THEN plan
               ELSE [plan EXCEPT !.status = "archived", !.due = "never", !.revision = @ + 1]
    /\ UNCHANGED <<content, assignment, requests, trackingLock>>

(* DeleteMistake: the newest open mistake takes every older one with it *)
ArchiveMistake(i) ==
    /\ trackingLock = "free"
    /\ i \in OpenMistakes
    /\ Representative(i)
    /\ attempts' = [k \in DOMAIN attempts |->
                      [attempts[k] EXCEPT !.archived = @ \/ ~attempts[k].correct]]
    /\ plan' = IF plan.status \in {"none", "archived"} THEN plan
               ELSE [plan EXCEPT !.status = "archived", !.due = "never", !.revision = @ + 1]
    /\ UNCHANGED <<content, assignment, requests, trackingLock>>

ReviewComesDue == /\ plan.due = "later"
                  /\ plan' = [plan EXCEPT !.due = "now"]
                  /\ UNCHANGED <<content, assignment, attempts, requests, trackingLock>>

-----------------------------------------------------------------------------
(* Solutions: eligibility is read before the solver runs and again after it *)

SolutionOpen(r) ==
    \/ r.route = "regular" /\ RegularOpen /\ attempts # <<>>
    \/ r.route = "daily" /\ assignment.status = "completed" /\ assignment.first # 0
    \/ r.route = "redo" /\ RedoOpen(r)
    \/ /\ r.route = "review"
       /\ plan.revision = r.revision
       /\ plan.last # 0 /\ plan.last = r.source
       /\ plan.status = "mastered" \/ (Active /\ plan.due = "now")

GetSolution(c, route) ==
    LET r == IF route = "review" THEN Request(route, "none", plan.revision, plan.last)
             ELSE Asked(route, "none") IN
    /\ requests[c].phase = "idle"
    /\ SolutionOpen(r)
    /\ requests' = [requests EXCEPT ![c] = [r EXCEPT !.phase = "solving", !.exercise = ExerciseOf(r)]]
    /\ UNCHANGED <<content, assignment, attempts, plan, trackingLock>>

(* finalizeSolutionResponse *)
FinalizeSolution(c) ==
    LET r == requests[c] IN
    /\ r.phase = "solving"
    /\ trackingLock = "free"
    /\ requests' = [requests EXCEPT ![c] =
                      IF SolutionOpen(r) /\ ExerciseOf(r) = r.exercise
                      THEN [r EXCEPT !.phase = "shown"] ELSE NoRequest]
    /\ UNCHANGED <<content, assignment, attempts, plan, trackingLock>>

-----------------------------------------------------------------------------
(* The teacher and the daily worker.  The recording transaction of an ordinary
   answer, a redo or a review holds the question FOR SHARE. *)
Shared == trackingLock # "free" /\ requests[trackingLock].route # "daily"

EditQuestion == /\ ~Shared
                /\ content.version < MaxVersion
                /\ content' = [content EXCEPT !.version = @ + 1]
                /\ UNCHANGED <<assignment, attempts, plan, requests, trackingLock>>

WithdrawOrPublish == /\ ~Shared
                     /\ content' = [content EXCEPT !.open = ~@]
                     /\ UNCHANGED <<assignment, attempts, plan, requests, trackingLock>>

AssignQuestion == /\ assignment.status = "none"
                  /\ content.open
                  /\ assignment' = [NoAssignment EXCEPT !.status = "ready", !.exercise = content.version]
                  /\ UNCHANGED <<content, attempts, plan, requests, trackingLock>>

ExerciseNext ==
    \/ \E c \in Clients, route \in Routes, key \in SubmissionIds, correct \in BOOLEAN :
          SubmitAnswer(c, route, key, correct)
    \/ \E c \in Clients : ReadAgain(c)
    \/ \E c \in Clients : RecordAttempt(c)
    \/ \E c \in Clients : AbandonRequest(c)
    \/ \E i \in DOMAIN attempts : ArchiveMistake(i)
    \/ ReviewComesDue
    \/ \E c \in Clients, route \in Routes : GetSolution(c, route)
    \/ \E c \in Clients : FinalizeSolution(c)
    \/ EditQuestion
    \/ WithdrawOrPublish
    \/ AssignQuestion

ExerciseSpec == ExerciseInit /\ [][ExerciseNext]_exerciseVars

-----------------------------------------------------------------------------
(* Properties *)

ExerciseTypeOK ==
    /\ content \in [version : 1..MaxVersion, open : BOOLEAN]
    /\ plan.status \in {"none", "pending", "verification_due", "mastered", "archived"}
    /\ plan.revision \in 0..(2 * MaxAttempts)
    /\ Len(attempts) <= MaxAttempts
    /\ trackingLock \in Clients \cup {"free"}
    /\ trackingLock # "free" => requests[trackingLock].phase = "locked"

(* The review plan and the answers tell the same story, whatever route the
   answers came by: the plan is live exactly while some mistake is not
   archived; it then rests on the newest mistake and on the question as it was
   then; its errors are the wrong answers ever given; its successes are the
   reviews counted since that mistake, and mastery takes SuccessTarget of
   them. *)
PlanAgrees ==
    /\ plan.status \in {"none", "archived"} <=> OpenMistakes = {}
    /\ plan.status = "none" => WrongAttempts = {}
    /\ plan.status # "none" =>
         /\ plan.source \in WrongAttempts
         /\ \A i \in WrongAttempts : i <= plan.source
         /\ plan.exercise = attempts[plan.source].exercise
         /\ plan.errors = Cardinality(WrongAttempts)
         /\ plan.successes = Cardinality({i \in DOMAIN attempts :
                                 i > plan.source /\ attempts[i].correct /\ attempts[i].counted})
    /\ plan.status = "mastered" => plan.successes = SuccessTarget
    /\ Active => plan.successes < SuccessTarget

(* The assignment points at answers that were really given to it: the first
   one has the result on record, a correction is a later right answer to a
   question first answered wrongly. *)
AssignmentAgrees ==
    /\ assignment.first # 0 => /\ attempts[assignment.first].assigned
                               /\ assignment.result = IF attempts[assignment.first].correct
                                                      THEN "correct" ELSE "incorrect"
    /\ assignment.corrected # 0 => /\ assignment.result = "incorrect"
                                   /\ assignment.corrected > assignment.first
                                   /\ attempts[assignment.corrected].correct
                                   /\ attempts[assignment.corrected].assigned

PlanHolds == PlanAgrees /\ AssignmentAgrees

(* The first answer of the day and its correction, once recorded, stay. *)
FirstAnswerStands ==
    [][/\ assignment.first # 0 => /\ assignment'.first = assignment.first
                                  /\ assignment'.result = assignment.result
       /\ assignment.corrected # 0 => assignment'.corrected = assignment.corrected]_exerciseVars

(* An archived mistake comes back only with a new wrong answer on a route that
   needs no open mistake: no redo and no review that was being graded when the
   student archived it revives the plan. *)
ArchiveRests ==
    [][plan.status = "archived" /\ plan'.status # "archived" =>
        /\ Len(attempts') = Len(attempts) + 1
        /\ attempts'[Len(attempts')].route \in {"regular", "daily"}
        /\ ~attempts'[Len(attempts')].correct]_exerciseVars

(* A verdict is recorded only for the question it was given on: when the
   attempt commits, the question the student is measured against is still the
   one that was graded, however long the grading took. *)
GradedOnWhatIsAsked ==
    [][Len(attempts') > Len(attempts) =>
          attempts'[Len(attempts')].exercise = ExerciseOf(requests[trackingLock])]_exerciseVars

(* A solution that the solver took its time over is not shown if the question
   has become today's unanswered question meanwhile: the ordinary route does
   not get around the first answer of the day. *)
SolutionIsDue ==
    [][\A c \in Clients :
          /\ requests[c].phase # "shown" /\ requests'[c].phase = "shown"
          /\ requests[c].route \in {"regular", "daily"}
          => assignment.status # "ready" /\ attempts # <<>>]_exerciseVars

AnswersStand == FirstAnswerStands /\ ArchiveRests /\ SolutionIsDue

(* Refinement: a slot of the register is a key on a route, its verdict the one
   of the attempt stored for it. *)
SlotVerdicts == {<<<<attempts[i].route, attempts[i].key>>, <<i, attempts[i].correct>>>> : i \in DOMAIN attempts}

Register == INSTANCE SubmissionRegister WITH
              Slots <- Routes \X SubmissionIds, Verdicts <- (1..MaxAttempts) \X BOOLEAN, decided <- SlotVerdicts
SubmissionsAreRegistered == Register!RegisterSpec
=============================================================================
