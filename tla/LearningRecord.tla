--------------------------- MODULE LearningRecord ---------------------------
(***************************************************************************)
(* What the platform keeps of one student's practice: the exercise that is *)
(* pending in the newest learning session, the counters of the profile and *)
(* the estimate of every concept that a recorded answer updates, the       *)
(* practice plans measured against them, and the written portrait.         *)
(* (internal/application/exercise, portrait and progress, with their       *)
(* repositories.)                                                          *)
(*                                                                         *)
(* An answer and a portrait are written under the student's tracking lock; *)
(* the lookup of the next exercise takes neither a lock nor a transaction. *)
(* Estimates are their counters: a probability is any number.  A session   *)
(* is not deleted here, and a pool is below the limits of its query.       *)
(***************************************************************************)
EXTENDS Integers, Sequences, FiniteSets, FiniteSetsExt

CONSTANTS
  Pool,            \* exercises by their ids: numbers above 0
  Generated,       \* those a language model made for this student
  ConceptsOf,      \* concept_ids: [Pool -> SUBSET Concepts]
  Concepts,
  LevelOf,         \* difficulty: [Pool -> Levels]
  Levels,
  SequenceLimit,   \* dktMaxSequenceLength
  RecentLimit,     \* answers whose exercises are not offered again
  PracticeTarget,  \* target_count of a plan
  Pages,           \* requests in flight
  MaxAnswers       \* bound: recorded answers, and changes of the portrait

VARIABLES
  offered,    \* exercises that are PUBLISHED
  dueToday,   \* exercises of a daily assignment that is ready
  enrolled,   \* the student is in a class of their teacher
  sessions,   \* learning_sessions, in the order they start: [current, fresh]
  answers,    \* content_attempts with their diagnosis, in the order of commits
  profile,    \* student_profiles
  estimates,  \* student_concept_dkt_states
  practices,  \* student_portrait_actions
  pages,      \* the requests
  tracker     \* the student's tracking lock: a page, or "free"

recordVars == <<offered, dueToday, enrolled, sessions, answers, profile, estimates,
                practices, pages, tracker>>

Uncategorized == "uncategorized"
trackedConceptIDs(x) == IF ConceptsOf[x] = {} THEN {Uncategorized} ELSE ConceptsOf[x]
Tracked == Concepts \cup UNION {trackedConceptIDs(x) : x \in Pool}

NoEstimate == [attempts |-> 0, correct |-> 0, sequence |-> 0]
NoPortrait == 0 - 1   \* else: the answers it was made from
NoProfile == [exists |-> FALSE, total |-> 0, correct |-> 0, portrait |-> NoPortrait,
              version |-> 0, revision |-> 0,
              cleared |-> 0]   \* bookkeeping: the answers at the last clear
NotStarted == 0 - 1
Page(phase) == [phase |-> phase, session |-> 0, exercise |-> 0, recent |-> {}, seen |-> 0,
                correct |-> FALSE, profile |-> NoProfile,
                estimates |-> [c \in Tracked |-> NoEstimate]]
NoPage == Page("idle")

RecordInit ==
  /\ offered = Pool /\ dueToday = {} /\ enrolled = TRUE
  /\ sessions = <<>> /\ answers = <<>> /\ profile = NoProfile
  /\ estimates = [c \in Tracked |-> NoEstimate]
  /\ practices = [c \in Concepts |-> NotStarted]
  /\ pages = [p \in Pages |-> NoPage] /\ tracker = "free"

At(p, phase) == pages[p].phase = phase
Goes(p, page) == pages' = [pages EXCEPT ![p] = page]
Rests(p) == Goes(p, NoPage)
bankVars == <<offered, dueToday, enrolled>>
learnedVars == <<answers, profile, estimates, practices, tracker>>

-----------------------------------------------------------------------------
(* The next exercise.                                                      *)

Session(x, fresh) == [current |-> x, fresh |-> fresh]
Blank == Session(0, TRUE)

(* GetLatestSession *)
GetNextExercise(p) ==
  /\ At(p, "idle")
  /\ Goes(p, IF sessions = <<>> THEN Page("creating")
             ELSE LET n == Len(sessions) IN
                  [Page(IF sessions[n].current = 0 THEN "recalling" ELSE "checking")
                     EXCEPT !.session = n, !.exercise = sessions[n].current])
  /\ UNCHANGED <<bankVars, sessions, learnedVars>>

CreateSession(p) ==
  /\ At(p, "creating")
  /\ sessions' = Append(sessions, Blank)
  /\ Goes(p, [Page("recalling") EXCEPT !.session = Len(sessions) + 1])
  /\ UNCHANGED <<bankVars, learnedVars>>

canAccessExercise(x) == x \in Generated \/ enrolled
authorizedExercise(x) == x \in offered /\ canAccessExercise(x)
HasReadyDailyAssignmentContent(x) == x \in dueToday

Pending(x) == /\ x \notin Generated
              /\ authorizedExercise(x)
              /\ ~HasReadyDailyAssignmentContent(x)

UpdateSessionCurrentContent(n, x, fresh) ==
  sessions' = [sessions EXCEPT ![n] = Session(x, fresh)]

(* the exercise that is pending is shown again, or given up *)
CheckCurrent(p) ==
  /\ At(p, "checking")
  /\ IF Pending(pages[p].exercise)
       THEN Rests(p) /\ UNCHANGED sessions
       ELSE /\ UpdateSessionCurrentContent(pages[p].session, 0, TRUE)
            /\ Goes(p, [pages[p] EXCEPT !.phase = "recalling", !.exercise = 0])
  /\ UNCHANGED <<bankVars, learnedVars>>

(* the exercises of the newest answers to a class exercise *)
ClassAnswers == {i \in DOMAIN answers : answers[i].exercise \notin Generated}
Newest(i) == Cardinality({j \in ClassAnswers : j >= i}) <= RecentLimit
ListRecentContentIDs == {answers[i].exercise : i \in {j \in ClassAnswers : Newest(j)}}

Recall(p) ==
  /\ At(p, "recalling")
  /\ IF enrolled
       THEN Goes(p, [pages[p] EXCEPT !.phase = "choosing", !.recent = ListRecentContentIDs,
                                     !.seen = Len(answers)])
       ELSE Rests(p)
  /\ UNCHANGED <<bankVars, sessions, learnedVars>>

ListCandidateExercises(recent, levels) ==
  {x \in offered \ (recent \cup Generated) :
     LevelOf[x] \in levels /\ ~HasReadyDailyAssignmentContent(x)}
preferConcept(candidates, concept) ==
  LET matched == {x \in candidates : concept \in ConceptsOf[x]} IN
  IF matched = {} THEN candidates ELSE matched
selectExercise(candidates) == CHOOSE x \in candidates : \A y \in candidates : x <= y

\* The target: what the student asks for, or what the estimates suggest.
chooseTarget(concept, level) == concept \in Concepts \cup {"any"} /\ level \in Levels

Choose(p, concept, level) ==
  LET near == ListCandidateExercises(pages[p].recent, {level})
      candidates == IF near = {} THEN ListCandidateExercises(pages[p].recent, Levels) ELSE near
  IN
  /\ At(p, "choosing")
  /\ chooseTarget(concept, level)
  /\ IF candidates = {} THEN Rests(p)
     ELSE Goes(p, [pages[p] EXCEPT !.phase = "offering",
                     !.exercise = selectExercise(preferConcept(candidates, concept))])
  /\ UNCHANGED <<bankVars, sessions, learnedVars>>

Offer(p) ==
  /\ At(p, "offering")
  /\ UpdateSessionCurrentContent(pages[p].session, pages[p].exercise,
                                 pages[p].seen = Len(answers))
  /\ Rests(p)
  /\ UNCHANGED <<bankVars, learnedVars>>

\* A chat is a learning session, too: the newest one.
OpenChat ==
  /\ Len(sessions) = 1   \* bound: one more
  /\ sessions' = Append(sessions, Blank)
  /\ UNCHANGED <<bankVars, learnedVars, pages>>

-----------------------------------------------------------------------------
(* A recorded answer.                                                      *)

LockStudentTracking(p) == tracker = "free" /\ tracker' = p

(* the transaction has the lock: it reads what it will write back *)
SubmitExercise(p, x, correct) ==
  /\ At(p, "idle")
  /\ Len(answers) < MaxAnswers
  /\ authorizedExercise(x) /\ ~HasReadyDailyAssignmentContent(x)
  /\ LockStudentTracking(p)
  /\ Goes(p, [Page("tracking") EXCEPT !.exercise = x, !.correct = correct,
                !.profile = [profile EXCEPT !.exists = TRUE], !.estimates = estimates])
  /\ UNCHANGED <<bankVars, sessions, answers, profile, estimates, practices>>

(* in the newest session, created if there is none *)
UpdateSessionAfterSubmit(x) ==
  IF sessions = <<>> THEN sessions' = <<Blank>>
  ELSE LET n == Len(sessions) IN
       sessions' = IF sessions[n].current = x THEN [sessions EXCEPT ![n] = Blank] ELSE sessions

Counted(count, correct) == count + (IF correct THEN 1 ELSE 0)

UpdateProfileTracking(read, x, correct) ==
  [profile EXCEPT !.exists = TRUE, !.total = read.total + 1,
                  !.correct = Counted(read.correct, correct)]

(* the newest answers and this one *)
ListRecentInteractions == IF Len(answers) < SequenceLimit THEN Len(answers) ELSE SequenceLimit
buildDKTSequence ==
  IF ListRecentInteractions = SequenceLimit THEN SequenceLimit ELSE ListRecentInteractions + 1

dktUpdate(state, correct) ==
  [attempts |-> state.attempts + 1, correct |-> Counted(state.correct, correct),
   sequence |-> buildDKTSequence]

UpsertDKTStates(read, x, correct) ==
  [c \in Tracked |->
     IF c \in trackedConceptIDs(x) THEN dktUpdate(read[c], correct) ELSE estimates[c]]

RecordAnswer(p) ==
  LET page == pages[p] IN
  /\ At(p, "tracking")
  /\ answers' = Append(answers, [exercise |-> page.exercise, correct |-> page.correct])
  /\ UpdateSessionAfterSubmit(page.exercise)
  /\ estimates' = UpsertDKTStates(page.estimates, page.exercise, page.correct)
  /\ profile' = UpdateProfileTracking(page.profile, page.exercise, page.correct)
  /\ tracker' = "free" /\ Rests(p)
  /\ UNCHANGED <<bankVars, practices>>

(* the transaction rolls back: a failure, a crash *)
AbandonAnswer(p) ==
  /\ At(p, "tracking")
  /\ tracker' = "free" /\ Rests(p)
  /\ UNCHANGED <<bankVars, sessions, answers, profile, estimates, practices>>

-----------------------------------------------------------------------------
(* Practice plans: a plan counts the attempts since its baseline.          *)

CompletedCount(c) == estimates[c].attempts - practices[c]
StartPortraitAction(c) ==
  /\ c \in Concepts
  /\ practices' = [practices EXCEPT ![c] =
       IF @ = NotStarted \/ CompletedCount(c) >= PracticeTarget THEN estimates[c].attempts ELSE @]
  /\ practices' # practices
  /\ UNCHANGED <<bankVars, sessions, answers, profile, estimates, pages, tracker>>

-----------------------------------------------------------------------------
(* The portrait.                                                           *)

ensureProfile == profile' = [profile EXCEPT !.exists = TRUE]

(* the revision is read first *)
BeginPortrait(p, phase) ==
  /\ At(p, "idle")
  /\ profile.revision < MaxAnswers
  /\ ensureProfile
  /\ Goes(p, [Page(phase) EXCEPT !.profile = profile'])
  /\ UNCHANGED <<bankVars, sessions, answers, estimates, practices, tracker>>

GeneratePortrait(p) == BeginPortrait(p, "measuring")

(* GetRangeStats and ListMasteryStates; then the text, by a model or by the template *)
MeasureActivity(p) ==
  /\ At(p, "measuring")
  /\ Goes(p, [pages[p] EXCEPT !.phase = "writing", !.seen = Len(answers)])
  /\ UNCHANGED <<bankVars, sessions, learnedVars>>

(* portrait_revision is the one this page has read *)
Expected(p) == pages[p].profile.revision = profile.revision

SavePortrait(p) ==
  /\ At(p, "writing") /\ tracker = "free"
  /\ profile' = IF Expected(p)
                  THEN [profile EXCEPT !.portrait = pages[p].seen, !.version = @ + 1,
                                       !.revision = @ + 1]
                  ELSE profile
  /\ Rests(p)
  /\ UNCHANGED <<bankVars, sessions, answers, estimates, practices, tracker>>

AskToClear(p) == BeginPortrait(p, "clearing")

ClearPortrait(p) ==
  /\ At(p, "clearing") /\ tracker = "free"
  /\ profile' = IF Expected(p)
                  THEN [profile EXCEPT !.portrait = NoPortrait, !.version = 0,
                                       !.revision = @ + 1, !.cleared = Len(answers)]
                  ELSE profile
  /\ Rests(p)
  /\ UNCHANGED <<bankVars, sessions, answers, estimates, practices, tracker>>

-----------------------------------------------------------------------------
(* The teacher, and the day.                                               *)

WithdrawExercise(x) == /\ x \in offered \ Generated /\ offered' = offered \ {x}
                       /\ UNCHANGED <<dueToday, enrolled, sessions, learnedVars, pages>>
AssignToday(x) == /\ x \in offered \ (dueToday \cup Generated) /\ dueToday' = dueToday \cup {x}
                  /\ UNCHANGED <<offered, enrolled, sessions, learnedVars, pages>>
LeaveClass == /\ enrolled /\ enrolled' = FALSE
              /\ UNCHANGED <<offered, dueToday, sessions, learnedVars, pages>>

RecordNext ==
  \/ \E p \in Pages : GetNextExercise(p)
  \/ \E p \in Pages : CreateSession(p)
  \/ \E p \in Pages : CheckCurrent(p)
  \/ \E p \in Pages : Recall(p)
  \/ \E p \in Pages, c \in Concepts \cup {"any"}, l \in Levels : Choose(p, c, l)
  \/ \E p \in Pages : Offer(p)
  \/ OpenChat
  \/ \E p \in Pages, x \in Pool, correct \in BOOLEAN : SubmitExercise(p, x, correct)
  \/ \E p \in Pages : RecordAnswer(p)
  \/ \E p \in Pages : AbandonAnswer(p)
  \/ \E c \in Concepts : StartPortraitAction(c)
  \/ \E p \in Pages : GeneratePortrait(p)
  \/ \E p \in Pages : MeasureActivity(p)
  \/ \E p \in Pages : SavePortrait(p)
  \/ \E p \in Pages : AskToClear(p)
  \/ \E p \in Pages : ClearPortrait(p)
  \/ \E x \in Pool : WithdrawExercise(x)
  \/ \E x \in Pool : AssignToday(x)
  \/ LeaveClass

-----------------------------------------------------------------------------
(* Properties.                                                             *)

Correct == {i \in DOMAIN answers : answers[i].correct}
About(c) == {i \in DOMAIN answers : c \in trackedConceptIDs(answers[i].exercise)}

SequenceOf(c) ==
  IF About(c) = {} THEN 0
  ELSE LET last == Max(About(c)) IN
       IF last < SequenceLimit THEN last ELSE SequenceLimit

(* The counters that are read, raised and written back are the answers on record:
   no answer is lost or counted twice, in the profile or for any of its concepts, and
   an estimate rests on the answers that were there when its concept was last asked. *)
CountersAgree ==
  /\ profile.total = Len(answers) /\ profile.correct = Cardinality(Correct)
  /\ \A c \in Tracked : estimates[c].attempts = Cardinality(About(c))
                        /\ estimates[c].correct = Cardinality(About(c) \cap Correct)
                        /\ estimates[c].sequence = SequenceOf(c)
  /\ \A c \in Concepts : practices[c] <= estimates[c].attempts

(* While the student has one session, the exercise that is pending there is not
   among the newest they answered, unless it was chosen while an answer was being
   recorded. *)
PendingIsFresh ==
  Len(sessions) = 1 /\ sessions[1].fresh => sessions[1].current \notin ListRecentContentIDs

(* A portrait is replaced only by one made from at least as many answers, and one
   that has been cleared does not come back: the next is made after the clear. *)
PortraitIsRenewed ==
  [][profile'.portrait \notin {profile.portrait, NoPortrait} =>
       profile'.portrait >= profile.portrait /\ profile'.portrait >= profile.cleared]_recordVars

RecordHolds == CountersAgree /\ PendingIsFresh
=============================================================================
