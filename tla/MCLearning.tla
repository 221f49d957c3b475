----------------------------- MODULE MCLearning -----------------------------
(***************************************************************************)
(* One student's learning, for TLC: the study flow, the exercises, their   *)
(* grading, the record of practice, the mistake book and the figures that  *)
(* are shown.  In the model they share no state: a behaviour plays one     *)
(* part of one module and leaves the others at rest.                       *)
(***************************************************************************)
EXTENDS StudyProgress, ExerciseSubmission, TLC

CONSTANTS s1, s2   \* members of SubmissionIds

VARIABLE part   \* chosen by the initial state, never changed

Plays(parts) == part \in parts
Interchangeable == Permutations(Chats)

\* AnswerGrading
CONSTANTS Letters, Formulas, MaxExponent
VARIABLES asked, work, outcome
TwoLetters == <<"A", "B">>
Grading == INSTANCE AnswerGrading
gradingVars == <<asked, work, outcome>>

\* LearningRecord
CONSTANTS Pool, Generated, ConceptsOf, Concepts, LevelOf, Levels, SequenceLimit, RecentLimit,
          PracticeTarget, Pages, MaxAnswers, g1, g2   \* g1, g2: members of Pages
ASSUME RecordAssumption ==
  /\ Pool \subseteq Nat \ {0} /\ "free" \notin Pages
  /\ SequenceLimit \in Nat /\ RecentLimit \in Nat /\ MaxAnswers \in Nat
TheConcepts == [x \in Pool |-> CASE x = 1 -> {"limit"} [] x = 2 -> {"limit", "series"} [] OTHER -> {}]
TheLevels == [x \in Pool |-> IF x = 1 THEN 1 ELSE 2]
VARIABLES offered, dueToday, enrolled, sessions, answers, profile, estimates, practices,
          pages, tracker
Record == INSTANCE LearningRecord
recordVars == <<offered, dueToday, enrolled, sessions, answers, profile, estimates,
                practices, pages, tracker>>

\* LearningPath
CONSTANTS Nodes, Threshold
VARIABLES prerequisites, learned, path
Path == INSTANCE LearningPath
pathVars == <<prerequisites, learned, path>>

\* LearningInsight
CONSTANTS SemesterDays, Lookback, Classmates, Me, MaxCount, MinClassSize, MinAccuracy,
          Topics, MinTopic, Listed, Target
VARIABLE shown
Insight == INSTANCE LearningInsight

\* MistakeBook
CONSTANTS Contents, MasteryOf, PageSize
ASSUME BookAssumption ==
  /\ Contents \subseteq Nat /\ IsFiniteSet(Contents)
  /\ MasteryOf \in [Contents -> Nat] /\ PageSize \in Nat \ {0}
TheMastery == [c \in Contents |-> IF c = 1 THEN 1 ELSE 0]
VARIABLES submitted, plans, page
Book == INSTANCE MistakeBook WITH attempts <- submitted, Target <- SuccessTarget
bookVars == <<submitted, plans, page>>

\* DailyChoice: two candidates and two questions of the bank, one of them with the text of
\* the first.
CONSTANTS Goals, Weakest, RecentAttempts, HistoryLimit, LastDay
Question(concepts, body, candidate, days, priority) ==
  [concepts |-> concepts, body |-> body, candidate |-> candidate, days |-> days, priority |-> priority]
TheBank == <<Question({1}, 1, TRUE, 0..1, 1), Question({2}, 2, TRUE, 1..3, 2),
             Question({2}, 1, FALSE, {}, 0), Question({1, 2}, 4, FALSE, {}, 0)>>
VARIABLES today, tasks, log, goal, published
Choice == INSTANCE DailyChoice WITH Bank <- TheBank, Nodes <- {1, 2}
choiceVars == <<today, tasks, log, goal, published>>

-----------------------------------------------------------------------------
(* The parts.                                                              *)

\* Two chats meet every change of the session; a third only a running flow that has come to
\* the check, which wants a question and its answer.
ShortStudy ==
  (\A c \in Chats : chat'[c].at # "idle") =>
    session' # None /\ session'.active /\ session'.mode = "study" /\ progress' # None /\ progress'.step >= 3

\* Three answers of one client at a time, who repeats a route only when the first
\* answer on it is on record; two clients who race for the same two slots, one of them
\* perhaps for a solution.  The teacher edits the question or withdraws it.
Exercises == {"long exercise", "racing exercise"}
Alone(r) == r.key = s2 => Stored([r EXCEPT !.key = s1]) # {}
Reads(r) == r.phase \in {"solving", "shown"}
ExerciseScene ==
  /\ ~content'.open => content'.version = 1
  /\ ~ \A c \in Clients : Reads(requests'[c])
  /\ IF part = "long exercise"
       THEN (~ \A c \in Clients : requests'[c] # NoRequest) /\ \A c \in Clients : Alone(requests'[c])
       ELSE Len(attempts') <= 2 /\ \A c \in Clients : requests'[c].key # s2

\* One page looks for exercises while the other answers and the teacher makes one change;
\* two pages answer; two pages answer one exercise and make and clear the portrait.
Recording == {"looking", "counting", "portraying"}
Portraying == {"measuring", "writing", "clearing"}
Looking == {"creating", "checking", "recalling", "choosing", "offering"}
Changes == Cardinality(Pool \ offered') + Cardinality(dueToday') + (IF enrolled' THEN 0 ELSE 1)
RecordScene ==
  /\ part = "looking" =>
       /\ pages'[g1].phase \notin Portraying \cup {"tracking"}
       /\ pages'[g2].phase \notin Portraying \cup {"choosing"}
       /\ pages'[g2].phase = "tracking" => pages'[g2].correct
       /\ UNCHANGED practices /\ Changes <= 1 /\ Len(answers') <= 2
  /\ part = "counting" =>
       /\ \A p \in Pages : pages'[p].phase \in {"idle", "tracking"}
       /\ Changes = 0 /\ Len(sessions') <= 1
  /\ part = "portraying" =>
       /\ \A p \in Pages : /\ pages'[p].phase \notin Looking
                           /\ pages'[p].phase = "tracking" => pages'[p].exercise = 3 /\ pages'[p].correct
       /\ UNCHANGED practices /\ Changes = 0 /\ Len(answers') <= 2 /\ Len(sessions') <= 1

\* A verdict, a solution or a path that is shown ends its behaviour.
GradingScene == outcome.verdict = "none"
PathScene == path = Path!NoPath

\* Questions are answered for the first time in their order; one change per reading.
BookScene ==
  /\ ~page.steady => UNCHANGED <<submitted, plans>>
  /\ \A c \in Contents : c > 1 => (Book!About(c)' # {} => Book!About(c - 1)' # {})

\* Six days without a language model, two answers; two days with all the questions, one of
\* which is withdrawn, or with one, and two answers.
Choosing == {"repeating", "replacing"}
AnswersGiven == Cardinality({i \in DOMAIN log' : log'[i].kind = "attempt"})
ChoiceScene ==
  /\ (log' # <<>> => goal' = goal) /\ AnswersGiven <= 2
  /\ part = "repeating" =>
       /\ published' = published /\ (today' # today => tasks[today].status # "none")
       /\ \A d \in DOMAIN tasks : tasks'[d] # tasks[d] => d = today /\ tasks'[d].source # "generated"
  /\ part = "replacing" => today' <= 1 /\ published' \in {1..4, 2..4, {1}}

-----------------------------------------------------------------------------
LearningInit ==
  /\ part \in {"study", "grading", "path", "insight", "book"} \cup Exercises \cup Recording
             \cup Choosing
  /\ StudyInit /\ ExerciseInit /\ Grading!GradingInit /\ Record!RecordInit
  /\ Path!PathInit /\ Insight!InsightInit /\ Book!BookInit /\ Choice!ChoiceInit
  /\ published \in {1..4, {1}} /\ (part # "replacing" => published = 1..4)
  /\ (~Plays(Choosing) => goal = 0)
  /\ part # "path" => prerequisites = {}
  /\ part # "study" => session = None /\ progress = None
  /\ progress = None \/ progress.step \in {0, 3, 5}   \* bound: where a flow is found

LearningNext ==
  /\ UNCHANGED part
  /\ IF part = "study" THEN StudyNext /\ ShortStudy ELSE UNCHANGED studyVars
  /\ IF Plays(Exercises) THEN ExerciseNext /\ ExerciseScene ELSE UNCHANGED exerciseVars
  /\ IF part = "grading" THEN Grading!GradingNext /\ GradingScene ELSE UNCHANGED gradingVars
  /\ IF Plays(Recording) THEN Record!RecordNext /\ RecordScene ELSE UNCHANGED recordVars
  /\ IF part = "path" THEN Path!PathNext /\ PathScene ELSE UNCHANGED pathVars
  /\ IF part = "insight" THEN Insight!InsightNext ELSE UNCHANGED shown
  /\ IF part = "book" THEN Book!BookNext /\ BookScene ELSE UNCHANGED bookVars
  /\ IF Plays(Choosing) THEN Choice!ChoiceNext /\ ChoiceScene ELSE UNCHANGED choiceVars

LearningSpec ==
  LearningInit /\ [][LearningNext]_<<part, studyVars, exerciseVars, gradingVars, recordVars,
                                     pathVars, shown, bookVars, choiceVars>>

LearningTypeOK == StudyTypeOK /\ ExerciseTypeOK

\* The invariants of the exercises and of what is kept and shown of them.
LearningHolds ==
  PlanHolds /\ Grading!GeneratedIsVerified /\ Record!RecordHolds /\ Book!BookHolds
StudyHolds == EvidenceForEveryStage /\ PromptFitsTurn

\* What is computed for the student: verdicts, a path, figures, the exercise of the day.
FiguresHold == Grading!VerdictsAreRight /\ Path!PathHolds /\ Insight!InsightsAgree /\ Choice!ChoiceHolds

\* What the steps of the exercises never undo.
RecordsStand == AnswersStand /\ GradedOnWhatIsAsked /\ Record!PortraitIsRenewed
=============================================================================
