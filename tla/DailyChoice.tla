----------------------------- MODULE DailyChoice -----------------------------
(* Which question one student of a personalized class is given day by day,    *)
(* internal/application/dailyquestion/service.go (prepareDate and its choices, *)
(* GetDate, streakDays, GetHistory) over                                      *)
(* adapter/postgres/daily_question_repository.go (SelectTargetConcept,        *)
(* FindTeacherContent, FindTeacherRepeatFallback, FinishPreparation).  How two *)
(* preparations of one day race, and the uniform strategy, is DailyQuestion;  *)
(* here a day is prepared in one step.  Questions are numbered in the order of *)
(* their difficulty and id; a question generated for day d is number Made(d). *)
EXTENDS Integers, Sequences, FiniteSets, SequencesExt, FiniteSetsExt

CONSTANTS Bank,           \* the teacher's questions: concepts, text, whether it is a candidate,
                          \* for which days, with which priority; texts that differ, differ
                          \* in more than spaces and punctuation
          Goals, Weakest, \* the student's learning goal, the concept of least mastery, 0 for none
          Nodes,          \* the knowledge graph
          RecentAttempts, \* recentAttemptExclusion
          HistoryLimit,   \* dailyQuestionHistoryLimit
          LastDay,
          MaxAttempts     \* bound: answers

VARIABLES
  today,
  tasks,      \* daily_question_assignments of the student, by day
  log,        \* what was given and answered, in order: content_attempts and assigned_at
  goal,
  published

choiceVars == <<today, tasks, log, goal, published>>

Days == 0..LastDay
Questions == DOMAIN Bank
NoTask == [status |-> "none", q |-> 0, body |-> 0, reason |-> "", source |-> "", concept |-> 0,
           wanted |-> 0, since |-> 0, at |-> 0, first |-> "", corrected |-> FALSE, counts |-> FALSE]
Made(d) == 100 + d
QuestionConcepts(q) == IF q >= Made(0) THEN {tasks[q - Made(0)].concept} ELSE Bank[q].concepts
BodyOf(q) == IF q >= Made(0) THEN tasks[q - Made(0)].body ELSE Bank[q].body

ChoiceInit ==
  /\ today = 0 /\ tasks = [d \in Days |-> NoTask] /\ log = <<>>
  /\ goal \in Goals /\ published \in SUBSET Questions

-----------------------------------------------------------------------------
(* The student's past, as the first n entries of the log tell it.             *)
Attempts(n) == {i \in 1..n : log[i].kind = "attempt"}
Given(n) == {i \in 1..n : log[i].kind = "given"}

\* ListRecentAttemptedContentIDs
Recent(n) == {log[i].q : i \in {j \in Attempts(n) : Cardinality({k \in Attempts(n) : k > j}) < RecentAttempts}}

\* submitted_at, and assigned_at, which the first reservation of the day sets: a number that
\* grows with the time.
Moment(i) ==
  (LastDay + 2) * (IF log[i].kind = "given" THEN tasks[log[i].day].since ELSE i)
    + (IF log[i].kind = "given" THEN log[i].day + 1 ELSE 0)
NewerIn(i, ids) == {j \in ids : Moment(j) > Moment(i)}
Newest(ids) == {i \in ids : Cardinality(NewerIn(i, ids)) < HistoryLimit}

\* ListHistoricalQuestionBodies: the newest of what was assigned before the day, or answered
\* elsewhere.
Bodies(ids) == {BodyOf(log[i].q) : i \in ids}
Elsewhere(n) == {i \in Attempts(n) : log[i].day > LastDay}
Historical(d, n) == Bodies(Newest({i \in Given(n) : log[i].day < d} \cup Elsewhere(n)))

\* SelectTargetConcept: the last mistake that was not made good, the goal, the weakest
\* concept, the first of the graph.
Uncorrected(n) ==
  {i \in Attempts(n) : ~log[i].ok /\ \A j \in Attempts(n) : log[j].q = log[i].q /\ log[j].ok => j < i}
Mistakes(n) == {i \in Uncorrected(n) : QuestionConcepts(log[i].q) \cap Nodes # {}}
TargetAt(n) ==
  CASE Mistakes(n) # {} -> [concept |-> Min(QuestionConcepts(log[Max(Mistakes(n))].q) \cap Nodes), reason |-> "mistake"]
    [] goal \in Nodes -> [concept |-> goal, reason |-> "goal"]
    [] Weakest \in Nodes -> [concept |-> Weakest, reason |-> "weakest"]
    [] Nodes # {} -> [concept |-> Min(Nodes), reason |-> "default"]
    [] OTHER -> [concept |-> 0, reason |-> "default"]

-----------------------------------------------------------------------------
(* The choice.                                                                *)
PoolOf(source, d) ==
  {q \in published : source = "candidate" => Bank[q].candidate /\ d \in Bank[q].days}
Misses(q, concept) == IF concept \in Bank[q].concepts THEN 0 ELSE 1
Smaller(a, b) == \E i \in DOMAIN a : a[i] < b[i] /\ \A j \in 1..(i - 1) : a[j] = b[j]
Best(S, Rank(_)) == CHOOSE q \in S : \A x \in S \ {q} : Smaller(Rank(q), Rank(x))
Urgency(q, source) == IF source = "candidate" THEN -Bank[q].priority ELSE 0
Concept(q, wanted) ==
  IF wanted \in Bank[q].concepts THEN wanted
  ELSE IF Bank[q].concepts = {} THEN 0 ELSE Min(Bank[q].concepts)

\* FindTeacherContent: never assigned, nor its text; not answered lately.
Unused(source, d, n) ==
  {q \in PoolOf(source, d) :
     /\ q \notin Recent(n) /\ BodyOf(q) \notin Historical(d, n)
     /\ BodyOf(q) \notin Bodies(Given(n))}
FindTeacherContent(source, d, n, wanted) ==
  LET Rank(q) == <<Misses(q, wanted), Urgency(q, source), q>> IN Best(Unused(source, d, n), Rank)

\* FindTeacherRepeatFallback: the one that waits longest.
Seen(d, n) == {i \in Given(n) : log[i].day < d} \cup Attempts(n)
LastSeen(q, d, n) == Max({Moment(i) : i \in {j \in Seen(d, n) : log[j].q = q}})
Repeatable(source, d, n) == {q \in PoolOf(source, d) : \E i \in Seen(d, n) : log[i].q = q}
FindTeacherRepeatFallback(source, d, n, wanted) ==
  LET Rank(q) == <<Misses(q, wanted), IF q \in Recent(n) THEN 1 ELSE 0, LastSeen(q, d, n),
                   Urgency(q, source), q>>
  IN Best(Repeatable(source, d, n), Rank)

-----------------------------------------------------------------------------
(* The student.                                                               *)
Since(d) == IF tasks[d].status = "none" THEN Len(log) ELSE tasks[d].since
Unavailable(d) ==
  /\ tasks' = [tasks EXCEPT ![d] = [NoTask EXCEPT !.status = "unavailable", !.since = Since(d)]]
  /\ log' = log

\* FinishPreparation: but for a repeat, none of the newest that were given on another day or
\* answered elsewhere.
Told(d, n) == {i \in Given(n) : log[i].day # d} \cup Elsewhere(n)
Repeats(body, d, n) == body \in Bodies(Newest(Told(d, n)))
Finish(d, q, body, wanted, concept, source, reason) ==
  IF reason # "repeat" /\ Repeats(body, d, Len(log)) THEN Unavailable(d)
  ELSE /\ tasks' = [tasks EXCEPT ![d] = [NoTask EXCEPT
            !.status = "ready", !.q = q, !.body = body, !.reason = reason, !.source = source,
            !.concept = concept, !.wanted = wanted, !.since = Since(d), !.at = Len(log) + 1]]
       /\ log' = Append(log, [kind |-> "given", q |-> q, ok |-> TRUE, day |-> d, timely |-> d = today])

FromTeacher(d, source, target) ==
  LET q == FindTeacherContent(source, d, Len(log), target.concept)
      concept == Concept(q, target.concept)
  IN Finish(d, q, BodyOf(q), target.concept, concept, source,
            IF concept = target.concept THEN target.reason ELSE "fallback")
Repeat(d, source, target) ==
  LET q == FindTeacherRepeatFallback(source, d, Len(log), target.concept)
  IN Finish(d, q, BodyOf(q), target.concept, Concept(q, target.concept), source, "repeat")

\* prepareDate; the language model does not answer (0), or writes a text that is not
\* among those of the days before that it is told.
Prepare(d, text) ==
  LET n == Len(log)
      target == TargetAt(n)
  IN /\ d = today \/ (d < today /\ tasks[d].status # "none")
     /\ tasks[d].status \in {"none", "unavailable"}
     /\ CASE target.concept = 0 -> Unavailable(d)
          [] Unused("candidate", d, n) # {} -> FromTeacher(d, "candidate", target)
          [] Unused("bank", d, n) # {} -> FromTeacher(d, "bank", target)
          [] text \notin Historical(d, n) \cup {0} ->
               Finish(d, Made(d), text, target.concept, target.concept, "generated", target.reason)
          [] Repeatable("candidate", d, n) # {} -> Repeat(d, "candidate", target)
          [] Repeatable("bank", d, n) # {} -> Repeat(d, "bank", target)
          [] OTHER -> Unavailable(d)
     /\ UNCHANGED <<today, goal, published>>

Attempted(q, ok, d) == /\ Cardinality(Attempts(Len(log))) < MaxAttempts
                       /\ log' = Append(log, [kind |-> "attempt", q |-> q, ok |-> ok, day |-> d, timely |-> d = today])

\* ApplyDailyAttempt
Answer(d, ok) ==
  /\ \/ /\ tasks[d].status = "ready"
        /\ tasks' = [tasks EXCEPT ![d].status = "completed", ![d].counts = (d = today),
                                  ![d].first = IF ok THEN "correct" ELSE "incorrect"]
     \/ /\ tasks[d].status = "completed" /\ tasks[d].first = "incorrect" /\ ~tasks[d].corrected
        /\ tasks' = [tasks EXCEPT ![d].corrected = ok]
  /\ Attempted(tasks[d].q, ok, d)
  /\ UNCHANGED <<today, goal, published>>

\* The same questions are met in the exercises.
Practise(q, ok) == Attempted(q, ok, LastDay + 1) /\ UNCHANGED <<today, tasks, goal, published>>
SetGoal(c) == goal' = c /\ UNCHANGED <<today, tasks, log, published>>
Withdraw(q) == /\ q \in published /\ published' = published \ {q}
               /\ UNCHANGED <<today, tasks, log, goal>>
Midnight == today < LastDay /\ today' = today + 1 /\ UNCHANGED <<tasks, log, goal, published>>

ChoiceNext ==
  \/ \E d \in Days : \E text \in {0, Made(d)} \cup {tasks[e].body : e \in Days \ {d}} : Prepare(d, text)
  \/ \E d \in Days, ok \in BOOLEAN : Answer(d, ok)
  \/ \E q \in Questions, ok \in BOOLEAN : Practise(q, ok)
  \/ \E q \in Questions : Withdraw(q)
  \/ \E c \in Goals : SetGoal(c)
  \/ Midnight

ChoiceSpec == ChoiceInit /\ [][ChoiceNext]_choiceVars

-----------------------------------------------------------------------------
(* Properties.                                                                *)
GivenDays == {d \in Days : tasks[d].q # 0}
Before(d) == tasks[d].at - 1

\* A question that is not called a repeat was new to the student: the teacher's among all the
\* daily questions, and any, in the daily questions and in the exercises, but for what
\* HistoryLimit newer ones had followed when it was given.
NewUnlessSaid ==
  \A d \in GivenDays : tasks[d].reason # "repeat" =>
    LET b == BodyOf(tasks[d].q)
        told == Told(d, Before(d))
    IN /\ tasks[d].source # "generated" => b \notin Bodies(Given(Before(d)))
       /\ \A i \in told : BodyOf(log[i].q) = b => Cardinality(NewerIn(i, told)) >= HistoryLimit

\* Repeats go round: a question does not come back while one of the same pool, that suits the
\* target as well and was not answered lately, has waited longer.
RepeatsGoRound ==
  \A d, e \in GivenDays :
    LET q == tasks[e].q
        n == Before(e)
        wanted == tasks[e].wanted
    IN d < e /\ tasks[d].at < tasks[e].at /\ tasks[d].q = q /\ tasks[e].reason = "repeat" =>
         \A x \in (Repeatable(tasks[e].source, e, n) \cap published) \ (Recent(n) \cup {q}) :
           Misses(x, wanted) <= Misses(q, wanted) =>
             \E i \in Seen(e, n) : Moment(i) > Moment(tasks[d].at) /\ log[i].q = x

\* A review follows a mistake that was not made good, on what the mistake was about.
ReviewsFollowMistakes ==
  \A d \in GivenDays : tasks[d].reason = "mistake" =>
    \E i \in 1..Before(d) :
      /\ log[i].kind = "attempt" /\ ~log[i].ok /\ tasks[d].concept \in QuestionConcepts(log[i].q)
      /\ \A j \in i..Before(d) : log[j].kind = "attempt" /\ log[j].q = log[i].q => ~log[j].ok

\* streakDays: the longest run of days answered in time that ends today or yesterday.
streak[d \in 0..(LastDay + 1)] == IF d = 0 \/ ~tasks[d - 1].counts THEN 0 ELSE streak[d - 1] + 1
StreakDays == IF tasks[today].counts THEN streak[today + 1] ELSE streak[today]
StreakIsEarned ==
  /\ \A d \in Days : tasks[d].counts <=>
       \E i \in DOMAIN log : log[i].kind = "attempt" /\ log[i].day = d /\ log[i].timely
  /\ \E k \in 0..(today + 1) :
       /\ k = StreakDays
       /\ \E end \in {today, today - 1} :
            /\ \A d \in Days : end - k < d /\ d <= end => tasks[d].counts
            /\ end - k \in Days => ~tasks[end - k].counts

ChoiceHolds == NewUnlessSaid /\ RepeatsGoRound /\ ReviewsFollowMistakes /\ StreakIsEarned
=============================================================================
