--------------------------- MODULE DailyReminders ---------------------------
(* What the teacher of one class sets, sees and sends about its daily        *)
(* question, internal/application/dailyquestion/service.go and               *)
(* reminder_worker.go, adapter/postgres/daily_question_repository.go: the    *)
(* settings, the reminders of students by hand and by the worker, the alert  *)
(* when one scheduled question is left, and the statistics of a day.  The    *)
(* queue that sends a job is WechatReminders; here a job is sent or skipped  *)
(* in one step.  How a question is prepared is DailyQuestion.                *)
EXTENDS Naturals, Sequences, FiniteSets, SequencesExt

CONSTANTS Learners, Teacher, LastDay, Scheduled,
          MaxReminders,    \* bound: reminders and alerts that are created
          MaxCount,     \* bound: recipients that one event counts
          MaxAdjustments    \* bound: settings, plans, enrolments and withdrawals

ASSUME RemindersAssumption ==
  LastDay \in Nat /\ IsFiniteSet(Learners) /\ Teacher \notin Learners /\ 1 \in Scheduled

VARIABLES
  day,
  settings,   \* daily_question_class_settings
  duty,       \* today's assignments: status, first result, corrected
  locked,     \* the strategy of the day's first assignment, "none" before it
  members,    \* who is enrolled and active
  roster,     \* who was enrolled when the day began
  plan,       \* the schedule: day -> question, 0 for none
  withdrawn,  \* questions that are no longer published
  events,     \* daily_question_wechat_events, by id
  jobs,       \* wechat_message_reminder_jobs: <<event id, recipient>> -> status
  todo,       \* what the teacher's request and the worker still have to do
  received,   \* automatic reminders that each student got today
  changes

reminderVars == <<day, settings, duty, locked, members, roster, plan, withdrawn, events, jobs, todo,
                  received, changes>>

Days == 0..LastDay
Unprepared == [status |-> "none", first |-> "none", corrected |-> FALSE]
Busy == {"teacher", "worker", "student"}

RemindersInit ==
  /\ day = 0 /\ settings = [strategy |-> "personalized", auto |-> FALSE]
  /\ duty = [s \in Learners |-> Unprepared] /\ locked = "none"
  /\ members = Learners /\ roster \in SUBSET Learners
  /\ plan = [d \in Days |-> IF d = 0 THEN 0 ELSE 1] /\ withdrawn = {}
  /\ events = <<>> /\ jobs = <<>> /\ todo = [p \in Busy |-> <<>>]
  /\ received = [s \in Learners |-> 0] /\ changes = 0

Assigned == {s \in Learners : duty[s].status # "none"}
Taken(d) == d = day /\ Assigned # {}
Standing == {e \in DOMAIN events : events[e].kind # "deleted"}
Of(kind) == {e \in Standing : events[e].kind = kind}
OfToday(kind) == {e \in Of(kind) : events[e].day = day}

\* GetClassSettings
EffectiveStrategy == IF locked # "none" THEN locked ELSE settings.strategy
UniformReady ==
  \/ plan[day] # 0
  \/ locked = "uniform" /\ \E s \in Assigned : duty[s].status # "unavailable"

-----------------------------------------------------------------------------
(* The queue.                                                                *)
Recipients == {s \in members : duty[s].status = "ready"}
JobsOf(e) == {k \in DOMAIN jobs : k[1] = e}
Queued(keys) ==
  [k \in DOMAIN jobs \cup keys |-> IF k \in DOMAIN jobs /\ k \notin keys THEN jobs[k] ELSE "pending"]
Resettable(k) == k \notin DOMAIN jobs \/ jobs[k] \in {"skipped", "dead"}

\* reconcileDailyQuestionRecipients: whoever has no job, or one that failed.
Due(e) == {<<e, s>> : s \in {x \in Recipients : Resettable(<<e, x>>)}}

NewEvent(kind, content, count) ==
  Append(events, [kind |-> kind, day |-> day, content |-> content, count |-> count])
NextId == Len(events) + 1
Deleted(ids) == [e \in DOMAIN events |->
  IF e \in ids THEN [events[e] EXCEPT !.kind = "deleted"] ELSE events[e]]
Counting(e, n) == [events EXCEPT ![e].count = @ + n]

-----------------------------------------------------------------------------
(* CreateClassReminder, one transaction that holds the class.                *)
CreateNew(kind) ==
  IF Recipients = {} THEN UNCHANGED <<events, jobs>>
  ELSE /\ Len(events) < MaxReminders
       /\ events' = NewEvent(kind, 0, Cardinality(Recipients))
       /\ jobs' = Queued({<<NextId, s>> : s \in Recipients})
CreateManual == CreateNew("manual")
CreateAutomatic ==
  IF OfToday("automatic") # {}
    THEN \E e \in OfToday("automatic") :
           /\ jobs' = Queued(Due(e))
           /\ events' = Counting(e, Cardinality(Due(e)))
    ELSE IF OfToday("manual") # {} THEN UNCHANGED <<events, jobs>>
    ELSE CreateNew("automatic")

(* EnsureUniformLowStockAlert, one transaction that holds the class.         *)
Remaining == {d \in Days : d >= day /\ plan[d] # 0 /\ ~Taken(d)}
LastContent == plan[CHOOSE d \in Remaining : TRUE]
Alert(c) ==
  LET others == {e \in Of("low") : events[e].content # c}
      same == Of("low") \ others
  IN IF same = {}
       THEN /\ Len(events) < MaxReminders
            /\ events' = Append(Deleted(others), [kind |-> "low", day |-> day, content |-> c, count |-> 1])
            /\ jobs' = Queued({<<NextId, Teacher>>})
       ELSE \E e \in same :
              LET again == {<<e, Teacher>>} \cap {k \in JobsOf(e) : Resettable(k)}
              IN /\ events' = [Deleted(others) EXCEPT ![e].count = @ + Cardinality(again)]
                 /\ jobs' = Queued(again)
EnsureLowStock ==
  IF settings.strategy # "uniform" \/ Cardinality(Remaining) # 1
    THEN events' = Deleted(Of("low")) /\ UNCHANGED jobs
    ELSE Alert(LastContent)

\* A transaction fails, is logged, and the next task is done.
Do(p) ==
  /\ todo[p] # <<>> /\ todo' = [todo EXCEPT ![p] = Tail(@)]
  /\ \/ UNCHANGED <<events, jobs>>
     \/ CASE Head(todo[p]) = "manual" -> CreateManual
          [] Head(todo[p]) = "automatic" -> CreateAutomatic
          [] Head(todo[p]) = "low" -> EnsureLowStock
  /\ \A e \in DOMAIN events' : events'[e].count <= MaxCount
  /\ UNCHANGED <<day, settings, duty, locked, members, roster, plan, withdrawn, received, changes>>

-----------------------------------------------------------------------------
(* Requests of the teacher, and the worker.                                  *)
Idle(p) == todo[p] = <<>>
Todo(p, tasks) == todo' = [todo EXCEPT ![p] = tasks]
Adjusts == changes < MaxAdjustments /\ changes' = changes + 1

SetClassSettings(strategy, auto) ==
  LET enabled == auto /\ ~settings.auto IN
  /\ Idle("teacher") /\ Adjusts
  /\ settings' = [strategy |-> strategy, auto |-> auto]
  /\ Todo("teacher", IF enabled THEN <<"automatic", "low">> ELSE <<"low">>)
  /\ UNCHANGED <<day, duty, locked, members, roster, plan, withdrawn, events, jobs, received>>

SendClassReminder ==
  /\ Idle("teacher") /\ (EffectiveStrategy = "uniform" => UniformReady)
  /\ Todo("teacher", <<"manual">>)
  /\ UNCHANGED <<day, settings, duty, locked, members, roster, plan, withdrawn, events, jobs, received, changes>>

\* GetClassUniformSchedule; ReplaceClassUniformSchedule, of the days nobody has obtained.
ReadSchedule ==
  /\ Idle("teacher") /\ Todo("teacher", <<"low">>)
  /\ UNCHANGED <<day, settings, duty, locked, members, roster, plan, withdrawn, events, jobs, received, changes>>
ReplaceSchedule(d, c) ==
  /\ Idle("teacher") /\ Adjusts /\ d >= day /\ ~Taken(d)
  /\ plan' = [plan EXCEPT ![d] = c] /\ c # plan[d]
  /\ c # 0 => \A e \in Days : plan[e] # c
  /\ Todo("teacher", <<"low">>)
  /\ UNCHANGED <<day, settings, duty, locked, members, roster, withdrawn, events, jobs, received>>

\* DispatchScheduledReminders: the classes are listed first.
DispatchScheduledReminders ==
  /\ Idle("worker") /\ (settings.auto \/ settings.strategy = "uniform")
  /\ Todo("worker", (IF settings.auto THEN <<"automatic">> ELSE <<>>)
                   \o (IF settings.strategy = "uniform" THEN <<"low">> ELSE <<>>))
  /\ UNCHANGED <<day, settings, duty, locked, members, roster, plan, withdrawn, events, jobs, received, changes>>

-----------------------------------------------------------------------------
(* Students and the clock.                                                   *)
\* A student obtains the question; the stock of a uniform class is checked afterwards.
Prepare(s, status) ==
  LET uniform == EffectiveStrategy = "uniform" IN
  /\ s \in members /\ duty[s].status = "none" /\ Idle("student")
  /\ uniform => status = "ready" /\ UniformReady
  /\ duty' = [duty EXCEPT ![s].status = status] /\ locked' = EffectiveStrategy
  /\ Todo("student", IF uniform THEN <<"low">> ELSE <<>>)
  /\ UNCHANGED <<day, settings, members, roster, plan, withdrawn, events, jobs, received, changes>>

\* A first answer completes the day; a right one after a wrong one corrects it.
AnswerToday(s, correct) ==
  /\ \/ /\ duty[s].status = "ready"
        /\ duty' = [duty EXCEPT ![s] = [status |-> "completed", corrected |-> FALSE,
                                        first |-> IF correct THEN "correct" ELSE "incorrect"]]
     \/ /\ duty[s].status = "completed" /\ duty[s].first = "incorrect" /\ correct
        /\ ~duty[s].corrected /\ duty' = [duty EXCEPT ![s].corrected = TRUE]
  /\ UNCHANGED <<day, settings, locked, members, roster, plan, withdrawn, events, jobs, todo, received, changes>>

Enrolment(s) ==
  /\ Adjusts /\ members' = IF s \in members THEN members \ {s} ELSE members \cup {s}
  /\ UNCHANGED <<day, settings, duty, locked, roster, plan, withdrawn, events, jobs, todo, received>>
Withdraw(c) ==
  /\ Adjusts /\ c \notin withdrawn /\ withdrawn' = withdrawn \cup {c}
  /\ UNCHANGED <<day, settings, duty, locked, members, roster, plan, events, jobs, todo, received>>

\* Bound: a request ends on the day it began.
Midnight ==
  /\ day < LastDay /\ day' = day + 1 /\ \A p \in Busy : Idle(p)
  /\ duty' = [s \in Learners |-> Unprepared] /\ locked' = "none" /\ roster' = members
  /\ received' = [s \in Learners |-> 0]
  /\ UNCHANGED <<settings, members, plan, withdrawn, events, jobs, todo, changes>>

\* resolveSourceDelivery, the part of the daily question.
StillUsable ==
  {d \in Days : /\ d >= day /\ plan[d] # 0 /\ plan[d] \notin withdrawn
                /\ d = day => \A s \in Assigned : duty[s].status = "unavailable"}
Deliverable(e, who) ==
  /\ e \in Standing
  /\ IF events[e].kind = "low"
       THEN settings.strategy = "uniform" /\ \E d \in StillUsable : StillUsable = {d} /\ plan[d] = events[e].content
       ELSE /\ events[e].kind = "automatic" => settings.auto
            /\ events[e].day = day /\ who \in Recipients
Deliver(e, who) ==
  /\ jobs[<<e, who>>] = "pending"
  /\ \E result \in IF Deliverable(e, who) THEN {"sent", "dead"} ELSE {"skipped"} :
       /\ jobs' = [jobs EXCEPT ![<<e, who>>] = result]
       /\ received' = IF result = "sent" /\ events[e].kind = "automatic"
                        THEN [received EXCEPT ![who] = @ + 1] ELSE received
  /\ UNCHANGED <<day, settings, duty, locked, members, roster, plan, withdrawn, events, todo, changes>>

RemindersNext ==
  \/ \E strategy \in {"uniform", "personalized"}, auto \in BOOLEAN : SetClassSettings(strategy, auto)
  \/ SendClassReminder \/ ReadSchedule \/ DispatchScheduledReminders \/ Midnight
  \/ \E d \in Days, c \in Scheduled \cup {0} : ReplaceSchedule(d, c)
  \/ \E p \in Busy : Do(p)
  \/ \E s \in Learners : Enrolment(s) \/ Prepare(s, "ready") \/ Prepare(s, "unavailable")
                         \/ AnswerToday(s, TRUE) \/ AnswerToday(s, FALSE)
  \/ \E c \in Scheduled : Withdraw(c)
  \/ \E k \in DOMAIN jobs : Deliver(k[1], k[2])

RemindersSpec == RemindersInit /\ [][RemindersNext]_reminderVars

-----------------------------------------------------------------------------
(* Properties.                                                               *)

\* However often the setting is switched and the worker runs, a student gets the
\* automatic reminder of a day once.
RemindedOnce == \A s \in Learners : received[s] <= 1

\* The automatic reminder keeps back once the teacher has reminded the class by hand, and
\* there is one of it a day.
AutomaticYields ==
  /\ \A e, f \in Of("automatic") : events[e].day = events[f].day => e = f
  /\ \A e \in Of("automatic"), f \in Of("manual") : events[e].day = events[f].day => e < f

\* A reminder that the teacher sees has recipients, none of whom the count leaves out, and
\* nobody outside the class is among them.
CountsHold ==
  \A e \in Standing :
    /\ JobsOf(e) # {} /\ events[e].count >= Cardinality(JobsOf(e))
    /\ events[e].kind # "manual" \/ events[e].count = Cardinality(JobsOf(e))
    /\ \A k \in JobsOf(e) : (k[2] = Teacher) = (events[e].kind = "low")

\* There is one alert at a time, of a question that was the last one left.
OneAlert == Cardinality(Of("low")) <= 1

\* GetClassStatistics: the figures of the day add up, whoever joined or left meanwhile.
Counted(P(_)) == Cardinality({s \in roster \cup Assigned : P(duty[s])})
IsAssigned(a) == a.status # "none"
IsCompleted(a) == a.status = "completed"
FirstCorrect(a) == a.first = "correct"
FirstIncorrect(a) == a.first = "incorrect"
IsCorrected(a) == a.corrected
StatisticsAgree ==
  /\ Counted(IsCompleted) = Counted(FirstCorrect) + Counted(FirstIncorrect)
  /\ Counted(IsCorrected) <= Counted(FirstIncorrect)
  /\ Counted(IsAssigned) = Cardinality(Assigned)

RemindersHold == RemindedOnce /\ AutomaticYields /\ CountsHold /\ OneAlert /\ StatisticsAgree
=============================================================================
