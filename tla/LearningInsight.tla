--------------------------- MODULE LearningInsight --------------------------
(***************************************************************************)
(* The figures a student is shown of their learning: the chart of a range, *)
(* the streak of days, the rank in the class, and the comparison with the  *)
(* class behind a portrait with the practice it suggests.                  *)
(* (internal/application/learningrange, progress and their queries.)       *)
(*                                                                         *)
(* A figure is computed from what was read; days are counted back from the *)
(* day it is, in the calendar of the platform.  A step computes one figure *)
(* from one of the inputs of its kind.                                     *)
(***************************************************************************)
EXTENDS Integers, Sequences, FiniteSets

CONSTANTS
  SemesterDays,   \* days a semester has had
  Lookback,       \* StreakLookbackDays
  Classmates, Me, \* the students of a class, and the one who asks
  MaxCount,       \* bound: of exercises, and of units of time
  MinClassSize,   \* portraitMinClassSize
  MinAccuracy,    \* portraitMinAccuracyAttempts
  Topics,         \* concepts, by their names: numbers
  MinTopic,       \* portraitMinTopicAttempts
  Listed,         \* of strengths, of improvements, of actions
  Target          \* target_count of a practice plan

VARIABLE shown    \* the figure computed last, with its input

insightVars == <<shown>>
InsightInit == shown = [figure |-> "none"]

-----------------------------------------------------------------------------
(* The chart of a range: its days, or the weeks that its days are in.      *)

Kinds == {"week", "month", "semester", "all"}
Weekdays == 0..6   \* 0 is Monday

\* days of the range with today, as far as the calendar has got
Lengths(kind, weekday) ==
  CASE kind = "week" -> {weekday + 1}
    [] kind = "month" -> 1..31
    [] kind = "semester" -> SemesterDays
    [] OTHER -> {365}
Interval(kind) == IF kind \in {"week", "month"} THEN "day" ELSE "week"

\* date_trunc: how many days ago the week of a day began that is `ago` days ago
MondayOf(ago, weekday) == LET w == (weekday - ago) % 7 IN ago + w

\* rows in the range, by the day or the week of their submission
ListLearningStats(kind, weekday, days, ages) ==
  LET period(ago) == IF Interval(kind) = "day" THEN ago ELSE MondayOf(ago, weekday)
      inside == {a \in ages : a < days}
  IN [d \in {period(a) : a \in inside} |-> Cardinality({a \in inside : period(a) = d})]

(* 53 weeks at most, from the Monday of the first day *)
buildDailyStats(kind, weekday, days, rows) ==
  LET first == MondayOf(days - 1, weekday)
      points == IF Interval(kind) = "day" THEN 0..(days - 1)
                ELSE {first - 7 * i : i \in {k \in 0..52 : first - 7 * k >= 0}}
  IN [d \in points |-> IF d \in DOMAIN rows THEN rows[d] ELSE 0]

GetStatistics(kind, weekday, days, ages) ==
  shown' = [figure |-> "chart", days |-> days, ages |-> ages,
            chart |-> buildDailyStats(kind, weekday, days,
                                      ListLearningStats(kind, weekday, days, ages))]

-----------------------------------------------------------------------------
(* The streak: the newest days with an answer, back from today.            *)

ListSubmittedAttemptDays(ages) ==
  {a \in ages : Cardinality({b \in ages : b <= a}) <= Lookback}
calculateStreakDays(active) ==
  LET gap == CHOOSE d \in 0..Cardinality(active) :
               d \notin active /\ \A e \in 0..(d - 1) : e \in active
  IN gap
Streak(ages) ==
  shown' = [figure |-> "streak", ages |-> ages,
            streak |-> calculateStreakDays(ListSubmittedAttemptDays(ages))]

-----------------------------------------------------------------------------
(* The rank among the students of the class, by time and then by answers to
   the exercises of their teacher.  The class and its students are read one
   after the other: whoever asks may have left in between.                  *)

Stat(seconds, count) == [seconds |-> seconds, count |-> count]
Stats == {Stat(s, n) : s \in 0..MaxCount, n \in 0..MaxCount}
Ahead(a, b) == a.seconds > b.seconds \/ (a.seconds = b.seconds /\ a.count > b.count)

\* AttemptStatsForStudents has no row for a student without an answer
StatOf(stats, s) == IF s \in DOMAIN stats THEN stats[s] ELSE Stat(0, 0)

GetClassRanking(stats) ==
  LET mine == StatOf(stats, Me)
      peers == DOMAIN stats \ {Me}
      total == Cardinality(DOMAIN stats)
  IN
  shown' =
    IF mine.count = 0 \/ total < 2
      THEN [figure |-> "ranking", stats |-> stats, available |-> FALSE, rank |-> 0, lower |-> 0]
      ELSE [figure |-> "ranking", stats |-> stats, available |-> TRUE,
            rank |-> 1 + Cardinality({p \in peers : Ahead(stats[p], mine)}),
            lower |-> Cardinality({p \in peers : Ahead(mine, stats[p])})]

-----------------------------------------------------------------------------
(* The portrait's comparison with the class.                               *)

Metrics == {"accuracy", "practice"}   \* the others are compared as practice is
Answered(count, correct) == [count |-> count, correct |-> correct]
Activity == {Answered(n, c) : n \in 0..MaxCount, c \in 0..MaxCount}
Activities == {a \in Activity : a.correct <= a.count}
Minimum(metric) == IF metric = "accuracy" THEN MinAccuracy ELSE 0

\* a percentage is compared as a fraction
Higher(metric, a, b) ==
  IF metric = "practice" THEN a.count > b.count
  ELSE a.correct * b.count > b.correct * a.count

portraitMetrics(metric, activity) ==
  LET peers == {p \in Classmates \ {Me} : activity[p].count >= Minimum(metric)} IN
  shown' = [figure |-> "metric", metric |-> metric, activity |-> activity, peers |-> peers,
            available |-> /\ activity[Me].count >= Minimum(metric)
                          /\ Cardinality(peers) + 1 >= MinClassSize,
            exceeded |-> Cardinality({p \in peers : Higher(metric, activity[Me], activity[p])})]

-----------------------------------------------------------------------------
(* What the portrait says of the concepts, and the practice it suggests.   *)

\* mastery in steps: 2 is 0.75, from where a concept is a strength
States == {[mastery |-> m, attempts |-> a] : m \in 0..3, a \in {0, MinTopic - 1, MinTopic}}
Reliable(states) == {t \in Topics : states[t].attempts >= MinTopic}
Seen(states) == {t \in Topics : states[t].attempts > 0}

\* the first of a sorted list: sort.Slice by mastery, then by name
Firsts(S, Under(_, _), n) == {t \in S : Cardinality({u \in S : Under(u, t)}) < n}
Weaker(states, t, u) == \/ states[t].mastery < states[u].mastery
                        \/ states[t].mastery = states[u].mastery /\ t < u
Stronger(states, t, u) == \/ states[t].mastery > states[u].mastery
                          \/ states[t].mastery = states[u].mastery /\ t < u

Strengths(states) ==
  LET under(t, u) == Stronger(states, t, u) IN
  Firsts({t \in Reliable(states) : states[t].mastery >= 2}, under, Listed)
Improvements(states) ==
  LET under(t, u) == Weaker(states, t, u) IN
  Firsts({t \in Reliable(states) : states[t].mastery < 2}, under, Listed)

(* plans under way, the oldest first; then what to improve, with the plan it has.
   A plan is the answers since it was begun, or NoPlanYet; its age is its id here. *)
NoPlanYet == 0 - 1
Active(plans) == {t \in Topics : plans[t] \in 0..(Target - 1)}
portraitActions(states, plans) ==
  LET older(t, u) == t < u
      active == Firsts(Active(plans), older, Listed)
      under(t, u) == Weaker(states, t, u)
      rest == Firsts(Improvements(states) \ active, under, Listed - Cardinality(active))
  IN active \cup rest

GetPortraitInsights(states, plans) ==
  shown' = [figure |-> "portrait", states |-> states, plans |-> plans,
            strengths |-> Strengths(states), improvements |-> Improvements(states),
            actions |-> portraitActions(states, plans)]

-----------------------------------------------------------------------------
InsightNext ==
  /\ shown.figure = "none"
  /\ \/ \E kind \in Kinds, weekday \in Weekdays : \E days \in Lengths(kind, weekday) :
          \E a \in {0, (days - 1) \div 2, days - 1, days} :
            GetStatistics(kind, weekday, days, {0, a, days - 1})
     \/ \E ages \in SUBSET (0..(Lookback + 2)) : Streak(ages)
     \/ \E roster \in SUBSET Classmates : \E stats \in [roster -> Stats] : GetClassRanking(stats)
     \/ \E metric \in Metrics, activity \in [Classmates -> Activities] :
          portraitMetrics(metric, activity)
     \/ \E states \in [Topics -> States], plans \in [Topics -> {NoPlanYet, 0, Target}] :
          GetPortraitInsights(states, plans)

-----------------------------------------------------------------------------
(* Properties.                                                             *)

Bars(chart) == UNION {{d} \X (1..chart[d]) : d \in DOMAIN chart}

(* Every answer of the range is in exactly one bar of its chart, whatever weekday it
   is, in the first week that began before the range and on the last day, too. *)
ChartIsComplete ==
  shown.figure = "chart" =>
    Cardinality(Bars(shown.chart)) = Cardinality({a \in shown.ages : a < shown.days})

(* A streak is the unbroken run of days that ends today, as far as it is looked for. *)
StreakIsARun ==
  shown.figure = "streak" =>
    /\ \A d \in 0..(shown.streak - 1) : d \in shown.ages
    /\ shown.streak \notin shown.ages \/ shown.streak = Lookback

(* A rank is a place on the sorted list that a tie shares: those ahead, those behind
   and those level are the class, and a class mate with the same figures would be told
   the same place. *)
RankIsAPlace ==
  shown.figure = "ranking" /\ shown.available =>
    LET mine == shown.stats[Me]
        level == {p \in DOMAIN shown.stats : shown.stats[p] = mine}
    IN /\ (shown.rank - 1) + shown.lower + Cardinality(level) = Cardinality(DOMAIN shown.stats)
       /\ \A p \in DOMAIN shown.stats :
            shown.rank = 1 => ~Ahead(shown.stats[p], mine)

(* No comparison is shown over fewer students than a class needs, nor with anyone who
   has too few answers to have an accuracy; and nobody exceeds more than their peers. *)
ComparisonIsSafe ==
  shown.figure = "metric" /\ shown.available =>
    /\ Cardinality(shown.peers \cup {Me}) >= MinClassSize
    /\ shown.exceeded <= Cardinality(shown.peers)
    /\ shown.metric = "accuracy" =>
         \A p \in shown.peers \cup {Me} : shown.activity[p].count > 0

(* The portrait does not contradict itself: no concept is both a strength and one to
   improve; a plan that is under way is suggested before anything else, and nothing is
   suggested that is neither under way nor to be improved. *)
PortraitIsConsistent ==
  shown.figure = "portrait" =>
    /\ shown.strengths \cap shown.improvements = {}
    /\ \A s \in shown.strengths, i \in shown.improvements :
         shown.states[s].mastery > shown.states[i].mastery
    /\ Cardinality(shown.actions) <= Listed
    /\ Active(shown.plans) \subseteq shown.actions \/ shown.actions \subseteq Active(shown.plans)
    /\ shown.actions \subseteq Active(shown.plans) \cup shown.improvements

InsightsAgree ==
  ChartIsComplete /\ StreakIsARun /\ RankIsAPlace /\ ComparisonIsSafe /\ PortraitIsConsistent
=============================================================================
