----------------------------- MODULE MistakeBook ----------------------------
(***************************************************************************)
(* The mistake book of one student over several questions: the list of     *)
(* cards and the list of review plans, read page by page, the exercise a   *)
(* card opens, and the share of mistakes in a time range.                  *)
(* (internal/application/mistake with its repositories.)                   *)
(*                                                                         *)
(* Every reading is several statements outside of a transaction; answers   *)
(* are recorded and mistakes archived between them.  How an answer moves a *)
(* plan is ExerciseSubmission's matter and kept short here.                *)
(***************************************************************************)
EXTENDS Integers, Sequences, FiniteSets

CONSTANTS
  Contents,      \* questions by their ids: numbers from 1
  MasteryOf,     \* per question, the mean of its concepts: 0, 1, 2
  Target,        \* mistakeReviewSuccessTarget
  PageSize,      \* page_size
  MaxAttempts    \* bound: recorded answers

VARIABLES
  attempts,   \* content_attempts that were submitted, in their order
  plans,      \* mistake_review_tasks
  page        \* what the student's page is reading or shows

bookVars == <<attempts, plans, page>>

Never == 3   \* a due date after every other: NULLS LAST
NoPlan == [status |-> "none", source |-> 0, stage |-> 0, errors |-> 0, due |-> Never]
Page(doing) == [doing |-> doing, query |-> "none", number |-> 1, total |-> 0, seen |-> {}, rows |-> {},
                of |-> 0, plan |-> NoPlan, steady |-> TRUE, result |-> "none"]
NoPage == Page("nothing")

BookInit == attempts = <<>> /\ plans = [c \in Contents |-> NoPlan] /\ page = NoPage

Active(plan) == plan.status \in {"pending", "verification_due"}
Now == 1   \* due dates: 1 has come, 2 has not
IsDue(plan) == Active(plan) /\ plan.due <= Now
Scheduled(plan) == Active(plan) /\ plan.due > Now

Mistakes == {i \in DOMAIN attempts : ~attempts[i].correct}
Kept == {i \in Mistakes : ~attempts[i].archived}
About(c) == {i \in DOMAIN attempts : attempts[i].content = c}
PlanOf(i) == plans[attempts[i].content]

\* DISTINCT ON (content_id) ... submitted_at DESC; mistakeRepresentativeAttemptPredicate
Representative(i) == i \in Kept /\ \A j \in Kept : attempts[j].content = attempts[i].content => j <= i
Cards == {i \in Kept : Representative(i)}

-----------------------------------------------------------------------------
(* What changes the book, between the statements of a page.                *)

Unsettles == page' = IF page = NoPage THEN page ELSE [page EXCEPT !.steady = FALSE]

\* A wrong answer starts the plan again; a right one counts when it was given as a review
\* that is due.
Wrong(plan, n) ==
  [status |-> "pending", source |-> n, stage |-> 0, errors |-> plan.errors + 1, due |-> 2]
Right(plan, review) ==
  IF ~(review /\ IsDue(plan)) THEN plan
  ELSE [plan EXCEPT !.stage = @ + 1,
                    !.status = IF plan.stage + 1 = Target THEN "mastered" ELSE "verification_due",
                    !.due = IF plan.stage + 1 = Target THEN Never ELSE 2]

Answer(c, correct, review) ==
  LET n == Len(attempts) + 1 IN
  /\ Len(attempts) < MaxAttempts
  /\ attempts' = Append(attempts, [content |-> c, correct |-> correct, archived |-> FALSE])
  /\ plans' = [plans EXCEPT ![c] = IF correct THEN Right(@, review) ELSE Wrong(@, n)]
  /\ Unsettles

DueComes(c) ==
  /\ Active(plans[c]) /\ plans[c].due = 2
  /\ plans' = [plans EXCEPT ![c].due = 1]
  /\ Unsettles /\ UNCHANGED attempts

\* DeleteMistake: the card's mistakes and its plan, in one transaction
DeleteMistake(i) ==
  LET c == attempts[i].content IN
  /\ Representative(i)
  /\ attempts' = [j \in DOMAIN attempts |->
                    [attempts[j] EXCEPT !.archived = @ \/ (attempts[j].content = c /\ ~attempts[j].correct)]]
  /\ plans' = [plans EXCEPT ![c].status = "archived", ![c].due = Never]
  /\ Unsettles

-----------------------------------------------------------------------------
(* The list of cards: the count, then a page of rows, for one query after
   normalizeListQuery.                                                     *)

Statuses == {"pending", "verification_due", "mastered", "archived"}
Filters == Statuses \cup {"all", "none", "due", "scheduled"}
Sorts == {"time", "error_count", "mastery", "due_at", "stage"}

\* mistakeReviewStatusPredicate and mistakeDueStatusPredicate
Passes(plan, filter) ==
  CASE filter = "all" -> TRUE
    [] filter = "none" -> plan.status = "none"
    [] filter = "due" -> IsDue(plan)
    [] filter = "scheduled" -> Scheduled(plan)
    [] OTHER -> plan.status = filter

ListMistakes(filter) == {i \in Cards : Passes(PlanOf(i), filter)}

\* mistakeListOrderBy and mistakeReviewTaskOrderBy: the key, then the id
SortKey(plan, c, i, sort) ==
  CASE sort = "error_count" -> plan.errors
    [] sort = "mastery" -> MasteryOf[c]
    [] sort = "due_at" -> plan.due
    [] sort = "stage" -> plan.stage
    [] OTHER -> i

Before(key, a, b, direction) ==
  IF direction = "asc" THEN key[a] < key[b] \/ (key[a] = key[b] /\ a < b)
                       ELSE key[a] > key[b] \/ (key[a] = key[b] /\ a > b)

\* LIMIT and OFFSET on any order that ORDER BY allows
Orders(S, Under(_, _)) ==
  {order \in [1..Cardinality(S) -> S] :
     \A m, n \in DOMAIN order : m < n => order[m] # order[n] /\ ~Under(order[n], order[m])}
Slice(order, number) ==
  {order[k] : k \in {m \in DOMAIN order : m > (number - 1) * PageSize /\ m <= number * PageSize}}
PagesOf(S, key, direction, number) ==
  LET under(a, b) == Before(key, a, b, direction) IN
  {Slice(order, number) : order \in Orders(S, under)}

\* The rows a page may show: of cards, or of plans.
Rows(kind, filter) ==
  IF kind = "cards" THEN ListMistakes(filter)
  ELSE {c \in Contents : IF filter = "mastered" THEN plans[c].status = "mastered"
                         ELSE Active(plans[c]) /\ Passes(plans[c], filter)}
KeyOf(kind, sort) ==
  IF kind = "cards" THEN [i \in Cards |-> SortKey(PlanOf(i), attempts[i].content, i, sort)]
                    ELSE [c \in Contents |-> SortKey(plans[c], c, c, sort)]

Query(kind, filter, sort, direction) ==
  [kind |-> kind, filter |-> filter, sort |-> sort, direction |-> direction]
Counted(query) == Cardinality(Rows(query.kind, query.filter))

\* the count, without which no rows are read
ListMistakePage(query) ==
  /\ page.doing = "nothing"
  /\ page' = [Page(IF Counted(query) = 0 THEN "listed" ELSE "listing")
                EXCEPT !.query = query, !.total = Counted(query)]
  /\ UNCHANGED <<attempts, plans>>

ReadRows ==
  LET q == page.query IN
  /\ page.doing = "listing"
  /\ \E rows \in PagesOf(Rows(q.kind, q.filter), KeyOf(q.kind, q.sort), q.direction, page.number) :
       page' = [page EXCEPT !.doing = "listed", !.rows = rows, !.seen = @ \cup page.rows]
  /\ UNCHANGED <<attempts, plans>>

TotalPages(total) == (total + PageSize - 1) \div PageSize

\* the student turns the page
NextPage ==
  /\ page.doing = "listed"
  /\ page.number < TotalPages(page.total)
  /\ page' = [page EXCEPT !.doing = "listing", !.number = @ + 1]
  /\ UNCHANGED <<attempts, plans>>

\* CountReviewTasks, after the rows of plans
DueNow == Cardinality({c \in Contents : IsDue(plans[c])})
CountReviewTasks ==
  /\ page.doing = "listed" /\ page.query.kind = "plans" /\ page.result = "none"
  /\ page' = [page EXCEPT !.result = IF page.query.filter = "due" /\ DueNow # page.total
                                       THEN "other count" ELSE "counted"]
  /\ UNCHANGED <<attempts, plans>>

-----------------------------------------------------------------------------
(* The exercise of a card: its mistake, the plan, then the plan's own row. *)

GetMistakeByAttempt(i) ==
  /\ page.doing = "nothing" /\ Representative(i)
  /\ page' = [Page("opening") EXCEPT !.of = i]
  /\ UNCHANGED <<attempts, plans>>

\* an archived plan, or one that rests on another mistake, is not this card's
Rests(plan, i) == plan.status \notin {"none", "archived"} /\ plan.source = i

GetReviewTaskByAttempt ==
  /\ page.doing = "opening"
  /\ page' = [page EXCEPT !.doing = IF Rests(PlanOf(page.of), page.of) THEN "loading" ELSE "opened",
                          !.result = IF Rests(PlanOf(page.of), page.of) THEN "none" ELSE "redo",
                          !.plan = PlanOf(page.of)]
  /\ UNCHANGED <<attempts, plans>>

\* ListReviewTasks by the plan's id, in the view it was in
InView(plan, viewed) == IF viewed.status = "mastered" THEN plan.status = "mastered" ELSE Active(plan)
GetReviewExerciseByAttempt ==
  /\ page.doing = "loading"
  /\ page' = [page EXCEPT !.doing = "opened",
                          !.result = IF InView(PlanOf(page.of), page.plan) THEN "review" ELSE "not found",
                          !.plan = PlanOf(page.of)]
  /\ UNCHANGED <<attempts, plans>>

-----------------------------------------------------------------------------
(* The statistics: the mistakes of the range, archived ones too, and then
   every answer of it.                                                     *)

GetStatistics ==
  /\ page.doing = "nothing"
  /\ page' = [Page("counting") EXCEPT !.of = Cardinality(Mistakes)]
  /\ UNCHANGED <<attempts, plans>>

CountSubmittedAttempts ==
  /\ page.doing = "counting"
  /\ page' = [page EXCEPT !.doing = "measured", !.total = Len(attempts)]
  /\ UNCHANGED <<attempts, plans>>

ClosePage == page.doing \in {"listed", "opened", "measured"} /\ page' = NoPage /\ UNCHANGED <<attempts, plans>>

\* bound: a query filters, or sorts all there is
CardQueries ==
  {Query("cards", f, "time", "desc") : f \in Filters}
    \cup {Query("cards", "all", s, d) : s \in Sorts, d \in {"asc", "desc"}}
PlanQueries == {Query("plans", f, "due_at", "asc") : f \in {"due", "scheduled", "all", "mastered"}}

BookNext ==
  \/ \E c \in Contents, correct \in BOOLEAN, review \in BOOLEAN : Answer(c, correct, review)
  \/ \E c \in Contents : DueComes(c)
  \/ \E i \in DOMAIN attempts : DeleteMistake(i)
  \/ \E query \in CardQueries \cup PlanQueries : ListMistakePage(query)
  \/ ReadRows \/ NextPage \/ CountReviewTasks
  \/ \E i \in DOMAIN attempts : GetMistakeByAttempt(i)
  \/ GetReviewTaskByAttempt \/ GetReviewExerciseByAttempt
  \/ GetStatistics \/ CountSubmittedAttempts
  \/ ClosePage

-----------------------------------------------------------------------------
(* Properties.                                                             *)

(* The book and the plans name the same mistakes: a question has a card exactly while
   its plan is not archived, and the plan rests on the mistake the card shows. *)
CardsHavePlans ==
  /\ \A i \in Cards : Rests(PlanOf(i), i)
  /\ \A c \in Contents : plans[c].status \notin {"none", "archived"} => plans[c].source \in Cards

(* While the book stays as it is, a student who turns the pages of a list to the end is
   shown every row of the query once, whatever it is sorted by; and the number of due
   plans beside the list of due plans is the length of the list. *)
ListsAreWhole ==
  page.doing = "listed" /\ page.steady =>
    /\ page.rows \cap page.seen = {}
    /\ page.number >= TotalPages(page.total) =>
         Cardinality(page.seen \cup page.rows) = page.total
    /\ page.result # "other count"

(* A card of a book that stays as it is opens the review of its plan.  Whatever happens
   meanwhile, the review that is opened is of a plan that is under way or mastered and
   rests on the card's mistake or a later one of the question, and the old way around
   the plan is opened only for a mistake that no plan will rest on again. *)
CardsOpenPlans ==
  page.doing = "opened" =>
    /\ page.steady => page.result = "review"
    /\ page.result = "review" => page.plan.status \notin {"none", "archived"} /\ page.plan.source >= page.of
    /\ page.result = "redo" => ~Rests(PlanOf(page.of), page.of)

(* Mistakes are a share of the answers, also when answers arrive between the two counts. *)
SharesAreShares == page.doing = "measured" => page.of <= page.total

BookHolds == CardsHavePlans /\ ListsAreWhole /\ CardsOpenPlans /\ SharesAreShares
=============================================================================
