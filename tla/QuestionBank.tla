----------------------------- MODULE QuestionBank -----------------------------
(***************************************************************************)
(* The problems of one teacher, the class plan that names some of them, and *)
(* the knowledge nodes they refer to: internal/application/question and     *)
(* knowledge with their repositories.                                      *)
(*                                                                         *)
(* A call first reads without a lock, then locks rows and writes; calls of *)
(* several tabs and of an administrator overlap.  A question is a multiple  *)
(* choice; its texts, difficulty and tags are left out.                     *)
(***************************************************************************)
EXTENDS Integers, FiniteSets

CONSTANTS
  Problems,      \* ids, each inserted once
  Options,
  Concepts,       \* ids of knowledge_nodes
  Uncategorized,  \* the system's own node
  Calls,          \* HTTP requests under way
  PlannedDays,    \* bound: the days are 0..PlannedDays
  Unset           \* a field an update leaves out, or NULL

ASSUME BankAssumption ==
  /\ Uncategorized \in Concepts /\ Unset \notin Problems \cup Options \cup Concepts
  /\ PlannedDays \in Nat

VARIABLES
  day,            \* today in Shanghai
  problems,      \* contents of type PROBLEM
  candidates,     \* daily_question_candidates
  classPlan,           \* daily_question_class_selections with reason teacher_uniform
  nodes,          \* knowledge_nodes
  relations,      \* knowledge_relations
  calls,          \* what each call has read and holds
  overlapped      \* questions whose choice was written on an outdated read, and their copies
                  \* (bookkeeping)

bankVars == <<day, problems, candidates, classPlan, nodes, relations, calls, overlapped>>

PlanDays == 0..PlannedDays
Absent == [status |-> "absent", options |-> {}, answer |-> Unset, concepts |-> {}]
\* status, or "deleted" when deleted_at is set
States == {"absent", "draft", "published", "archived", "deleted"}
NoChange == [status |-> Unset, options |-> Unset, answer |-> Unset, concepts |-> Unset]
IdleCall == [doing |-> "nothing", ids |-> {}, change |-> NoChange, node |-> Unset, holds |-> {}, view |-> Absent]

BankInit ==
  /\ day = 0 /\ problems = [q \in Problems |-> Absent] /\ candidates = {}
  /\ classPlan = [d \in PlanDays |-> Unset] /\ nodes = Concepts /\ relations = {}
  /\ calls = [e \in Calls |-> IdleCall] /\ overlapped = {}

Live == {q \in Problems : problems[q].status \in {"draft", "published", "archived"}}
Free(q) == \A e \in Calls : q \notin calls[e].holds
Now(e, doing) == calls[e].doing = doing
CallBecomes(e, call) == calls' = [calls EXCEPT ![e] = call]
CallEnds(e) == CallBecomes(e, IdleCall)

\* mutant: the tables are not locked
NeverLocked == FALSE
\* DeleteNode keeps the writers of contents and plans out until it commits.
TablesLocked == \E e \in Calls : calls[e].doing \in {"check node", "remove node"}

-----------------------------------------------------------------------------
(* Creating: the concepts are looked up, then the rows are inserted.       *)

RequireConceptIDs(concepts) == concepts \subseteq nodes

\* An empty list of concepts becomes the system's node.
NewQuestions(concepts) ==
  [status : {"draft"}, options : {Options}, answer : Options,
   concepts : {IF concepts = {} THEN {Uncategorized} ELSE concepts}]

CreateQuestion(e, q, new) ==
  /\ Now(e, "nothing") /\ problems[q] = Absent /\ RequireConceptIDs(new.concepts)
  /\ CallBecomes(e, [IdleCall EXCEPT !.doing = "insert", !.ids = {q}, !.view = new])
  /\ UNCHANGED <<day, problems, candidates, classPlan, nodes, relations, overlapped>>

InsertQuestion(e) ==
  /\ Now(e, "insert") /\ ~TablesLocked
  /\ problems' = [q \in Problems |->
       IF q \in calls[e].ids /\ problems[q] = Absent THEN calls[e].view ELSE problems[q]]
  /\ CallEnds(e)
  /\ UNCHANGED <<day, candidates, classPlan, nodes, relations, overlapped>>

\* A copy is a draft with the choice and the concepts of its source, which stays locked
\* meanwhile; nothing compares the answer with the options again.
BatchDuplicate(source, copy) ==
  /\ source \in Live /\ Free(source) /\ ~TablesLocked /\ problems[copy] = Absent
  /\ problems' = [problems EXCEPT ![copy] = [problems[source] EXCEPT !.status = "draft"]]
  /\ overlapped' = overlapped \cup IF source \in overlapped THEN {copy} ELSE {}
  /\ UNCHANGED <<day, candidates, classPlan, nodes, relations, calls>>

-----------------------------------------------------------------------------
(* Editing and deleting.                                                   *)

Merged(question, change) ==
  [field \in DOMAIN question |-> IF change[field] # Unset THEN change[field] ELSE question[field]]
TouchesChoice(change) ==
  change.options # Unset \/ change.answer # Unset \/ change.status = "published"

\* mutant: new options are not compared with the stored answer
OnlyAnswersTouch(change) == change.answer # Unset

\* The answer is compared with the options as the update would leave them, on a read
\* without a lock, and is written with them.
NormalizedChoice(question, change) ==
  IF TouchesChoice(change) THEN [change EXCEPT !.answer = Merged(question, change).answer] ELSE change
ValidChoice(question, change) ==
  TouchesChoice(change) => Merged(question, change).answer \in Merged(question, change).options

UpdateQuestion(e, q, change) ==
  /\ Now(e, "nothing") /\ q \in Live /\ ValidChoice(problems[q], change)
  /\ change.concepts # Unset => RequireConceptIDs(change.concepts)
  /\ CallBecomes(e, [IdleCall EXCEPT !.doing = "update", !.ids = {q}, !.view = problems[q],
                                 !.change = NormalizedChoice(problems[q], change)])
  /\ UNCHANGED <<day, problems, candidates, classPlan, nodes, relations, overlapped>>

DeleteQuestions(e, ids) ==
  /\ Now(e, "nothing") /\ ids \cap Live # {}
  /\ CallBecomes(e, [IdleCall EXCEPT !.doing = "delete", !.ids = ids])
  /\ UNCHANGED <<day, problems, candidates, classPlan, nodes, relations, overlapped>>

\* loadQuestionForUpdate, and the ordered FOR UPDATE of batchDelete.
LoadQuestionForUpdate(e) ==
  /\ calls[e].doing \in {"update", "delete"} /\ calls[e].holds = {}
  /\ \A q \in calls[e].ids : Free(q)
  /\ IF calls[e].ids \cap Live = {} THEN CallEnds(e)
     ELSE calls' = [calls EXCEPT ![e].holds = calls[e].ids \cap Live]
  /\ UNCHANGED <<day, problems, candidates, classPlan, nodes, relations, overlapped>>

HasFutureUniformSchedule(ids) == \E d \in PlanDays : d >= day /\ classPlan[d] \in ids
Refused(call) ==
  /\ call.doing = "delete" \/ call.change.status \notin {Unset, "published"}
  /\ HasFutureUniformSchedule(call.holds)

Holding(e, doing) == Now(e, doing) /\ calls[e].holds # {} /\ ~TablesLocked

\* The merge happens under the row lock, field by field.
WriteUpdate(e) ==
  /\ Holding(e, "update")
  /\ LET call == calls[e]
         q == CHOOSE x \in call.holds : TRUE
         Choice(question) == <<question.options, question.answer>>
     IN  IF Refused(call) THEN UNCHANGED <<problems, overlapped>>
         ELSE /\ problems' = [problems EXCEPT ![q] = Merged(@, call.change)]
              /\ overlapped' = IF ~TouchesChoice(call.change) THEN overlapped
                               ELSE IF Choice(problems[q]) = Choice(call.view) THEN overlapped \ {q}
                               ELSE overlapped \cup {q}
  /\ CallEnds(e)
  /\ UNCHANGED <<day, candidates, classPlan, nodes, relations>>

WriteDelete(e) ==
  /\ Holding(e, "delete")
  /\ problems' = [q \in Problems |->
       IF q \in calls[e].holds /\ ~Refused(calls[e]) THEN [problems[q] EXCEPT !.status = "deleted"]
       ELSE problems[q]]
  /\ CallEnds(e)
  /\ UNCHANGED <<day, candidates, classPlan, nodes, relations, overlapped>>

\* One statement over the live rows; it waits for the rows others hold.
AllPublished(ids) ==
  [q \in Problems |-> IF q \in ids \cap Live THEN [problems[q] EXCEPT !.status = "published"]
                       ELSE problems[q]]
BatchPublish(ids) ==
  /\ ids \cap Live # {} /\ ~TablesLocked /\ \A q \in ids : Free(q)
  /\ problems' = AllPublished(ids)
  /\ UNCHANGED <<day, candidates, classPlan, nodes, relations, calls, overlapped>>

\* INSERT ... SELECT: the status is compared again.
SetDailyCandidate(q, enabled) ==
  /\ candidates' = IF ~enabled THEN candidates \ {q}
                   ELSE IF problems[q].status = "published" THEN candidates \cup {q}
                   ELSE candidates
  /\ UNCHANGED <<day, problems, classPlan, nodes, relations, calls, overlapped>>

-----------------------------------------------------------------------------
(* The plan of the class, replaced from today or tomorrow on.              *)

\* The drafts and published questions among the wanted ones, locked in one statement.
LoadUniformScheduleContents(e, ids) ==
  /\ Now(e, "nothing") /\ \A x \in Calls : ~Now(x, "plan")   \* the class row
  /\ ids # {} /\ \A q \in ids : Free(q) /\ problems[q].status \in {"draft", "published"}
  /\ CallBecomes(e, [IdleCall EXCEPT !.doing = "plan", !.ids = ids, !.holds = ids])
  /\ UNCHANGED <<day, problems, candidates, classPlan, nodes, relations, overlapped>>

ReplaceClassUniformSchedule(e, wanted, start) ==
  /\ Holding(e, "plan") /\ start \in {day, day + 1}
  /\ DOMAIN wanted = {d \in PlanDays : d \in start..(start + Cardinality(calls[e].ids) - 1)}
  /\ {wanted[d] : d \in DOMAIN wanted} = calls[e].ids
  /\ problems' = AllPublished(calls[e].ids)
  /\ classPlan' = [d \in PlanDays |-> IF d < start THEN classPlan[d]
                                 ELSE IF d \in DOMAIN wanted THEN wanted[d] ELSE Unset]
  /\ CallEnds(e)
  /\ UNCHANGED <<day, candidates, nodes, relations, overlapped>>

NextDay ==
  /\ day < PlannedDays /\ day' = day + 1
  /\ UNCHANGED <<problems, candidates, classPlan, nodes, relations, calls, overlapped>>

-----------------------------------------------------------------------------
(* The knowledge graph.                                                    *)

CreateNode(n) ==
  /\ n \notin nodes /\ nodes' = nodes \cup {n}
  /\ UNCHANGED <<day, problems, candidates, classPlan, relations, calls, overlapped>>

CreateRelation(n, m) ==
  /\ n # m /\ {n, m} \subseteq nodes /\ relations' = relations \cup {<<n, m>>}
  /\ UNCHANGED <<day, problems, candidates, classPlan, nodes, calls, overlapped>>

DeleteRelation(n, m) ==
  /\ <<n, m>> \in relations /\ relations' = relations \ {<<n, m>>}
  /\ UNCHANGED <<day, problems, candidates, classPlan, nodes, calls, overlapped>>

\* The system's node cannot be deleted. Writers that have begun to write are waited for.
DeleteNode(e, n) ==
  /\ Now(e, "nothing") /\ n \in nodes \ {Uncategorized} /\ ~TablesLocked
  /\ CallBecomes(e, [IdleCall EXCEPT !.doing = "check node", !.node = n])
  /\ UNCHANGED <<day, problems, candidates, classPlan, nodes, relations, overlapped>>

\* Deleted questions keep their concepts and count as well.
KnowledgeNodeInUse(n) == \E q \in Problems : n \in problems[q].concepts
CheckNode(e) ==
  /\ Now(e, "check node")
  /\ IF calls[e].node \notin nodes \/ KnowledgeNodeInUse(calls[e].node) THEN CallEnds(e)
     ELSE calls' = [calls EXCEPT ![e].doing = "remove node"]
  /\ UNCHANGED <<day, problems, candidates, classPlan, nodes, relations, overlapped>>

RemoveNode(e) ==
  /\ Now(e, "remove node")
  /\ nodes' = nodes \ {calls[e].node}
  /\ relations' = {r \in relations : calls[e].node \notin {r[1], r[2]}}
  /\ CallEnds(e)
  /\ UNCHANGED <<day, problems, candidates, classPlan, overlapped>>

-----------------------------------------------------------------------------
Changes ==
  {[NoChange EXCEPT !.status = s] : s \in {"draft", "published", "archived"}}
    \cup {[NoChange EXCEPT !.options = o] : o \in SUBSET Options \ {{}}}
    \cup {[NoChange EXCEPT !.answer = a] : a \in Options}
    \cup {[NoChange EXCEPT !.concepts = c] : c \in SUBSET Concepts \ {{}}}

BankNext ==
  \/ NextDay
  \/ \E n \in Concepts : CreateNode(n) \/ \E m \in Concepts : CreateRelation(n, m) \/ DeleteRelation(n, m)
  \/ \E e \in Calls :
       \/ \E q \in Problems, c \in SUBSET Concepts :
            \E new \in NewQuestions(c) : CreateQuestion(e, q, new)
       \/ \E q \in Problems, c \in Changes : UpdateQuestion(e, q, c)
       \/ \E ids \in SUBSET Problems : DeleteQuestions(e, ids) \/ LoadUniformScheduleContents(e, ids)
       \/ InsertQuestion(e) \/ LoadQuestionForUpdate(e) \/ WriteUpdate(e) \/ WriteDelete(e)
       \/ \E start \in PlanDays : \E days \in SUBSET PlanDays :
            \E wanted \in [days -> Problems] : ReplaceClassUniformSchedule(e, wanted, start)
       \/ \E n \in Concepts : DeleteNode(e, n)
       \/ CheckNode(e) \/ RemoveNode(e)
  \/ \E q \in Problems : \E enabled \in BOOLEAN : SetDailyCandidate(q, enabled)
  \/ \E q \in Problems, x \in Problems : BatchDuplicate(q, x)
  \/ \E ids \in SUBSET Problems : BatchPublish(ids)

BankSpec == BankInit /\ [][BankNext]_bankVars

-----------------------------------------------------------------------------
BankTypeOK ==
  /\ day \in PlanDays /\ candidates \subseteq Problems /\ overlapped \subseteq Problems
  /\ problems \in [Problems -> [status : States, options : SUBSET Options,
                                  answer : Options \cup {Unset}, concepts : SUBSET Concepts]]
  /\ classPlan \in [PlanDays -> Problems \cup {Unset}] /\ nodes \subseteq Concepts
  /\ relations \subseteq Concepts \X Concepts
  /\ \A e \in Calls : calls[e].holds \subseteq Problems

(* What the students are to be given from today on is published and not deleted, *)
(* however saving the plan overlaps with archiving, taking back and deleting its *)
(* questions in other tabs (hasFutureUniformSchedule under the row locks).       *)
PlannedIsPublished ==
  \A d \in PlanDays : d >= day /\ classPlan[d] # Unset => problems[classPlan[d]].status = "published"

(* The answer of a multiple choice is one of its options, unless an update of the *)
(* choice was compared with a question that another update has changed since      *)
(* (normalizeMultipleChoiceUpdate reads without a lock), or it is a copy of such  *)
(* a question: the only ways.                                                    *)
ChoiceUnlessOverlapped ==
  \A q \in Live \ overlapped : problems[q].answer \in problems[q].options

(* No node disappears under a question that refers to it (DeleteNode).            *)
NodesInUseStay == [][\A n \in nodes \ nodes' : ~KnowledgeNodeInUse(n)']_bankVars

(* "Blocking their writers closes the validation/delete race" of DeleteNode: the  *)
(* concepts of every question exist.                                              *)
ConceptsExist == \A q \in Live : problems[q].concepts \subseteq nodes
=============================================================================
