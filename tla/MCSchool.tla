------------------------------ MODULE MCSchool ------------------------------
(***************************************************************************)
(* What a student meets at school, for TLC: the first chat with the model, *)
(* a channel to the teacher, the announcements, the class with its notices *)
(* and the teacher's question bank.  In the model they share no state: a   *)
(* behaviour plays one part of one module and leaves the others at rest.   *)
(***************************************************************************)
EXTENDS SessionFirstChat, Messages, Announcements, Classes, QuestionBank, TLC

CONSTANTS t1, g1, q1   \* members of Students, ClassIds, Problems

VARIABLE part   \* chosen by the initial state, never changed

Plays(parts) == part \in parts
Interchangeable == Permutations(Starts) \cup Permutations(Bodies)
ClockSkews == {-1, 0, 1}   \* a .cfg has no negative numbers

-----------------------------------------------------------------------------
(* The parts.                                                              *)

\* The client of the later chat may leave; those who start it stay.
FirstChatScene == \A r \in Starts : task'[r].cause = "none"

Channels == {"conversation", "thread"}

\* One cutoff is under way at a time, and none while the clock or the accounts change.
ChannelScene ==
  /\ Cardinality(handed'["student"]) + Cardinality(handed'["teacher"]) <= 1
  /\ dbClock' # dbClock \/ usable' # Sides => \A side \in Sides : handed'[side] = {}
  /\ part = "conversation" =>
       /\ channel'.kind # "thread" /\ taught' = taught
       /\ channel'.archived # {} => \A side \in Sides : handed'[side] = {}
       /\ usable' # Sides => Len(messages') <= 1
  /\ part = "thread" =>
       /\ channel'.kind # "conversation"
       /\ usable' # Sides \/ taught' # taught => Len(messages') = 0
       /\ channel'.judged > 0 => handed'["student"] = {} /\ channel'.status # "follow_up"

\* Two students' announcements, each of which keeps its kind.
AnnouncementScene ==
  \A a \in Announcements :
    LET row == announcements'[a] IN
    /\ row.audience # "teacher"
    /\ announcements[a].exists /\ row.exists => row.append = announcements[a].append

\* Students join one at a time while classes are disbanded and clocks differ; notices
\* to a class whose members and accounts change.
School == {"roster", "notice"}
ClassScene ==
  /\ skew # 0 => classes' \subseteq {g1}
  /\ \A s, t \in Students : s # t => "idle" \in {joining'[s].phase, joining'[t].phase}
  /\ part = "roster" => ~notice'.sent /\ activeStudents' = activeStudents
  /\ part = "notice" =>
       /\ time' = time
       /\ notice'.sent => g1 \in classes \cup {notice.class}
       /\ activeStudents' # activeStudents => ~notice.sent /\ \E s \in Students : activeStudents' = {s}
       /\ \A s \in Students : joining'[s].class # g1 => joining'[s].phase = "idle" \/ s = t1

\* Two calls save the plan and archive or delete its questions; change one choice;
\* give one problem concepts while nodes are deleted.
Bank == {"plan", "choice", "graph"}
BankScene ==
  /\ part = "plan" =>
       /\ nodes' = nodes /\ relations' = {}
       /\ \A q \in Problems : problems'[q].answer # "b" /\ problems'[q].concepts \subseteq {Uncategorized}
       /\ \A e \in Calls :
            /\ calls'[e].view.answer # "b" /\ calls'[e].view.concepts \subseteq {Uncategorized}
            /\ calls'[e].change.options = Unset /\ calls'[e].change.concepts = Unset
            /\ calls'[e].change.answer # "b" /\ calls'[e].change.status \in {Unset, "archived"}
            /\ calls'[e].doing = "insert" =>
                 calls'[e].ids = {q1} /\ \A x \in Calls \ {e} : calls'[x] = IdleCall
       /\ candidates' # {} => classPlan' = classPlan /\ candidates' = {q1}
       /\ candidates' \cup candidates # {} => \A e \in Calls : {calls[e], calls'[e]} = {IdleCall}
  /\ part # "plan" => classPlan' = classPlan /\ candidates' = {} /\ day' = day
                      /\ \A q \in Problems \ {q1} : problems'[q] = Absent
  /\ part = "choice" =>
       /\ nodes' = nodes /\ relations' = {}
       /\ \A q \in Problems : problems'[q].concepts \subseteq {Uncategorized}
       /\ \A e \in Calls :
            /\ calls'[e].doing # "delete" /\ calls'[e].view.concepts \subseteq {Uncategorized}
            /\ calls'[e].change.concepts = Unset /\ calls'[e].change.status \in {Unset, "published"}
  /\ part = "graph" =>
       /\ problems'[q1].answer # "b" /\ problems'[q1].status \in {"absent", "draft", "deleted"}
       /\ \A e \in Calls :
            /\ calls'[e].doing # "plan" /\ calls'[e].view.answer # "b"
            /\ calls'[e].change = [NoChange EXCEPT !.concepts = calls'[e].change.concepts]

-----------------------------------------------------------------------------
SchoolInit ==
  /\ part \in {"first chat", "announcements"} \cup Channels \cup School \cup Bank
  /\ ChatInit /\ MessageInit /\ AnnouncementInit /\ ClassInit /\ BankInit
  /\ part # "first chat" => \A r \in Starts, s \in Starts : body[r] = body[s]
  /\ part # "thread" => ~taught
  /\ \A u \in Readers : roleOf[u] = "student"
  /\ part # "roster" => skew = 0

SchoolNext ==
  /\ UNCHANGED part
  /\ IF part = "first chat" THEN ChatNext /\ FirstChatScene ELSE UNCHANGED chatVars
  /\ IF Plays(Channels) THEN MessageNext /\ ChannelScene ELSE UNCHANGED messageVars
  /\ IF part = "announcements" THEN AnnouncementNext /\ AnnouncementScene
     ELSE UNCHANGED announcementVars
  /\ IF Plays(School) THEN ClassNext /\ ClassScene ELSE UNCHANGED classVars
  /\ IF Plays(Bank) THEN BankNext /\ BankScene ELSE UNCHANGED bankVars

SchoolSpec == SchoolInit /\ [][SchoolNext]_<<part, chatVars, messageVars, announcementVars, classVars, bankVars>>

SchoolTypeOK == MessageTypeOK /\ AnnouncementTypeOK /\ ClassTypeOK /\ BankTypeOK

\* The invariants by concern, and what the steps bring about and never undo.
NewsAgree == MessagesHold /\ OneForAnAudience
ClassesAgree == RosterAgrees /\ PlannedIsPublished /\ ChoiceUnlessOverlapped
NewsIsSeen == NewMessageIsSeen /\ EditsAreShown
PastStands == PastIsSettled /\ NodesInUseStay
=============================================================================
