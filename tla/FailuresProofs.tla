--------------------------- MODULE FailuresProofs ---------------------------
(***************************************************************************)
(* What holds whatever fails and whoever comes in between, for every value *)
(* of the constants: the first chat of a session, the reminder queue and   *)
(* the guard of what students ask the models.                              *)
(***************************************************************************)
EXTENDS SessionFirstChat, WechatReminders, AIRiskGuard, FiniteSetTheorems, TLAPS

-----------------------------------------------------------------------------
(***************************************************************************)
(* One chat session, for any number of starts, later chats and stops, and  *)
(* any mixture of deletions, restarts and failing calls: one answer to the *)
(* first chat, nothing written under an open one, a charge exactly with a  *)
(* complete reply, a stored reply behind every stop that succeeded and no  *)
(* live claim behind a start that failed.                                  *)
(*                                                                         *)
(* The argument follows the rows (StepsOfTheRows says what a step can do   *)
(* to them): the reply comes with the completion of the row and lasts as   *)
(* long as the session (RepliesLast); a start that goes on has compared    *)
(* its question with the row it saw (Matched), and until the id is created *)
(* a second time that is the row there is (ViewsAgree); a chat goes ahead  *)
(* only behind a completed first chat (ChatsFollow); and a task knows      *)
(* whether it was stopped until the process restarts (StopKnown).          *)
(***************************************************************************)

\* Some places are for starts, some for chats.
PlacesSorted ==
  \A r \in ChatRequests :
    /\ place[r] \in {"create", "lookup", "replay", "message", "latest"} => r \in Starts
    /\ place[r] \in {"ask", "close"} => r \in Chats

\* A generation that has ended has an outcome.
OutcomesKnown == \A r \in ChatRequests : place[r] = "write" => out[r] \in Statuses

\* Rows come and go with their session, and the reply with the completion of the first chat.
RowsAgree ==
  /\ Exists <=> first # None
  /\ ~Exists => reply = None /\ \A c \in Chats : turns[c] = "none"
  /\ epoch = 0 => ~Exists
  /\ first # None => (first.done <=> reply # None)

ChatTyped == ChatTypeOK /\ PlacesSorted /\ OutcomesKnown

\* A row whose claim changes hands, is completed or runs out is still a row.
LEMMA RowsStayRows ==
  \A row \in FirstRow, r \in ChatRequests, live \in BOOLEAN :
    /\ [row EXCEPT !.live = live] \in FirstRow
    /\ [row EXCEPT !.token = r, !.live = TRUE] \in FirstRow
    /\ [row EXCEPT !.done = TRUE] \in FirstRow
BY DEF FirstRow

\* What CreateFirstChat inserts is a row.
LEMMA NewRowIsRow == ASSUME ChatTypeOK, NEW r \in Starts PROVE NewRow(r) \in FirstRow
BY DEF ChatTypeOK, NewRow, FirstRow, ChatRequests

\* So is one that is released, or not.
LEMMA ReleasedIsRow ==
  ASSUME NEW r \in ChatRequests, NEW row \in FirstRow \cup {None}, NEW new \in AfterRelease(r, row)
  PROVE  new \in FirstRow \cup {None}
<1>1. Released(r, row) \in FirstRow \cup {None}
  BY RowsStayRows DEF Released
<1>2. QED
  BY <1>1 DEF AfterRelease

\* A row that a replay takes over is a row.
LEMMA ClaimedIsRow ==
  ASSUME ChatTypeOK, first # None, NEW r \in ChatRequests PROVE Claimed(r) \in FirstRow
BY RowsStayRows DEF ChatTypeOK, Claimed

\* What storing the first reply does to the rows.
LEMMA StoredRows ==
  ASSUME ChatTypeOK, NEW r \in ChatRequests, NEW status \in Statuses, Stored(r, status)
  PROVE  /\ first # None /\ ~first.done /\ first.token = r /\ Exists
         /\ first' \in FirstRow /\ first' = [first EXCEPT !.done = TRUE]
         /\ reply' \in FirstMessage /\ reply' = [by |-> r, status |-> status]
         /\ usage' = usage \cup (IF status = "completed" THEN {FirstReply} ELSE {})
         /\ usage' \subseteq Chats \cup {FirstReply}
         /\ status = "completed" => FirstReply \notin usage
<1>1. first # None /\ ~first.done /\ first.token = r /\ Exists /\ first \in FirstRow
  BY DEF Stored, Fenced, ChatTypeOK
<1>2. first' \in FirstRow /\ first' = [first EXCEPT !.done = TRUE]
  BY <1>1, RowsStayRows DEF Stored
<1>3. reply' \in FirstMessage /\ reply' = [by |-> r, status |-> status]
  BY DEF Stored, FirstMessage
<1>4. QED
  BY <1>1, <1>2, <1>3 DEF Stored, Charged, ChatTypeOK

\* A generation that stores nothing leaves the reply and the quota alone.
LEMMA NotStoredRows ==
  ASSUME ChatTypeOK, NEW r \in ChatRequests, NotStored(r)
  PROVE  first' \in AfterRelease(r, first) /\ first' \in FirstRow \cup {None} /\ UNCHANGED <<reply, usage>>
BY ReleasedIsRow DEF NotStored, ReleaseClaim, ChatTypeOK

\* A task that is registered, fails or is forgotten is still a task.
LEMMA TasksStayTasks ==
  ASSUME ChatTypeOK, NEW r \in ChatRequests,
         \/ Registered(r) \/ Failed(r) \/ task' = task
         \/ task' = [task EXCEPT ![r].state = "none"]
  PROVE  task' \in [ChatRequests -> Task]
<1>1. task \in [ChatRequests -> Task]
  BY DEF ChatTypeOK
<1>2. [NoTask EXCEPT !.state = "open"] \in Task
  BY DEF NoTask, Task
<1>3. CASE Registered(r)
  BY <1>1, <1>2, <1>3 DEF Registered
<1>4. CASE Failed(r)
  BY <1>1, <1>4 DEF Failed, Task
<1>5. CASE task' = [task EXCEPT ![r].state = "none"]
  BY <1>1, <1>5 DEF Task
<1>6. QED
  BY <1>1, <1>3, <1>4, <1>5

\* Every action keeps each variable in its type.
LEMMA ChatKeepsType == ChatTyped /\ RowsAgree /\ [ChatNext]_chatVars => ChatTyped'
<1> SUFFICES ASSUME ChatTyped, RowsAgree, [ChatNext]_chatVars PROVE ChatTyped'
  OBVIOUS
<1> USE RequestAssumption
<1>0. ChatTypeOK /\ PlacesSorted /\ OutcomesKnown
  BY DEF ChatTyped
<1>t. \A r \in ChatRequests, p \in ChatPhases : [place EXCEPT ![r] = p] \in [ChatRequests -> ChatPhases]
  BY <1>0 DEF ChatTypeOK
\* A request moves on, and neither waits with an outcome nor takes another's place.
<1>m. ASSUME NEW r \in ChatRequests, NEW p \in ChatPhases, GoTo(r, p),
             p \in {"create", "lookup", "replay", "message", "latest"} => r \in Starts,
             p \in {"ask", "close"} => r \in Chats,
             p = "write" => out'[r] \in Statuses,
             \A q \in ChatRequests \ {r} : out'[q] = out[q]
      PROVE  place' \in [ChatRequests -> ChatPhases] /\ PlacesSorted' /\ OutcomesKnown'
  <2>1. place' \in [ChatRequests -> ChatPhases] /\ place'[r] = p /\ \A q \in ChatRequests \ {r} : place'[q] = place[q]
    BY <1>0, <1>m, <1>t DEF GoTo, ChatTypeOK
  <2>2. QED
    BY <1>0, <1>m, <2>1 DEF PlacesSorted, OutcomesKnown
<1> DEFINE Rest == /\ body' \in [Starts -> Bodies]
                   /\ session' \in {"none", "active", "ended"} /\ epoch' \in Nat
                   /\ first' \in FirstRow \cup {None} /\ reply' \in FirstMessage \cup {None}
                   /\ turns' \in [Chats -> Statuses \cup {"none", "asked"}]
                   /\ usage' \subseteq Chats \cup {FirstReply}
                   /\ view' \in [ChatRequests -> FirstRow \cup {None}]
                   /\ out' \in [ChatRequests -> Statuses \cup {"none"}]
                   /\ got' \in [Starts -> Answer \cup {None}]
                   /\ lease' \in [ChatRequests -> {"none", "held", "released", "lingering"}]
                   /\ task' \in [ChatRequests -> Task]
                   /\ stop' \in [Stops -> [on : ChatRequests \cup {None},
                         res : {"idle", "waiting", "stopped", "failed", "gone", "lost"}]]
             Moves == place' \in [ChatRequests -> ChatPhases] /\ PlacesSorted' /\ OutcomesKnown'
<1>q. Rest /\ Moves => ChatTyped'
  BY DEF ChatTyped, ChatTypeOK
<1>r. Rest <=> Rest
  OBVIOUS
<1>1. ASSUME NEW r \in Starts, StartChat(r), body' = body PROVE ChatTyped'
  <2>1. Rest
    BY <1>0, <1>1 DEF StartChat, ChatTypeOK, store
  <2>2. Moves
    BY <1>0, <1>1, <1>m DEF StartChat, ChatTypeOK, ChatRequests, ChatPhases, Running
  <2>3. QED
    BY <1>q, <2>1, <2>2
<1>2. ASSUME NEW r \in ChatRequests, Acquire(r), body' = body PROVE ChatTyped'
  <2>1. Rest
    BY <1>0, <1>2 DEF Acquire, ChatTypeOK, store
  <2>2. Moves
    BY <1>0, <1>2, <1>m DEF Acquire, AfterGuard, ChatTypeOK, ChatRequests, ChatPhases, Running
  <2>3. QED
    BY <1>q, <2>1, <2>2
<1>3. ASSUME NEW r \in ChatRequests, CreateConflicts(r), body' = body PROVE ChatTyped'
  <2>1. Rest
    BY <1>0, <1>3 DEF CreateConflicts, ChatTypeOK, store
  <2>2. Moves
    BY <1>0, <1>3, <1>m DEF CreateConflicts, PlacesSorted, ChatTypeOK, ChatRequests, ChatPhases, Running
  <2>3. QED
    BY <1>q, <2>1, <2>2
<1>4. ASSUME NEW r \in ChatRequests, LookupExisting(r), body' = body PROVE ChatTyped'
  <2>1. Rest
    BY <1>0, <1>4 DEF LookupExisting, ChatTypeOK, store
  <2>2. Moves
    BY <1>0, <1>4, <1>m DEF LookupExisting, PlacesSorted, ChatTypeOK, ChatRequests, ChatPhases, Running
  <2>3. QED
    BY <1>q, <2>1, <2>2
<1>5. ASSUME NEW r \in Starts, ReadRequest(r), body' = body PROVE ChatTyped'
  <2>1. Rest
    BY <1>0, <1>5 DEF ReadRequest, ChatTypeOK, store
  <2>2. Moves
    BY <1>0, <1>5, <1>m DEF ReadRequest, ChatTypeOK, ChatRequests, ChatPhases, Running
  <2>3. QED
    BY <1>q, <2>1, <2>2
<1>6. ASSUME NEW r \in ChatRequests, ReadMessage(r), body' = body PROVE ChatTyped'
  <2>1. Rest
    BY <1>0, <1>6 DEF ReadMessage, Got, Answer, FirstMessage, PlacesSorted, ChatTypeOK, store
  <2>2. Moves
    BY <1>0, <1>6, <1>m DEF ReadMessage, PlacesSorted, ChatTypeOK, ChatRequests, ChatPhases, Running
  <2>3. QED
    BY <1>q, <2>1, <2>2
<1>7. ASSUME NEW r \in ChatRequests, ReadLatest(r), body' = body PROVE ChatTyped'
  <2>1. Rest
    BY <1>0, <1>7 DEF ReadLatest, Got, Answer, FirstMessage, RowsAgree, PlacesSorted, ChatTypeOK, store
  <2>2. Moves
    BY <1>0, <1>7, <1>m DEF ReadLatest, PlacesSorted, ChatTypeOK, ChatRequests, ChatPhases, Running
  <2>3. QED
    BY <1>q, <2>1, <2>2
<1>8. ASSUME NEW r \in ChatRequests, ClaimRefused(r), body' = body PROVE ChatTyped'
  <2>1. Rest
    BY <1>0, <1>8 DEF ClaimRefused, ChatTypeOK, store
  <2>2. Moves
    BY <1>0, <1>8, <1>m DEF ClaimRefused, ChatTypeOK, ChatRequests, ChatPhases, Running
  <2>3. QED
    BY <1>q, <2>1, <2>2
<1>9. ASSUME NEW r \in Chats, ProcessChat(r), body' = body PROVE ChatTyped'
  <2>1. Rest
    BY <1>0, <1>9 DEF ProcessChat, ChatTypeOK, store
  <2>2. Moves
    BY <1>0, <1>9, <1>m DEF ProcessChat, ChatTypeOK, ChatRequests, ChatPhases, Running
  <2>3. QED
    BY <1>q, <2>1, <2>2
<1>10. ASSUME NEW r \in ChatRequests, AskQuestion(r), body' = body PROVE ChatTyped'
  <2>1. Rest
    <3>1. r \in Chats /\ turns' \in [Chats -> Statuses \cup {"none", "asked"}]
      BY <1>0, <1>10 DEF AskQuestion, PlacesSorted, ChatTypeOK
    <3>2. task' \in [ChatRequests -> Task]
      BY <1>0, <1>10, TasksStayTasks DEF AskQuestion
    <3>3. QED
      BY <1>0, <1>10, <3>1, <3>2 DEF AskQuestion, ChatTypeOK
  <2>2. Moves
    BY <1>0, <1>10, <1>m DEF AskQuestion, PlacesSorted, ChatTypeOK, ChatRequests, ChatPhases, Running
  <2>3. QED
    BY <1>q, <2>1, <2>2
<1>11. ASSUME NEW r \in ChatRequests, ClientLeaves(r), body' = body PROVE ChatTyped'
  <2>1. Rest
    BY <1>0, <1>11 DEF ClientLeaves, Task, ChatTypeOK, store
  <2>2. Moves
    BY <1>0, <1>11, <1>m DEF ClientLeaves, PlacesSorted, OutcomesKnown, ChatTypeOK, ChatRequests, ChatPhases, Running
  <2>3. QED
    BY <1>q, <2>1, <2>2
<1>12. ASSUME NEW r \in ChatRequests, FinishGeneration(r), body' = body PROVE ChatTyped'
  <2>1. Rest
    BY <1>0, <1>12 DEF FinishGeneration, Outcomes, Statuses, Task, ChatTypeOK, store
  <2>2. Moves
    BY <1>0, <1>12, <1>m DEF FinishGeneration, Outcomes, Statuses, ChatTypeOK, ChatRequests, ChatPhases, Running
  <2>3. QED
    BY <1>q, <2>1, <2>2
<1>13. ASSUME NEW r \in ChatRequests, WriteReply(r), body' = body PROVE ChatTyped'
  <2>1. Rest
    <3>1. r \in Chats /\ turns' \in [Chats -> Statuses \cup {"none", "asked"}]
      BY <1>0, <1>13 DEF WriteReply, OutcomesKnown, ChatTypeOK
    <3>2. usage' \subseteq Chats \cup {FirstReply}
      BY <1>0, <1>13, <3>1 DEF WriteReply, Charged, ChatTypeOK
    <3>3. task' \in [ChatRequests -> Task]
      BY <1>0, <1>13, TasksStayTasks DEF WriteReply
    <3>4. QED
      BY <1>0, <1>13, <3>1, <3>2, <3>3 DEF WriteReply, ChatTypeOK
  <2>2. Moves
    BY <1>0, <1>13, <1>m DEF WriteReply, ChatTypeOK, ChatRequests, ChatPhases, Running
  <2>3. QED
    BY <1>q, <2>1, <2>2
<1>14. ASSUME NEW r \in ChatRequests, ReleaseLease(r), body' = body PROVE ChatTyped'
  <2>1. Rest
    BY <1>0, <1>14 DEF ReleaseLease, Ends, ChatTypeOK, store
  <2>2. Moves
    BY <1>0, <1>14, <1>m DEF ReleaseLease, ChatTypeOK, ChatRequests, ChatPhases, Running
  <2>3. QED
    BY <1>q, <2>1, <2>2
<1>15. ASSUME NEW r \in ChatRequests, FinishTask(r), body' = body PROVE ChatTyped'
  <2>1. Rest
    BY <1>0, <1>15 DEF FinishTask, Task, ChatTypeOK, store
  <2>2. Moves
    BY <1>0, <1>15, <1>m DEF FinishTask, ChatTypeOK, ChatRequests, ChatPhases, Running
  <2>3. QED
    BY <1>q, <2>1, <2>2
<1>16. ASSUME NEW r \in ChatRequests, Fails(r), body' = body PROVE ChatTyped'
  <2>1. Rest
    BY <1>0, <1>16 DEF Fails, ChatTypeOK, store
  <2>2. Moves
    BY <1>0, <1>16, <1>m DEF Fails, ChatTypeOK, ChatRequests, ChatPhases, Running
  <2>3. QED
    BY <1>q, <2>1, <2>2
<1>17. ASSUME NEW r \in ChatRequests, ForgetStopped(r), body' = body PROVE ChatTyped'
  <2>1. Rest
    BY <1>0, <1>17, TasksStayTasks DEF ForgetStopped, ChatTypeOK, store
  <2>2. Moves
    BY <1>0, <1>17, <1>m DEF ForgetStopped, PlacesSorted, OutcomesKnown, ChatTypeOK, ChatRequests, ChatPhases, Running
  <2>3. QED
    BY <1>q, <2>1, <2>2
<1>18. ASSUME NEW r \in ChatRequests, CreateFirstChat(r), body' = body PROVE ChatTyped'
  <2>1. Rest
    <3>1. r \in Starts
      BY <1>0, <1>18 DEF CreateFirstChat, PlacesSorted
    <3>2. first' \in FirstRow \cup {None}
      <4>1. NewRow(r) \in FirstRow
        BY <1>0, <3>1, NewRowIsRow
      <4>2. first' = NewRow(r) \/ first' \in AfterRelease(r, NewRow(r)) \/ first' = first
        BY <1>18 DEF CreateFirstChat, ReleaseClaim
      <4>3. QED
        BY <1>0, <4>1, <4>2, ReleasedIsRow DEF ChatTypeOK
    <3>3. task' \in [ChatRequests -> Task]
      BY <1>0, <1>18, TasksStayTasks DEF CreateFirstChat
    <3>4. session' \in {"none", "active", "ended"} /\ epoch' \in Nat
      BY <1>0, <1>18 DEF CreateFirstChat, ChatTypeOK
    <3>5. QED
      BY <1>0, <1>18, <3>2, <3>3, <3>4 DEF CreateFirstChat, ChatTypeOK
  <2>2. Moves
    BY <1>0, <1>18, <1>m DEF CreateFirstChat, ChatTypeOK, ChatRequests, ChatPhases, Running
  <2>3. QED
    BY <1>q, <2>1, <2>2
<1>19. ASSUME NEW r \in ChatRequests, ClaimFirstChat(r), body' = body PROVE ChatTyped'
  <2>1. Rest
    <3>1. Claimed(r) \in FirstRow
      BY <1>0, <1>19, ClaimedIsRow DEF ClaimFirstChat, Claimable
    <3>2. first' \in {Claimed(r), first} \cup AfterRelease(r, Claimed(r))
      BY <1>19 DEF ClaimFirstChat
    <3>3. first' \in FirstRow \cup {None}
      BY <1>0, <3>1, <3>2, ReleasedIsRow DEF ChatTypeOK
    <3>4. QED
      BY <1>0, <1>19, <3>3 DEF ClaimFirstChat, ChatTypeOK
  <2>2. Moves
    BY <1>0, <1>19, <1>m DEF ClaimFirstChat, ChatTypeOK, ChatRequests, ChatPhases, Running
  <2>3. QED
    BY <1>q, <2>1, <2>2
<1>20. ASSUME NEW r \in ChatRequests, ListMessages(r), body' = body PROVE ChatTyped'
  <2>1. Rest
    <3>1. first' \in FirstRow \cup {None}
      BY <1>0, <1>20, ReleasedIsRow DEF ListMessages, ReleaseClaim, ChatTypeOK
    <3>2. task' \in [ChatRequests -> Task]
      BY <1>0, <1>20, TasksStayTasks DEF ListMessages
    <3>3. QED
      BY <1>0, <1>20, <3>1, <3>2 DEF ListMessages, ChatTypeOK
  <2>2. Moves
    BY <1>0, <1>20, <1>m DEF ListMessages, ChatTypeOK, ChatRequests, ChatPhases, Running
  <2>3. QED
    BY <1>q, <2>1, <2>2
<1>21. ASSUME NEW r \in ChatRequests, CloseExpiredFirstChat(r), body' = body PROVE ChatTyped'
  <2>1. Rest
    <3>1. Stored(r, "interrupted") \/ NotStored(r)
      BY <1>21 DEF CloseExpiredFirstChat
    <3>2. first' \in FirstRow \cup {None} /\ reply' \in FirstMessage \cup {None} /\ usage' \subseteq Chats \cup {FirstReply}
      <4>1. CASE Stored(r, "interrupted")
        BY <1>0, <4>1, StoredRows DEF Statuses
      <4>2. CASE NotStored(r)
        BY <1>0, <4>2, NotStoredRows DEF ChatTypeOK
      <4>3. QED
        BY <3>1, <4>1, <4>2
    <3>3. QED
      BY <1>0, <1>21, <3>2 DEF CloseExpiredFirstChat, ChatTypeOK
  <2>2. Moves
    BY <1>0, <1>21, <1>m DEF CloseExpiredFirstChat, ChatTypeOK, ChatRequests, ChatPhases, Running
  <2>3. QED
    BY <1>q, <2>1, <2>2
<1>22. ASSUME NEW r \in ChatRequests, WriteFirstReply(r), body' = body PROVE ChatTyped'
  <2>1. Rest
    <3>1. out[r] \in Statuses
      BY <1>0, <1>22 DEF WriteFirstReply, OutcomesKnown
    <3>2. Stored(r, out[r]) \/ NotStored(r) \/ UNCHANGED <<first, reply, usage>>
      BY <1>22 DEF WriteFirstReply
    <3>3. first' \in FirstRow \cup {None} /\ reply' \in FirstMessage \cup {None} /\ usage' \subseteq Chats \cup {FirstReply}
      <4>1. CASE Stored(r, out[r])
        BY <1>0, <3>1, <4>1, StoredRows
      <4>2. CASE NotStored(r)
        BY <1>0, <4>2, NotStoredRows DEF ChatTypeOK
      <4>3. QED
        BY <1>0, <3>2, <4>1, <4>2 DEF ChatTypeOK
    <3>4. task' \in [ChatRequests -> Task]
      BY <1>0, <1>22, TasksStayTasks DEF WriteFirstReply
    <3>5. got' \in [Starts -> Answer \cup {None}]
      BY <1>0, <1>22 DEF WriteFirstReply, Answers, Answer, ChatTypeOK
    <3>6. QED
      BY <1>0, <1>22, <3>3, <3>4, <3>5 DEF WriteFirstReply, ChatTypeOK
  <2>2. Moves
    BY <1>0, <1>22, <1>m DEF WriteFirstReply, ChatTypeOK, ChatRequests, ChatPhases, Running
  <2>3. QED
    BY <1>q, <2>1, <2>2
<1>23. ASSUME NEW s \in Stops, NEW r \in ChatRequests, CancelTask(s, r), body' = body PROVE ChatTyped'
  <2>1. task' \in [ChatRequests -> Task]
    BY <1>0, <1>23 DEF CancelTask, Task, ChatTypeOK
  <2>2. \E v \in {"gone", "stopped", "failed", "waiting"} : Result(s, r, v)
    BY <1>23 DEF CancelTask, Verdict
  <2>3. Rest
    BY <1>0, <1>23, <2>1, <2>2 DEF CancelTask, Result, ChatTypeOK, store
  <2>4. Moves
    BY <1>0, <1>23 DEF CancelTask, ChatTypeOK, PlacesSorted, OutcomesKnown
  <2>5. QED
    BY <1>q, <2>3, <2>4
<1>24. ASSUME NEW s \in Stops, StopReturns(s), body' = body PROVE ChatTyped'
  <2>1. Rest
    BY <1>0, <1>24 DEF StopReturns, Result, Verdict, ChatTypeOK, store
  <2>2. Moves
    BY <1>0, <1>24 DEF StopReturns, ChatTypeOK, PlacesSorted, OutcomesKnown
  <2>3. QED
    BY <1>q, <2>1, <2>2
<1>25. CASE (ClaimExpires \/ EndSession \/ DeleteSession) /\ body' = body
  <2>1. first' \in FirstRow \cup {None}
    <3>1. CASE ClaimExpires
      <4>1. first \in FirstRow /\ first' = [first EXCEPT !.live = FALSE]
        BY <1>0, <3>1 DEF ClaimExpires, ChatTypeOK
      <4>2. QED
        BY <4>1 DEF FirstRow
    <3>2. CASE EndSession \/ DeleteSession
      BY <1>0, <3>2 DEF EndSession, DeleteSession, ChatTypeOK
    <3>3. QED
      BY <1>25, <3>1, <3>2
  <2>2. session' \in {"none", "active", "ended"} /\ turns' \in [Chats -> Statuses \cup {"none", "asked"}]
        /\ reply' \in FirstMessage \cup {None}
    BY <1>0, <1>25 DEF ClaimExpires, EndSession, DeleteSession, ChatTypeOK
  <2>3. Rest
    BY <1>0, <1>25, <2>1, <2>2 DEF ClaimExpires, EndSession, DeleteSession, ChatTypeOK
  <2>4. Moves
    BY <1>0, <1>25 DEF ClaimExpires, EndSession, DeleteSession, ChatTypeOK, PlacesSorted, OutcomesKnown
  <2>5. QED
    BY <1>q, <2>3, <2>4
<1>26. CASE Restart /\ body' = body
  <2>1. Rest
    <3>1. task' \in [ChatRequests -> Task]
      BY <1>26 DEF Restart, NoTask, Task
    <3>2. stop' \in [Stops -> [on : ChatRequests \cup {None},
                         res : {"idle", "waiting", "stopped", "failed", "gone", "lost"}]]
      BY <1>0, <1>26 DEF Restart, ChatTypeOK
    <3>3. QED
      BY <1>0, <1>26, <3>1, <3>2 DEF Restart, ChatTypeOK, store
  <2>2. Moves
    BY <1>0, <1>26 DEF Restart, ChatTypeOK, ChatPhases, PlacesSorted, OutcomesKnown, Running
  <2>3. QED
    BY <1>q, <2>1, <2>2
<1>27. CASE UNCHANGED chatVars
  BY <1>0, <1>27 DEF chatVars, ChatTyped, ChatTypeOK, PlacesSorted, OutcomesKnown
<1>28. QED
  BY <1>1, <1>2, <1>3, <1>4, <1>5, <1>6, <1>7, <1>8, <1>9, <1>10, <1>11, <1>12, <1>13, <1>14, <1>15, <1>16, <1>17,
     <1>18, <1>19, <1>20, <1>21, <1>22, <1>23, <1>24, <1>25, <1>26, <1>27 DEF ChatNext, ChatStep

-----------------------------------------------------------------------------
(* The rows.                                                               *)

\* The claim changes hands or runs out: the question and its completion stay.
Reclaimed == /\ first # None /\ first' # None /\ first'.hash = first.hash /\ first'.done = first.done
             /\ first'.token = first.token \/ place[first'.token] = "claim"
             /\ UNCHANGED <<session, epoch, reply, turns, usage>>
\* The first reply is stored.
Completed(r, status) == /\ Exists /\ first # None /\ ~first.done /\ first.token = r
                        /\ first' = [first EXCEPT !.done = TRUE] /\ first' # None
                        /\ reply' = [by |-> r, status |-> status] /\ reply' # None
                        /\ usage' = usage \cup (IF status = "completed" THEN {FirstReply} ELSE {})
                        /\ status = "completed" => FirstReply \notin usage
                        /\ UNCHANGED <<session, epoch, turns>>
\* A session comes into being, with its claim.
Created(r) == /\ ~Exists /\ session' = "active" /\ epoch' = epoch + 1
              /\ first' # None /\ first'.hash = body[r] /\ first'.token = r /\ ~first'.done
              /\ UNCHANGED <<reply, turns, usage>>
\* A later chat stores its question or its reply.
Turned(c) == /\ Exists /\ \A d \in Chats \ {c} : turns'[d] = turns[d]
             /\ UNCHANGED <<session, epoch, first, reply>>

\* A row that is released or kept is the same, but for its claim.
LEMMA ReleasedRow ==
  ASSUME ChatTypeOK, first # None, NEW r \in ChatRequests, NEW new \in AfterRelease(r, first)
  PROVE  /\ new # None /\ new.hash = first.hash /\ new.done = first.done /\ new.token = first.token
         /\ new.live => first.live
         /\ "release" \notin Troubles /\ first.token = r /\ ~first.done => ~new.live
<1>1. first \in FirstRow
  BY DEF ChatTypeOK
<1>2. new = first \/ new = [first EXCEPT !.live = FALSE]
  BY DEF AfterRelease, Released
<1>3. "release" \notin Troubles /\ first.token = r /\ ~first.done => new = [first EXCEPT !.live = FALSE]
  BY DEF AfterRelease, Released
<1>4. [first EXCEPT !.live = FALSE] \in FirstRow
  BY <1>1 DEF FirstRow
<1>5. QED
  BY <1>1, <1>2, <1>3, <1>4, NoRowAssumption DEF FirstRow

\* What a step does to the rows.
LEMMA StepsOfTheRows ==
  ASSUME ChatTyped, ChatTyped', [ChatNext]_chatVars
  PROVE  \/ UNCHANGED store
         \/ Reclaimed
         \/ \E r \in Starts : place[r] = "create" /\ Created(r)
         \/ \E r \in ChatRequests : Completed(r, out[r]) /\ place[r] = "write"
         \/ \E r \in ChatRequests : Completed(r, "interrupted") /\ place[r] = "close"
         \/ \E c \in Chats : Turned(c) /\ (AskQuestion(c) \/ WriteReply(c))
         \/ EndSession
         \/ DeleteSession
<1> DEFINE Goal == \/ UNCHANGED store
                   \/ Reclaimed
                   \/ \E r \in Starts : place[r] = "create" /\ Created(r)
                   \/ \E r \in ChatRequests : Completed(r, out[r]) /\ place[r] = "write"
                   \/ \E r \in ChatRequests : Completed(r, "interrupted") /\ place[r] = "close"
                   \/ \E c \in Chats : Turned(c) /\ (AskQuestion(c) \/ WriteReply(c))
                   \/ EndSession
                   \/ DeleteSession
<1> SUFFICES Goal
  OBVIOUS
<1>0. ChatTypeOK /\ PlacesSorted /\ OutcomesKnown
  BY DEF ChatTyped
<1>1. ASSUME NEW r \in ChatRequests, NotStored(r), first # None, UNCHANGED <<session, epoch, turns>> PROVE Goal
  BY <1>0, <1>1, NotStoredRows, ReleasedRow DEF Reclaimed
<1>2. ASSUME NEW r \in ChatRequests, NotStored(r), first = None, UNCHANGED <<session, epoch, turns>> PROVE Goal
  <2>1. first' = first
    BY <1>2 DEF NotStored, ReleaseClaim, AfterRelease, Released
  <2>2. QED
    BY <1>2, <2>1 DEF NotStored, store
<1>3. ASSUME NEW r \in ChatRequests, NEW status \in Statuses, Stored(r, status), UNCHANGED <<session, epoch, turns>>
      PROVE  Completed(r, status)
  BY <1>0, <1>3, StoredRows, NoRowAssumption DEF Completed
<1>4. ASSUME NEW r \in ChatRequests, WriteFirstReply(r) PROVE Goal
  <2>1. out[r] \in Statuses /\ place[r] = "write" /\ UNCHANGED <<session, epoch, turns>>
    BY <1>0, <1>4 DEF WriteFirstReply, OutcomesKnown
  <2>2. Stored(r, out[r]) \/ NotStored(r) \/ UNCHANGED <<first, reply, usage>>
    BY <1>4 DEF WriteFirstReply
  <2>3. QED
    BY <1>1, <1>2, <1>3, <2>1, <2>2 DEF store
<1>5. ASSUME NEW r \in ChatRequests, CloseExpiredFirstChat(r) PROVE Goal
  <2>1. place[r] = "close" /\ UNCHANGED <<session, epoch, turns>>
    BY <1>5 DEF CloseExpiredFirstChat
  <2>2. Stored(r, "interrupted") \/ NotStored(r)
    BY <1>5 DEF CloseExpiredFirstChat
  <2>3. QED
    BY <1>1, <1>2, <1>3, <2>1, <2>2 DEF Statuses
<1>6. ASSUME NEW r \in ChatRequests, CreateFirstChat(r) PROVE Goal
  <2>1. r \in Starts
    BY <1>0, <1>6 DEF CreateFirstChat, PlacesSorted
  <2>2. NewRow(r) \in FirstRow
    BY <1>0, <2>1, NewRowIsRow
  <2>3. CASE session' = "active" /\ epoch' = epoch + 1 /\ first' \in {NewRow(r)} \cup AfterRelease(r, NewRow(r))
    <3>1. first' = NewRow(r) \/ first' = [NewRow(r) EXCEPT !.live = FALSE]
      BY <2>3 DEF AfterRelease, Released
    <3>2. first' # None
      BY <2>2, <3>1, NoRowAssumption DEF FirstRow
    <3>3. first'.hash = body[r] /\ first'.token = r /\ ~first'.done
      BY <3>1 DEF NewRow
    <3>4. QED
      BY <1>6, <2>1, <2>3, <3>2, <3>3 DEF CreateFirstChat, Created
  <2>4. CASE UNCHANGED <<session, epoch, first>>
    BY <1>6, <2>4 DEF CreateFirstChat, store
  <2>5. QED
    BY <1>6, <2>3, <2>4 DEF CreateFirstChat, ReleaseClaim
<1>7. ASSUME NEW r \in ChatRequests, ClaimFirstChat(r) PROVE Goal
  <2>1. first # None /\ first \in FirstRow /\ UNCHANGED <<session, epoch, reply, turns, usage>>
    BY <1>0, <1>7 DEF ClaimFirstChat, Claimable, ChatTypeOK
  <2>2. first' = first \/ first' = Claimed(r) \/ first' = [Claimed(r) EXCEPT !.live = FALSE]
    BY <1>7 DEF ClaimFirstChat, AfterRelease, Released
  <2>3. /\ first' \in FirstRow /\ first'.hash = first.hash /\ first'.done = first.done
        /\ first'.token \in {first.token, r} /\ place[r] = "claim"
    BY <1>7, <2>1, <2>2 DEF ClaimFirstChat, Claimed, FirstRow
  <2>4. QED
    BY <2>1, <2>3, NoRowAssumption DEF Reclaimed
<1>8. ASSUME NEW r \in ChatRequests, ListMessages(r) PROVE Goal
  <2>1. UNCHANGED <<session, epoch, reply, turns, usage>> /\ (first' = first \/ first' \in AfterRelease(r, first))
    BY <1>8 DEF ListMessages, ReleaseClaim
  <2>2. CASE first = None
    BY <2>1, <2>2 DEF AfterRelease, Released, store
  <2>3. CASE first # None
    BY <1>0, <2>1, <2>3, ReleasedRow DEF Reclaimed
  <2>4. QED
    BY <2>2, <2>3
<1>9. ASSUME NEW r \in ChatRequests, AskQuestion(r) PROVE Goal
  <2>1. r \in Chats
    BY <1>0, <1>9 DEF AskQuestion, PlacesSorted
  <2>2. CASE Exists /\ turns' = [turns EXCEPT ![r] = "asked"]
    BY <1>0, <1>9, <2>1, <2>2 DEF AskQuestion, Turned, ChatTypeOK
  <2>3. CASE UNCHANGED turns
    BY <1>9, <2>3 DEF AskQuestion, store
  <2>4. QED
    BY <1>9, <2>2, <2>3 DEF AskQuestion
<1>10. ASSUME NEW r \in ChatRequests, WriteReply(r) PROVE Goal
  <2>1. r \in Chats
    BY <1>10 DEF WriteReply
  <2>2. CASE Exists /\ turns' = [turns EXCEPT ![r] = out[r]]
    BY <1>0, <1>10, <2>1, <2>2 DEF WriteReply, Turned, ChatTypeOK
  <2>3. CASE UNCHANGED <<turns, usage>>
    BY <1>10, <2>3 DEF WriteReply, store
  <2>4. QED
    BY <1>10, <2>2, <2>3 DEF WriteReply
<1>11. CASE ClaimExpires
  <2>1. first # None /\ first \in FirstRow /\ first' = [first EXCEPT !.live = FALSE]
        /\ UNCHANGED <<session, epoch, reply, turns, usage>>
    BY <1>0, <1>11 DEF ClaimExpires, ChatTypeOK
  <2>2. first' \in FirstRow /\ first'.hash = first.hash /\ first'.done = first.done /\ first'.token = first.token
    BY <2>1 DEF FirstRow
  <2>3. QED
    BY <2>1, <2>2, NoRowAssumption DEF Reclaimed
<1>12. ASSUME NEW r \in ChatRequests,
              \/ Acquire(r) \/ CreateConflicts(r) \/ LookupExisting(r) \/ ReadMessage(r) \/ ReadLatest(r)
              \/ ClaimRefused(r) \/ FinishGeneration(r) \/ ReleaseLease(r) \/ FinishTask(r) \/ ReadRequest(r)
              \/ Fails(r) \/ ClientLeaves(r) \/ ForgetStopped(r) \/ StartChat(r) \/ ProcessChat(r)
       PROVE  Goal
  BY <1>12 DEF Acquire, CreateConflicts, LookupExisting, ReadMessage, ReadLatest, ClaimRefused, FinishGeneration,
     ReleaseLease, FinishTask, ReadRequest, Fails, ClientLeaves, ForgetStopped, StartChat, ProcessChat
<1>13. ASSUME NEW s \in Stops, StopReturns(s) \/ \E r \in ChatRequests : CancelTask(s, r) PROVE Goal
  BY <1>13 DEF StopReturns, CancelTask
<1>14. CASE Restart \/ UNCHANGED chatVars
  BY <1>14 DEF Restart, chatVars, store
<1>15. Starts \subseteq ChatRequests /\ Chats \subseteq ChatRequests
  BY DEF ChatRequests
<1>16. QED
  BY <1>4, <1>5, <1>6, <1>7, <1>8, <1>9, <1>10, <1>11, <1>12, <1>13, <1>14, <1>15 DEF ChatNext, ChatStep

\* RowsAgree is kept: the handlers that touch one of the rows touch the others with it.
LEMMA RowsStayAgreed ==
  ASSUME ChatTyped, ChatTyped', RowsAgree, [ChatNext]_chatVars PROVE RowsAgree'
<1>0. epoch \in Nat /\ (first # None => first \in FirstRow)
  BY DEF ChatTyped, ChatTypeOK
<1>1. CASE UNCHANGED store
  BY <1>1 DEF RowsAgree, Exists, store
<1>2. CASE Reclaimed
  BY <1>2 DEF RowsAgree, Exists, Reclaimed
<1>3. ASSUME NEW r \in Starts, Created(r) PROVE RowsAgree'
  BY <1>0, <1>3 DEF RowsAgree, Exists, Created
<1>4. ASSUME NEW r \in ChatRequests, NEW status, Completed(r, status) PROVE RowsAgree'
  BY <1>0, <1>4 DEF RowsAgree, Exists, Completed, FirstRow
<1>5. ASSUME NEW c \in Chats, Turned(c) PROVE RowsAgree'
  BY <1>5 DEF RowsAgree, Exists, Turned
<1>6. CASE EndSession
  BY <1>6 DEF RowsAgree, Exists, EndSession
<1>7. CASE DeleteSession
  BY <1>0, <1>7 DEF RowsAgree, Exists, DeleteSession
<1>8. QED
  BY <1>1, <1>2, <1>3, <1>4, <1>5, <1>6, <1>7, StepsOfTheRows

-----------------------------------------------------------------------------
(* Views and places.                                                       *)

\* Whoever is past its look at the session has seen one.
Past == {"claim", "list", "ask", "generate", "close", "write"}
SessionsSeen ==
  /\ \A r \in ChatRequests : place[r] \in Past => epoch >= 1
  /\ \A c \in Chats : place[c] = "guard" => epoch >= 1

\* A start that goes on has seen a row with its own question, which is still that of the row.
Compared == {"message", "latest", "claim", "list"}
Looking == Compared \cup {"guard", "idle"}
Matched ==
  \A r \in Starts :
    /\ place[r] \in Compared => view[r] # None
    /\ place[r] \in Looking /\ view[r] # None => view[r].hash = body[r]
ViewsAgree ==
  \A r \in Starts : view[r] # None =>
    epoch >= 1 /\ (epoch = 1 /\ first # None => view[r].hash = first.hash)

\* Until an id is created again its row keeps the question, and a completion.
LEMMA RowsLast ==
  ASSUME ChatTyped, ChatTyped', RowsAgree, [ChatNext]_chatVars
  PROVE  /\ epoch \in Nat /\ epoch' \in Nat /\ epoch' >= epoch
         /\ epoch' <= 1 /\ first' # None /\ epoch >= 1 =>
               epoch = 1 /\ first # None /\ first'.hash = first.hash /\ (first.done => first'.done)
<1> DEFINE Goal == /\ epoch' >= epoch
                   /\ epoch' <= 1 /\ first' # None /\ epoch >= 1 =>
                        epoch = 1 /\ first # None /\ first'.hash = first.hash /\ (first.done => first'.done)
<1>0. epoch \in Nat /\ epoch' \in Nat /\ (first # None => first \in FirstRow)
  BY DEF ChatTyped, ChatTypeOK
<1>1. CASE UNCHANGED store \/ EndSession \/ DeleteSession
  <2>1. UNCHANGED epoch /\ (first' = first \/ first' = None)
    BY <1>1 DEF store, EndSession, DeleteSession
  <2>2. Goal
    BY <1>0, <2>1
  <2>3. QED
    BY <1>0, <2>2
<1>2. CASE Reclaimed
  BY <1>0, <1>2 DEF Reclaimed
<1>3. ASSUME NEW r \in Starts, Created(r) PROVE Goal
  BY <1>0, <1>3 DEF Created
<1>4. ASSUME NEW r \in ChatRequests, NEW status, Completed(r, status) PROVE Goal
  BY <1>0, <1>4 DEF Completed, FirstRow
<1>5. ASSUME NEW c \in Chats, Turned(c) PROVE Goal
  BY <1>0, <1>5 DEF Turned
<1>6. QED
  BY <1>0, <1>1, <1>2, <1>3, <1>4, <1>5, StepsOfTheRows

\* A view is taken from the row, kept or given up.
LEMMA StepsOfTheViews ==
  ASSUME ChatTyped, [ChatNext]_chatVars, NEW q \in ChatRequests
  PROVE  body' = body /\ (view'[q] \in {view[q], None} \/ (view'[q] = first /\ UNCHANGED store))
<1>0. view \in [ChatRequests -> FirstRow \cup {None}] /\ Starts \subseteq ChatRequests /\ Chats \subseteq ChatRequests
  BY DEF ChatTyped, ChatTypeOK, ChatRequests
<1>1. body' = body
  BY DEF ChatNext, chatVars
<1>2. ASSUME NEW r \in ChatRequests, ReadRequest(r) \/ ProcessChat(r) \/ ReleaseLease(r)
      PROVE  view'[q] \in {view[q], None} \/ (view'[q] = first /\ UNCHANGED store)
  BY <1>0, <1>2 DEF ReadRequest, ProcessChat, ReleaseLease
<1>3. ASSUME NEW r \in ChatRequests,
             \/ Acquire(r) \/ CreateFirstChat(r) \/ CreateConflicts(r) \/ LookupExisting(r) \/ ReadMessage(r)
             \/ ReadLatest(r) \/ ClaimFirstChat(r) \/ ClaimRefused(r) \/ ListMessages(r)
             \/ CloseExpiredFirstChat(r) \/ FinishGeneration(r) \/ WriteFirstReply(r) \/ WriteReply(r)
             \/ FinishTask(r) \/ AskQuestion(r) \/ Fails(r) \/ ClientLeaves(r) \/ ForgetStopped(r) \/ StartChat(r)
      PROVE  view' = view
  BY <1>3 DEF Acquire, CreateFirstChat, CreateConflicts, LookupExisting, ReadMessage, ReadLatest, ClaimFirstChat,
     ClaimRefused, ListMessages, CloseExpiredFirstChat, FinishGeneration, WriteFirstReply, WriteReply, FinishTask,
     AskQuestion, Fails, ClientLeaves, ForgetStopped, StartChat
<1>4. ASSUME NEW s \in Stops, StopReturns(s) \/ \E r \in ChatRequests : CancelTask(s, r) PROVE view' = view
  BY <1>4 DEF StopReturns, CancelTask
<1>5. CASE ClaimExpires \/ EndSession \/ DeleteSession \/ Restart \/ UNCHANGED chatVars
  BY <1>1, <1>5 DEF ClaimExpires, EndSession, DeleteSession, Restart, store, chatVars
<1>6. QED
  BY <1>0, <1>1, <1>2, <1>3, <1>4, <1>5 DEF ChatNext, ChatStep

\* What a start has read of the row stays comparable with the row there is.
LEMMA ViewsStayAgreed ==
  ASSUME ChatTyped, ChatTyped', RowsAgree, ViewsAgree, [ChatNext]_chatVars PROVE ViewsAgree'
<1> SUFFICES ASSUME NEW r \in Starts, view'[r] # None
             PROVE  epoch' >= 1 /\ (epoch' = 1 /\ first' # None => view'[r].hash = first'.hash)
  BY DEF ViewsAgree
<1>0. epoch \in Nat /\ epoch' \in Nat /\ r \in ChatRequests
  BY RowsLast DEF ChatRequests
<1>1. CASE view'[r] = view[r]
  BY <1>0, <1>1, RowsLast DEF ViewsAgree
<1>2. CASE view'[r] = first /\ UNCHANGED store
  BY <1>0, <1>2 DEF RowsAgree, store
<1>3. QED
  BY <1>0, <1>1, <1>2, StepsOfTheViews

\* Requests go on only past what they have seen.
LEMMA PlacesStayMatched ==
  ASSUME ChatTyped, ChatTyped', RowsAgree, RowsAgree', ViewsAgree, SessionsSeen, Matched, [ChatNext]_chatVars
  PROVE  SessionsSeen' /\ Matched'
<1> DEFINE Goal == SessionsSeen' /\ Matched'
<1> SUFFICES Goal
  OBVIOUS
<1>0. /\ place \in [ChatRequests -> ChatPhases] /\ view \in [ChatRequests -> FirstRow \cup {None}]
      /\ Starts \subseteq ChatRequests /\ Chats \subseteq ChatRequests /\ Starts \cap Chats = {}
      /\ ChatRequests = Starts \cup Chats /\ PlacesSorted
  BY RequestAssumption DEF ChatTyped, ChatTypeOK, ChatRequests
<1>1. epoch \in Nat /\ epoch' \in Nat /\ epoch' >= epoch
  BY RowsLast
<1>2. body' = body
  BY DEF ChatNext, chatVars
\* One request moves on, and its view stays.
<1>3. ASSUME NEW r \in ChatRequests, NEW p, place' = [place EXCEPT ![r] = p], view' = view,
             p \in Past => epoch' >= 1, p = "guard" /\ r \in Chats => epoch' >= 1,
             p \in Compared /\ r \in Starts => view[r] # None,
             p \in Looking /\ r \in Starts /\ view[r] # None => view[r].hash = body[r]
      PROVE  Goal
  <2>1. place'[r] = p /\ \A q \in ChatRequests \ {r} : place'[q] = place[q]
    BY <1>0, <1>3
  <2>2. SessionsSeen'
    BY <1>0, <1>1, <1>3, <2>1 DEF SessionsSeen
  <2>3. Matched'
    BY <1>0, <1>2, <1>3, <2>1 DEF Matched
  <2>4. QED
    BY <2>2, <2>3
<1>4. ASSUME NEW r \in ChatRequests, NEW p \in {"finish", "closing", "done", "create", "lookup", "replay"},
             place' = [place EXCEPT ![r] = p], view' = view
      PROVE  Goal
  BY <1>3, <1>4 DEF Past, Compared, Looking
<1>5. ASSUME NEW r \in ChatRequests, Acquire(r) PROVE Goal
  <2>1. place[r] = "guard" /\ view' = view /\ epoch' = epoch
        /\ (place' = [place EXCEPT ![r] = AfterGuard(r)] \/ place' = [place EXCEPT ![r] = "finish"])
    BY <1>5 DEF Acquire, GoTo, store
  <2>2. CASE r \in Chats /\ place' = [place EXCEPT ![r] = "ask"]
    BY <1>0, <1>3, <2>1, <2>2 DEF SessionsSeen, Past, Compared, Looking
  <2>3. CASE r \in Starts /\ view[r] # None /\ place' = [place EXCEPT ![r] = "claim"]
    BY <1>0, <1>1, <1>3, <2>1, <2>3 DEF ViewsAgree, Matched, Past, Compared, Looking
  <2>4. QED
    BY <1>0, <1>4, <2>1, <2>2, <2>3 DEF AfterGuard
<1>6. ASSUME NEW r \in ChatRequests, CreateFirstChat(r) PROVE Goal
  <2>1. CASE epoch' = epoch + 1 /\ place' = [place EXCEPT ![r] = "generate"]
    <3>1. epoch' >= 1 /\ view' = view
      BY <1>1, <1>6, <2>1 DEF CreateFirstChat
    <3>2. QED
      BY <1>3, <2>1, <3>1 DEF Past, Compared, Looking
  <2>2. QED
    BY <1>4, <1>6, <2>1 DEF CreateFirstChat, GoTo
<1>7. ASSUME NEW r \in ChatRequests,
             CreateConflicts(r) \/ LookupExisting(r) \/ ReadLatest(r) \/ WriteFirstReply(r) \/ WriteReply(r)
             \/ FinishTask(r) \/ Fails(r)
      PROVE  Goal
  BY <1>4, <1>7 DEF CreateConflicts, LookupExisting, ReadLatest, WriteFirstReply, WriteReply, FinishTask, Fails, GoTo
<1>8. ASSUME NEW r \in Starts, StartChat(r) PROVE Goal
  <2>1. place[r] = "idle" /\ view' = view /\ \E p \in {"replay", "guard"} : place' = [place EXCEPT ![r] = p]
    BY <1>8 DEF StartChat, GoTo
  <2>2. CASE place' = [place EXCEPT ![r] = "guard"]
    <3>1. view[r] # None => view[r].hash = body[r]
      BY <2>1 DEF Matched, Looking
    <3>2. QED
      BY <1>0, <1>3, <2>1, <2>2, <3>1 DEF Past, Compared, Looking
  <2>3. QED
    BY <1>0, <1>4, <2>1, <2>2
<1>9. ASSUME NEW r \in ChatRequests, ReadMessage(r) PROVE Goal
  <2>1. /\ place[r] = "message" /\ view' = view /\ epoch' = epoch
        /\ \E p \in {"finish", "latest", "claim", "guard"} : place' = [place EXCEPT ![r] = p]
    BY <1>9 DEF ReadMessage, GoTo, store
  <2>2. r \in Starts /\ r \notin Chats /\ view[r] # None /\ view[r].hash = body[r] /\ epoch >= 1
    BY <1>0, <2>1 DEF PlacesSorted, Matched, ViewsAgree, Compared, Looking
  <2>3. QED
    BY <1>3, <2>1, <2>2
<1>10. ASSUME NEW r \in ChatRequests, ClaimFirstChat(r) \/ ClaimRefused(r) \/ ListMessages(r) PROVE Goal
  <2>1. /\ place[r] \in {"claim", "list"} /\ view' = view /\ epoch' = epoch
        /\ \E p \in {"finish", "latest", "list", "guard", "generate", "close"} :
              /\ place' = [place EXCEPT ![r] = p]
              /\ p = "guard" => r \notin Starts
    BY <1>0, <1>10 DEF ClaimFirstChat, ClaimRefused, ListMessages, GoTo, store
  <2>2. epoch >= 1 /\ (r \in Starts => view[r] # None /\ view[r].hash = body[r])
    BY <2>1 DEF SessionsSeen, Matched, Past, Compared, Looking
  <2>3. QED
    BY <1>3, <2>1, <2>2
<1>11. ASSUME NEW r \in ChatRequests, CloseExpiredFirstChat(r) \/ FinishGeneration(r) \/ AskQuestion(r) PROVE Goal
  <2>1. /\ place[r] \in {"close", "generate", "ask"} /\ view' = view /\ epoch' = epoch
        /\ \E p \in {"finish", "guard", "write", "generate"} :
              /\ place' = [place EXCEPT ![r] = p]
              /\ p = "guard" => r \in Chats
    BY <1>0, <1>11 DEF CloseExpiredFirstChat, FinishGeneration, AskQuestion, GoTo, store, PlacesSorted
  <2>2. epoch >= 1
    BY <2>1 DEF SessionsSeen, Past
  <2>3. QED
    BY <1>0, <1>3, <2>1, <2>2 DEF Compared, Looking
<1>12. ASSUME NEW r \in Starts, ReadRequest(r) PROVE Goal
  <2>1. /\ place[r] = "replay" /\ view' = [view EXCEPT ![r] = first] /\ epoch' = epoch
        /\ \E p \in {"finish", "message"} :
              /\ place' = [place EXCEPT ![r] = p]
              /\ p = "message" => first # None /\ first.hash = body[r]
    BY <1>12 DEF ReadRequest, GoTo, store
  <2>2. /\ place'[r] \in {"finish", "message"} /\ \A q \in ChatRequests \ {r} : place'[q] = place[q]
        /\ view'[r] = first /\ \A q \in ChatRequests \ {r} : view'[q] = view[q]
        /\ place'[r] = "message" => first # None /\ first.hash = body[r]
    BY <1>0, <2>1
  <2>3. SessionsSeen'
    BY <1>0, <2>1, <2>2 DEF SessionsSeen, Past
  <2>4. Matched'
    BY <1>0, <1>2, <2>2 DEF Matched, Compared, Looking
  <2>5. QED
    BY <2>3, <2>4
<1>13. ASSUME NEW c \in Chats, ProcessChat(c) PROVE Goal
  <2>1. /\ epoch' = epoch /\ place'[c] \in {"finish", "claim", "guard"}
        /\ place'[c] # "finish" => session = "active"
        /\ \A q \in ChatRequests \ {c} : place'[q] = place[q] /\ view'[q] = view[q]
    BY <1>0, <1>13 DEF ProcessChat, GoTo, store
  <2>2. place'[c] # "finish" => epoch >= 1
    BY <1>1, <2>1 DEF RowsAgree, Exists
  <2>3. SessionsSeen'
    BY <1>0, <2>1, <2>2 DEF SessionsSeen, Past
  <2>4. Matched'
    BY <1>0, <1>2, <2>1 DEF Matched
  <2>5. QED
    BY <2>3, <2>4
<1>14. ASSUME NEW r \in ChatRequests, ReleaseLease(r) PROVE Goal
  <2>1. /\ epoch' = epoch /\ place'[r] = "closing"
        /\ \A q \in ChatRequests \ {r} : place'[q] = place[q] /\ view'[q] = view[q]
    BY <1>0, <1>14 DEF ReleaseLease, GoTo, store
  <2>2. SessionsSeen'
    BY <1>0, <2>1 DEF SessionsSeen, Past
  <2>3. Matched'
    BY <1>0, <1>2, <2>1 DEF Matched, Compared, Looking
  <2>4. QED
    BY <2>2, <2>3
<1>15. ASSUME \A q \in ChatRequests : place'[q] \in {place[q], "lost"}, view' = view PROVE Goal
  <2>1. SessionsSeen'
    BY <1>0, <1>1, <1>15 DEF SessionsSeen, Past
  <2>2. Matched'
    BY <1>0, <1>2, <1>15 DEF Matched, Compared, Looking
  <2>3. QED
    BY <2>1, <2>2
<1>16. ASSUME NEW r \in ChatRequests, ClientLeaves(r) \/ ForgetStopped(r) PROVE Goal
  BY <1>15, <1>16 DEF ClientLeaves, ForgetStopped
<1>17. ASSUME NEW s \in Stops, StopReturns(s) \/ \E r \in ChatRequests : CancelTask(s, r) PROVE Goal
  BY <1>15, <1>17 DEF StopReturns, CancelTask
<1>18. CASE ClaimExpires \/ EndSession \/ DeleteSession \/ Restart \/ UNCHANGED chatVars
  BY <1>15, <1>18 DEF ClaimExpires, EndSession, DeleteSession, Restart, chatVars
<1>19. QED
  BY <1>5, <1>6, <1>7, <1>8, <1>9, <1>10, <1>11, <1>12, <1>13, <1>14, <1>15, <1>16, <1>17, <1>18, <1>0 DEF ChatNext, ChatStep

-----------------------------------------------------------------------------
(* The open first chat.                                                    *)

\* A later chat that goes on has seen the first chat completed, and only then leaves messages.
Ahead == {"guard", "ask", "generate", "write"}
ChatsFollow ==
  epoch <= 1 /\ first # None =>
    /\ \A c \in Chats : place[c] \in Ahead => first.done
    /\ ~first.done => \A c \in Chats : turns[c] = "none"

\* A later chat gets ahead only with a completed first chat.
LEMMA StepsAhead ==
  ASSUME ChatTyped, ChatTyped', RowsAgree, [ChatNext]_chatVars, NEW c \in Chats,
         place'[c] \in Ahead, place[c] \notin Ahead, first' # None
  PROVE  first'.done
<1>0. /\ place \in [ChatRequests -> ChatPhases] /\ Starts \cap Chats = {} /\ c \in ChatRequests
      /\ Starts \subseteq ChatRequests /\ Chats \subseteq ChatRequests /\ ChatTypeOK /\ PlacesSorted /\ c \notin Starts
  BY RequestAssumption DEF ChatTyped, ChatTypeOK, ChatRequests
<1>1. CASE ProcessChat(c)
  BY <1>0, <1>1 DEF ProcessChat, GoTo, Ahead, store, RowsAgree, Exists
<1>2. CASE ClaimRefused(c)
  BY <1>0, <1>2 DEF ClaimRefused, GoTo, Ahead, store
<1>3. CASE ListMessages(c)
  <2>1. place'[c] = "guard" /\ first # None /\ first.done /\ (first' \in AfterRelease(c, first) \/ first' = first)
    BY <1>0, <1>3 DEF ListMessages, GoTo, Ahead, ReleaseClaim
  <2>2. QED
    BY <1>0, <2>1, ReleasedRow
<1>4. CASE CloseExpiredFirstChat(c)
  <2>1. place'[c] = "guard" /\ (Stored(c, "interrupted") \/ (NotStored(c) /\ first # None /\ first.done))
    BY <1>0, <1>4 DEF CloseExpiredFirstChat, GoTo, Ahead
  <2>2. CASE Stored(c, "interrupted")
    <3>1. first # None /\ first \in FirstRow /\ first' = [first EXCEPT !.done = TRUE]
      BY <1>0, <2>2, StoredRows DEF Statuses, ChatTypeOK
    <3>2. QED
      BY <3>1 DEF FirstRow
  <2>3. CASE NotStored(c) /\ first # None /\ first.done
    BY <1>0, <2>3, NotStoredRows, ReleasedRow
  <2>4. QED
    BY <2>1, <2>2, <2>3
<1>5. ASSUME \/ Acquire(c) \/ CreateFirstChat(c) \/ CreateConflicts(c) \/ LookupExisting(c) \/ ReadMessage(c)
             \/ ReadLatest(c) \/ ClaimFirstChat(c) \/ FinishGeneration(c) \/ WriteFirstReply(c) \/ WriteReply(c)
             \/ ReleaseLease(c) \/ FinishTask(c) \/ AskQuestion(c) \/ Fails(c)
      PROVE  FALSE
  BY <1>0, <1>5 DEF Acquire, CreateFirstChat, CreateConflicts, LookupExisting, ReadMessage, ReadLatest, ClaimFirstChat,
     FinishGeneration, WriteFirstReply, WriteReply, ReleaseLease, FinishTask, AskQuestion, Fails, GoTo, Ahead,
     PlacesSorted
<1>6. ASSUME NEW r \in ChatRequests \ {c}, \E p : GoTo(r, p) PROVE FALSE
  BY <1>0, <1>6 DEF GoTo
<1>7. ASSUME NEW r \in ChatRequests \ {c}, ChatStep(r) \/ Fails(r) \/ (r \in Starts /\ StartChat(r)) \/ ProcessChat(r)
      PROVE  FALSE
  <2>1. \E p : GoTo(r, p)
    BY <1>7 DEF ChatStep, Acquire, CreateFirstChat, CreateConflicts, LookupExisting, ReadMessage, ReadLatest,
       ClaimFirstChat, ClaimRefused, ListMessages, CloseExpiredFirstChat, FinishGeneration, WriteFirstReply,
       WriteReply, ReleaseLease, FinishTask, AskQuestion, ReadRequest, Fails, StartChat, ProcessChat
  <2>2. QED
    BY <1>6, <2>1
<1>8. ASSUME \/ \E r \in ChatRequests : ClientLeaves(r) \/ ForgetStopped(r)
             \/ \E s \in Stops : StopReturns(s) \/ \E r \in ChatRequests : CancelTask(s, r)
             \/ ClaimExpires \/ EndSession \/ DeleteSession \/ UNCHANGED chatVars
      PROVE  FALSE
  <2>1. place' = place
    BY <1>8 DEF ClientLeaves, ForgetStopped, StopReturns, CancelTask, ClaimExpires, EndSession, DeleteSession, chatVars
  <2>2. QED
    BY <2>1
<1>9. CASE Restart
  BY <1>0, <1>9 DEF Restart, Ahead
<1>10. QED
  BY <1>0, <1>1, <1>2, <1>3, <1>4, <1>5, <1>7, <1>8, <1>9 DEF ChatNext, ChatStep

\* ChatsFollow is kept: a chat goes ahead only after the first reply.
LEMMA ChatsStayBehind ==
  ASSUME ChatTyped, ChatTyped', RowsAgree, SessionsSeen, ChatsFollow, [ChatNext]_chatVars PROVE ChatsFollow'
<1> SUFFICES ASSUME epoch' <= 1, first' # None
             PROVE  /\ \A c \in Chats : place'[c] \in Ahead => first'.done
                    /\ ~first'.done => \A c \in Chats : turns'[c] = "none"
  BY DEF ChatsFollow
<1>0. /\ epoch \in Nat /\ epoch' \in Nat /\ epoch' >= epoch /\ Chats \subseteq ChatRequests
      /\ epoch >= 1 => epoch = 1 /\ first # None /\ first'.hash = first.hash /\ (first.done => first'.done)
  BY RowsLast DEF ChatRequests
<1>1. ASSUME NEW c \in Chats, place'[c] \in Ahead PROVE first'.done
  <2>1. CASE place[c] \in Ahead
    <3>1. epoch >= 1
      BY <1>0, <2>1 DEF Ahead, SessionsSeen, Past
    <3>2. QED
      BY <1>0, <2>1, <3>1 DEF ChatsFollow
  <2>2. QED
    BY <1>1, <2>1, StepsAhead
<1>2. ASSUME ~first'.done, NEW c \in Chats PROVE turns'[c] = "none"
  <2>1. CASE UNCHANGED store \/ Reclaimed \/ EndSession
    <3>1. UNCHANGED <<epoch, turns>> /\ first # None /\ ~first.done
      BY <1>2, <2>1 DEF store, Reclaimed, EndSession
    <3>2. QED
      BY <3>1 DEF ChatsFollow
  <2>2. ASSUME NEW r \in Starts, Created(r) PROVE turns'[c] = "none"
    BY <2>2 DEF Created, RowsAgree
  <2>3. ASSUME NEW r \in ChatRequests, NEW status, Completed(r, status) PROVE FALSE
    <3>1. first \in FirstRow /\ first' = [first EXCEPT !.done = TRUE]
      BY <2>3 DEF Completed, ChatTyped, ChatTypeOK
    <3>2. QED
      BY <1>2, <3>1 DEF FirstRow
  <2>4. ASSUME NEW d \in Chats, Turned(d), AskQuestion(d) \/ WriteReply(d) PROVE FALSE
    <3>1. place[d] \in Ahead /\ UNCHANGED <<epoch, first>>
      BY <2>4 DEF Turned, AskQuestion, WriteReply, Ahead
    <3>2. QED
      BY <1>2, <3>1 DEF ChatsFollow
  <2>5. CASE DeleteSession
    BY <2>5 DEF DeleteSession
  <2>6. QED
    BY <2>1, <2>2, <2>3, <2>4, <2>5, StepsOfTheRows
<1>3. QED
  BY <1>1, <1>2

-----------------------------------------------------------------------------
(* The answers.                                                            *)

\* Until the id is created again, claim and reply belong to the question of the row.
OwnQuestion ==
  epoch <= 1 /\ first # None =>
    /\ first.token \in Starts => body[first.token] = first.hash
    /\ reply # None /\ reply.by \in Starts => body[reply.by] = first.hash

\* What was handed out is the reply of its epoch.
AnswersStored ==
  \A r \in Starts : got[r] # None =>
    /\ got[r].epoch \in Nat /\ 1 <= got[r].epoch /\ got[r].epoch <= epoch
    /\ got[r].epoch = epoch /\ Exists => reply # None /\ reply.by = got[r].by

\* OwnQuestion is kept: a start completes only the row of its own question.
LEMMA QuestionsStayOwn ==
  ASSUME ChatTyped, ChatTyped', RowsAgree, ViewsAgree, Matched, OwnQuestion, [ChatNext]_chatVars PROVE OwnQuestion'
<1> SUFFICES ASSUME epoch' <= 1, first' # None
             PROVE  /\ first'.token \in Starts => body'[first'.token] = first'.hash
                    /\ reply' # None /\ reply'.by \in Starts => body'[reply'.by] = first'.hash
  BY DEF OwnQuestion
<1> DEFINE Goal == /\ first'.token \in Starts => body'[first'.token] = first'.hash
                   /\ reply' # None /\ reply'.by \in Starts => body'[reply'.by] = first'.hash
<1>0. /\ body' = body /\ epoch \in Nat /\ epoch' \in Nat /\ epoch' >= epoch
      /\ epoch' <= 1 /\ first' # None /\ epoch >= 1 => epoch = 1 /\ first # None
  BY RowsLast DEF ChatNext, chatVars
<1>1. CASE UNCHANGED store \/ EndSession \/ \E c \in Chats : Turned(c)
  <2>1. UNCHANGED <<epoch, first, reply>>
    BY <1>1 DEF store, EndSession, Turned
  <2>2. QED
    BY <1>0, <2>1 DEF OwnQuestion
<1>2. CASE Reclaimed
  <2>1. UNCHANGED <<epoch, reply>> /\ first # None /\ first'.hash = first.hash
    BY <1>2 DEF Reclaimed
  <2>2. CASE first'.token = first.token
    BY <1>0, <2>1, <2>2 DEF OwnQuestion
  <2>3. CASE place[first'.token] = "claim"
    <3>1. ASSUME first'.token \in Starts PROVE body[first'.token] = first.hash
      <4>1. view[first'.token] # None /\ view[first'.token].hash = body[first'.token]
        BY <2>3, <3>1 DEF Matched, Compared, Looking
      <4>2. epoch >= 1 /\ (epoch = 1 => view[first'.token].hash = first.hash)
        BY <2>1, <3>1, <4>1 DEF ViewsAgree
      <4>3. QED
        BY <1>0, <4>1, <4>2
    <3>2. QED
      BY <1>0, <2>1, <3>1 DEF OwnQuestion
  <2>4. QED
    BY <1>2, <2>2, <2>3 DEF Reclaimed
<1>3. ASSUME NEW r \in Starts, Created(r) PROVE Goal
  BY <1>0, <1>3 DEF Created, RowsAgree
<1>4. ASSUME NEW r \in ChatRequests, NEW status, Completed(r, status) PROVE Goal
  <2>1. first \in FirstRow /\ first' = [first EXCEPT !.done = TRUE] /\ first.token = r /\ epoch' = epoch
        /\ reply' = [by |-> r, status |-> status] /\ first # None
    BY <1>4 DEF Completed, ChatTyped, ChatTypeOK
  <2>2. first'.token = r /\ first'.hash = first.hash /\ reply'.by = r
    BY <2>1 DEF FirstRow
  <2>3. QED
    BY <1>0, <2>1, <2>2 DEF OwnQuestion
<1>5. CASE DeleteSession
  BY <1>5 DEF DeleteSession
<1>6. QED
  BY <1>1, <1>2, <1>3, <1>4, <1>5, StepsOfTheRows

\* A client gets the stored reply, at the moment it is read or stored.
LEMMA StepsOfTheAnswers ==
  ASSUME ChatTyped, ChatTyped', RowsAgree, [ChatNext]_chatVars, NEW q \in Starts, got'[q] # got[q]
  PROVE  /\ got'[q].by = reply'.by /\ got'[q].epoch = epoch' /\ epoch' = epoch /\ Exists' /\ reply' # None
         /\ \/ place[q] \in {"message", "latest"} /\ UNCHANGED store
            \/ reply'.by = q
<1> DEFINE Goal == /\ got'[q].by = reply'.by /\ got'[q].epoch = epoch' /\ epoch' = epoch /\ Exists' /\ reply' # None
                   /\ \/ place[q] \in {"message", "latest"} /\ UNCHANGED store
                      \/ reply'.by = q
<1>0. /\ got \in [Starts -> Answer \cup {None}] /\ Starts \subseteq ChatRequests /\ Chats \subseteq ChatRequests
      /\ ChatTypeOK /\ PlacesSorted /\ OutcomesKnown /\ q \in ChatRequests
  BY DEF ChatTyped, ChatTypeOK, ChatRequests
<1>1. ASSUME NEW r \in ChatRequests, ReadMessage(r) \/ ReadLatest(r) PROVE Goal
  <2>1. Got(r) /\ reply # None /\ UNCHANGED store /\ place[r] \in {"message", "latest"}
    BY <1>1 DEF ReadMessage, ReadLatest, RowsAgree, Exists
  <2>2. r = q /\ got'[q] = [by |-> reply.by, epoch |-> epoch]
    BY <1>0, <2>1 DEF Got
  <2>3. QED
    BY <2>1, <2>2 DEF store, RowsAgree, Exists
<1>2. ASSUME NEW r \in ChatRequests, WriteFirstReply(r) PROVE Goal
  <2>1. Stored(r, out[r]) /\ got' \in Answers(r) /\ UNCHANGED <<session, epoch>> /\ out[r] \in Statuses
    BY <1>0, <1>2 DEF WriteFirstReply, OutcomesKnown
  <2>2. r = q /\ got'[q] = [by |-> q, epoch |-> epoch]
    BY <1>0, <2>1 DEF Answers
  <2>3. Exists /\ reply' = [by |-> r, status |-> out[r]] /\ reply' # None
    BY <1>0, <2>1, StoredRows, NoRowAssumption
  <2>4. QED
    BY <2>1, <2>2, <2>3 DEF Exists
<1>3. ASSUME NEW r \in ChatRequests,
             \/ Acquire(r) \/ CreateFirstChat(r) \/ CreateConflicts(r) \/ LookupExisting(r) \/ ClaimFirstChat(r)
             \/ ClaimRefused(r) \/ ListMessages(r) \/ CloseExpiredFirstChat(r) \/ FinishGeneration(r)
             \/ WriteReply(r) \/ ReleaseLease(r) \/ FinishTask(r) \/ AskQuestion(r) \/ ReadRequest(r) \/ Fails(r)
             \/ ClientLeaves(r) \/ ForgetStopped(r) \/ StartChat(r) \/ ProcessChat(r)
      PROVE  got' = got
  BY <1>3 DEF Acquire, CreateFirstChat, CreateConflicts, LookupExisting, ClaimFirstChat, ClaimRefused, ListMessages,
     CloseExpiredFirstChat, FinishGeneration, WriteReply, ReleaseLease, FinishTask, AskQuestion, ReadRequest, Fails,
     ClientLeaves, ForgetStopped, StartChat, ProcessChat
<1>4. ASSUME NEW s \in Stops, StopReturns(s) \/ \E r \in ChatRequests : CancelTask(s, r) PROVE got' = got
  BY <1>4 DEF StopReturns, CancelTask
<1>5. ASSUME ClaimExpires \/ EndSession \/ DeleteSession \/ Restart \/ UNCHANGED chatVars PROVE got' = got
  BY <1>5 DEF ClaimExpires, EndSession, DeleteSession, Restart, chatVars
<1>6. QED
  BY <1>0, <1>1, <1>2, <1>3, <1>4, <1>5 DEF ChatNext, ChatStep

\* While the session lasts its reply stays.
LEMMA RepliesLast ==
  ASSUME ChatTyped, ChatTyped', RowsAgree, [ChatNext]_chatVars, epoch' = epoch, Exists'
  PROVE  Exists /\ (reply # None => reply' = reply)
<1>0. epoch \in Nat
  BY DEF ChatTyped, ChatTypeOK
<1>1. CASE UNCHANGED store \/ Reclaimed \/ EndSession \/ \E c \in Chats : Turned(c)
  BY <1>1 DEF store, Reclaimed, EndSession, Turned, Exists, RowsAgree
<1>2. ASSUME NEW r \in Starts, Created(r) PROVE FALSE
  BY <1>0, <1>2 DEF Created
<1>3. ASSUME NEW r \in ChatRequests, NEW status, Completed(r, status) PROVE Exists /\ reply = None
  BY <1>3 DEF Completed, RowsAgree
<1>4. CASE DeleteSession
  BY <1>4 DEF DeleteSession, Exists
<1>5. QED
  BY <1>1, <1>2, <1>3, <1>4, StepsOfTheRows

\* AnswersStored is kept: what a client was handed is the reply that is stored.
LEMMA AnswersStayStored ==
  ASSUME ChatTyped, ChatTyped', RowsAgree, AnswersStored, [ChatNext]_chatVars PROVE AnswersStored'
<1> SUFFICES ASSUME NEW r \in Starts, got'[r] # None
             PROVE  /\ got'[r].epoch \in Nat /\ 1 <= got'[r].epoch /\ got'[r].epoch <= epoch'
                    /\ got'[r].epoch = epoch' /\ Exists' => reply' # None /\ reply'.by = got'[r].by
  BY DEF AnswersStored
<1>0. epoch \in Nat /\ epoch' \in Nat /\ epoch' >= epoch
  BY RowsLast
<1>1. CASE got'[r] = got[r]
  <2>1. got'[r].epoch \in Nat /\ 1 <= got'[r].epoch /\ got'[r].epoch <= epoch'
    BY <1>0, <1>1 DEF AnswersStored
  <2>2. ASSUME got'[r].epoch = epoch', Exists' PROVE reply' # None /\ reply'.by = got'[r].by
    <3>1. epoch' = epoch
      BY <1>0, <1>1, <2>2 DEF AnswersStored
    <3>2. QED
      BY <1>1, <2>2, <3>1, RepliesLast DEF AnswersStored
  <2>3. QED
    BY <2>1, <2>2
<1>2. CASE got'[r] # got[r]
  <2>1. got'[r].by = reply'.by /\ got'[r].epoch = epoch' /\ epoch' = epoch /\ Exists' /\ reply' # None
    BY <1>2, StepsOfTheAnswers
  <2>2. epoch >= 1
    BY <1>0, <2>1, RepliesLast DEF RowsAgree
  <2>3. QED
    BY <1>0, <2>1, <2>2
<1>3. QED
  BY <1>1, <1>2

\* AnswersAgree is kept.
LEMMA AnswersStayAgreed ==
  ASSUME ChatTyped, ChatTyped', RowsAgree, ViewsAgree, Matched, OwnQuestion, AnswersStored', AnswersAgree,
         [ChatNext]_chatVars
  PROVE  AnswersAgree'
<1>0. epoch \in Nat /\ epoch' \in Nat /\ epoch' >= epoch /\ body' = body
  BY RowsLast DEF ChatNext, chatVars
<1>1. ASSUME NEW r \in Starts, NEW q \in Starts, got'[r] # None, got'[q] # None, got'[r].epoch = got'[q].epoch
      PROVE  got'[r].by = got'[q].by
  <2>1. CASE got'[r] = got[r] /\ got'[q] = got[q]
    BY <1>1, <2>1 DEF AnswersAgree
  <2>2. CASE got'[r] # got[r]
    BY <1>1, <2>2, StepsOfTheAnswers DEF AnswersStored
  <2>3. CASE got'[q] # got[q]
    BY <1>1, <2>3, StepsOfTheAnswers DEF AnswersStored
  <2>4. QED
    BY <2>1, <2>2, <2>3
<1>2. ASSUME NEW r \in Starts, got'[r] # None, epoch' <= 1, got'[r].by \in Starts
      PROVE  body'[got'[r].by] = body'[r]
  <2>1. CASE got'[r] = got[r]
    BY <1>0, <1>2, <2>1 DEF AnswersAgree
  <2>2. CASE got'[r] # got[r] /\ place[r] \in {"message", "latest"} /\ UNCHANGED store
    <3>1. got'[r].by = reply.by /\ epoch' = epoch /\ reply # None /\ first # None /\ epoch >= 1
      BY <1>0, <2>2, StepsOfTheAnswers DEF store, RowsAgree, Exists
    <3>2. view[r] # None /\ view[r].hash = body[r]
      BY <2>2 DEF Matched, Compared, Looking
    <3>3. view[r].hash = first.hash
      BY <1>0, <1>2, <3>1, <3>2 DEF ViewsAgree
    <3>4. body[reply.by] = first.hash
      BY <1>0, <1>2, <3>1 DEF OwnQuestion
    <3>5. QED
      BY <1>0, <3>1, <3>2, <3>3, <3>4
  <2>3. CASE got'[r] # got[r] /\ reply'.by = r
    BY <2>3, StepsOfTheAnswers
  <2>4. QED
    BY <2>1, <2>2, <2>3, StepsOfTheAnswers
<1>3. QED
  BY <1>1, <1>2 DEF AnswersAgree

-----------------------------------------------------------------------------
(* The quota.                                                              *)

\* A request that has finished does not start again.
Over == {"finish", "closing", "done", "lost"}
\* A request that is over stays over.
LEMMA FinishedStays ==
  ASSUME ChatTyped, [ChatNext]_chatVars, NEW q \in ChatRequests
  PROVE  /\ place[q] \in Over => place'[q] \in Over
         /\ place[q] = "done" => place'[q] = "done"
<1> DEFINE Goal == (place[q] \in Over => place'[q] \in Over) /\ (place[q] = "done" => place'[q] = "done")
<1>0. /\ place \in [ChatRequests -> ChatPhases] /\ Starts \subseteq ChatRequests /\ Chats \subseteq ChatRequests
  BY DEF ChatTyped, ChatTypeOK, ChatRequests
<1>1. ASSUME NEW r \in ChatRequests, place[r] \notin Over, \E p : GoTo(r, p) PROVE Goal
  BY <1>0, <1>1 DEF GoTo, Over
<1>2. ASSUME NEW r \in ChatRequests, ReleaseLease(r) \/ FinishTask(r) PROVE Goal
  BY <1>0, <1>2 DEF ReleaseLease, FinishTask, GoTo, Over
<1>3. ASSUME NEW r \in ChatRequests,
             \/ Acquire(r) \/ CreateFirstChat(r) \/ CreateConflicts(r) \/ LookupExisting(r) \/ ReadMessage(r)
             \/ ReadLatest(r) \/ ClaimFirstChat(r) \/ ClaimRefused(r) \/ ListMessages(r) \/ CloseExpiredFirstChat(r)
             \/ FinishGeneration(r) \/ WriteFirstReply(r) \/ WriteReply(r) \/ AskQuestion(r) \/ ReadRequest(r)
             \/ Fails(r) \/ StartChat(r) \/ ProcessChat(r)
      PROVE  place[r] \notin Over /\ \E p : GoTo(r, p)
  BY <1>3 DEF Acquire, CreateFirstChat, CreateConflicts, LookupExisting, ReadMessage, ReadLatest, ClaimFirstChat,
     ClaimRefused, ListMessages, CloseExpiredFirstChat, FinishGeneration, WriteFirstReply, WriteReply, AskQuestion,
     ReadRequest, Fails, StartChat, ProcessChat, Over
<1>4. ASSUME \/ \E r \in ChatRequests : ClientLeaves(r) \/ ForgetStopped(r)
             \/ \E s \in Stops : StopReturns(s) \/ \E r \in ChatRequests : CancelTask(s, r)
             \/ ClaimExpires \/ EndSession \/ DeleteSession \/ UNCHANGED chatVars
      PROVE  place' = place
  BY <1>4 DEF ClientLeaves, ForgetStopped, StopReturns, CancelTask, ClaimExpires, EndSession, DeleteSession, chatVars
<1>5. CASE Restart
  BY <1>0, <1>5 DEF Restart, Running, Over
<1>6. QED
  BY <1>0, <1>1, <1>2, <1>3, <1>4, <1>5 DEF ChatNext, ChatStep

\* A chat is charged when its request ends.
ChargedOnce == \A c \in Chats : c \in usage => place[c] \in Over

\* What one step charges and what it delivers.
ChargesWhatItStores ==
  /\ (usage' \ usage) \cap Chats = Delivered' \ Delivered
  /\ (FirstReply \in usage' \ usage) = (CompleteFirst' /\ ~CompleteFirst)

\* A step charges exactly what it stores, and a chat that is charged comes to its end.
LEMMA StepsOfTheQuota ==
  ASSUME ChatTyped, ChatTyped', RowsAgree, ChargedOnce, [ChatNext]_chatVars
  PROVE  /\ ChargesWhatItStores
         /\ \A c \in Chats : c \in usage' => c \in usage \/ place'[c] = "finish"
<1> DEFINE ChargeEnds == \A c \in Chats : c \in usage' => c \in usage \/ place'[c] = "finish"
<1>0. /\ turns \in [Chats -> Statuses \cup {"none", "asked"}] /\ Chats \subseteq ChatRequests /\ FirstReply \notin Chats
      /\ place \in [ChatRequests -> ChatPhases]
  BY RequestAssumption DEF ChatTyped, ChatTypeOK, ChatRequests
<1>1. ASSUME UNCHANGED <<reply, turns, usage>> PROVE ChargesWhatItStores /\ ChargeEnds
  BY <1>1 DEF ChargesWhatItStores, Delivered, CompleteFirst
<1>2. CASE UNCHANGED store \/ Reclaimed \/ EndSession \/ \E r \in Starts : Created(r)
  BY <1>1, <1>2 DEF store, Reclaimed, EndSession, Created
<1>3. ASSUME NEW r \in ChatRequests, NEW status, Completed(r, status) PROVE ChargesWhatItStores /\ ChargeEnds
  <2>1. /\ reply = None /\ turns' = turns /\ usage' \ usage = (IF status = "completed" THEN {FirstReply} ELSE {})
        /\ reply' # None /\ reply'.status = status /\ usage' \subseteq usage \cup {FirstReply}
    BY <1>3 DEF Completed, RowsAgree
  <2>2. Delivered' = Delivered /\ ~CompleteFirst /\ (CompleteFirst' <=> status = "completed")
    BY <2>1 DEF Delivered, CompleteFirst
  <2>3. QED
    BY <1>0, <2>1, <2>2 DEF ChargesWhatItStores
<1>4. CASE DeleteSession
  <2>1. usage' = usage /\ reply' = None /\ \A c \in Chats : turns'[c] = "none"
    BY <1>4 DEF DeleteSession
  <2>2. Delivered' = {} /\ ~CompleteFirst'
    BY <2>1 DEF Delivered, CompleteFirst
  <2>3. QED
    BY <2>1, <2>2 DEF ChargesWhatItStores
<1>5. ASSUME NEW c \in Chats, Turned(c), AskQuestion(c) PROVE ChargesWhatItStores /\ ChargeEnds
  <2>1. UNCHANGED <<usage, reply>> /\ (turns' = [turns EXCEPT ![c] = "asked"] \/ turns' = turns)
    BY <1>5 DEF AskQuestion
  <2>2. Delivered' \subseteq Delivered
    BY <1>0, <2>1 DEF Delivered
  <2>3. QED
    BY <2>1, <2>2 DEF ChargesWhatItStores, CompleteFirst
<1>6. ASSUME NEW c \in Chats, Turned(c), WriteReply(c) PROVE ChargesWhatItStores /\ ChargeEnds
  <2>1. /\ place[c] = "write" /\ place'[c] = "finish" /\ UNCHANGED reply /\ c \notin usage
        /\ \/ /\ turns[c] = "asked" /\ turns' = [turns EXCEPT ![c] = out[c]]
              /\ usage' = usage \cup (IF out[c] = "completed" THEN {c} ELSE {})
           \/ UNCHANGED <<turns, usage>>
    BY <1>0, <1>6 DEF WriteReply, GoTo, Charged, ChargedOnce, Over
  <2>2. CASE UNCHANGED <<turns, usage>>
    BY <1>1, <2>1, <2>2
  <2>3. CASE /\ turns[c] = "asked" /\ turns' = [turns EXCEPT ![c] = out[c]]
             /\ usage' = usage \cup (IF out[c] = "completed" THEN {c} ELSE {})
    <3>1. usage' \ usage = (IF out[c] = "completed" THEN {c} ELSE {})
      BY <2>1, <2>3
    <3>2. Delivered' \ Delivered = (IF out[c] = "completed" THEN {c} ELSE {})
      BY <1>0, <2>3 DEF Delivered
    <3>3. CompleteFirst' = CompleteFirst
      BY <2>1 DEF CompleteFirst
    <3>4. QED
      BY <1>0, <2>1, <3>1, <3>2, <3>3 DEF ChargesWhatItStores
  <2>4. QED
    BY <2>1, <2>2, <2>3
<1>7. QED
  BY <1>2, <1>3, <1>4, <1>5, <1>6, StepsOfTheRows

\* ChargedOnce is kept.
LEMMA ChargedStaysOnce ==
  ASSUME ChatTyped, ChatTyped', RowsAgree, ChargedOnce, [ChatNext]_chatVars PROVE ChargedOnce'
<1> SUFFICES ASSUME NEW c \in Chats, c \in usage' PROVE place'[c] \in Over
  BY DEF ChargedOnce
<1>1. c \in ChatRequests /\ (c \in usage \/ place'[c] = "finish")
  BY StepsOfTheQuota DEF ChatRequests
<1>2. QED
  BY <1>1, FinishedStays DEF ChargedOnce, Over

-----------------------------------------------------------------------------
(* The claim.                                                              *)

\* Where the request of a start may be while its claim is live.
Claiming == {"list", "generate", "write", "lost"}
LiveClaim == first # None /\ first.live /\ ~first.done

\* A claim that is live after a step was live before, unless it was taken in that step.
LEMMA NoOrphanStays ==
  ASSUME ChatTyped, ChatTyped', RowsAgree, NoOrphanClaim, [ChatNext]_chatVars PROVE NoOrphanClaim'
<1> SUFFICES ASSUME "release" \notin Troubles, LiveClaim', first'.token \in Starts
             PROVE  place'[first'.token] \in Claiming
  BY DEF NoOrphanClaim, LiveClaim, Claiming
<1> DEFINE Goal == place'[first'.token] \in Claiming
<1>0. /\ place \in [ChatRequests -> ChatPhases] /\ Starts \subseteq ChatRequests /\ Chats \subseteq ChatRequests
      /\ Starts \cap Chats = {} /\ ChatTypeOK /\ PlacesSorted /\ OutcomesKnown /\ (first # None => first \in FirstRow)
      /\ (first # None => Exists)
  BY RequestAssumption DEF ChatTyped, ChatTypeOK, ChatRequests, RowsAgree
\* The claim is the same, and its holder stays where a claim may be live.
<1>1. ASSUME LiveClaim, first.token = first'.token, place'[first.token] = place[first.token] PROVE Goal
  BY <1>1 DEF NoOrphanClaim, LiveClaim, Claiming
<1>2. ASSUME NEW r \in ChatRequests, \E p : GoTo(r, p), LiveClaim, first.token = first'.token,
             r # first.token \/ place'[r] \in Claiming \/ place[r] \notin Claiming
      PROVE  Goal
  <2>1. place[first.token] \in Claiming
    BY <1>2 DEF NoOrphanClaim, LiveClaim, Claiming
  <2>2. \A q \in ChatRequests \ {r} : place'[q] = place[q]
    BY <1>0, <1>2 DEF GoTo
  <2>3. QED
    BY <1>0, <1>2, <2>1, <2>2
<1>3. ASSUME NEW r \in ChatRequests, first # None, first' \in AfterRelease(r, first)
      PROVE  LiveClaim /\ first.token = first'.token /\ r # first.token
  BY <1>0, <1>3, ReleasedRow DEF LiveClaim
<1>4. ASSUME NEW r \in ChatRequests, NotStored(r) PROVE LiveClaim /\ first.token = first'.token /\ r # first.token
  <2>1. first # None /\ first' \in AfterRelease(r, first)
    BY <1>4 DEF NotStored, ReleaseClaim, AfterRelease, Released, LiveClaim
  <2>2. QED
    BY <1>3, <2>1
<1>5. ASSUME NEW r \in ChatRequests, NEW status \in Statuses, Stored(r, status) PROVE FALSE
  BY <1>0, <1>5, StoredRows DEF LiveClaim, FirstRow
<1>6. ASSUME NEW r \in ChatRequests, WriteFirstReply(r) PROVE Goal
  <2>1. out[r] \in Statuses /\ \E p : GoTo(r, p)
    BY <1>0, <1>6 DEF WriteFirstReply, OutcomesKnown
  <2>2. CASE NotStored(r)
    BY <1>2, <1>4, <2>1, <2>2
  <2>3. CASE ~Fenced(r) /\ first' = first
    BY <1>0, <1>2, <2>1, <2>3 DEF Fenced, LiveClaim
  <2>4. QED
    BY <1>5, <1>6, <2>1, <2>2, <2>3 DEF WriteFirstReply
<1>7. ASSUME NEW r \in ChatRequests, CloseExpiredFirstChat(r) PROVE Goal
  <2>1. NotStored(r) /\ \E p : GoTo(r, p)
    BY <1>5, <1>7 DEF CloseExpiredFirstChat, Statuses
  <2>2. QED
    BY <1>2, <1>4, <2>1
<1>8. ASSUME NEW r \in ChatRequests, CreateFirstChat(r) PROVE Goal
  <2>1. r \in Starts /\ NewRow(r) \in FirstRow
    BY <1>0, <1>8, NewRowIsRow DEF CreateFirstChat, PlacesSorted
  <2>2. CASE first' \in AfterRelease(r, NewRow(r))
    <3>1. first' = [NewRow(r) EXCEPT !.live = FALSE]
      BY <2>1, <2>2, NoRowAssumption DEF AfterRelease, Released, NewRow
    <3>2. QED
      BY <2>1, <3>1 DEF LiveClaim, NewRow
  <2>3. CASE first' = NewRow(r) /\ GoTo(r, "generate")
    BY <1>0, <2>1, <2>3 DEF NewRow, GoTo, Claiming
  <2>4. CASE first' = first /\ GoTo(r, "finish")
    BY <1>0, <1>2, <1>8, <2>4 DEF CreateFirstChat, Claiming, LiveClaim
  <2>5. QED
    BY <1>8, <2>2, <2>3, <2>4 DEF CreateFirstChat, ReleaseClaim
<1>9. ASSUME NEW r \in ChatRequests, ClaimFirstChat(r) PROVE Goal
  <2>1. first # None /\ first \in FirstRow /\ ~first.live /\ Claimed(r) \in FirstRow /\ Claimed(r).token = r
        /\ Claimed(r).done = first.done /\ ~first.done
    BY <1>0, <1>9, ClaimedIsRow DEF ClaimFirstChat, Claimable, Claimed, FirstRow
  <2>2. first' # first
    BY <2>1 DEF LiveClaim
  <2>3. ~(first' \in AfterRelease(r, Claimed(r)))
    <3>1. ASSUME first' \in AfterRelease(r, Claimed(r)) PROVE FALSE
      <4>1. first' = [Claimed(r) EXCEPT !.live = FALSE]
        BY <2>1, <3>1, NoRowAssumption DEF AfterRelease, Released
      <4>2. QED
        BY <2>1, <4>1 DEF LiveClaim, FirstRow
    <3>2. QED
      BY <3>1
  <2>4. CASE first' = Claimed(r) /\ GoTo(r, "list")
    BY <1>0, <2>1, <2>4 DEF GoTo, Claiming
  <2>5. CASE first' = Claimed(r) /\ r \in Chats
    BY <1>0, <2>1, <2>5
  <2>6. QED
    BY <1>9, <2>2, <2>3, <2>4, <2>5 DEF ClaimFirstChat
<1>10. ASSUME NEW r \in ChatRequests, ListMessages(r) PROVE Goal
  <2>1. CASE first' = first /\ ((r \in Starts /\ GoTo(r, "generate")) \/ (r \notin Starts /\ GoTo(r, "close")))
    BY <1>0, <1>2, <2>1 DEF LiveClaim, GoTo, Claiming
  <2>2. CASE ReleaseClaim(r, first) /\ \E p : GoTo(r, p)
    <3>1. first # None
      BY <2>2 DEF ReleaseClaim, AfterRelease, Released, LiveClaim
    <3>2. QED
      BY <1>2, <1>3, <2>2, <3>1 DEF ReleaseClaim
  <2>3. QED
    BY <1>10, <2>1, <2>2 DEF ListMessages
<1>11. ASSUME NEW r \in ChatRequests, FinishGeneration(r) PROVE Goal
  <2>1. first' = first /\ GoTo(r, "write") /\ place'[r] = "write"
    BY <1>0, <1>11 DEF FinishGeneration, store, GoTo
  <2>2. QED
    BY <1>2, <2>1 DEF LiveClaim, Claiming
<1>12. ASSUME NEW r \in ChatRequests,
              \/ Acquire(r) \/ CreateConflicts(r) \/ LookupExisting(r) \/ ReadMessage(r) \/ ReadLatest(r)
              \/ ClaimRefused(r) \/ ReleaseLease(r) \/ FinishTask(r) \/ AskQuestion(r) \/ ReadRequest(r) \/ Fails(r)
              \/ StartChat(r) \/ ProcessChat(r)
       PROVE  Goal
  <2>1. first' = first /\ place[r] \notin Claiming /\ \E p : GoTo(r, p)
    BY <1>12 DEF Acquire, CreateConflicts, LookupExisting, ReadMessage, ReadLatest, ClaimRefused, ReleaseLease,
       FinishTask, AskQuestion, ReadRequest, Fails, StartChat, ProcessChat, store, Claiming
  <2>2. QED
    BY <1>2, <2>1 DEF LiveClaim
<1>13. ASSUME NEW r \in ChatRequests, WriteReply(r) PROVE Goal
  <2>1. first' = first /\ r \notin Starts /\ \E p : GoTo(r, p)
    BY <1>0, <1>13 DEF WriteReply
  <2>2. QED
    BY <1>2, <2>1 DEF LiveClaim
<1>14. ASSUME \/ \E r \in ChatRequests : ClientLeaves(r) \/ ForgetStopped(r)
              \/ \E s \in Stops : StopReturns(s) \/ \E r \in ChatRequests : CancelTask(s, r)
              \/ EndSession \/ UNCHANGED chatVars
       PROVE  Goal
  <2>1. first' = first /\ place' = place
    BY <1>14 DEF ClientLeaves, ForgetStopped, StopReturns, CancelTask, EndSession, chatVars, store
  <2>2. QED
    BY <1>1, <2>1 DEF LiveClaim
<1>15. CASE ClaimExpires
  BY <1>0, <1>15 DEF ClaimExpires, LiveClaim, FirstRow
<1>16. CASE DeleteSession
  BY <1>16 DEF DeleteSession, LiveClaim
<1>17. CASE Restart
  <2>1. first' = first /\ \A q \in ChatRequests : place'[q] \in {place[q], "lost"}
    BY <1>0, <1>17 DEF Restart, store
  <2>2. QED
    BY <1>0, <2>1 DEF NoOrphanClaim, LiveClaim, Claiming
<1>18. QED
  BY <1>0, <1>6, <1>7, <1>8, <1>9, <1>10, <1>11, <1>12, <1>13, <1>14, <1>15, <1>16, <1>17 DEF ChatNext, ChatStep

-----------------------------------------------------------------------------
(* Stops.                                                                  *)

StoppedReply(r) == IF r \in Starts THEN reply = [by |-> r, status |-> "stopped"] ELSE turns[r] = "stopped"
Ended == {"finish", "closing", "done"}

\* What is known of the task of a request: an open one generates, a stopped one has ended, and
\* the reply of a stopped request is stored as stopped unless it failed or its session went.
StopKnown(r) ==
  /\ task[r].state = "open" => place[r] = "generate"
  /\ task[r].state = "stopped" => task[r].cause = "stopped" /\ place[r] = "done"
  /\ task[r].cause = "stopped" => epoch >= 1 /\ place[r] \in {"generate", "write"} \cup Ended
  /\ task[r].cause = "stopped" /\ place[r] = "write" => out[r] = "stopped"
  /\ task[r].cause = "stopped" /\ place[r] \in Ended /\ ~task[r].failed /\ Exists /\ epoch <= 1 => StoppedReply(r)
TasksKnown == \A r \in ChatRequests : StopKnown(r)

\* A call that waits has stopped its task, and one that succeeded has seen it end.
StopsKnown ==
  \A s \in Stops :
    /\ stop[s].res = "waiting" => stop[s].on \in ChatRequests /\ task[stop[s].on].cause = "stopped"
    /\ stop[s].res = "stopped" => stop[s].on \in ChatRequests /\ epoch >= 1 /\ place[stop[s].on] = "done"

\* A stopped reply stays what it is while its session lasts.
LEMMA StoppedRepliesLast ==
  ASSUME ChatTyped, ChatTyped', RowsAgree, [ChatNext]_chatVars, NEW r \in ChatRequests,
         place[r] \notin {"ask", "write"}, epoch >= 1, epoch' <= 1, Exists'
  PROVE  Exists /\ epoch <= 1 /\ (StoppedReply(r) => StoppedReply(r)')
<1>0. epoch \in Nat /\ epoch' \in Nat /\ epoch' = epoch /\ epoch <= 1
  BY RowsLast
<1>1. Exists /\ (reply # None => reply' = reply)
  BY <1>0, RepliesLast
<1>2. [by |-> r, status |-> "stopped"] # None
  BY NoRowAssumption DEF FirstMessage, Statuses
<1>3. r \in Chats => turns'[r] = turns[r]
  <2>1. CASE \E c \in Chats : Turned(c) /\ (AskQuestion(c) \/ WriteReply(c))
    <3>1. PICK c \in Chats : Turned(c) /\ (AskQuestion(c) \/ WriteReply(c))
      BY <2>1
    <3>2. c # r
      BY <3>1 DEF AskQuestion, WriteReply
    <3>3. QED
      BY <3>1, <3>2 DEF Turned
  <2>2. CASE UNCHANGED turns
    BY <2>2
  <2>3. ~DeleteSession
    BY DEF DeleteSession, Exists
  <2>4. QED
    BY <2>1, <2>2, <2>3, StepsOfTheRows DEF store, Reclaimed, Created, Completed, EndSession
<1>4. QED
  BY <1>0, <1>1, <1>2, <1>3 DEF StoppedReply, ChatRequests

\* What a stop does to a task that is open.
LEMMA OpenTaskIsStopped ==
  ASSUME task \in [ChatRequests -> Task], NEW s \in Stops, NEW r \in ChatRequests, CancelTask(s, r),
         task[r].state = "open"
  PROVE  /\ task'[r].state = "closed" /\ task'[r].failed = task[r].failed
         /\ task'[r].cause = IF task[r].cause = "none" THEN "stopped" ELSE task[r].cause
         /\ \A q \in ChatRequests \ {r} : task'[q] = task[q]
<1> DEFINE closed == [task EXCEPT ![r].state = "closed"]
<1>1. task' = [closed EXCEPT ![r].cause = IF @ = "none" THEN "stopped" ELSE @]
  BY DEF CancelTask
<1>2. /\ closed \in [ChatRequests -> Task] /\ closed[r].state = "closed" /\ closed[r].cause = task[r].cause
      /\ closed[r].failed = task[r].failed /\ \A q \in ChatRequests \ {r} : closed[q] = task[q]
  BY DEF Task
<1> HIDE DEF closed
<1>3. QED
  BY <1>1, <1>2 DEF Task

\* Every step keeps what is known of the tasks.
LEMMA TasksStayKnown ==
  ASSUME ChatTyped, ChatTyped', RowsAgree, SessionsSeen, TasksKnown, [ChatNext]_chatVars PROVE TasksKnown'
<1>0. /\ place \in [ChatRequests -> ChatPhases] /\ task \in [ChatRequests -> Task]
      /\ out \in [ChatRequests -> Statuses \cup {"none"}]
      /\ Starts \subseteq ChatRequests /\ Chats \subseteq ChatRequests /\ Starts \cap Chats = {}
      /\ OutcomesKnown /\ PlacesSorted
  BY RequestAssumption DEF ChatTyped, ChatTypeOK, ChatRequests
<1>e. epoch \in Nat /\ epoch' \in Nat /\ epoch' >= epoch
  BY RowsLast
\* Whom a step does not touch.
<1>f. ASSUME NEW q \in ChatRequests, place'[q] = place[q], task'[q] = task[q], place[q] = "write" => out'[q] = out[q]
      PROVE  StopKnown(q)'
  <2>1. place[q] \in Ended => place[q] \notin {"ask", "write"}
    BY DEF Ended
  <2>2. task[q].cause = "stopped" /\ place[q] \in Ended /\ ~task[q].failed /\ Exists' /\ epoch' <= 1 => StoppedReply(q)'
    BY <2>1, StoppedRepliesLast DEF TasksKnown, StopKnown
  <2>3. QED
    BY <1>e, <1>f, <2>2 DEF TasksKnown, StopKnown
<1>g. ASSUME NEW r \in ChatRequests, NEW q \in ChatRequests \ {r}, (\E p : GoTo(r, p)) \/ place' = place,
             (\E t : task' = [task EXCEPT ![r] = t]) \/ task' = task,
             (\E o : out' = [out EXCEPT ![r] = o]) \/ out' = out
      PROVE  StopKnown(q)'
  BY <1>0, <1>f, <1>g DEF GoTo
\* Whose task has no stop and is not open.
<1>i. ASSUME NEW r \in ChatRequests, task'[r].cause # "stopped", task'[r].state \notin {"open", "stopped"}
      PROVE  StopKnown(r)'
  BY <1>i DEF StopKnown
<1>j. ASSUME NEW r \in ChatRequests, place[r] \notin {"generate", "write"} \cup Ended
      PROVE  task[r].cause # "stopped" /\ task[r].state \notin {"open", "stopped"}
  BY <1>0, <1>j DEF TasksKnown, StopKnown, Ended
<1>1. ASSUME NEW r \in ChatRequests, task' = task, out' = out, \E p : GoTo(r, p),
             place[r] \notin {"generate", "write"} \cup Ended
      PROVE  TasksKnown'
  BY <1>1, <1>g, <1>i, <1>j DEF TasksKnown
<1>2. ASSUME NEW r \in ChatRequests,
             \/ StartChat(r) \/ Acquire(r) \/ CreateConflicts(r) \/ LookupExisting(r) \/ ReadRequest(r) \/ ReadMessage(r)
             \/ ReadLatest(r) \/ ClaimFirstChat(r) \/ ClaimRefused(r) \/ CloseExpiredFirstChat(r) \/ ProcessChat(r)
             \/ Fails(r)
      PROVE  TasksKnown'
  <2>1. task' = task /\ out' = out /\ (\E p : GoTo(r, p)) /\ place[r] \notin {"generate", "write"} \cup Ended
    BY <1>2 DEF StartChat, Acquire, CreateConflicts, LookupExisting, ReadRequest, ReadMessage, ReadLatest, ClaimFirstChat,
       ClaimRefused, CloseExpiredFirstChat, ProcessChat, Fails, Ended
  <2>2. QED
    BY <1>1, <2>1
<1>3. ASSUME NEW r \in ChatRequests, CreateFirstChat(r) \/ ListMessages(r) \/ AskQuestion(r) PROVE TasksKnown'
  <2>1. out' = out /\ (\E p : GoTo(r, p)) /\ place[r] \notin {"generate", "write"} \cup Ended
        /\ (task' = task \/ (Registered(r) /\ GoTo(r, "generate")))
    BY <1>3 DEF CreateFirstChat, ListMessages, AskQuestion, Ended
  <2>2. CASE task' = task
    BY <1>1, <2>1, <2>2
  <2>3. CASE Registered(r) /\ GoTo(r, "generate")
    <3>1. task' = [task EXCEPT ![r] = [NoTask EXCEPT !.state = "open"]] /\ place'[r] = "generate"
      BY <1>0, <2>3 DEF Registered, GoTo
    <3>2. task'[r].state = "open" /\ task'[r].cause = "none"
      BY <1>0, <3>1 DEF NoTask
    <3>3. StopKnown(r)'
      BY <3>1, <3>2 DEF StopKnown
    <3>4. QED
      BY <1>g, <2>1, <3>1, <3>3 DEF TasksKnown
  <2>4. QED
    BY <2>1, <2>2, <2>3
<1>4. ASSUME NEW r \in ChatRequests, ClientLeaves(r) PROVE TasksKnown'
  <2>1. place' = place /\ out' = out /\ task' = [task EXCEPT ![r] = [@ EXCEPT !.cause = "client"]]
        /\ place[r] = "generate" /\ task[r].cause = "none"
    BY <1>4 DEF ClientLeaves
  <2>2. task[r] \in Task /\ task'[r] = [task[r] EXCEPT !.cause = "client"]
    BY <1>0, <2>1
  <2>3. task'[r].cause = "client" /\ task'[r].state = task[r].state /\ task[r].state # "stopped"
    BY <2>1, <2>2 DEF Task, TasksKnown, StopKnown
  <2>4. StopKnown(r)'
    BY <2>1, <2>3 DEF StopKnown
  <2>5. QED
    BY <1>g, <2>1, <2>4 DEF TasksKnown
<1>5. ASSUME NEW r \in ChatRequests, FinishGeneration(r) PROVE TasksKnown'
  <2>1. PICK o \in Outcomes(r) : out' = [out EXCEPT ![r] = o]
    BY <1>5 DEF FinishGeneration
  <2>2. GoTo(r, "write") /\ task' = [task EXCEPT ![r] = [@ EXCEPT !.state = "closed"]]
    BY <1>5 DEF FinishGeneration
  <2>3. place'[r] = "write" /\ task'[r].state = "closed" /\ task'[r].cause = task[r].cause /\ out'[r] = o
    BY <1>0, <2>1, <2>2 DEF GoTo, Task
  <2>4. task[r].cause = "stopped" => o = "stopped" /\ epoch' >= 1
    BY <1>e, <2>1 DEF Outcomes, TasksKnown, StopKnown
  <2>5. StopKnown(r)'
    BY <2>3, <2>4 DEF StopKnown, Ended
  <2>6. QED
    BY <1>g, <2>1, <2>2, <2>5 DEF TasksKnown
\* A reply that is written, or fails.
<1>6. ASSUME NEW r \in ChatRequests, place[r] = "write", GoTo(r, "finish"), out' = out,
             Failed(r) \/ (task' = task /\ (out[r] = "stopped" => StoppedReply(r)'))
      PROVE  TasksKnown'
  <2>1. place'[r] = "finish" /\ task'[r].state = task[r].state /\ task'[r].cause = task[r].cause
    BY <1>0, <1>6 DEF GoTo, Failed, Task
  <2>2. task[r].state \notin {"open", "stopped"} /\ (task[r].cause = "stopped" => epoch' >= 1 /\ out[r] = "stopped")
    BY <1>e, <1>6 DEF TasksKnown, StopKnown
  <2>3. task'[r].failed \/ (task[r].cause = "stopped" => StoppedReply(r)')
    BY <1>0, <1>6, <2>2 DEF Failed, Task
  <2>4. StopKnown(r)'
    BY <2>1, <2>2, <2>3 DEF StopKnown, Ended
  <2>5. QED
    BY <1>g, <1>6, <2>4 DEF TasksKnown, Failed
<1>7. ASSUME NEW r \in ChatRequests, WriteFirstReply(r) PROVE TasksKnown'
  <2>1. place[r] = "write" /\ r \in Starts /\ GoTo(r, "finish") /\ out' = out /\ (Failed(r) \/ (task' = task /\ Stored(r, out[r])))
    BY <1>7 DEF WriteFirstReply
  <2>2. Stored(r, out[r]) /\ out[r] = "stopped" => StoppedReply(r)'
    BY <2>1 DEF Stored, StoppedReply
  <2>3. QED
    BY <1>6, <2>1, <2>2
<1>8. ASSUME NEW r \in ChatRequests, WriteReply(r) PROVE TasksKnown'
  <2>1. place[r] = "write" /\ r \in Chats /\ GoTo(r, "finish") /\ out' = out
        /\ (Failed(r) \/ (task' = task /\ turns' = [turns EXCEPT ![r] = out[r]]))
    BY <1>8 DEF WriteReply
  <2>2. turns' = [turns EXCEPT ![r] = out[r]] /\ out[r] = "stopped" => StoppedReply(r)'
    BY <1>0, <2>1 DEF StoppedReply, ChatTyped, ChatTypeOK
  <2>3. QED
    BY <1>6, <2>1, <2>2
<1>9. ASSUME NEW r \in ChatRequests, ReleaseLease(r) \/ FinishTask(r) PROVE TasksKnown'
  <2>1. UNCHANGED store /\ place[r] \in Ended /\ place'[r] \in {"closing", "done"}
        /\ \E p : GoTo(r, p)
    BY <1>0, <1>9 DEF ReleaseLease, FinishTask, GoTo, Ended
  <2>2. (ReleaseLease(r) /\ task' = task /\ out' = [out EXCEPT ![r] = "none"])
        \/ (FinishTask(r) /\ out' = out
            /\ task' = [task EXCEPT ![r] = [@ EXCEPT !.state = IF task[r].cause = "stopped" THEN "stopped" ELSE "none"]])
    BY <1>9 DEF ReleaseLease, FinishTask
  <2>3. task'[r].cause = task[r].cause /\ task'[r].failed = task[r].failed
        /\ task'[r].state # "open"
        /\ (task'[r].state = "stopped" => task[r].cause = "stopped" /\ place'[r] = "done")
    <3>1. CASE FinishTask(r)
      BY <1>0, <2>2, <3>1 DEF FinishTask, ReleaseLease, GoTo, Task
    <3>2. CASE ReleaseLease(r)
      BY <1>0, <2>2, <3>2 DEF FinishTask, ReleaseLease, TasksKnown, StopKnown
    <3>3. QED
      BY <1>9, <3>1, <3>2
  <2>4. StoppedReply(r)' <=> StoppedReply(r)
    BY <2>1 DEF StoppedReply, store
  <2>5. StopKnown(r)'
    BY <2>1, <2>3, <2>4 DEF TasksKnown, StopKnown, store, Exists, Ended
  <2>6. QED
    BY <1>g, <2>1, <2>2, <2>5 DEF TasksKnown
<1>10. ASSUME NEW r \in ChatRequests, ForgetStopped(r) PROVE TasksKnown'
  <2>1. UNCHANGED <<store, place, out>> /\ task[r].state = "stopped" /\ task' = [task EXCEPT ![r] = [@ EXCEPT !.state = "none"]]
    BY <1>10 DEF ForgetStopped
  <2>2. task'[r].cause = task[r].cause /\ task'[r].failed = task[r].failed /\ task'[r].state = "none"
    BY <1>0, <2>1 DEF Task
  <2>3. StopKnown(r)'
    BY <2>1, <2>2 DEF TasksKnown, StopKnown, store, Exists, StoppedReply
  <2>4. QED
    BY <1>g, <2>1, <2>3 DEF TasksKnown
<1>11. ASSUME NEW s \in Stops, NEW r \in ChatRequests, CancelTask(s, r) PROVE TasksKnown'
  <2>1. UNCHANGED <<store, place, out>>
    BY <1>11 DEF CancelTask
  <2>2. CASE task' = task
    BY <1>f, <2>1, <2>2 DEF TasksKnown
  <2>3. CASE task[r].state = "open"
    <3>1. task'[r].state = "closed" /\ \A q \in ChatRequests \ {r} : task'[q] = task[q]
      BY <1>0, <1>11, <2>3, OpenTaskIsStopped
    <3>2. place'[r] = "generate" /\ epoch' >= 1
      BY <1>0, <2>1, <2>3 DEF TasksKnown, StopKnown, SessionsSeen, Past, store
    <3>3. StopKnown(r)'
      BY <3>1, <3>2 DEF StopKnown, Ended
    <3>4. QED
      BY <1>f, <2>1, <3>1, <3>3 DEF TasksKnown
  <2>4. task' = task \/ task[r].state = "open"
    BY <1>11 DEF CancelTask
  <2>5. QED
    BY <2>2, <2>3, <2>4
<1>12. CASE Restart
  BY <1>12 DEF Restart, TasksKnown, StopKnown, NoTask
<1>13. ASSUME \/ \E s \in Stops : StopReturns(s)
              \/ ClaimExpires \/ EndSession \/ DeleteSession \/ UNCHANGED chatVars
       PROVE  TasksKnown'
  <2>1. UNCHANGED <<place, out, task>>
    BY <1>13 DEF StopReturns, ClaimExpires, EndSession, DeleteSession, chatVars
  <2>2. QED
    BY <1>f, <2>1 DEF TasksKnown
<1>14. QED
  BY <1>0, <1>2, <1>3, <1>4, <1>5, <1>7, <1>8, <1>9, <1>10, <1>11, <1>12, <1>13 DEF ChatNext, ChatStep

\* Only a restart forgets that a task was stopped.
LEMMA StoppedTasksLast ==
  ASSUME ChatTyped, TasksKnown, [ChatNext]_chatVars, ~Restart, NEW q \in ChatRequests, task[q].cause = "stopped"
  PROVE  task'[q].cause = "stopped"
<1>0. /\ task \in [ChatRequests -> Task] /\ place[q] \in {"generate", "write"} \cup Ended
      /\ Starts \subseteq ChatRequests /\ Chats \subseteq ChatRequests
  BY DEF ChatTyped, ChatTypeOK, ChatRequests, TasksKnown, StopKnown
<1>1. ASSUME NEW r \in ChatRequests,
             \/ CreateFirstChat(r) \/ ListMessages(r) \/ AskQuestion(r) \/ ClientLeaves(r)
      PROVE  r # q /\ \A p \in ChatRequests \ {r} : task'[p] = task[p]
  BY <1>0, <1>1 DEF CreateFirstChat, ListMessages, AskQuestion, Registered, ClientLeaves, Ended
<1>2. ASSUME NEW r \in ChatRequests,
             \/ FinishGeneration(r) \/ WriteFirstReply(r) \/ WriteReply(r) \/ FinishTask(r) \/ ForgetStopped(r)
      PROVE  task'[q].cause = task[q].cause
  BY <1>0, <1>2 DEF FinishGeneration, WriteFirstReply, WriteReply, Failed, FinishTask, ForgetStopped, Task
<1>3. ASSUME NEW s \in Stops, NEW r \in ChatRequests, CancelTask(s, r) PROVE task'[q].cause = "stopped"
  <2>1. CASE task[r].state = "open"
    BY <1>0, <1>3, <2>1, OpenTaskIsStopped
  <2>2. CASE task[r].state # "open"
    BY <1>3, <2>2 DEF CancelTask
  <2>3. QED
    BY <2>1, <2>2
<1>4. ASSUME NEW r \in ChatRequests,
             \/ Acquire(r) \/ CreateConflicts(r) \/ LookupExisting(r) \/ ReadMessage(r) \/ ReadLatest(r) \/ ClaimFirstChat(r)
             \/ ClaimRefused(r) \/ CloseExpiredFirstChat(r) \/ ReleaseLease(r) \/ ReadRequest(r) \/ Fails(r)
             \/ StartChat(r) \/ ProcessChat(r)
      PROVE  task' = task
  BY <1>4 DEF Acquire, CreateConflicts, LookupExisting, ReadMessage, ReadLatest, ClaimFirstChat, ClaimRefused,
     CloseExpiredFirstChat, ReleaseLease, ReadRequest, Fails, StartChat, ProcessChat
<1>5. ASSUME (\E s \in Stops : StopReturns(s)) \/ ClaimExpires \/ EndSession \/ DeleteSession \/ UNCHANGED chatVars
      PROVE  task' = task
  BY <1>5 DEF StopReturns, ClaimExpires, EndSession, DeleteSession, chatVars
<1>6. QED
  BY <1>0, <1>1, <1>2, <1>3, <1>4, <1>5 DEF ChatNext, ChatStep

\* What a step answers to a stop.
LEMMA StepsOfTheStops ==
  ASSUME ChatTyped, TasksKnown, [ChatNext]_chatVars, NEW s \in Stops, stop'[s] # stop[s]
  PROVE  \/ stop'[s].res \notin {"waiting", "stopped"}
         \/ stop'[s].res = "waiting" /\ stop'[s].on \in ChatRequests /\ task'[stop'[s].on].cause = "stopped"
         \/ /\ stop'[s].res = "stopped" /\ UNCHANGED <<store, place, task>>
            /\ stop'[s].on \in ChatRequests => place[stop'[s].on] = "done" /\ ~task[stop'[s].on].failed
            /\ \/ stop'[s].on = stop[s].on /\ stop[s].res = "waiting"
               \/ stop'[s].on \in ChatRequests /\ task[stop'[s].on].cause = "stopped"
<1>0. /\ task \in [ChatRequests -> Task] /\ Starts \subseteq ChatRequests /\ Chats \subseteq ChatRequests
      /\ stop \in [Stops -> [on : ChatRequests \cup {None},
            res : {"idle", "waiting", "stopped", "failed", "gone", "lost"}]]
  BY DEF ChatTyped, ChatTypeOK, ChatRequests
<1>1. ASSUME NEW r \in ChatRequests, CancelTask(s, r), task[r].state = "open"
      PROVE  /\ stop'[s].on = r
             /\ stop'[s].res = "waiting" => task'[r].cause = "stopped"
             /\ stop'[s].res \in {"waiting", "gone"}
  <2>1. stop'[s] = [on |-> r, res |-> IF task[r].cause = "client" THEN "gone" ELSE "waiting"]
    BY <1>0, <1>1 DEF CancelTask, Result
  <2>2. task[r].cause \in {"none", "client", "stopped"}
    BY <1>0 DEF Task
  <2>3. QED
    BY <1>0, <1>1, <2>1, <2>2, OpenTaskIsStopped
<1>2. ASSUME NEW r \in ChatRequests, CancelTask(s, r), task[r].state # "open"
      PROVE  /\ stop'[s].on = r /\ UNCHANGED <<store, place, task>>
             /\ stop'[s].res = "waiting" => task[r].cause = "stopped"
             /\ stop'[s].res = "stopped" => task[r].state = "stopped" /\ ~task[r].failed
  BY <1>0, <1>2 DEF CancelTask, Result, Verdict
<1>3. ASSUME NEW r \in ChatRequests, CancelTask(s, r)
      PROVE  \/ stop'[s].res \notin {"waiting", "stopped"}
             \/ stop'[s].res = "waiting" /\ stop'[s].on \in ChatRequests /\ task'[stop'[s].on].cause = "stopped"
             \/ /\ stop'[s].res = "stopped" /\ UNCHANGED <<store, place, task>>
                /\ stop'[s].on \in ChatRequests /\ place[stop'[s].on] = "done" /\ ~task[stop'[s].on].failed
                /\ task[stop'[s].on].cause = "stopped"
  BY <1>1, <1>2, <1>3 DEF TasksKnown, StopKnown
<1>4. ASSUME StopReturns(s)
      PROVE  /\ stop'[s].on = stop[s].on /\ stop[s].res = "waiting" /\ place[stop[s].on] = "done"
             /\ UNCHANGED <<store, place, task>>
             /\ stop'[s].res = "stopped" => ~task[stop[s].on].failed
             /\ stop'[s].res \in {"stopped", "failed"}
  BY <1>0, <1>4 DEF StopReturns, Result, Verdict
<1>5. CASE Restart
  BY <1>0, <1>5 DEF Restart
<1>6. CASE \E t \in Stops : StopReturns(t) \/ \E r \in ChatRequests : CancelTask(t, r)
  <2>1. PICK t \in Stops : StopReturns(t) \/ \E r \in ChatRequests : CancelTask(t, r)
    BY <1>6
  <2>2. t = s
    BY <1>0, <2>1 DEF StopReturns, CancelTask, Result
  <2>3. QED
    BY <1>3, <1>4, <2>1, <2>2
<1>7. ASSUME NEW r \in ChatRequests, ChatStep(r) \/ Fails(r) \/ ClientLeaves(r) \/ ForgetStopped(r) \/ StartChat(r) \/ ProcessChat(r)
      PROVE  stop' = stop
  BY <1>7 DEF ChatStep, Acquire, CreateFirstChat, CreateConflicts, LookupExisting, ReadMessage, ReadLatest, ClaimFirstChat,
     ClaimRefused, ListMessages, CloseExpiredFirstChat, FinishGeneration, WriteFirstReply, WriteReply, ReleaseLease,
     FinishTask, AskQuestion, ReadRequest, Fails, ClientLeaves, ForgetStopped, StartChat, ProcessChat
<1>8. ClaimExpires \/ EndSession \/ DeleteSession \/ UNCHANGED chatVars => stop' = stop
  BY DEF ClaimExpires, EndSession, DeleteSession, chatVars
<1>9. QED
  BY <1>0, <1>5, <1>6, <1>7, <1>8 DEF ChatNext

\* StopsKnown is kept: a stop that was told to succeed has left its reply.
LEMMA StopsStayKnown ==
  ASSUME ChatTyped, ChatTyped', RowsAgree, TasksKnown, StopsKnown, [ChatNext]_chatVars PROVE StopsKnown'
<1> SUFFICES ASSUME NEW s \in Stops
             PROVE  /\ stop'[s].res = "waiting" => stop'[s].on \in ChatRequests /\ task'[stop'[s].on].cause = "stopped"
                    /\ stop'[s].res = "stopped" => stop'[s].on \in ChatRequests /\ epoch' >= 1 /\ place'[stop'[s].on] = "done"
  BY DEF StopsKnown
<1>0. epoch \in Nat /\ epoch' \in Nat /\ epoch' >= epoch
  BY RowsLast
<1>1. CASE stop'[s] = stop[s]
  <2>1. stop[s].res = "waiting" => ~Restart
    BY <1>1 DEF Restart, ChatTyped, ChatTypeOK
  <2>2. QED
    BY <1>0, <1>1, <2>1, StoppedTasksLast, FinishedStays DEF StopsKnown
<1>2. CASE stop'[s] # stop[s]
  <2>1. CASE stop'[s].res \notin {"waiting", "stopped"}
    BY <2>1
  <2>2. CASE stop'[s].res = "waiting" /\ stop'[s].on \in ChatRequests /\ task'[stop'[s].on].cause = "stopped"
    BY <2>2
  <2>3. CASE /\ stop'[s].res = "stopped" /\ UNCHANGED <<store, place, task>>
             /\ stop'[s].on \in ChatRequests => place[stop'[s].on] = "done" /\ ~task[stop'[s].on].failed
             /\ \/ stop'[s].on = stop[s].on /\ stop[s].res = "waiting"
                \/ stop'[s].on \in ChatRequests /\ task[stop'[s].on].cause = "stopped"
    <3>1. stop'[s].on \in ChatRequests /\ task[stop'[s].on].cause = "stopped"
      BY <2>3 DEF StopsKnown
    <3>2. epoch >= 1 /\ place[stop'[s].on] = "done"
      BY <2>3, <3>1 DEF TasksKnown, StopKnown
    <3>3. QED
      BY <2>3, <3>1, <3>2 DEF store
  <2>4. QED
    BY <1>2, <2>1, <2>2, <2>3, StepsOfTheStops
<1>3. QED
  BY <1>1, <1>2

\* A stop that succeeds finds its reply, and the reply lasts.
LEMMA StopsStayStored ==
  ASSUME ChatTyped, ChatTyped', RowsAgree, TasksKnown, StopsKnown, StopIsStored, [ChatNext]_chatVars
  PROVE  StopIsStored'
<1> DEFINE Good(r) == IF r \in Starts THEN reply' = [by |-> r, status |-> "stopped"] ELSE turns'[r] = "stopped"
<1>g. ASSUME NEW r PROVE StoppedReply(r)' <=> Good(r)
  BY DEF StoppedReply
<1> SUFFICES ASSUME NEW s \in Stops, NEW r, r = stop'[s].on, stop'[s].res = "stopped", Exists', epoch' <= 1
             PROVE  StoppedReply(r)'
  BY <1>g DEF StopIsStored
<1>1. CASE stop'[s] = stop[s]
  <2>1. r \in ChatRequests /\ epoch >= 1 /\ place[r] = "done"
    BY <1>1 DEF StopsKnown
  <2>2. Exists /\ epoch <= 1 /\ (StoppedReply(r) => StoppedReply(r)')
    BY <2>1, StoppedRepliesLast
  <2>3. StoppedReply(r)
    BY <1>1, <2>2 DEF StopIsStored, StoppedReply
  <2>4. QED
    BY <2>2, <2>3
<1>2. CASE stop'[s] # stop[s]
  <2>1. /\ UNCHANGED <<store, place, task>>
        /\ r \in ChatRequests => place[r] = "done" /\ ~task[r].failed
        /\ \/ r = stop[s].on /\ stop[s].res = "waiting"
           \/ r \in ChatRequests /\ task[r].cause = "stopped"
    BY <1>2, StepsOfTheStops
  <2>2. r \in ChatRequests /\ task[r].cause = "stopped"
    BY <2>1 DEF StopsKnown
  <2>3. Exists /\ epoch <= 1 /\ place[r] \in Ended /\ ~task[r].failed
    BY <2>1, <2>2 DEF store, Exists, Ended
  <2>4. StoppedReply(r)
    BY <2>2, <2>3 DEF TasksKnown, StopKnown
  <2>5. QED
    BY <2>1, <2>4 DEF StoppedReply, store
<1>3. QED
  BY <1>1, <1>2

-----------------------------------------------------------------------------
(* The invariant.                                                          *)

ChatIInv ==
  /\ ChatTyped /\ RowsAgree /\ SessionsSeen /\ ViewsAgree /\ Matched /\ ChatsFollow
  /\ OwnQuestion /\ AnswersStored /\ AnswersAgree
  /\ ChargedOnce /\ NoOrphanClaim
  /\ TasksKnown /\ StopsKnown /\ StopIsStored

\* The first states satisfy the invariant.
LEMMA ChatInitially == ChatInit => ChatIInv
<1> SUFFICES ASSUME ChatInit PROVE ChatIInv
  OBVIOUS
<1> USE DEF ChatInit
<1>1. ChatTypeOK
  BY DEF ChatTypeOK, ChatPhases, Task, NoTask, Running
<1>2. PlacesSorted /\ OutcomesKnown /\ SessionsSeen /\ ViewsAgree /\ Matched
  BY DEF PlacesSorted, OutcomesKnown, SessionsSeen, Past, ViewsAgree, Matched, Compared, Looking, ChatRequests
<1>3. RowsAgree /\ ChatsFollow /\ OwnQuestion /\ AnswersStored /\ AnswersAgree /\ ChargedOnce /\ NoOrphanClaim
  BY DEF RowsAgree, Exists, ChatsFollow, OwnQuestion, AnswersStored, AnswersAgree, ChargedOnce, NoOrphanClaim
<1>4. TasksKnown /\ StopsKnown /\ StopIsStored
  BY DEF TasksKnown, StopKnown, NoTask, StopsKnown, StopIsStored
<1>5. QED
  BY <1>1, <1>2, <1>3, <1>4 DEF ChatIInv, ChatTyped

\* Every step keeps it.
LEMMA ChatStays == ChatIInv /\ [ChatNext]_chatVars => ChatIInv'
<1> SUFFICES ASSUME ChatIInv, [ChatNext]_chatVars PROVE ChatIInv'
  OBVIOUS
<1> USE DEF ChatIInv
<1>1. ChatTyped'
  BY ChatKeepsType
<1>2. RowsAgree'
  BY <1>1, RowsStayAgreed
<1>3. ViewsAgree' /\ SessionsSeen' /\ Matched'
  BY <1>1, <1>2, ViewsStayAgreed, PlacesStayMatched
<1>4. ChatsFollow' /\ OwnQuestion'
  BY <1>1, ChatsStayBehind, QuestionsStayOwn
<1>5. AnswersStored'
  BY <1>1, AnswersStayStored
<1>6. AnswersAgree'
  BY <1>1, <1>5, AnswersStayAgreed
<1>7. ChargedOnce' /\ NoOrphanClaim'
  BY <1>1, ChargedStaysOnce, NoOrphanStays
<1>8. TasksKnown' /\ StopsKnown'
  BY <1>1, TasksStayKnown, StopsStayKnown
<1>9. StopIsStored'
  BY <1>1, StopsStayStored
<1>10. QED
  BY <1>1, <1>2, <1>3, <1>4, <1>5, <1>6, <1>7, <1>8, <1>9

\* Whatever the interleaving of starts, chats, stops and restarts, the invariant of the chat holds.
THEOREM ChatInvariant == ChatSpec => []ChatIInv
BY ChatInitially, ChatStays, PTL DEF ChatSpec

\* Each variable of the chat has its type (start_chat.go, process_chat.go).
THEOREM ChatTypeCorrect == ChatSpec => []ChatTypeOK
<1>1. ChatIInv => ChatTypeOK
  BY DEF ChatIInv, ChatTyped
<1>2. QED
  BY <1>1, ChatInvariant, PTL

\* Everyone who is answered gets the same reply to the question that was asked, and no later
\* chat touches a session whose first chat is open (StartChat, ClaimFirstChat, ListMessages).
THEOREM FirstChatIsOne == ChatSpec => []FirstChatHolds
<1>1. ChatIInv => FirstChatHolds
  BY DEF ChatIInv, FirstChatHolds, OpenChatIsUntouched, TwoMessages, ChatsFollow, RowsAgree
<1>2. QED
  BY <1>1, ChatInvariant, PTL

\* A stop that was told to succeed left its reply, and a failed start no live claim
\* (CancelTask, finishActiveChatGeneration, ReleaseFirstChat).
THEOREM RepliesAreSettled == ChatSpec => []RepliesSettle
<1>1. ChatIInv => RepliesSettle
  BY DEF ChatIInv, RepliesSettle
<1>2. QED
  BY <1>1, ChatInvariant, PTL

\* The quota is charged in the step that stores a complete reply, and in no other
\* (CompleteFirstChat, InsertMeteredAssistantMessage).
THEOREM RepliesAreCharged == ChatSpec => ChargedWhenStored
<1>1. ChatIInv /\ ChatIInv' /\ [ChatNext]_chatVars => [ChargesWhatItStores]_chatVars
  BY StepsOfTheQuota DEF ChatIInv
<1>2. ChatSpec => [][ChargesWhatItStores]_chatVars
  BY <1>1, ChatInvariant, PTL DEF ChatSpec
<1>3. QED
  BY <1>2 DEF ChargedWhenStored, ChargesWhatItStores

-----------------------------------------------------------------------------
(***************************************************************************)
(* The reminder queue, for any number of workers, attempts, doubts and     *)
(* requeues: a recipient is reminded again only after an outcome that the  *)
(* queue could not learn, the retries of a job are bounded, and a job on   *)
(* record as sent stays so.                                                *)
(*                                                                         *)
(* The argument counts calls to the provider: those it accepted, those a   *)
(* worker is committed to, and the one the queue may still let a worker    *)
(* start.  Their sum grows only with a doubt.  A call that is not covered  *)
(* by a held lease costs a doubt of its own, so that a requeue, which sets *)
(* the accepted calls back to zero, starts from a sum of one again.        *)
(***************************************************************************)

\* Workers that go on to the provider: the lease they hold or held was renewed.
Calling == {w \in Workers : senders[w].phase \in {"renewed", "sending"}}

\* The worker whose lease is good.
Holding(w) == Owns(w) /\ reminder.lease = "held"

\* The queue may let some worker start a call.
StillDue == \/ reminder.status = "pending"
            \/ reminder.status = "processing" /\ reminder.lease = "lapsed"
OnItsWay(w) == /\ Holding(w)
               /\ \/ senders[w].phase \in {"idle", "claimed", "eligible"}
                  \/ senders[w].phase = "finishing" /\ senders[w].outcome = "retry"
CallAhead == StillDue \/ \E w \in Workers : OnItsWay(w)
CallToCome == IF CallAhead THEN 1 ELSE 0

\* What was accepted and what may still be exceeds one only by the doubts.
CallsAreCounted == accepted + Cardinality(Calling) + CallToCome <= 1 + doubts

\* A worker that calls without a good lease was doubted once.
Strays == {w \in Calling : ~Holding(w)}
StraysAreDoubted == Cardinality(Strays) <= doubts

\* The owner works on the attempt that the row counts.
OwnersAgree == \A w \in Workers : Owns(w) /\ senders[w].phase # "idle" =>
                                     senders[w].attempt = reminder.attempts

\* A job that can be claimed, or will be once its lease lapses, has an attempt left.
AttemptLeft == StillDue \/ (reminder.status = "processing" /\ Abandoned) =>
                 reminder.attempts + 1 <= ReminderAttempts + doubts

-----------------------------------------------------------------------------
(* The type of the queue.                                                  *)

Jobs == [status : {"none", "pending", "processing", "sent", "skipped", "dead"}, due : BOOLEAN,
         attempts : Nat, owner : Workers \cup {NoSender}, lease : {"none", "held", "lapsed"}]
Senders == [phase : {"idle", "claimed", "eligible", "renewed", "sending", "finishing"},
            attempt : Nat, outcome : {"none", "sent", "skipped", "dead", "retry"}]

SenderPhases == {"idle", "claimed", "eligible", "renewed", "sending", "finishing"}
MarkKinds == {"none", "sent", "skipped", "dead", "retry"}

\* A worker that is about to mark the job knows with what.
MarksKnown == \A w \in Workers : senders[w].phase = "finishing" => senders[w].outcome # "none"

\* A worker enters a phase: its record keeps its type, and the others are left alone.
LEMMA EnterKeepsType ==
  ASSUME senders \in [Workers -> Senders], NEW w \in Workers, NEW phase \in SenderPhases,
         NEW outcome \in MarkKinds, Enter(w, phase, outcome)
  PROVE  /\ senders' \in [Workers -> Senders]
         /\ senders'[w] = [phase |-> phase, attempt |-> senders[w].attempt, outcome |-> outcome]
         /\ \A v \in Workers \ {w} : senders'[v] = senders[v]
BY DEF Enter, Senders, SenderPhases, MarkKinds

\* A worker that moves on has an outcome when it is about to mark the job.
LEMMA EnterKeepsMarks ==
  ASSUME senders \in [Workers -> Senders], MarksKnown, NEW w \in Workers, NEW phase \in SenderPhases,
         NEW outcome \in MarkKinds, phase = "finishing" => outcome # "none", Enter(w, phase, outcome)
  PROVE  senders' \in [Workers -> Senders] /\ MarksKnown'
<1>1. /\ senders' \in [Workers -> Senders]
      /\ senders'[w] = [phase |-> phase, attempt |-> senders[w].attempt, outcome |-> outcome]
      /\ \A v \in Workers \ {w} : senders'[v] = senders[v]
  BY EnterKeepsType
<1>2. QED
  BY <1>1 DEF MarksKnown

\* A worker comes to rest.
LEMMA RestKeepsType ==
  ASSUME senders \in [Workers -> Senders], MarksKnown, NEW w \in Workers,
         senders' = [senders EXCEPT ![w] = Resting]
  PROVE  /\ senders' \in [Workers -> Senders] /\ MarksKnown'
         /\ senders'[w] = Resting
         /\ \A v \in Workers \ {w} : senders'[v] = senders[v]
<1>1. Resting \in Senders /\ Resting.phase # "finishing"
  BY DEF Resting, Senders
<1>2. /\ senders' \in [Workers -> Senders] /\ senders'[w] = Resting
      /\ \A v \in Workers \ {w} : senders'[v] = senders[v]
  BY <1>1
<1>3. QED
  BY <1>1, <1>2 DEF MarksKnown

\* A job that is new, or gone, is a job of nobody.
LEMMA BlankJobs ==
  /\ NoReminder \in Jobs /\ NoReminder.owner = NoSender
  /\ NoReminder.status = "none" /\ NoReminder.attempts = 0
  /\ NewReminder \in Jobs /\ NewReminder.owner = NoSender
  /\ NewReminder.status = "pending" /\ NewReminder.attempts = 0
BY DEF NoReminder, NewReminder, Jobs

\* Concluding a job keeps its type and its attempts, and nobody has it any more.
LEMMA ConcludedJob ==
  ASSUME reminder \in Jobs, NEW outcome \in {"sent", "skipped", "dead", "retry"}, NEW attempt \in Nat
  PROVE  /\ Concluded(outcome, attempt) \in Jobs
         /\ Concluded(outcome, attempt).owner = NoSender
         /\ Concluded(outcome, attempt).attempts = reminder.attempts
         /\ Concluded(outcome, attempt).status \in {"sent", "skipped", "dead", "pending"}
         /\ Concluded(outcome, attempt).status = "pending" =>
               outcome = "retry" /\ ~(attempt >= ReminderAttempts)
<1>1. CASE outcome # "retry"
  BY <1>1 DEF Concluded, Jobs
<1>2. CASE outcome = "retry"
  BY <1>2 DEF Concluded, Jobs
<1>3. QED
  BY <1>1, <1>2

\* The type by its parts.
Typed == /\ reminder \in Jobs /\ senders \in [Workers -> Senders] /\ doubts \in 0..MaxDoubts
         /\ reminder.status = "processing" <=> reminder.owner # NoSender
         /\ accepted \in Nat
         /\ MarksKnown

\* The proof's types are those of the module.
LEMMA TypedIsType == Typed => ReminderTypeOK
BY DEF Typed, ReminderTypeOK, Jobs, Senders

\* A job in processing has a lease, good or lapsed.
LeaseStands == reminder.status = "processing" => reminder.lease # "none"

ReminderIInv == /\ Typed /\ LeaseStands /\ AttemptsAreBounded
                /\ OwnersAgree /\ AttemptLeft /\ CallsAreCounted /\ StraysAreDoubted

\* Every action keeps each variable in its type, and only a worker has a job.
LEMMA ReminderKeepsType == Typed /\ [ReminderNext]_reminderVars => Typed'
<1> SUFFICES ASSUME Typed, [ReminderNext]_reminderVars PROVE Typed'
  OBVIOUS
<1> USE ReminderAssumption DEF Typed
<1>1. CASE EnqueueReminder \/ RequeueReminder \/ CleanUpReminder
  BY <1>1, BlankJobs DEF EnqueueReminder, RequeueReminder, CleanUpReminder, Reset, MarksKnown
<1>2. CASE ToggleSource \/ ToggleRecipient
  BY <1>2 DEF ToggleSource, ToggleRecipient, MarksKnown
<1>3. CASE RetryComesDue
  BY <1>3 DEF RetryComesDue, Jobs, MarksKnown
<1>4. ASSUME NEW w \in Workers, ClaimReminder(w) PROVE Typed'
  <2>1. reminder.attempts + 1 \in Nat
    BY DEF Jobs
  <2>2. reminder' \in Jobs /\ (reminder.status = "processing" <=> reminder.owner # NoSender)'
    BY <1>4, <2>1 DEF ClaimReminder, Jobs
  <2>3. senders' \in [Workers -> Senders] /\ MarksKnown'
    BY <1>4, <2>1 DEF ClaimReminder, Senders, MarksKnown
  <2>4. QED
    BY <1>4, <2>2, <2>3 DEF ClaimReminder
<1>5. ASSUME NEW w \in Workers, NEW failed \in BOOLEAN, ResolveDelivery(w, failed) PROVE Typed'
  <2>1. \E phase \in SenderPhases, outcome \in MarkKinds :
           Enter(w, phase, outcome) /\ (phase = "finishing" => outcome # "none")
    BY <1>5 DEF ResolveDelivery, SenderPhases, MarkKinds
  <2>2. senders' \in [Workers -> Senders] /\ MarksKnown'
    BY <2>1, EnterKeepsMarks
  <2>3. QED
    BY <1>5, <2>2 DEF ResolveDelivery
<1>6. ASSUME NEW w \in Workers, RenewLease(w) PROVE Typed'
  <2>1. senders' \in [Workers -> Senders] /\ MarksKnown'
    <3>1. CASE Enter(w, "renewed", "none")
      BY <3>1, EnterKeepsMarks DEF SenderPhases, MarkKinds
    <3>2. CASE senders' = [senders EXCEPT ![w] = Resting]
      BY <3>2, RestKeepsType
    <3>3. QED
      BY <1>6, <3>1, <3>2 DEF RenewLease
  <2>2. QED
    BY <1>6, <2>1 DEF RenewLease
<1>7. ASSUME NEW w \in Workers, SendReminder(w) PROVE Typed'
  <2>1. \E outcome \in MarkKinds : outcome # "none" /\ Enter(w, "finishing", outcome)
    BY <1>7 DEF SendReminder, MarkKinds
  <2>2. senders' \in [Workers -> Senders] /\ MarksKnown'
    BY <2>1, EnterKeepsMarks DEF SenderPhases
  <2>3. reminder' = reminder /\ doubts' \in 0..MaxDoubts /\ accepted' \in Nat
    BY <1>7 DEF SendReminder
  <2>4. QED
    BY <2>2, <2>3
<1>8. ASSUME NEW w \in Workers, FinishReminder(w) PROVE Typed'
  <2>1. senders[w].attempt \in Nat /\ senders[w].outcome \in {"sent", "skipped", "dead", "retry"}
    BY <1>8 DEF FinishReminder, Senders, MarksKnown
  <2>2. reminder' \in Jobs /\ (reminder.status = "processing" <=> reminder.owner # NoSender)'
    BY <1>8, <2>1, ConcludedJob DEF FinishReminder
  <2>3. senders' \in [Workers -> Senders] /\ MarksKnown'
    BY <1>8, RestKeepsType DEF FinishReminder
  <2>4. QED
    BY <1>8, <2>2, <2>3 DEF FinishReminder
<1>9. ASSUME NEW w \in Workers, DropReminder(w) PROVE Typed'
  <2>1. senders' \in [Workers -> Senders] /\ MarksKnown'
    BY <1>9, RestKeepsType DEF DropReminder
  <2>2. QED
    BY <1>9, <2>1 DEF DropReminder
<1>10. CASE LeaseLapses
  BY <1>10 DEF LeaseLapses, Jobs, MarksKnown
<1>11. CASE UNCHANGED reminderVars
  BY <1>11 DEF reminderVars, MarksKnown
<1>12. QED
  BY <1>1, <1>2, <1>3, <1>4, <1>5, <1>6, <1>7, <1>8, <1>9, <1>10, <1>11 DEF ReminderNext, WorkerStep
-----------------------------------------------------------------------------
(* The attempts.                                                           *)

\* A step that leaves the row and the owner's record alone keeps what is known of the attempts.
AttemptsKnown == LeaseStands /\ AttemptsAreBounded /\ OwnersAgree /\ AttemptLeft

\* Owner, attempt number and what is left of the attempts stay in step.
LEMMA AttemptsStayKnown ==
  Typed /\ Typed' /\ AttemptsKnown /\ [ReminderNext]_reminderVars => AttemptsKnown'
<1> SUFFICES ASSUME Typed, Typed', AttemptsKnown, [ReminderNext]_reminderVars PROVE AttemptsKnown'
  OBVIOUS
<1> USE ReminderAssumption DEF AttemptsKnown
<1>0. /\ reminder.attempts \in Nat /\ doubts \in Nat /\ ReminderAttempts \in Nat \ {0}
      /\ reminder.status = "processing" <=> reminder.owner # NoSender
      /\ senders \in [Workers -> Senders] /\ reminder \in Jobs
  BY DEF Typed, Jobs
<1>1. ASSUME reminder' \in {NewReminder, NoReminder}, doubts' = doubts PROVE AttemptsKnown'
  BY <1>0, <1>1, BlankJobs
     DEF LeaseStands, AttemptsAreBounded, OwnersAgree, AttemptLeft, StillDue, Owns
<1>2. ASSUME UNCHANGED <<reminder, senders, doubts>> PROVE AttemptsKnown'
  BY <1>2 DEF LeaseStands, AttemptsAreBounded, OwnersAgree, AttemptLeft, StillDue, Owns, Abandoned
<1>3. CASE RetryComesDue
  BY <1>0, <1>3 DEF RetryComesDue, LeaseStands, AttemptsAreBounded, OwnersAgree, AttemptLeft, StillDue,
     Owns, Abandoned, Jobs
<1>4. ASSUME NEW w \in Workers, ClaimReminder(w) PROVE AttemptsKnown'
  <2>1. /\ reminder'.status = "processing" /\ reminder'.owner = w /\ reminder'.lease = "held"
        /\ reminder'.attempts = reminder.attempts + 1 /\ doubts' = doubts
    BY <1>0, <1>4 DEF ClaimReminder, Jobs
  <2>2. senders'[w].phase = "claimed" /\ senders'[w].attempt = reminder.attempts + 1
    BY <1>0, <1>4 DEF ClaimReminder
  <2>3. reminder.attempts + 1 <= ReminderAttempts + doubts
    <3>1. StillDue
      BY <1>4 DEF ClaimReminder, ReminderClaimable, StillDue
    <3>2. QED
      BY <3>1 DEF AttemptLeft
  <2>4. QED
    <3>1. OwnersAgree'
      BY <2>1, <2>2 DEF OwnersAgree, Owns
    <3>2. ~Abandoned' /\ ~StillDue'
      BY <2>1, <2>2 DEF Abandoned, StillDue
    <3>3. QED
      BY <1>0, <2>1, <2>3, <3>1, <3>2 DEF LeaseStands, AttemptsAreBounded, AttemptLeft
<1>5. ASSUME NEW w \in Workers, NEW phase \in SenderPhases \ {"idle"}, NEW outcome \in MarkKinds,
             senders[w].phase # "idle", Enter(w, phase, outcome), reminder' = reminder,
             doubts' \in {doubts, doubts + 1}
      PROVE  AttemptsKnown'
  <2>1. /\ senders'[w] = [phase |-> phase, attempt |-> senders[w].attempt, outcome |-> outcome]
        /\ \A v \in Workers \ {w} : senders'[v] = senders[v]
    BY <1>0, <1>5, EnterKeepsType
  <2>2. Abandoned' => Abandoned
    BY <1>5, <2>1 DEF Abandoned
  <2>3. OwnersAgree'
    BY <1>5, <2>1 DEF OwnersAgree, Owns
  <2>4. QED
    BY <1>0, <1>5, <2>2, <2>3 DEF LeaseStands, AttemptsAreBounded, AttemptLeft, StillDue
<1>6. ASSUME NEW w \in Workers, senders' = [senders EXCEPT ![w] = Resting], reminder' = reminder,
             Holding(w) => doubts' = doubts + 1, doubts' \in {doubts, doubts + 1}
      PROVE  AttemptsKnown'
  <2>1. senders'[w].phase = "idle" /\ \A v \in Workers \ {w} : senders'[v] = senders[v]
    BY <1>0, <1>6 DEF Resting
  <2>2. OwnersAgree'
    BY <1>6, <2>1 DEF OwnersAgree, Owns
  <2>3. AttemptLeft'
    <3>1. CASE reminder.owner = w /\ doubts' = doubts + 1
      BY <1>0, <1>6, <3>1 DEF AttemptLeft, AttemptsAreBounded
    <3>2. CASE reminder.owner = w /\ doubts' = doubts
      <4>1. reminder.status = "processing" => StillDue
        BY <1>0, <1>6, <3>2 DEF Holding, Owns, StillDue, LeaseStands, Jobs
      <4>2. QED
        BY <1>0, <1>6, <3>2, <4>1 DEF AttemptLeft, StillDue
    <3>3. CASE reminder.owner # w
      <4>1. Abandoned' => Abandoned
        BY <1>6, <2>1, <3>3 DEF Abandoned
      <4>2. QED
        BY <1>0, <1>6, <4>1 DEF AttemptLeft, StillDue
    <3>4. QED
      BY <1>6, <3>1, <3>2, <3>3
  <2>4. QED
    BY <1>0, <1>6, <2>2, <2>3 DEF LeaseStands, AttemptsAreBounded
<1>7. ASSUME NEW w \in Workers, NEW failed \in BOOLEAN, ResolveDelivery(w, failed) PROVE AttemptsKnown'
  <2>1. \E phase \in SenderPhases \ {"idle"}, outcome \in MarkKinds : Enter(w, phase, outcome)
    BY <1>7 DEF ResolveDelivery, SenderPhases, MarkKinds
  <2>2. senders[w].phase # "idle" /\ reminder' = reminder /\ doubts' = doubts
    BY <1>7 DEF ResolveDelivery
  <2>3. QED
    BY <1>5, <2>1, <2>2
<1>8. ASSUME NEW w \in Workers, RenewLease(w) PROVE AttemptsKnown'
  <2>1. CASE Holding(w)
    BY <1>5, <1>8, <2>1 DEF RenewLease, Holding, SenderPhases, MarkKinds
  <2>2. CASE ~Holding(w)
    BY <1>6, <1>8, <2>2 DEF RenewLease, Holding
  <2>3. QED
    BY <2>1, <2>2
<1>9. ASSUME NEW w \in Workers, SendReminder(w) PROVE AttemptsKnown'
  <2>1. \E outcome \in MarkKinds : Enter(w, "finishing", outcome)
    BY <1>9 DEF SendReminder, MarkKinds
  <2>2. senders[w].phase # "idle" /\ reminder' = reminder /\ doubts' \in {doubts, doubts + 1}
    BY <1>9 DEF SendReminder
  <2>3. QED
    BY <1>5, <2>1, <2>2 DEF SenderPhases
<1>10. ASSUME NEW w \in Workers, FinishReminder(w) PROVE AttemptsKnown'
  <2>1. CASE ~Owns(w)
    BY <1>6, <1>10, <2>1 DEF FinishReminder, Holding
  <2>2. CASE Owns(w)
    <3>1. senders[w].attempt \in Nat /\ senders[w].outcome \in {"sent", "skipped", "dead", "retry"}
      BY <1>0, <1>10 DEF FinishReminder, Senders, MarksKnown, Typed
    <3>2. senders[w].attempt = reminder.attempts
      BY <1>10, <2>2 DEF FinishReminder, OwnersAgree
    <3>3. /\ reminder'.owner = NoSender /\ reminder'.attempts = reminder.attempts
          /\ reminder'.status \in {"sent", "skipped", "dead", "pending"}
          /\ reminder'.status = "pending" => ~(reminder.attempts >= ReminderAttempts)
          /\ doubts' = doubts
      BY <1>0, <1>10, <2>2, <3>1, <3>2, ConcludedJob DEF FinishReminder
    <3>4. QED
      BY <1>0, <3>3 DEF LeaseStands, AttemptsAreBounded, OwnersAgree, AttemptLeft, StillDue, Owns
  <2>3. QED
    BY <2>1, <2>2
<1>11. ASSUME NEW w \in Workers, DropReminder(w) PROVE AttemptsKnown'
  BY <1>6, <1>11 DEF DropReminder
<1>12. CASE LeaseLapses
  <2>1. /\ reminder'.status = "processing" /\ reminder'.lease = "lapsed" /\ reminder'.owner = reminder.owner
        /\ reminder'.attempts = reminder.attempts /\ senders' = senders
    BY <1>0, <1>12 DEF LeaseLapses, Jobs
  <2>2. reminder.attempts + 1 <= ReminderAttempts + doubts' /\ doubts' \in {doubts, doubts + 1}
    BY <1>0, <1>12 DEF LeaseLapses, AttemptLeft, AttemptsAreBounded
  <2>3. OwnersAgree'
    BY <1>12, <2>1 DEF OwnersAgree, Owns, LeaseLapses
  <2>4. QED
    BY <1>0, <2>1, <2>2, <2>3 DEF LeaseStands, AttemptsAreBounded, AttemptLeft
<1>13. QED
  BY <1>1, <1>2, <1>3, <1>4, <1>7, <1>8, <1>9, <1>10, <1>11, <1>12
     DEF ReminderNext, WorkerStep, EnqueueReminder, RequeueReminder, CleanUpReminder, Reset, ToggleSource,
         ToggleRecipient, reminderVars
-----------------------------------------------------------------------------
(* The calls.                                                              *)

\* Workers are finitely many, and so are those in any set of them.
LEMMA SetsOfWorkers ==
  /\ \A S \in SUBSET Workers : IsFiniteSet(S) /\ Cardinality(S) \in Nat
  /\ \A S \in SUBSET Workers : \A T \in SUBSET S : Cardinality(T) <= Cardinality(S)
  /\ \A S \in SUBSET Workers : \A w \in S : Cardinality(S \ {w}) = Cardinality(S) - 1
  /\ \A S \in SUBSET Workers : \A w \in Workers \ S : Cardinality(S \cup {w}) = Cardinality(S) + 1
<1>1. \A S \in SUBSET Workers : IsFiniteSet(S) /\ Cardinality(S) \in Nat
  BY ReminderAssumption, FS_Subset, FS_CardinalityType
<1>2. QED
  BY <1>1, FS_Subset, FS_RemoveElement, FS_AddElement

\* The sum of accepted, ongoing and possible calls grows only with a doubt.
LEMMA CallsStayCounted ==
  /\ Typed /\ Typed' /\ LeaseStands /\ CallsAreCounted /\ StraysAreDoubted
  /\ [ReminderNext]_reminderVars
  => CallsAreCounted' /\ StraysAreDoubted'
<1> SUFFICES ASSUME Typed, Typed', LeaseStands, CallsAreCounted, StraysAreDoubted,
                    [ReminderNext]_reminderVars
             PROVE  CallsAreCounted' /\ StraysAreDoubted'
  OBVIOUS
<1>0. /\ doubts \in Nat /\ doubts' \in Nat /\ accepted \in Nat /\ accepted' \in Nat
      /\ CallToCome \in 0..1 /\ CallToCome' \in 0..1
      /\ reminder.status = "processing" <=> reminder.owner # NoSender
      /\ senders \in [Workers -> Senders] /\ reminder \in Jobs
  BY ReminderAssumption DEF Typed, CallToCome
<1>1. /\ Calling \in SUBSET Workers /\ Calling' \in SUBSET Workers
      /\ Strays \in SUBSET Calling /\ Strays' \in SUBSET Calling'
      /\ Cardinality(Calling) \in Nat /\ Cardinality(Calling') \in Nat
      /\ Cardinality(Strays) \in Nat /\ Cardinality(Strays') \in Nat
      /\ Cardinality(Strays) <= Cardinality(Calling)
      /\ Cardinality(Strays') <= Cardinality(Calling')
  <2>1. /\ Calling \in SUBSET Workers /\ Calling' \in SUBSET Workers
        /\ Strays \in SUBSET Calling /\ Strays' \in SUBSET Calling'
    BY DEF Calling, Strays
  <2>2. QED
    BY <2>1, SetsOfWorkers
\* Nobody calls on and nothing is accepted: what remains was doubted.
<1>2. ASSUME reminder' \in {NewReminder, NoReminder}, reminder.status # "processing", accepted' = 0,
             senders' = senders, doubts' = doubts
      PROVE  CallsAreCounted' /\ StraysAreDoubted'
  <2>1. Calling' = Calling /\ Strays = Calling
    BY <1>2 DEF Calling, Strays, Holding, Owns
  <2>2. Cardinality(Calling) <= doubts
    BY <2>1 DEF StraysAreDoubted
  <2>3. QED
    BY <1>0, <1>1, <1>2, <2>1, <2>2 DEF CallsAreCounted, StraysAreDoubted
\* The calls stay as they are.
<1>3. ASSUME Calling' = Calling, Strays' \in SUBSET Strays, CallAhead' => CallAhead, accepted' = accepted,
             doubts' = doubts
      PROVE  CallsAreCounted' /\ StraysAreDoubted'
  <2>1. Cardinality(Strays') <= Cardinality(Strays)
    BY <1>1, <1>3, SetsOfWorkers
  <2>2. CallToCome' <= CallToCome
    BY <1>3 DEF CallToCome
  <2>3. QED
    BY <1>0, <1>1, <1>3, <2>1, <2>2 DEF CallsAreCounted, StraysAreDoubted
\* A call is given up, or it is made.
<1>4. ASSUME NEW w \in Calling, Calling' = Calling \ {w}, Strays' \in SUBSET Strays,
             \/ accepted' = accepted /\ doubts' = doubts
             \/ accepted' = accepted + 1 /\ doubts' = doubts /\ (CallAhead' => CallAhead)
             \/ accepted' = accepted + 1 /\ doubts' = doubts + 1
      PROVE  CallsAreCounted' /\ StraysAreDoubted'
  <2>1. Cardinality(Strays') <= Cardinality(Strays) /\ Cardinality(Calling') = Cardinality(Calling) - 1
    BY <1>1, <1>4, SetsOfWorkers
  <2>2. (CallAhead' => CallAhead) => CallToCome' <= CallToCome
    BY DEF CallToCome
  <2>3. QED
    BY <1>0, <1>1, <1>4, <2>1, <2>2 DEF CallsAreCounted, StraysAreDoubted
<1>5. CASE EnqueueReminder \/ RequeueReminder \/ CleanUpReminder
  BY <1>2, <1>5 DEF EnqueueReminder, RequeueReminder, CleanUpReminder, Reset, Finished, Requeueable
<1>6. CASE ToggleSource \/ ToggleRecipient \/ UNCHANGED reminderVars
  <2>1. UNCHANGED <<reminder, senders, accepted, doubts>>
    BY <1>6 DEF ToggleSource, ToggleRecipient, reminderVars
  <2>2. Calling' = Calling /\ Strays' = Strays /\ CallAhead' = CallAhead
    BY <2>1 DEF Calling, Strays, Holding, Owns, CallAhead, StillDue, OnItsWay
  <2>3. QED
    BY <1>3, <2>1, <2>2
<1>7. CASE RetryComesDue
  <2>1. reminder.status = "pending" /\ reminder'.status = "pending" /\ UNCHANGED <<senders, accepted, doubts>>
    BY <1>0, <1>7 DEF RetryComesDue, Jobs
  <2>2. \A v \in Workers : ~Holding(v) /\ ~Holding(v)'
    BY <2>1 DEF Holding, Owns
  <2>3. Calling' = Calling /\ Strays' = Strays
    BY <2>1, <2>2 DEF Calling, Strays
  <2>4. CallAhead
    BY <2>1 DEF CallAhead, StillDue
  <2>5. QED
    BY <1>3, <2>1, <2>3, <2>4
<1>8. ASSUME NEW w \in Workers, ClaimReminder(w) PROVE CallsAreCounted' /\ StraysAreDoubted'
  <2>1. /\ senders[w].phase = "idle" /\ senders'[w].phase = "claimed"
        /\ \A v \in Workers \ {w} : senders'[v] = senders[v]
    BY <1>0, <1>8 DEF ClaimReminder
  <2>2. Calling' = Calling
    BY <2>1 DEF Calling
  <2>3. CallAhead /\ \A v \in Workers : ~Holding(v)
    <3>1. StillDue
      BY <1>8 DEF ClaimReminder, ReminderClaimable, StillDue
    <3>2. QED
      BY <3>1 DEF CallAhead, StillDue, Holding, Owns
  <2>4. Strays = Calling
    BY <2>3 DEF Strays, Calling
  <2>5. QED
    BY <1>1, <1>3, <1>8, <2>2, <2>3, <2>4 DEF ClaimReminder
<1>9. ASSUME NEW w \in Workers, NEW failed \in BOOLEAN, ResolveDelivery(w, failed)
      PROVE  CallsAreCounted' /\ StraysAreDoubted'
  <2>1. UNCHANGED <<reminder, accepted, doubts>>
    BY <1>9 DEF ResolveDelivery
  <2>2. CASE senders[w].phase = "claimed"
    <3>1. \E phase \in SenderPhases, outcome \in MarkKinds :
            Enter(w, phase, outcome) /\ phase \in {"finishing", "eligible"}
      BY <1>9, <2>2 DEF ResolveDelivery, SenderPhases, MarkKinds
    <3>2. /\ senders'[w].phase \in {"finishing", "eligible"}
          /\ \A v \in Workers \ {w} : senders'[v] = senders[v]
      BY <1>0, <3>1 DEF Enter, Senders
    <3>3. Calling' = Calling /\ Strays' = Strays
      BY <2>1, <2>2, <3>2 DEF Calling, Strays, Holding, Owns
    <3>4. CallAhead' => CallAhead
      BY <2>1, <2>2, <3>2 DEF CallAhead, StillDue, OnItsWay, Holding, Owns
    <3>5. QED
      BY <1>3, <2>1, <3>3, <3>4
  <2>3. CASE senders[w].phase = "renewed"
    <3>1. \E phase \in SenderPhases, outcome \in MarkKinds :
            Enter(w, phase, outcome) /\ phase \in {"finishing", "sending"}
      BY <1>9, <2>3 DEF ResolveDelivery, SenderPhases, MarkKinds
    <3>2. /\ senders'[w].phase \in {"finishing", "sending"}
          /\ \A v \in Workers \ {w} : senders'[v] = senders[v]
      BY <1>0, <3>1 DEF Enter, Senders
    <3>3. CASE senders'[w].phase = "sending"
      <4>1. Calling' = Calling /\ Strays' = Strays
        BY <2>1, <2>3, <3>2, <3>3 DEF Calling, Strays, Holding, Owns
      <4>2. CallAhead' => CallAhead
        BY <2>1, <3>2, <3>3 DEF CallAhead, StillDue, OnItsWay, Holding, Owns
      <4>3. QED
        BY <1>3, <2>1, <4>1, <4>2
    <3>4. CASE senders'[w].phase = "finishing"
      <4>1. w \in Calling /\ Calling' = Calling \ {w} /\ Strays' \in SUBSET Strays
        BY <2>1, <2>3, <3>2, <3>4 DEF Calling, Strays, Holding, Owns
      <4>2. QED
        BY <1>4, <2>1, <4>1
    <3>5. QED
      BY <3>2, <3>3, <3>4
  <2>4. QED
    BY <1>9, <2>2, <2>3 DEF ResolveDelivery
<1>10. ASSUME NEW w \in Workers, RenewLease(w) PROVE CallsAreCounted' /\ StraysAreDoubted'
  <2>1. UNCHANGED <<reminder, accepted, doubts>> /\ senders[w].phase = "eligible"
    BY <1>10 DEF RenewLease
  <2>2. CASE Holding(w)
    <3>1. Enter(w, "renewed", "none")
      BY <1>10, <2>2 DEF RenewLease, Holding
    <3>2. senders'[w].phase = "renewed" /\ \A v \in Workers \ {w} : senders'[v] = senders[v]
      BY <1>0, <3>1 DEF Enter, Senders
    <3>3. Calling' = Calling \cup {w} /\ w \in Workers \ Calling
      BY <2>1, <3>2 DEF Calling
    <3>4. Strays' = Strays
      BY <2>1, <2>2, <3>2, <3>3 DEF Strays, Holding, Owns
    <3>5. CallAhead
      BY <2>1, <2>2 DEF CallAhead, OnItsWay
    <3>6. ~CallAhead'
      <4>1. ~StillDue'
        BY <2>1, <2>2 DEF StillDue, Holding, Owns
      <4>2. \A v \in Workers : Holding(v)' => v = w
        BY <2>1, <2>2 DEF Holding, Owns
      <4>3. QED
        BY <3>2, <4>1, <4>2 DEF CallAhead, OnItsWay
    <3>7. Cardinality(Calling') = Cardinality(Calling) + 1
      BY <1>1, <3>3, SetsOfWorkers
    <3>8. CallToCome = 1 /\ CallToCome' = 0
      BY <3>5, <3>6 DEF CallToCome
    <3>9. QED
      BY <1>0, <1>1, <2>1, <3>4, <3>7, <3>8 DEF CallsAreCounted, StraysAreDoubted
  <2>3. CASE ~Holding(w)
    <3>1. senders'[w].phase = "idle" /\ \A v \in Workers \ {w} : senders'[v] = senders[v]
      BY <1>0, <1>10, <2>3 DEF RenewLease, Holding, Resting
    <3>2. Calling' = Calling /\ Strays' = Strays
      BY <2>1, <3>1 DEF Calling, Strays, Holding, Owns
    <3>3. CallAhead' => CallAhead
      BY <2>1, <2>3, <3>1 DEF CallAhead, StillDue, OnItsWay, Holding, Owns
    <3>4. QED
      BY <1>3, <2>1, <3>2, <3>3
  <2>4. QED
    BY <2>2, <2>3
<1>11. ASSUME NEW w \in Workers, SendReminder(w) PROVE CallsAreCounted' /\ StraysAreDoubted'
  <2>1. reminder' = reminder /\ senders[w].phase = "sending"
    BY <1>11 DEF SendReminder
  <2>2. PICK outcome \in {"sent", "skipped", "dead", "retry"} :
           /\ Enter(w, "finishing", outcome)
           /\ \/ accepted' = accepted /\ doubts' = doubts
              \/ accepted' = accepted + 1 /\ doubts' = doubts /\ outcome = "sent"
              \/ accepted' = accepted + 1 /\ doubts' = doubts + 1
    BY <1>11 DEF SendReminder
  <2>3. /\ senders'[w].phase = "finishing" /\ senders'[w].outcome = outcome
        /\ \A v \in Workers \ {w} : senders'[v] = senders[v]
    BY <1>0, <2>2 DEF Enter, Senders
  <2>4. w \in Calling /\ Calling' = Calling \ {w} /\ Strays' \in SUBSET Strays
    BY <2>1, <2>3 DEF Calling, Strays, Holding, Owns
  <2>5. outcome = "sent" => (CallAhead' => CallAhead)
    BY <2>1, <2>3 DEF CallAhead, StillDue, OnItsWay, Holding, Owns
  <2>6. QED
    BY <1>4, <2>2, <2>4, <2>5
<1>12. ASSUME NEW w \in Workers, FinishReminder(w) PROVE CallsAreCounted' /\ StraysAreDoubted'
  <2>1. /\ senders[w].phase = "finishing" /\ UNCHANGED <<accepted, doubts>>
        /\ senders'[w].phase = "idle" /\ \A v \in Workers \ {w} : senders'[v] = senders[v]
    BY <1>0, <1>12 DEF FinishReminder, Resting
  <2>2. Calling' = Calling /\ w \notin Calling
    BY <2>1 DEF Calling
  <2>3. CASE ~Owns(w)
    <3>1. reminder' = reminder
      BY <1>12, <2>3 DEF FinishReminder
    <3>2. Strays' = Strays
      BY <2>2, <3>1 DEF Strays, Holding, Owns
    <3>3. CallAhead' => CallAhead
      BY <2>1, <2>3, <3>1 DEF CallAhead, StillDue, OnItsWay, Holding, Owns
    <3>4. QED
      BY <1>3, <2>1, <2>2, <3>2, <3>3
  <2>4. CASE Owns(w)
    <3>1. senders[w].attempt \in Nat /\ senders[w].outcome \in {"sent", "skipped", "dead", "retry"}
      BY <1>0, <2>1 DEF Senders, MarksKnown, Typed
    <3>2. /\ reminder'.status \in {"sent", "skipped", "dead", "pending"}
          /\ reminder'.status = "pending" => senders[w].outcome = "retry"
      BY <1>0, <1>12, <2>4, <3>1, ConcludedJob DEF FinishReminder
    <3>3. Strays = Calling
      BY <2>2, <2>4 DEF Strays, Calling, Holding, Owns
    <3>4. CallAhead' => CallAhead
      <4>1. CallAhead' => senders[w].outcome = "retry"
        BY <3>2 DEF CallAhead, StillDue, OnItsWay, Holding, Owns
      <4>2. senders[w].outcome = "retry" => StillDue \/ OnItsWay(w)
        BY <1>0, <2>1, <2>4 DEF LeaseStands, StillDue, OnItsWay, Holding, Owns, Jobs
      <4>3. QED
        BY <4>1, <4>2 DEF CallAhead
    <3>5. QED
      BY <1>1, <1>3, <2>1, <2>2, <3>3, <3>4
  <2>5. QED
    BY <2>3, <2>4
<1>13. ASSUME NEW w \in Workers, DropReminder(w) PROVE CallsAreCounted' /\ StraysAreDoubted'
  <2>1. /\ UNCHANGED <<reminder, accepted>> /\ doubts' = doubts + 1
        /\ senders'[w].phase = "idle" /\ \A v \in Workers \ {w} : senders'[v] = senders[v]
    BY <1>0, <1>13 DEF DropReminder, Resting
  <2>2. Calling' \in SUBSET Calling /\ Strays' \in SUBSET Strays
    BY <2>1 DEF Calling, Strays, Holding, Owns
  <2>3. Cardinality(Calling') <= Cardinality(Calling) /\ Cardinality(Strays') <= Cardinality(Strays)
    BY <1>1, <2>2, SetsOfWorkers
  <2>4. QED
    BY <1>0, <1>1, <2>1, <2>3 DEF CallsAreCounted, StraysAreDoubted
<1>14. CASE LeaseLapses
  <2>1. /\ UNCHANGED <<senders, accepted>> /\ reminder.status = "processing" /\ reminder.lease = "held"
        /\ reminder'.lease = "lapsed" /\ reminder.owner \in Workers
    BY <1>0, <1>14 DEF LeaseLapses, Jobs
  <2>2. Calling' = Calling
    BY <2>1 DEF Calling
  <2>3. Strays = Calling \ {reminder.owner} /\ Strays' = Calling
    BY <2>1, <2>2 DEF Strays, Holding, Owns
  <2>4. CASE Abandoned
    <3>1. CallAhead
      BY <2>1, <2>4 DEF CallAhead, OnItsWay, Holding, Owns, Abandoned
    <3>2. Strays' = Strays
      BY <2>3, <2>4 DEF Calling, Abandoned
    <3>3. QED
      BY <1>3, <1>14, <2>1, <2>2, <2>4, <3>1, <3>2 DEF LeaseLapses
  <2>5. CASE ~Abandoned
    <3>1. doubts' = doubts + 1
      BY <1>14, <2>5 DEF LeaseLapses
    <3>2. Cardinality(Strays') <= Cardinality(Strays) + 1
      <4>1. CASE reminder.owner \in Calling
        BY <1>1, <2>3, <4>1, SetsOfWorkers
      <4>2. CASE reminder.owner \notin Calling
        <5>1. Strays' = Strays
          BY <2>3, <4>2
        <5>2. QED
          BY <1>1, <5>1
      <4>3. QED
        BY <4>1, <4>2
    <3>3. QED
      BY <1>0, <1>1, <2>1, <2>2, <3>1, <3>2 DEF CallsAreCounted, StraysAreDoubted
  <2>6. QED
    BY <2>4, <2>5
<1>15. QED
  BY <1>5, <1>6, <1>7, <1>8, <1>9, <1>10, <1>11, <1>12, <1>13, <1>14 DEF ReminderNext, WorkerStep

-----------------------------------------------------------------------------
(* The theorems.                                                           *)

\* At the start there is no job and every worker rests.
LEMMA ReminderStarts == ReminderInit => ReminderIInv
<1> SUFFICES ASSUME ReminderInit PROVE ReminderIInv
  OBVIOUS
<1> USE ReminderAssumption DEF ReminderInit
<1>1. Typed
  <2>1. Resting \in Senders /\ Resting.phase = "idle"
    BY DEF Resting, Senders
  <2>2. senders \in [Workers -> Senders] /\ MarksKnown
    BY <2>1 DEF MarksKnown
  <2>3. QED
    BY <2>2, BlankJobs DEF Typed
<1>2. AttemptsKnown
  BY BlankJobs DEF AttemptsKnown, LeaseStands, AttemptsAreBounded, OwnersAgree, AttemptLeft, StillDue, Owns
<1>3. Calling = {} /\ Strays = {}
  BY DEF Calling, Strays, Resting
<1>4. ~CallAhead
  BY BlankJobs DEF CallAhead, StillDue, OnItsWay, Holding, Owns
<1>5. QED
  BY <1>1, <1>2, <1>3, <1>4, FS_EmptySet
     DEF ReminderIInv, AttemptsKnown, CallsAreCounted, StraysAreDoubted, CallToCome

\* The invariant is inductive.
LEMMA ReminderStays == ReminderIInv /\ [ReminderNext]_reminderVars => ReminderIInv'
BY ReminderKeepsType, AttemptsStayKnown, CallsStayCounted DEF ReminderIInv, AttemptsKnown

\* The invariant of the queue holds throughout.
LEMMA ReminderInvariant == ReminderSpec => []ReminderIInv
BY ReminderStarts, ReminderStays, PTL DEF ReminderSpec

\* Whatever workers stop, leases lapse and answers get lost: the provider accepts a reminder
\* again only after as many doubts, and the attempts of a job stay within their limit and the
\* doubts (ClaimDue, RenewLease, MarkSent, Reschedule).
THEOREM RemindersHold == ReminderSpec => []ReminderHolds
<1>1. ReminderIInv => ReminderHolds
  <2> SUFFICES ASSUME ReminderIInv PROVE ReminderHolds
    OBVIOUS
  <2>1. accepted \in Nat /\ doubts \in Nat /\ Cardinality(Calling) \in Nat /\ CallToCome \in 0..1
    BY ReminderAssumption, SetsOfWorkers DEF ReminderIInv, Typed, Calling, CallToCome
  <2>2. NoNeedlessRepeat
    BY <2>1 DEF ReminderIInv, CallsAreCounted, NoNeedlessRepeat
  <2>3. QED
    BY <2>2, TypedIsType DEF ReminderIInv, ReminderHolds
<1>2. QED
  BY <1>1, ReminderInvariant, PTL

\* A job on record as sent is not sent again: only a notice that is repeated and the clean-up
\* change its row, and no worker's late answer does (MarkSent, Reschedule, by owner and state).
THEOREM SentJobsStay == ReminderSpec => SentStays
<1>1. ASSUME [ReminderNext]_reminderVars, reminder.status = "sent"
      PROVE  \/ reminder' = reminder
             \/ reminder' = NoReminder
             \/ source.kind = "notice" /\ requeues' = requeues + 1
  <2>1. CASE EnqueueReminder \/ RequeueReminder \/ CleanUpReminder
    BY <1>1, <2>1 DEF EnqueueReminder, RequeueReminder, Requeueable, CleanUpReminder
  <2>2. CASE ToggleSource \/ ToggleRecipient \/ RetryComesDue \/ LeaseLapses \/ UNCHANGED reminderVars
    BY <1>1, <2>2 DEF ToggleSource, ToggleRecipient, RetryComesDue, LeaseLapses, reminderVars
  <2>3. ASSUME NEW w \in Workers, ClaimReminder(w) \/ WorkerStep(w) \/ DropReminder(w)
        PROVE  reminder' = reminder
    BY <1>1, <2>3 DEF ClaimReminder, ReminderClaimable, WorkerStep, ResolveDelivery, RenewLease, SendReminder,
       FinishReminder, Owns, DropReminder
  <2>4. QED
    BY <1>1, <2>1, <2>2, <2>3 DEF ReminderNext
<1>2. QED
  BY <1>1, PTL DEF ReminderSpec, SentStays

-----------------------------------------------------------------------------
(***************************************************************************)
(* The risk guard, for every set of requests and settings.  The            *)
(* concurrency limit rests on two facts: a request is only served while it *)
(* is a member of the active set, and the set never outgrows the largest   *)
(* limit the script was called with.  The quota rests on a third one,      *)
(* Fresh: the count a waiting request holds is still an upper bound of the *)
(* ledger, unless it was seen to miss a reply.                             *)
(***************************************************************************)

\* Every snapshot of the settings lies below the largest limits so far.
SnapshotsBelowHigh ==
  /\ settings.limit <= high.limit /\ settings.max <= high.max
  /\ \A r \in Requests : saw[r].limit <= high.limit /\ saw[r].max <= high.max

BusyHoldLeases == Busy \subseteq leases
LeasesBounded == Cardinality(leases) <= high.max

\* The count of a waiting request bounds the ledger until it has missed a reply.
Fresh == \A r \in Metered :
  at[r] = "slot" /\ r \notin missed => Cardinality(ledger) <= saw[r].used

Inv ==
  /\ TypeOK /\ SnapshotsBelowHigh /\ BusyHoldLeases /\ LeasesBounded
  /\ Fresh /\ QuotaHeldUnlessStale

-----------------------------------------------------------------------------
(* Facts about finite sets of requests.                                     *)

\* A set of requests has a size, and a subset of it has no larger one.
LEMMA SizeOfRequests ==
  ASSUME NEW S, S \subseteq Requests, NEW T, T \subseteq S
  PROVE  /\ IsFiniteSet(S) /\ Cardinality(S) \in Nat
         /\ IsFiniteSet(T) /\ Cardinality(T) \in Nat /\ Cardinality(T) <= Cardinality(S)
<1>1. IsFiniteSet(Requests)
  BY GuardAssumption
<1>2. IsFiniteSet(S)
  BY <1>1, FS_Subset
<1>3. IsFiniteSet(T) /\ Cardinality(T) <= Cardinality(S)
  BY <1>2, FS_Subset
<1> QED
  BY <1>2, <1>3, FS_CardinalityType

\* One more member makes a set larger by at most one.
LEMMA SizeWithOneMore ==
  ASSUME NEW S, S \subseteq Requests, NEW r \in Requests
  PROVE  Cardinality(S \cup {r}) <= Cardinality(S) + 1
<1>1. IsFiniteSet(S) /\ Cardinality(S) \in Nat
  BY SizeOfRequests
<1> QED
  BY <1>1, FS_AddElement, SMTT(30)

\* A union is no larger than its parts together.
LEMMA SizeOfUnion ==
  ASSUME NEW S, S \subseteq Requests, NEW T, T \subseteq Requests
  PROVE  Cardinality(S \cup T) <= Cardinality(S) + Cardinality(T)
<1>1. IsFiniteSet(S) /\ Cardinality(S) \in Nat /\ IsFiniteSet(T) /\ Cardinality(T) \in Nat
  BY SizeOfRequests
<1>2. S \cap T \subseteq Requests
  OBVIOUS
<1>3. Cardinality(S \cap T) \in Nat
  BY <1>2, SizeOfRequests
<1>4. Cardinality(S \cup T) = Cardinality(S) + Cardinality(T) - Cardinality(S \cap T)
  BY <1>1, FS_Union
<1> QED
  BY <1>1, <1>3, <1>4

-----------------------------------------------------------------------------
(* Types.                                                                   *)

LEMMA InitTyped == Init => TypeOK
<1> SUFFICES ASSUME Init PROVE TypeOK
  OBVIOUS
<1>1. settings \in Settings /\ high \in [limit : Nat \ {0}, max : Nat \ {0}]
  BY GuardAssumption DEF Init
<1>2. at \in [Requests -> Phases]
  BY DEF Init, Phases
<1>3. saw \in [Requests -> [limit : Nat \ {0}, max : Nat \ {0}, used : Nat]]
  BY DEF Init, NoView
<1> QED
  BY <1>1, <1>2, <1>3 DEF Init, TypeOK

\* The maximum of two positive limits is one, and bounds both.
LEMMA LargerBounds ==
  ASSUME NEW a \in Nat \ {0}, NEW b \in Nat \ {0}
  PROVE  Larger(a, b) \in Nat \ {0} /\ a <= Larger(a, b) /\ b <= Larger(a, b)
BY DEF Larger

\* What an administrator stores, and what is recorded of it.
LEMMA UpdateTyped ==
  ASSUME TypeOK, UpdateSettings
  PROVE  /\ settings' \in Settings /\ high' \in [limit : Nat \ {0}, max : Nat \ {0}]
         /\ high.limit <= high'.limit /\ high.max <= high'.max
         /\ settings'.limit <= high'.limit /\ settings'.max <= high'.max
<1>1. settings' \in Settings /\ settings' \in [limit : Nat \ {0}, max : Nat \ {0}]
  BY GuardAssumption DEF UpdateSettings
<1>2. settings'.limit \in Nat \ {0} /\ settings'.max \in Nat \ {0}
  BY <1>1
<1>3. high.limit \in Nat \ {0} /\ high.max \in Nat \ {0}
  BY DEF TypeOK
<1>4. high' = [limit |-> Larger(high.limit, settings'.limit), max |-> Larger(high.max, settings'.max)]
  BY DEF UpdateSettings
<1> QED
  BY <1>1, <1>2, <1>3, <1>4, LargerBounds

LEMMA NextTyped == TypeOK /\ [Next]_vars => TypeOK'
<1> SUFFICES ASSUME TypeOK, [Next]_vars PROVE TypeOK'
  OBVIOUS
<1>0. Metered \subseteq Requests
  BY DEF Requests
<1>1. ASSUME NEW r \in Requests, CheckAccess(r) PROVE TypeOK'
  BY <1>1 DEF CheckAccess, Goto, Refuse, TypeOK, Phases
<1>2. ASSUME NEW r \in Requests, ReadSettings(r) PROVE TypeOK'
  <2>1. settings.limit \in Nat \ {0} /\ settings.max \in Nat \ {0}
    BY GuardAssumption DEF TypeOK
  <2>2. saw' \in [Requests -> [limit : Nat \ {0}, max : Nat \ {0}, used : Nat]]
    BY <1>2, <2>1 DEF ReadSettings, TypeOK
  <2>3. at' \in [Requests -> Phases]
    BY <1>2 DEF ReadSettings, Goto, Refuse, TypeOK, Phases
  <2> QED
    BY <1>2, <2>2, <2>3 DEF ReadSettings, TypeOK
<1>3. ASSUME NEW r \in Requests, CountReplies(r) PROVE TypeOK'
  <2>1. Cardinality(ledger) \in Nat
    BY <1>0, SizeOfRequests DEF TypeOK
  <2>2. saw' \in [Requests -> [limit : Nat \ {0}, max : Nat \ {0}, used : Nat]]
    BY <1>3, <2>1 DEF CountReplies, TypeOK
  <2>3. at' \in [Requests -> Phases]
    BY <1>3 DEF CountReplies, Goto, Refuse, TypeOK, Phases
  <2> QED
    BY <1>3, <2>2, <2>3 DEF CountReplies, TypeOK
<1>4. ASSUME NEW r \in Requests, AcquireSlot(r) PROVE TypeOK'
  <2>1. at' \in [Requests -> Phases]
    BY <1>4 DEF AcquireSlot, Goto, Refuse, TypeOK, Phases
  <2>2. leases' \subseteq Requests /\ stale' \in BOOLEAN
    BY <1>4 DEF AcquireSlot, TypeOK
  <2> QED
    BY <1>4, <2>1, <2>2 DEF AcquireSlot, TypeOK
<1>5. ASSUME NEW r \in Requests, ReviewContent(r) PROVE TypeOK'
  BY <1>5 DEF ReviewContent, Goto, TypeOK, Phases
<1>6. ASSUME NEW r \in Requests, CompleteReply(r) PROVE TypeOK'
  <2>1. at' \in [Requests -> Phases]
    BY <1>6 DEF CompleteReply, Goto, TypeOK, Phases
  <2>2. ledger' \subseteq Metered /\ missed' \subseteq Metered
    BY <1>6 DEF CompleteReply, Charge, TypeOK, Metered
  <2> QED
    BY <1>6, <2>1, <2>2 DEF CompleteReply, TypeOK
<1>7. ASSUME NEW r \in Requests, Deliver(r) PROVE TypeOK'
  BY <1>7 DEF Deliver, Goto, TypeOK, Phases
<1>8. ASSUME NEW r \in Requests, Release(r) PROVE TypeOK'
  BY <1>8 DEF Release, Goto, TypeOK, Phases
<1>9. ASSUME NEW r \in Requests, LeaseExpires(r) PROVE TypeOK'
  BY <1>9 DEF LeaseExpires, TypeOK
<1>10. CASE UpdateSettings
  BY <1>10, UpdateTyped DEF UpdateSettings, TypeOK
<1>11. CASE UpdateStudentAccess
  BY <1>11 DEF UpdateStudentAccess, TypeOK
<1>12. CASE Midnight
  BY <1>12 DEF Midnight, TypeOK
<1>13. CASE UNCHANGED vars
  BY <1>13 DEF vars, TypeOK
<1> QED
  BY <1>1, <1>2, <1>3, <1>4, <1>5, <1>6, <1>7, <1>8, <1>9, <1>10, <1>11, <1>12, <1>13
  DEF Next, Step

-----------------------------------------------------------------------------
(* The largest limits.                                                      *)

LEMMA SnapshotsStayBelow ==
  TypeOK /\ SnapshotsBelowHigh /\ [Next]_vars => SnapshotsBelowHigh'
<1> SUFFICES ASSUME TypeOK, SnapshotsBelowHigh, [Next]_vars PROVE SnapshotsBelowHigh'
  OBVIOUS
<1>0. high.limit \in Nat /\ high.max \in Nat
      /\ \A r \in Requests : saw[r].limit \in Nat /\ saw[r].max \in Nat
  BY DEF TypeOK
<1>1. ASSUME NEW r \in Requests, ReadSettings(r) PROVE SnapshotsBelowHigh'
  <2>1. settings.limit <= high.limit /\ settings.max <= high.max
    BY DEF SnapshotsBelowHigh
  <2>2. \A q \in Requests : saw'[q].limit <= high.limit /\ saw'[q].max <= high.max
    BY <1>1, <2>1 DEF ReadSettings, SnapshotsBelowHigh, TypeOK
  <2> QED
    BY <1>1, <2>1, <2>2 DEF ReadSettings, SnapshotsBelowHigh
<1>2. ASSUME NEW r \in Requests, CountReplies(r) PROVE SnapshotsBelowHigh'
  <2>1. \A q \in Requests : saw'[q].limit = saw[q].limit /\ saw'[q].max = saw[q].max
    BY <1>2 DEF CountReplies, TypeOK
  <2> QED
    BY <1>2, <2>1 DEF CountReplies, SnapshotsBelowHigh
<1>3. CASE UpdateSettings
  <2>1. /\ settings'.limit <= high'.limit /\ settings'.max <= high'.max
        /\ high.limit <= high'.limit /\ high.max <= high'.max
        /\ high' \in [limit : Nat \ {0}, max : Nat \ {0}]
    BY <1>3, UpdateTyped
  <2>2. \A q \in Requests : saw[q].limit <= high'.limit /\ saw[q].max <= high'.max
    BY <1>0, <2>1 DEF SnapshotsBelowHigh
  <2> QED
    BY <1>3, <2>1, <2>2 DEF UpdateSettings, SnapshotsBelowHigh
<1>4. CASE UNCHANGED <<settings, high, saw>>
  BY <1>4 DEF SnapshotsBelowHigh
<1>5. ASSUME NEW r \in Requests, Step(r) \/ LeaseExpires(r), ~ReadSettings(r), ~CountReplies(r)
      PROVE  UNCHANGED <<settings, high, saw>>
  BY <1>5 DEF Step, CheckAccess, AcquireSlot, ReviewContent, CompleteReply, Deliver, Release, LeaseExpires
<1>6. CASE UpdateStudentAccess \/ Midnight \/ UNCHANGED vars
  BY <1>6, <1>4 DEF UpdateStudentAccess, Midnight, vars
<1> QED
  BY <1>1, <1>2, <1>3, <1>4, <1>5, <1>6 DEF Next

-----------------------------------------------------------------------------
(* Concurrency.                                                             *)

\* Whoever is served holds a lease: leases are only withdrawn at the end.
LEMMA BusyKeepLeases ==
  TypeOK /\ BusyHoldLeases /\ [Next]_vars => BusyHoldLeases'
<1> SUFFICES ASSUME TypeOK, BusyHoldLeases, [Next]_vars,
                    NEW q \in Requests, at'[q] \in {"review", "run", "deliver"}
             PROVE  q \in leases'
  BY DEF BusyHoldLeases, Busy
<1>0. at[q] \in {"review", "run", "deliver"} => q \in leases
  BY DEF BusyHoldLeases, Busy
<1>1. ASSUME NEW r \in Requests, Step(r), ~AcquireSlot(r), ~Release(r) PROVE q \in leases'
  <2>1. leases' = leases
    BY <1>1 DEF Step, CheckAccess, ReadSettings, CountReplies, ReviewContent, CompleteReply, Deliver
  <2>2. at[q] \in {"review", "run", "deliver"}
    BY <1>1 DEF Step, CheckAccess, ReadSettings, CountReplies, ReviewContent, CompleteReply, Deliver,
                Goto, Refuse, TypeOK
  <2> QED
    BY <1>0, <2>1, <2>2
<1>2. ASSUME NEW r \in Requests, AcquireSlot(r) PROVE q \in leases'
  BY <1>0, <1>2 DEF AcquireSlot, Goto, Refuse, TypeOK
<1>3. ASSUME NEW r \in Requests, Release(r) PROVE q \in leases'
  BY <1>0, <1>3 DEF Release, Goto, TypeOK
<1>4. ASSUME NEW r \in Requests, LeaseExpires(r) PROVE q \in leases'
  BY <1>0, <1>4 DEF LeaseExpires, TypeOK
<1>5. CASE UpdateSettings \/ UpdateStudentAccess \/ Midnight \/ UNCHANGED vars
  BY <1>0, <1>5 DEF UpdateSettings, UpdateStudentAccess, Midnight, vars
<1> QED
  BY <1>1, <1>2, <1>3, <1>4, <1>5 DEF Next

\* The script never lets the active set outgrow the limit it was given.
LEMMA LeasesStayBounded ==
  TypeOK /\ SnapshotsBelowHigh /\ LeasesBounded /\ [Next]_vars => LeasesBounded'
<1> SUFFICES ASSUME TypeOK, SnapshotsBelowHigh, LeasesBounded, [Next]_vars PROVE LeasesBounded'
  OBVIOUS
<1>0. leases \subseteq Requests /\ Cardinality(leases) \in Nat /\ high.max \in Nat
  BY SizeOfRequests DEF TypeOK
<1>1. ASSUME NEW r \in Requests, AcquireSlot(r) PROVE LeasesBounded'
  <2>1. CASE leases' = leases
    BY <1>1, <2>1 DEF AcquireSlot, LeasesBounded
  <2>2. CASE leases' = leases \cup {r} /\ Granted(r)
    <3>1. Cardinality(leases) < saw[r].max /\ saw[r].max \in Nat /\ saw[r].max <= high.max
      BY <2>2 DEF Granted, HasSlot, SnapshotsBelowHigh, TypeOK
    <3>2. Cardinality(leases \cup {r}) <= Cardinality(leases) + 1
      BY <1>0, SizeWithOneMore
    <3>3. Cardinality(leases \cup {r}) \in Nat
      BY <1>0, SizeOfRequests
    <3> QED
      BY <1>0, <1>1, <2>2, <3>1, <3>2, <3>3 DEF AcquireSlot, LeasesBounded
  <2> QED
    BY <1>1, <2>1, <2>2 DEF AcquireSlot
<1>2. CASE leases' \subseteq leases /\ high' = high
  <2>1. Cardinality(leases') \in Nat /\ Cardinality(leases') <= Cardinality(leases)
    BY <1>0, <1>2, SizeOfRequests
  <2> QED
    BY <1>0, <1>2, <2>1 DEF LeasesBounded
<1>3. ASSUME NEW r \in Requests, Step(r) \/ LeaseExpires(r), ~AcquireSlot(r)
      PROVE  leases' \subseteq leases /\ high' = high
  BY <1>3 DEF Step, CheckAccess, ReadSettings, CountReplies, ReviewContent, CompleteReply, Deliver,
              Release, LeaseExpires
<1>4. CASE UpdateSettings
  <2>1. high.max <= high'.max /\ high'.max \in Nat
    BY <1>4, UpdateTyped
  <2> QED
    BY <1>0, <1>4, <2>1 DEF UpdateSettings, LeasesBounded
<1>5. CASE UpdateStudentAccess \/ Midnight \/ UNCHANGED vars
  BY <1>2, <1>5 DEF UpdateStudentAccess, Midnight, vars
<1> QED
  BY <1>1, <1>2, <1>3, <1>4, <1>5 DEF Next

-----------------------------------------------------------------------------
(* The quota.                                                               *)

\* A reply recorded after a count marks everyone who still relies on it.
LEMMA FreshStays == TypeOK /\ Fresh /\ [Next]_vars => Fresh'
<1> SUFFICES ASSUME TypeOK, Fresh, [Next]_vars, NEW q \in Metered,
                    at'[q] = "slot", q \notin missed'
             PROVE  Cardinality(ledger') <= saw'[q].used
  BY DEF Fresh
<1>0. q \in Requests /\ Cardinality(ledger) \in Nat /\ saw[q].used \in Nat
  BY SizeOfRequests DEF TypeOK, Requests
<1>1. ASSUME at[q] = "slot", q \notin missed, saw'[q].used = saw[q].used, ledger' = ledger
      PROVE  Cardinality(ledger') <= saw'[q].used
  BY <1>1 DEF Fresh
<1>2. ASSUME NEW r \in Requests, CountReplies(r) PROVE Cardinality(ledger') <= saw'[q].used
  <2>1. CASE r = q
    BY <1>0, <1>2, <2>1 DEF CountReplies, TypeOK
  <2>2. CASE r # q
    BY <1>0, <1>1, <1>2, <2>2 DEF CountReplies, Goto, Refuse, TypeOK
  <2> QED
    BY <2>1, <2>2
<1>3. ASSUME NEW r \in Requests, CompleteReply(r) PROVE Cardinality(ledger') <= saw'[q].used
  <2>1. at[q] = "slot" /\ q # r
    BY <1>0, <1>3 DEF CompleteReply, Goto, TypeOK
  <2>2. CASE Charge(r)
    BY <2>1, <2>2 DEF Charge
  <2>3. CASE UNCHANGED <<ledger, missed>>
    BY <1>1, <1>3, <2>1, <2>3 DEF CompleteReply
  <2> QED
    BY <1>3, <2>2, <2>3 DEF CompleteReply
<1>4. ASSUME NEW r \in Requests, ReadSettings(r) PROVE Cardinality(ledger') <= saw'[q].used
  <2>1. r # q
    BY <1>4, <1>0 DEF ReadSettings, Goto, Refuse, TypeOK
  <2> QED
    BY <1>0, <1>1, <1>4, <2>1 DEF ReadSettings, Goto, Refuse, TypeOK
<1>5. ASSUME NEW r \in Requests, Step(r) \/ LeaseExpires(r), ~CountReplies(r), ~CompleteReply(r), ~ReadSettings(r)
      PROVE  Cardinality(ledger') <= saw'[q].used
  <2>1. UNCHANGED <<ledger, missed, saw>>
    BY <1>5 DEF Step, CheckAccess, AcquireSlot, ReviewContent, Deliver, Release, LeaseExpires
  <2>2. at[q] = "slot"
    BY <1>0, <1>5 DEF Step, CheckAccess, AcquireSlot, ReviewContent, Deliver, Release, LeaseExpires, Goto, Refuse, TypeOK
  <2> QED
    BY <1>1, <2>1, <2>2
<1>6. CASE Midnight
  <2>1. Cardinality(ledger') = 0
    BY <1>6, FS_EmptySet DEF Midnight
  <2> QED
    BY <1>0, <1>6, <2>1 DEF Midnight
<1>7. CASE UpdateSettings \/ UpdateStudentAccess \/ UNCHANGED vars
  BY <1>1, <1>7 DEF UpdateSettings, UpdateStudentAccess, vars
<1> QED
  BY <1>2, <1>3, <1>4, <1>5, <1>6, <1>7 DEF Next

\* A slot granted on a fresh count leaves room for the reply it is for.
LEMMA QuotaAtGrant ==
  ASSUME Inv, NEW r \in Metered, at[r] = "slot", r \notin missed, Granted(r)
  PROVE  Cardinality(ledger \cup Pending \cup {r}) <= high.limit
<1>1. /\ Metered \subseteq Requests /\ r \in Requests /\ ledger \subseteq Requests
      /\ Pending \subseteq leases \cap Metered /\ leases \cap Metered \subseteq Requests
  BY DEF Inv, TypeOK, Pending, BusyHoldLeases, Busy, Requests
<1>2. Cardinality(Pending \cup {r}) <= Cardinality(leases \cap Metered) + 1
  <2>1. Cardinality(Pending \cup {r}) <= Cardinality(Pending) + 1
    BY <1>1, SizeWithOneMore
  <2>2. /\ Cardinality(Pending) \in Nat /\ Cardinality(leases \cap Metered) \in Nat
        /\ Cardinality(Pending) <= Cardinality(leases \cap Metered)
    BY <1>1, SizeOfRequests
  <2>3. Cardinality(Pending \cup {r}) \in Nat
    BY <1>1, SizeOfRequests
  <2> QED
    BY <2>1, <2>2, <2>3
<1>3. Cardinality(ledger \cup (Pending \cup {r})) <= Cardinality(ledger) + Cardinality(Pending \cup {r})
  BY <1>1, SizeOfUnion
<1>4. Cardinality(ledger) <= saw[r].used
  BY DEF Inv, Fresh
<1>5. saw[r].used + Cardinality(leases \cap Metered) < saw[r].limit
  BY DEF Granted, HasQuota
<1>6. saw[r].limit <= high.limit
  BY <1>1 DEF Inv, SnapshotsBelowHigh
<1>7. /\ Cardinality(ledger) \in Nat /\ Cardinality(Pending \cup {r}) \in Nat
      /\ Cardinality(leases \cap Metered) \in Nat
      /\ Cardinality(ledger \cup (Pending \cup {r})) \in Nat
  BY <1>1, SizeOfRequests
<1>8. saw[r].used \in Nat /\ saw[r].limit \in Nat /\ high.limit \in Nat
  BY <1>1 DEF Inv, TypeOK
<1>9. ledger \cup Pending \cup {r} = ledger \cup (Pending \cup {r})
  OBVIOUS
<1>10. Cardinality(ledger \cup (Pending \cup {r})) <= high.limit
  BY <1>2, <1>3, <1>4, <1>5, <1>6, <1>7, <1>8
<1> QED
  BY <1>9, <1>10

LEMMA QuotaStays == Inv /\ [Next]_vars => QuotaHeldUnlessStale'
<1> SUFFICES ASSUME Inv, [Next]_vars, ~stale'
             PROVE  Cardinality(ledger' \cup Pending') <= high'.limit
  BY DEF QuotaHeldUnlessStale
<1>0. /\ TypeOK /\ Metered \subseteq Requests /\ ledger \cup Pending \subseteq Requests
      /\ Cardinality(ledger \cup Pending) \in Nat /\ high.limit \in Nat
  <2>1. TypeOK /\ Metered \subseteq Requests /\ ledger \cup Pending \subseteq Requests
    BY DEF Inv, TypeOK, Pending, Requests
  <2> QED
    BY <2>1, SizeOfRequests DEF TypeOK
<1>1. ~stale => Cardinality(ledger \cup Pending) <= high.limit
  BY DEF Inv, QuotaHeldUnlessStale
<1>2. ASSUME ~stale, ledger' \cup Pending' \subseteq ledger \cup Pending, high' = high
      PROVE  Cardinality(ledger' \cup Pending') <= high'.limit
  <2>1. /\ Cardinality(ledger' \cup Pending') \in Nat
        /\ Cardinality(ledger' \cup Pending') <= Cardinality(ledger \cup Pending)
    BY <1>0, <1>2, SizeOfRequests
  <2> QED
    BY <1>0, <1>1, <1>2, <2>1
<1>3. ASSUME NEW r \in Requests, AcquireSlot(r)
      PROVE  Cardinality(ledger' \cup Pending') <= high'.limit
  <2>1. ledger' = ledger /\ high' = high /\ ~stale
    BY <1>3 DEF AcquireSlot, Inv, TypeOK
  <2>2. CASE at' = [at EXCEPT ![r] = "done"]
    <3>1. Pending' \subseteq Pending
      BY <1>0, <2>2 DEF Pending, TypeOK
    <3> QED
      BY <1>2, <2>1, <3>1
  <2>3. CASE at' = [at EXCEPT ![r] = "review"] /\ r \notin Metered
    <3>1. Pending' \subseteq Pending
      BY <1>0, <2>3 DEF Pending, TypeOK
    <3> QED
      BY <1>2, <2>1, <3>1
  <2>4. CASE at' = [at EXCEPT ![r] = "review"] /\ r \in Metered
    <3>1. Granted(r) /\ at[r] = "slot" /\ r \notin missed
      BY <1>0, <1>3, <2>4 DEF AcquireSlot, Goto, Refuse, TypeOK
    <3>2. Cardinality(ledger \cup Pending \cup {r}) <= high.limit
      BY <2>4, <3>1, QuotaAtGrant
    <3>3. Pending' = Pending \cup {r}
      BY <1>0, <2>4 DEF Pending, TypeOK
    <3>4. ledger' \cup Pending' = ledger \cup Pending \cup {r}
      BY <2>1, <3>3
    <3> QED
      BY <2>1, <3>2, <3>4
  <2> QED
    BY <1>3, <2>2, <2>3, <2>4 DEF AcquireSlot, Goto, Refuse
<1>4. ASSUME NEW r \in Requests, CompleteReply(r)
      PROVE  Cardinality(ledger' \cup Pending') <= high'.limit
  <2>1. Pending' \subseteq Pending
    BY <1>0, <1>4 DEF CompleteReply, Goto, Pending, TypeOK
  <2>2. ledger' \subseteq ledger \cup Pending
    BY <1>4 DEF CompleteReply, Charge, Pending, Metered
  <2>3. ledger' \cup Pending' \subseteq ledger \cup Pending
    BY <2>1, <2>2
  <2>4. ~stale /\ high' = high
    BY <1>4 DEF CompleteReply
  <2> QED
    BY <1>2, <2>3, <2>4
<1>5. ASSUME NEW r \in Requests, Step(r) \/ LeaseExpires(r), ~AcquireSlot(r), ~CompleteReply(r)
      PROVE  Cardinality(ledger' \cup Pending') <= high'.limit
  <2>1. UNCHANGED <<ledger, high, stale>>
    BY <1>5 DEF Step, CheckAccess, ReadSettings, CountReplies, ReviewContent, Deliver, Release, LeaseExpires
  <2>2. Pending' \subseteq Pending
    BY <1>0, <1>5 DEF Step, CheckAccess, ReadSettings, CountReplies, ReviewContent, Deliver, Release,
                LeaseExpires, Goto, Refuse, Pending, TypeOK
  <2>3. ledger' \cup Pending' \subseteq ledger \cup Pending
    BY <2>1, <2>2
  <2> QED
    BY <1>2, <2>1, <2>3
<1>6. CASE UpdateSettings
  <2>1. high.limit <= high'.limit /\ high'.limit \in Nat
    BY <1>0, <1>6, UpdateTyped
  <2>2. ledger' = ledger /\ Pending' = Pending /\ ~stale
    BY <1>6 DEF UpdateSettings, Pending
  <2>3. ledger' \cup Pending' = ledger \cup Pending
    BY <2>2
  <2> QED
    BY <1>0, <1>1, <2>1, <2>2, <2>3
<1>7. CASE UpdateStudentAccess \/ Midnight \/ UNCHANGED vars
  <2>1. ~stale /\ high' = high /\ Pending' = Pending /\ ledger' \subseteq ledger
    BY <1>7 DEF UpdateStudentAccess, Midnight, vars, Pending
  <2>2. ledger' \cup Pending' \subseteq ledger \cup Pending
    BY <2>1
  <2> QED
    BY <1>2, <2>1, <2>2
<1> QED
  BY <1>3, <1>4, <1>5, <1>6, <1>7 DEF Next

-----------------------------------------------------------------------------
(* The theorems.                                                            *)

LEMMA InitInv == Init => Inv
<1> SUFFICES ASSUME Init PROVE Inv
  OBVIOUS
<1>1. TypeOK
  BY InitTyped
<1>2. high = settings /\ high.limit \in Nat \ {0} /\ high.max \in Nat \ {0}
  BY <1>1 DEF Init, TypeOK
<1>3. SnapshotsBelowHigh
  BY <1>2 DEF Init, NoView, SnapshotsBelowHigh
<1>4. BusyHoldLeases /\ Fresh
  BY DEF Init, BusyHoldLeases, Busy, Fresh, Requests
<1>5. leases = {} /\ ledger \cup Pending = {}
  BY DEF Init, Pending, Requests
<1>6. LeasesBounded /\ QuotaHeldUnlessStale
  BY <1>2, <1>5, FS_EmptySet DEF LeasesBounded, QuotaHeldUnlessStale
<1> QED
  BY <1>1, <1>3, <1>4, <1>6 DEF Inv

LEMMA NextInv == Inv /\ [Next]_vars => Inv'
BY NextTyped, SnapshotsStayBelow, BusyKeepLeases, LeasesStayBounded, FreshStays, QuotaStays DEF Inv

\* The invariant all theorems rest on.
THEOREM GuardInvariant == Spec => []Inv
BY InitInv, NextInv, PTL DEF Spec

\* Every behaviour of the guard is well typed.
THEOREM GuardTypeCorrect == Spec => []TypeOK
<1>1. Inv => TypeOK
  BY DEF Inv
<1> QED
  BY <1>1, GuardInvariant, PTL

\* However many requests race for the slots of a student, and whatever fails
\* or is lost, no more are served at once than the largest limit allowed.
THEOREM ConcurrencyIsHeld == Spec => []ConcurrencyHeld
<1>1. Inv => ConcurrencyHeld
  <2> SUFFICES ASSUME Inv PROVE ConcurrencyHeld
    OBVIOUS
  <2>1. leases \subseteq Requests /\ Busy \subseteq leases /\ high.max \in Nat
    BY DEF Inv, TypeOK, BusyHoldLeases
  <2>2. /\ Cardinality(Busy) \in Nat /\ Cardinality(leases) \in Nat
        /\ Cardinality(Busy) <= Cardinality(leases)
    BY <2>1, SizeOfRequests
  <2> QED
    BY <2>1, <2>2 DEF Inv, LeasesBounded, ConcurrencyHeld
<1> QED
  BY <1>1, GuardInvariant, PTL

\* Recorded replies and those under way stay within the daily limit unless a
\* slot was granted on an outdated count: that race is the only way past it.
THEOREM QuotaHeldBehindFreshCounts == Spec => []QuotaHeldUnlessStale
<1>1. Inv => QuotaHeldUnlessStale
  BY DEF Inv
<1> QED
  BY <1>1, GuardInvariant, PTL
=============================================================================
