--------------------------- MODULE SessionFirstChat ---------------------------
(***************************************************************************)
(* One chat session of the student backend: the idempotent first chat      *)
(* (POST /session/start-chat with a session id chosen by the client), the  *)
(* chats that follow it, the generation task behind each of them, stop     *)
(* requests, deletion, and restarts of the single API process.             *)
(*                                                                         *)
(* A request is one HTTP call; a client that retries is another member of  *)
(* Starts.  The claim token of a request is the request itself: it draws   *)
(* a fresh UUID and stores it at most once.  The model's text, the prompt  *)
(* and the stream to the browser are left out; of a reply only its author  *)
(* and its completion status remain.                                       *)
(***************************************************************************)
EXTENDS Naturals, FiniteSets

CONSTANTS
  Starts,      \* calls of StartChat, all for one session id
  Chats,       \* calls of processChat in the same session
  Stops,       \* calls of CancelTask
  Bodies,      \* what firstChatRequestHash tells apart
  FirstReply,  \* the id startAssistantMessageID derives from the session id
  Troubles,    \* what may happen: a subset of AllTroubles
  None

ChatRequests == Starts \cup Chats
\* Deleting and ending the session, a restart of the API, a failing call, and
\* a failing ReleaseFirstChat.
AllTroubles == {"delete", "end", "restart", "error", "release"}

ASSUME RequestAssumption ==
  /\ Starts \cap Chats = {} /\ None \notin ChatRequests
  /\ FirstReply \notin ChatRequests
  /\ Troubles \subseteq AllTroubles

VARIABLES
  body,      \* the request hash of each call of StartChat, chosen by its client
  session,   \* learning_sessions: "none", "active" or "ended"
  epoch,     \* how often the id was created (it may be, after a deletion)
  first,     \* session_first_chat_requests: None or its row
  reply,     \* the first assistant reply in session_messages, or None
  turns,     \* user message and reply of every later chat
  usage,     \* student_ai_reply_usage, by message id
  place,     \* where each request is
  view,     \* the row read by GetFirstChatRequest
  out,       \* what the generation of each request came to
  got,       \* the reply each StartChat handed to its client, or None
  lease,     \* the AI risk lease of each request
  task,      \* activeTasks and stoppedTasks of the API process
  stop       \* calls of CancelTask

store == <<session, epoch, first, reply, turns, usage>>
chatVars == <<body, session, epoch, first, reply, turns, usage,
              place, view, out, got, lease, task, stop>>

Statuses == {"completed", "unavailable", "interrupted", "stopped"}
Running == {"guard", "create", "lookup", "replay", "message", "latest", "claim",
            "list", "generate", "close", "ask", "write", "finish", "closing"}
ChatPhases == Running \cup {"idle", "done", "lost"}
\* live: claim_expires_at lies in the future; done: completed_at is set.
FirstRow == [hash : Bodies, token : ChatRequests, live : BOOLEAN, done : BOOLEAN]
FirstMessage == [by : ChatRequests, status : Statuses]
Answer == [by : ChatRequests, epoch : Nat]

ASSUME NoRowAssumption == None \notin FirstRow \cup FirstMessage \cup Answer

Task == [state : {"none", "open", "closed", "stopped"},
         cause : {"none", "client", "stopped"}, failed : BOOLEAN]
NoTask == [state |-> "none", cause |-> "none", failed |-> FALSE]

ChatInit ==
  /\ body \in [Starts -> Bodies]
  /\ session = "none" /\ epoch = 0 /\ first = None /\ reply = None
  /\ turns = [c \in Chats |-> "none"] /\ usage = {}
  /\ place = [r \in ChatRequests |-> "idle"] /\ view = [r \in ChatRequests |-> None]
  /\ out = [r \in ChatRequests |-> "none"] /\ got = [r \in Starts |-> None]
  /\ lease = [r \in ChatRequests |-> "none"] /\ task = [r \in ChatRequests |-> NoTask]
  /\ stop = [s \in Stops |-> [on |-> None, res |-> "idle"]]

GoTo(r, p) == place' = [place EXCEPT ![r] = p]
Exists == session # "none"
Errors == "error" \in Troubles

-----------------------------------------------------------------------------
(* StartChat and its replays.                                              *)

\* GetSession: an existing session is replayed, a new one needs a lease first.
StartChat(r) ==
  /\ place[r] = "idle" /\ GoTo(r, IF Exists THEN "replay" ELSE "guard")
  /\ UNCHANGED <<store, view, out, got, lease, task, stop>>

\* guard.Acquire grants a lease or refuses; after it a start creates, a replay
\* claims, a chat stores its question.
AfterGuard(r) == IF r \in Chats THEN "ask"
                 ELSE IF view[r] = None THEN "create" ELSE "claim"
Acquire(r) ==
  /\ place[r] = "guard"
  /\ \/ GoTo(r, AfterGuard(r)) /\ lease' = [lease EXCEPT ![r] = "held"]
     \/ GoTo(r, "finish") /\ UNCHANGED lease
  /\ UNCHANGED <<store, view, out, got, task, stop>>

Registered(r) == task' = [task EXCEPT ![r] = [NoTask EXCEPT !.state = "open"]]
\* ReleaseFirstChat: the caller's own unfinished claim expires at once; the
\* call itself may fail, and the claim then stays until its expiry.
Released(r, row) ==
  IF row # None /\ row.token = r /\ ~row.done THEN [row EXCEPT !.live = FALSE]
  ELSE row
\* The release itself may fail; the claim then stays until its expiry.
AfterRelease(r, row) == {Released(r, row)} \cup (IF "release" \in Troubles THEN {row} ELSE {})
ReleaseClaim(r, row) == first' \in AfterRelease(r, row)

NewRow(r) == [hash |-> body[r], token |-> r, live |-> TRUE, done |-> FALSE]
\* Session, welcome, question and claim in one transaction; a failed commit
\* may nevertheless have taken place.
CreateFirstChat(r) ==
  /\ place[r] = "create" /\ ~Exists
  /\ \/ /\ session' = "active" /\ epoch' = epoch + 1 /\ first' = NewRow(r)
        /\ GoTo(r, "generate") /\ Registered(r)
     \/ /\ Errors /\ session' = "active" /\ epoch' = epoch + 1
        /\ ReleaseClaim(r, NewRow(r)) /\ GoTo(r, "finish") /\ UNCHANGED task
     \/ Errors /\ GoTo(r, "finish") /\ UNCHANGED <<session, epoch, first, task>>
  /\ UNCHANGED <<reply, turns, usage, view, out, got, lease, stop>>
CreateConflicts(r) ==
  /\ place[r] = "create" /\ Exists /\ GoTo(r, "lookup")
  /\ UNCHANGED <<store, view, out, got, lease, task, stop>>
\* GetSession again: deleted in between, the id counts as another student's.
LookupExisting(r) ==
  /\ place[r] = "lookup" /\ GoTo(r, IF Exists THEN "replay" ELSE "finish")
  /\ UNCHANGED <<store, view, out, got, lease, task, stop>>

\* replayStartChat: GetFirstChatRequest and the comparison of the hashes.
ReadRequest(r) ==
  /\ place[r] = "replay" /\ view' = [view EXCEPT ![r] = first]
  /\ GoTo(r, IF first # None /\ first.hash = body[r] THEN "message" ELSE "finish")
  /\ UNCHANGED <<store, out, got, lease, task, stop>>

Got(r) == got' = [got EXCEPT ![r] = [by |-> reply.by, epoch |-> epoch]]
\* The claim seen earlier may have run out since, unless it is still held now.
MayBeLive(r) == view[r].live
MayBeExpired(r) == ~(view[r].live /\ first # None /\ first.live /\ first.token = view[r].token)
\* GetMessage: a stored reply is published, otherwise the seen claim decides.
ReadMessage(r) ==
  /\ place[r] = "message"
  /\ \/ reply # None /\ Got(r) /\ GoTo(r, "finish")
     \/ reply = None /\ view[r].done /\ GoTo(r, "finish") /\ UNCHANGED got
     \/ /\ reply = None /\ ~view[r].done /\ MayBeLive(r)
        /\ GoTo(r, "latest") /\ UNCHANGED got
     \/ /\ reply = None /\ ~view[r].done /\ MayBeExpired(r)
        /\ GoTo(r, IF lease[r] = "held" THEN "claim" ELSE "guard") /\ UNCHANGED got
  /\ UNCHANGED <<store, view, out, lease, task, stop>>

\* replayLatestFirstChat: in progress, or the stored reply.  (Its two reads are
\* one step: they differ only if the session goes, and both are then errors.)
ReadLatest(r) ==
  /\ place[r] = "latest" /\ GoTo(r, "finish")
  /\ IF first # None /\ first.done THEN Got(r) ELSE UNCHANGED got
  /\ UNCHANGED <<store, view, out, lease, task, stop>>

-----------------------------------------------------------------------------
(* Claims: a replay takes over an expired first chat to generate its reply, *)
(* a later chat takes it over to close it as interrupted.                   *)

Claimable == first # None /\ ~first.done /\ ~first.live
Claimed(r) == [first EXCEPT !.token = r, !.live = TRUE]
ClaimFirstChat(r) ==
  /\ place[r] = "claim" /\ Claimable
  /\ \/ first' = Claimed(r) /\ GoTo(r, "list")
     \* the error of a start releases what may have been claimed ...
     \/ /\ Errors /\ r \in Starts /\ GoTo(r, "finish")
        /\ first' \in {first} \cup AfterRelease(r, Claimed(r))
     \* ... completeExpiredFirstChat does not
     \/ Errors /\ r \in Chats /\ first' \in {first, Claimed(r)} /\ GoTo(r, "finish")
  /\ UNCHANGED <<session, epoch, reply, turns, usage, view, out, got, lease, task, stop>>
\* Mutant: a chat goes on although it could not close the first chat.
RefusedGoesOn(r) ==
  /\ place[r] = "claim" /\ ~Claimable
  /\ GoTo(r, IF r \in Starts THEN "latest" ELSE "guard")
  /\ UNCHANGED <<store, view, out, got, lease, task, stop>>
\* Not claimed: a start answers from the latest state, a chat goes on if the
\* first chat has been completed meanwhile (resolveFirstChatCompletion).
ClaimRefused(r) ==
  /\ place[r] = "claim" /\ ~Claimable
  /\ GoTo(r, IF r \in Starts THEN "latest"
             ELSE IF first # None /\ first.done THEN "guard" ELSE "finish")
  /\ UNCHANGED <<store, view, out, got, lease, task, stop>>

\* ListMessages must find the welcome and the question only; a start then
\* registers its task, anything else releases the claim.
TwoMessages == reply = None /\ \A c \in Chats : turns[c] = "none"
ListMessages(r) ==
  /\ place[r] = "list"
  /\ \/ /\ Exists /\ TwoMessages /\ UNCHANGED first
        /\ IF r \in Starts THEN GoTo(r, "generate") /\ Registered(r)
           ELSE GoTo(r, "close") /\ UNCHANGED task
     \/ /\ Errors \/ ~TwoMessages \/ ~Exists
        /\ ReleaseClaim(r, first) /\ UNCHANGED task
        /\ \/ GoTo(r, "finish")
           \/ r \in Chats /\ first # None /\ first.done /\ GoTo(r, "guard")
  /\ UNCHANGED <<session, epoch, reply, turns, usage, view, out, got, lease, stop>>

\* CompleteFirstChat: one transaction marks the claim completed, stores the
\* reply and charges the quota.  It is fenced by the token, not by the expiry.
\* Mutant: any generator may complete the first chat.
UnfencedToken(r) == Exists /\ first # None
Fenced(r) == Exists /\ first # None /\ first.token = r /\ ~first.done
Charged(ids) == usage' = usage \cup ids
\* Mutant: the charge is ON CONFLICT DO NOTHING.
StoredUncharged(r, status) ==
  /\ Fenced(r)
  /\ first' = [first EXCEPT !.done = TRUE] /\ reply' = [by |-> r, status |-> status]
  /\ Charged(IF status = "completed" THEN {FirstReply} ELSE {})
Stored(r, status) ==
  /\ Fenced(r) /\ (status = "completed" => FirstReply \notin usage)
  /\ first' = [first EXCEPT !.done = TRUE] /\ reply' = [by |-> r, status |-> status]
  /\ Charged(IF status = "completed" THEN {FirstReply} ELSE {})
\* Mutant: an error keeps the claim until it expires.
KeepsClaim(r) == UNCHANGED <<first, reply, usage>>
NotStored(r) == ReleaseClaim(r, first) /\ UNCHANGED <<reply, usage>>

CloseExpiredFirstChat(r) ==
  /\ place[r] = "close"
  /\ \/ Stored(r, "interrupted") /\ GoTo(r, "guard")
     \/ /\ ~Fenced(r) /\ NotStored(r)
        /\ GoTo(r, IF first # None /\ first.done THEN "guard" ELSE "finish")
     \/ Errors /\ (Stored(r, "interrupted") \/ NotStored(r)) /\ GoTo(r, "finish")
  /\ UNCHANGED <<session, epoch, turns, view, out, got, lease, task, stop>>

-----------------------------------------------------------------------------
(* processChat.                                                            *)

\* The session is looked up and must be active; an open first chat is closed.
ProcessChat(c) ==
  /\ place[c] = "idle" /\ view' = [view EXCEPT ![c] = first]
  /\ GoTo(c, IF session # "active" THEN "finish"
             ELSE IF first # None /\ ~first.done THEN "claim" ELSE "guard")
  /\ UNCHANGED <<store, out, got, lease, task, stop>>

\* InsertMessage of the question; without its session the insert fails.
AskQuestion(c) ==
  /\ place[c] = "ask"
  /\ \/ /\ Exists /\ turns' = [turns EXCEPT ![c] = "asked"]
        /\ \/ GoTo(c, "generate") /\ Registered(c)
           \/ Errors /\ GoTo(c, "finish") /\ UNCHANGED task
     \/ /\ Errors \/ ~Exists
        /\ GoTo(c, "finish") /\ UNCHANGED <<turns, task>>
  /\ UNCHANGED <<session, epoch, first, reply, usage, view, out, got, lease, stop>>

-----------------------------------------------------------------------------
(* The generation task (completeFirstChat, completeChat).                  *)

\* The browser goes away or the request times out: the first cause counts.
ClientLeaves(r) ==
  /\ place[r] = "generate" /\ task[r].cause = "none"
  /\ task' = [task EXCEPT ![r].cause = "client"]
  /\ UNCHANGED <<store, place, view, out, got, lease, stop>>

\* generateAssistant returns; finishActiveChatGeneration closes the stop window.
\* Mutant: a failed generation has a status of its own, unknown to the table.
OutcomesWithError(r) == {"completed", "error"}
Outcomes(r) ==
  IF task[r].cause = "stopped" THEN {"stopped"}
  ELSE IF task[r].cause = "client" THEN {"interrupted"}
  ELSE {"completed", "unavailable", "interrupted"}
\* Mutant: the stop window stays open while the reply is being stored.
LeavesStopWindowOpen(r) ==
  /\ place[r] = "generate" /\ GoTo(r, "write")
  /\ \E o \in Outcomes(r) : out' = [out EXCEPT ![r] = o]
  /\ UNCHANGED <<store, view, got, lease, task, stop>>
FinishGeneration(r) ==
  /\ place[r] = "generate" /\ GoTo(r, "write")
  /\ \E o \in Outcomes(r) : out' = [out EXCEPT ![r] = o]
  /\ task' = [task EXCEPT ![r].state = "closed"]
  /\ UNCHANGED <<store, view, got, lease, stop>>

\* A stopped or complete reply is returned, an interrupted one may be an error.
Answers(r) == {[got EXCEPT ![r] = [by |-> r, epoch |-> epoch]]}
              \cup (IF out[r] = "interrupted" THEN {got} ELSE {})
Failed(r) == task' = [task EXCEPT ![r].failed = TRUE]
\* The id of the first reply is derived from the session id: charged before
\* the session was deleted and created again, it cannot be charged twice.
ChargedAlready(r) == Fenced(r) /\ out[r] = "completed" /\ FirstReply \in usage
\* The reply of a start.  An error may follow a commit; the claim is released
\* after an error, never after a fence that does not hold.
WriteFirstReply(r) ==
  /\ place[r] = "write" /\ r \in Starts /\ GoTo(r, "finish")
  /\ \/ Stored(r, out[r]) /\ UNCHANGED task
        /\ got' \in Answers(r)
     \/ Errors /\ Stored(r, out[r]) /\ Failed(r) /\ UNCHANGED got
     \/ /\ Errors \/ ChargedAlready(r)
        /\ NotStored(r) /\ Failed(r) /\ UNCHANGED got
     \/ ~Fenced(r) /\ Failed(r) /\ UNCHANGED <<first, reply, usage, got>>
  /\ UNCHANGED <<session, epoch, turns, view, out, lease, stop>>

\* The reply of a later chat: message and charge in one statement.
WriteReply(c) ==
  /\ place[c] = "write" /\ c \in Chats /\ GoTo(c, "finish")
  /\ \/ /\ Exists /\ turns[c] = "asked" /\ turns' = [turns EXCEPT ![c] = out[c]]
        /\ Charged(IF out[c] = "completed" THEN {c} ELSE {})
        /\ \/ UNCHANGED task
           \/ Errors /\ Failed(c)
     \/ (Errors \/ turns[c] # "asked") /\ Failed(c) /\ UNCHANGED <<turns, usage>>
  /\ UNCHANGED <<session, epoch, first, reply, view, out, got, lease, stop>>

\* Deferred, in this order: the lease is given back (Redis may fail: its slot
\* then lingers until the TTL), the task ends and its waiters wake up.
Ends == {"released"} \cup (IF Errors THEN {"lingering"} ELSE {})
\* Mutant: only a registered task gives its lease back.
ReleasesRegistered(r) ==
  /\ place[r] = "finish" /\ GoTo(r, "closing")
  /\ \/ (lease[r] # "held" \/ task[r].state = "none") /\ UNCHANGED lease
     \/ /\ lease[r] = "held" /\ task[r].state # "none"
        /\ \E l \in Ends : lease' = [lease EXCEPT ![r] = l]
  /\ view' = [view EXCEPT ![r] = None] /\ out' = [out EXCEPT ![r] = "none"]
  /\ UNCHANGED <<store, got, task, stop>>
ReleaseLease(r) ==
  /\ place[r] = "finish" /\ GoTo(r, "closing")
  /\ \/ lease[r] # "held" /\ UNCHANGED lease
     \/ lease[r] = "held" /\ \E l \in Ends : lease' = [lease EXCEPT ![r] = l]
  /\ view' = [view EXCEPT ![r] = None] /\ out' = [out EXCEPT ![r] = "none"]
  /\ UNCHANGED <<store, got, task, stop>>
\* Mutant: a task whose reply was not stored is never finished.
FinishesOnSuccess(r) ==
  /\ place[r] = "closing" /\ ~task[r].failed /\ GoTo(r, "done")
  /\ task' = [task EXCEPT ![r].state = IF task[r].cause = "stopped" THEN "stopped" ELSE "none"]
  /\ UNCHANGED <<store, view, out, got, lease, stop>>
FinishTask(r) ==
  /\ place[r] = "closing" /\ GoTo(r, "done")
  /\ task' = [task EXCEPT ![r].state = IF task[r].cause = "stopped" THEN "stopped" ELSE "none"]
  /\ UNCHANGED <<store, view, out, got, lease, stop>>

\* Any read before a claim may fail, and so may a chat's.
Fails(r) ==
  /\ Errors /\ place[r] \in {"lookup", "replay", "message", "latest", "guard"}
  /\ GoTo(r, "finish") /\ UNCHANGED <<store, view, out, got, lease, task, stop>>

-----------------------------------------------------------------------------
(* CancelTask.                                                             *)

Result(s, r, v) == stop' = [stop EXCEPT ![s] = [on |-> r, res |-> v]]
Verdict(r) == IF task[r].failed THEN "failed" ELSE "stopped"
\* The task id is known to the client once the generation has begun.
Published == {"generate", "write", "finish", "closing", "done", "lost"}
CancelTask(s, r) ==
  /\ stop[s].res = "idle" /\ place[r] \in Published
  /\ CASE task[r].state = "none" -> Result(s, r, "gone") /\ UNCHANGED task
       [] task[r].state = "stopped" -> Result(s, r, Verdict(r)) /\ UNCHANGED task
       [] task[r].state = "open" ->
            /\ task' = [task EXCEPT ![r].state = "closed",
                          ![r].cause = IF @ = "none" THEN "stopped" ELSE @]
            /\ Result(s, r, IF task[r].cause = "client" THEN "gone" ELSE "waiting")
       [] OTHER -> /\ UNCHANGED task
                   /\ Result(s, r, IF task[r].cause = "stopped" THEN "waiting" ELSE "gone")
  /\ UNCHANGED <<store, place, view, out, got, lease>>
\* task.done is closed once FinishTask has run.
StopReturns(s) ==
  /\ stop[s].res = "waiting" /\ place[stop[s].on] = "done"
  /\ Result(s, stop[s].on, Verdict(stop[s].on))
  /\ UNCHANGED <<store, place, view, out, got, lease, task>>
\* The tombstone of a stopped task is pruned after five minutes; a stop that
\* waits keeps the task itself.
ForgetStopped(r) ==
  /\ task[r].state = "stopped" /\ task' = [task EXCEPT ![r].state = "none"]
  /\ UNCHANGED <<store, place, view, out, got, lease, stop>>

-----------------------------------------------------------------------------
(* Time, the student's other requests, and the process.                    *)

\* The claim runs out: request deadline plus five seconds, or three minutes,
\* which a generation may outlast.
ClaimExpires ==
  /\ first # None /\ first.live /\ ~first.done
  /\ first' = [first EXCEPT !.live = FALSE]
  /\ UNCHANGED <<session, epoch, reply, turns, usage, place, view, out, got, lease, task, stop>>

EndSession ==
  /\ "end" \in Troubles /\ session = "active" /\ session' = "ended"
  /\ UNCHANGED <<epoch, first, reply, turns, usage, place, view, out, got, lease, task, stop>>
\* Messages and first-chat row go with the session, the usage ledger stays.
DeleteSession ==
  /\ "delete" \in Troubles /\ Exists /\ session' = "none" /\ first' = None /\ reply' = None
  /\ turns' = [c \in Chats |-> "none"]
  /\ UNCHANGED <<epoch, usage, place, view, out, got, lease, task, stop>>

\* The API process stops: its requests and its task registry are gone, the
\* leases linger in Redis, the claims in PostgreSQL.
Restart ==
  /\ "restart" \in Troubles /\ \E r \in ChatRequests : place[r] \in Running
  /\ place' = [r \in ChatRequests |-> IF place[r] \in Running THEN "lost" ELSE place[r]]
  /\ lease' = [r \in ChatRequests |-> IF lease[r] = "held" THEN "lingering" ELSE lease[r]]
  /\ task' = [r \in ChatRequests |-> NoTask]
  /\ stop' = [s \in Stops |-> IF stop[s].res = "waiting" THEN [stop[s] EXCEPT !.res = "lost"]
                              ELSE stop[s]]
  /\ UNCHANGED <<store, view, out, got>>

ChatStep(r) ==
  \/ Acquire(r) \/ CreateFirstChat(r) \/ CreateConflicts(r) \/ LookupExisting(r)
  \/ ReadMessage(r) \/ ReadLatest(r) \/ ClaimFirstChat(r) \/ ClaimRefused(r)
  \/ ListMessages(r) \/ CloseExpiredFirstChat(r) \/ FinishGeneration(r)
  \/ WriteFirstReply(r) \/ WriteReply(r) \/ ReleaseLease(r) \/ FinishTask(r)
  \/ AskQuestion(r) \/ (r \in Starts /\ ReadRequest(r))

ChatNext ==
  /\ \/ \E r \in ChatRequests : ChatStep(r) \/ Fails(r) \/ ClientLeaves(r) \/ ForgetStopped(r)
     \/ \E r \in Starts : StartChat(r)
     \/ \E c \in Chats : ProcessChat(c)
     \/ \E s \in Stops : StopReturns(s) \/ \E r \in ChatRequests : CancelTask(s, r)
     \/ ClaimExpires \/ EndSession \/ DeleteSession \/ Restart
  /\ UNCHANGED body

ChatSpec == ChatInit /\ [][ChatNext]_chatVars

\* The API process serves every request it has accepted.
ChatFairness ==
  /\ \A r \in ChatRequests : WF_chatVars(ChatStep(r) /\ UNCHANGED body)
  /\ \A s \in Stops : WF_chatVars(StopReturns(s) /\ UNCHANGED body)
FairChatSpec == ChatSpec /\ ChatFairness

-----------------------------------------------------------------------------
(* Properties.                                                             *)

\* Every variable has its type: rows, tasks, requests and stop results.
ChatTypeOK ==
  /\ body \in [Starts -> Bodies]
  /\ session \in {"none", "active", "ended"} /\ epoch \in Nat
  /\ first \in FirstRow \cup {None} /\ reply \in FirstMessage \cup {None}
  /\ turns \in [Chats -> Statuses \cup {"none", "asked"}]
  /\ usage \subseteq Chats \cup {FirstReply}
  /\ place \in [ChatRequests -> ChatPhases] /\ view \in [ChatRequests -> FirstRow \cup {None}]
  /\ out \in [ChatRequests -> Statuses \cup {"none"}]
  /\ got \in [Starts -> Answer \cup {None}]
  /\ lease \in [ChatRequests -> {"none", "held", "released", "lingering"}]
  /\ task \in [ChatRequests -> Task]
  /\ stop \in [Stops -> [on : ChatRequests \cup {None},
        res : {"idle", "waiting", "stopped", "failed", "gone", "lost"}]]

\* All clients that got an answer to the first chat of one session got the same
\* reply, whichever of them generated it and whatever claims changed hands
\* meanwhile, and, until an id is created a second time, no client got the reply to
\* another client's question (StartChat, replayStartChat, completeExpiredFirstChat).
AnswersAgree ==
  \A r \in Starts : got[r] # None =>
    /\ \A q \in Starts : got[q] # None /\ got[r].epoch = got[q].epoch => got[r].by = got[q].by
    /\ epoch <= 1 /\ got[r].by \in Starts => body[got[r].by] = body[r]

\* While a first chat awaits its reply its session holds the welcome and the
\* question only, so a replay can always take it over (replayStartChat:
\* ErrFirstChatCannotResume); true until an id is created a second time.
OpenChatIsUntouched ==
  epoch <= 1 /\ first # None /\ ~first.done => TwoMessages

\* The quota ledger grows exactly when a complete reply is stored, by one
\* entry, whatever fails, is retried, or was deleted before
\* (CompleteFirstChat, InsertMeteredAssistantMessage).
Delivered == {c \in Chats : turns[c] = "completed"}
CompleteFirst == reply # None /\ reply.status = "completed"
ChargedWhenStored ==
  [][/\ (usage' \ usage) \cap Chats = Delivered' \ Delivered
     /\ (FirstReply \in usage' \ usage) = (CompleteFirst' /\ ~CompleteFirst)]_chatVars

\* A stop that reports success has left its reply, marked as stopped, in the
\* session (CancelTask, finishActiveChatGeneration), unless the session is gone.
StopIsStored ==
  \A s \in Stops : stop[s].res = "stopped" /\ Exists /\ epoch <= 1 =>
    IF stop[s].on \in Starts THEN reply = [by |-> stop[s].on, status |-> "stopped"]
    ELSE turns[stop[s].on] = "stopped"

\* A start that ended without a reply leaves no live claim behind, so a retry
\* need not wait for the expiry; a lost process and a failed release do.
NoOrphanClaim ==
  "release" \notin Troubles /\ first # None /\ first.live /\ ~first.done /\ first.token \in Starts =>
    place[first.token] \in {"list", "generate", "write", "lost"}

\* A first chat's reply is its own, and no lease of a later chat opens it again; a stop that
\* was told to succeed left its reply, and a failed start no live claim.
FirstChatHolds == AnswersAgree /\ OpenChatIsUntouched
RepliesSettle == StopIsStored /\ NoOrphanClaim

\* Whoever asks for a stop is answered, and a lease is given back or left to its
\* expiry, whatever is restarted, fails or leaves meanwhile (CancelTask, finishTask).
StopIsAnswered ==
  /\ \A s \in Stops : stop[s].res = "waiting" ~> stop[s].res # "waiting"
  /\ \A r \in ChatRequests : lease[r] = "held" ~> lease[r] # "held"
=============================================================================
