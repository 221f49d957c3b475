---------------------------- MODULE StudyProgress ----------------------------
(***************************************************************************)
(* The learning flow of one study session: five stages the student walks    *)
(* through by pressing a button, each allowed only by a completed reply of  *)
(* the tutor in that stage.  Chats read the stage, prompt the model with it  *)
(* and record their turn under a lock; replies arrive at any time later,     *)
(* while the student advances, ends, deletes or creates the session again.   *)
(***************************************************************************)
EXTENDS Naturals, Sequences

CONSTANTS
  Chats,    \* chat requests; each has its own user message
  None

VARIABLES
  session,   \* learning_sessions row: [mode, active] or None
  progress,  \* session_study_progress row: [step, rev] or None
  turns,     \* session_study_turns in the order of their sequence
  message,   \* each chat's user message, with the completion_status of its reply
  chat,      \* where each chat is, and what it has read
  base       \* the revision progress started from (bookkeeping)

studyVars == <<session, progress, turns, message, chat, base>>

Modes == {"study", "practice", "chat"}
Actions == {"discuss", "start", "rephrase", "reply"}
Sessions == [mode : Modes, active : BOOLEAN]
Progresses == [step : 0..5, rev : 1..6]
ASSUME StudyAssumption == None \notin Sessions /\ None \notin Progresses
Messages == {"absent", "asked", "partial", "complete"}
\* step: the stage in the prompt (bookkeeping).
Turns == [chat : Chats, rev : 1..6, act : Actions, step : 0..5]
\* rev 0: the chat found no progress; the prompt then names no stage.
Views == [at : {"idle", "progress", "insert", "generate", "done"}, mode : Modes,
          act : Actions, rev : 0..6, step : 0..5]
IdleChat == [at |-> "idle", mode |-> "chat", act |-> "discuss", rev |-> 0, step |-> 0]

\* A deployment may find a session from before turns were recorded: its stage
\* is kept and needs fresh evidence.
StudyInit ==
  /\ \/ session = None /\ progress = None /\ base = 1
     \/ /\ session = [mode |-> "study", active |-> TRUE]
        /\ \E k \in 0..5 : progress = [step |-> k, rev |-> k + 1] /\ base = k + 1
  /\ turns = <<>> /\ message = [c \in Chats |-> "absent"]
  /\ chat = [c \in Chats |-> IdleChat]

-----------------------------------------------------------------------------
(* Evidence.                                                                *)

TurnsAt(v) == {i \in DOMAIN turns : turns[i].rev = v}
Questions(v) == {i \in TurnsAt(v) : turns[i].act = "start"}
IsLatest(i, S) == i \in S /\ \A j \in S : j <= i
\* Mutant: an interrupted reply counts.
AnsweredAtAll(i) == message[turns[i].chat] \in {"partial", "complete"}
Answered(i) == message[turns[i].chat] = "complete"
\* The check stage (step 3) needs an answer after the question last asked.
CheckAnswered(i, v) ==
  /\ turns[i].act = "reply"
  /\ \E q \in DOMAIN turns : IsLatest(q, Questions(v)) /\ q < i /\ Answered(q)

\* SetAvailability of what GetStudyProgress selects.
\* Mutant: the last stage does not stop the flow.
CanAlwaysAdvance(p) ==
  \E i \in DOMAIN turns : IsLatest(i, TurnsAt(p.rev)) /\ Answered(i)
CanAdvance(p) ==
  /\ p.step < 5
  /\ \E i \in DOMAIN turns :
       /\ IsLatest(i, TurnsAt(p.rev)) /\ Answered(i)
       /\ p.step = 3 => CheckAnswered(i, p.rev)

-----------------------------------------------------------------------------
(* A chat.                                                                  *)

Done(c) == chat' = [chat EXCEPT ![c] = [IdleChat EXCEPT !.at = "done"]]

ReadSession(c) ==
  /\ chat[c].at = "idle"
  /\ \/ /\ session # None /\ session.active
        /\ chat' = [chat EXCEPT ![c].at = "progress", ![c].mode = session.mode]
     \/ Done(c)
  /\ UNCHANGED <<session, progress, turns, message, base>>

\* studyInstruction: the prompt is built from the stage read here.  A marked
\* turn must name the revision found; then slot, history and ids are taken.
ReadProgress(c) ==
  /\ chat[c].at = "progress"
  /\ \/ \E act \in Actions :
          /\ act # "discuss" => chat[c].mode = "study" /\ progress # None
          /\ chat' = [chat EXCEPT ![c] =
               IF @.mode = "study" /\ progress # None
               THEN [@ EXCEPT !.at = "insert", !.act = act, !.rev = progress.rev, !.step = progress.step]
               ELSE [@ EXCEPT !.at = "insert"]]
     \/ Done(c)
  /\ UNCHANGED <<session, progress, turns, message, base>>

\* SELECT ... FOR UPDATE.  Mutant: ended sessions are found as well.
LockedAnyStudy == session # None /\ session.mode = "study"
LockedStudy == session # None /\ session.mode = "study" /\ session.active
ActualRevision == IF progress = None THEN 0 ELSE progress.rev
\* Mutant: the revision is not compared under the lock.
AnyRevision(c) == progress # None \/ chat[c].rev = 0
SameRevision(c) == ActualRevision = chat[c].rev

NewTurn(c) == [chat |-> c, rev |-> chat[c].rev, act |-> chat[c].act, step |-> chat[c].step]

\* InsertStudyMessage, or the plain insert of other modes.  The commit may be
\* lost: the message is then stored and nobody replies.
InsertMessage(c) ==
  /\ chat[c].at = "insert"
  /\ \/ /\ IF chat[c].mode = "study" THEN LockedStudy /\ SameRevision(c) ELSE session # None
        /\ message' = [message EXCEPT ![c] = "asked"]
        /\ turns' = IF chat[c].mode = "study" /\ chat[c].rev # 0
                    THEN Append(turns, NewTurn(c)) ELSE turns
        /\ Done(c) \/ chat' = [chat EXCEPT ![c] = [IdleChat EXCEPT !.at = "generate"]]
     \/ Done(c) /\ UNCHANGED <<turns, message>>
  /\ UNCHANGED <<session, progress, base>>

\* completeChat: the reply refers to the user message, which must still exist;
\* it may be partial (stopped, interrupted, no tutor) or fail to be stored.
StoreReply(c) ==
  /\ chat[c].at = "generate" /\ Done(c)
  /\ \/ /\ message[c] = "asked"
        /\ \E s \in {"complete", "partial"} : message' = [message EXCEPT ![c] = s]
     \/ UNCHANGED message
  /\ UNCHANGED <<session, progress, turns, base>>

-----------------------------------------------------------------------------
(* The session and its progress.  Requests that change nothing are stutters. *)

NewProgress == progress' = [step |-> 0, rev |-> 1] /\ base' = 1
Kept == UNCHANGED <<turns, message, chat>>

\* CreateStudySession; a repeated request only reads.
CreateStudy ==
  /\ session = None /\ session' = [mode |-> "study", active |-> TRUE]
  /\ NewProgress /\ Kept
\* A session created in another way has no progress yet.
CreateSession ==
  /\ session = None /\ \E m \in Modes : session' = [mode |-> m, active |-> TRUE]
  /\ UNCHANGED <<progress, base>> /\ Kept
\* UpdateStudyProgress with action start, and with action next and the
\* revision of the row (another one is a conflict).
StartProgress ==
  /\ LockedStudy /\ progress = None /\ NewProgress /\ UNCHANGED session /\ Kept
Advance ==
  /\ LockedStudy /\ progress # None /\ CanAdvance(progress)
  /\ progress' = [step |-> progress.step + 1, rev |-> progress.rev + 1]
  /\ UNCHANGED <<session, base>> /\ Kept

\* UpdateSessionMode: a learning flow is neither entered nor left.
ModeAllowed(m) ==
  m = session.mode \/ (session.mode \notin {"study", "practice"} /\ m \notin {"study", "practice"})
UpdateSessionMode ==
  /\ session # None /\ session.active
  /\ \E m \in Modes : ModeAllowed(m) /\ session' = [session EXCEPT !.mode = m]
  /\ UNCHANGED <<progress, base>> /\ Kept
EndSession ==
  /\ session # None /\ session' = [session EXCEPT !.active = FALSE]
  /\ UNCHANGED <<progress, base>> /\ Kept
\* Messages, progress and turns go with the session.
DeleteSession ==
  /\ session # None /\ session' = None /\ progress' = None /\ turns' = <<>>
  /\ message' = [c \in Chats |-> "absent"] /\ UNCHANGED <<chat, base>>

ChatStep(c) == ReadSession(c) \/ ReadProgress(c) \/ InsertMessage(c) \/ StoreReply(c)
StudyNext ==
  \/ \E c \in Chats : ChatStep(c)
  \/ CreateStudy \/ CreateSession \/ StartProgress \/ Advance
  \/ UpdateSessionMode \/ EndSession \/ DeleteSession

StudySpec == StudyInit /\ [][StudyNext]_studyVars

-----------------------------------------------------------------------------
(* Properties.                                                             *)

\* Rows, turns and views have their types; a stage and its revision go together.
StudyTypeOK ==
  /\ session \in Sessions \cup {None}
  /\ progress \in Progresses \cup {None} /\ (progress # None => progress.rev = progress.step + 1)
  /\ turns \in Seq(Turns) /\ message \in [Chats -> Messages]
  /\ chat \in [Chats -> Views] /\ base \in 1..6

\* Turn i finishes stage v.
Evidence(i, v) ==
  /\ turns[i].rev = v /\ message[turns[i].chat] = "complete"
  /\ v = 4 => /\ turns[i].act = "reply"
              /\ \E q \in Questions(v) : q < i /\ message[turns[q].chat] = "complete"

\* Every stage the student has passed has a completed turn of its own, and the
\* check stage a completed question with a completed answer after it, whatever
\* was stopped, retried, ended or created again (UpdateStudyProgress).
EvidenceForEveryStage ==
  progress # None => \A v \in base..(progress.rev - 1) : \E i \in DOMAIN turns : Evidence(i, v)

\* The stage the model was prompted with is the stage its turn counts for,
\* although the prompt is built long before the turn is recorded.
PromptFitsTurn == \A i \in DOMAIN turns :
  /\ turns[i].rev = turns[i].step + 1
  /\ progress # None /\ turns[i].rev <= progress.rev

\* A session with progress stays a study session (UpdateSessionMode).
StudyModeIsLocked == progress # None => session # None /\ session.mode = "study"

\* Nothing advances or joins the flow of a session that has ended.
EndedIsFrozen ==
  [][session # None /\ ~session.active /\ session' # None => UNCHANGED <<progress, turns>>]_studyVars
=============================================================================
