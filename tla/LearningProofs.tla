--------------------------- MODULE LearningProofs ---------------------------
(***************************************************************************)
(* Proofs about a student's learning, for any number of chats, clients,    *)
(* keys, attempts, pages and answers.                                      *)
(*                                                                         *)
(* Study.  Evidence, once there, stays: a turn is never changed, and its   *)
(* reply is written once, because a chat records its turn at most once     *)
(* (TurnsOnce).  The stage a chat was prompted with survives until its     *)
(* turn is recorded (ViewsFit), where the lock compares it with the row.   *)
(*                                                                         *)
(* Exercises.  What a request has read under the student's lock stays true *)
(* until it commits (LockProtects): whoever archives, edits or answers     *)
(* needs the lock or is shut out by the question's row lock, and the daily *)
(* worker touches an assignment only while there is none.  From there the  *)
(* plan keeps the story of the mistakes (PlanAgrees), one step at a time,  *)
(* and a slot that a request is about to decide is undecided.              *)
(*                                                                         *)
(* Record.  What the page with the lock has read is what is stored, so     *)
(* that one answer more is one more in every counter (RecordInv).          *)
(*                                                                         *)
(* Mistakes.  The rows of the first pages of a list are those with fewer   *)
(* rows ahead of them than fit on the pages (RowsUpto).                    *)
(*                                                                         *)
(* Grading.  What was checked of a draft was checked in its own attempt,   *)
(* and the option it names is the one it means (DraftFits).                *)
(*                                                                         *)
(* A step of the whole is a step of each module or leaves it alone         *)
(* (LearningIsItsModules): what is proved of a module holds of the whole.  *)
(***************************************************************************)
EXTENDS MCLearning, FunctionTheorems, SequenceTheorems, FiniteSetTheorems, TLAPS

-----------------------------------------------------------------------------
(* The study flow.                                                         *)

\* A chat that has not inserted its message has no turn.
TurnsOnce == \A i \in DOMAIN turns : chat[turns[i].chat].at \in {"generate", "done"}
\* A view taken with progress names a stage and its revision.
ViewsFit == \A c \in Chats : chat[c].rev # 0 => chat[c].rev = chat[c].step + 1

StudyIInv ==
  /\ StudyTypeOK /\ TurnsOnce /\ ViewsFit
  /\ EvidenceForEveryStage /\ PromptFitsTurn /\ StudyModeIsLocked

-----------------------------------------------------------------------------
(* Types.                                                                   *)

\* The view of a chat that has not begun, or is over.
LEMMA IdleTyped == IdleChat \in Views /\ [IdleChat EXCEPT !.at = "done"] \in Views
                   /\ [IdleChat EXCEPT !.at = "generate"] \in Views
BY DEF IdleChat, Views, Modes, Actions

\* The initial states are well typed.
LEMMA InitTyped == StudyInit => StudyTypeOK
<1> SUFFICES ASSUME StudyInit PROVE StudyTypeOK
  OBVIOUS
<1>1. progress \in Progresses \cup {None} /\ (progress # None => progress.rev = progress.step + 1) /\ base \in 1..6
  <2>1. ASSUME NEW k \in 0..5, progress = [step |-> k, rev |-> k + 1], base = k + 1
        PROVE  progress \in Progresses /\ progress.rev = progress.step + 1 /\ base \in 1..6
    BY <2>1 DEF Progresses
  <2>2. ASSUME progress = None, base = 1 PROVE base \in 1..6
    BY <2>2
  <2>3. (session = None /\ progress = None /\ base = 1)
        \/ \E k \in 0..5 : progress = [step |-> k, rev |-> k + 1] /\ base = k + 1
    BY DEF StudyInit
  <2>4. CASE \E k \in 0..5 : progress = [step |-> k, rev |-> k + 1] /\ base = k + 1
    <3>1. PICK k \in 0..5 : progress = [step |-> k, rev |-> k + 1] /\ base = k + 1
      BY <2>4
    <3>2. progress \in Progresses /\ progress.rev = progress.step + 1 /\ base \in 1..6
      BY <2>1, <3>1
    <3> QED
      BY <3>2
  <2> QED
    BY <2>2, <2>3, <2>4
<1>2. session \in Sessions \cup {None}
  <2>1. [mode |-> "study", active |-> TRUE] \in Sessions
    BY DEF Sessions, Modes
  <2> QED
    BY <2>1 DEF StudyInit
<1>3. chat \in [Chats -> Views]
  BY IdleTyped DEF StudyInit
<1> QED
  BY <1>1, <1>2, <1>3 DEF StudyInit, StudyTypeOK, Messages

\* What is known of the row while there is one.
LEMMA ProgressTyped ==
  ASSUME StudyTypeOK, progress # None
  PROVE  progress.step \in 0..5 /\ progress.rev \in 1..6 /\ progress.rev = progress.step + 1
BY DEF StudyTypeOK, Progresses

\* A chat that ends keeps the type of the views.
LEMMA DoneTyped == ASSUME StudyTypeOK, NEW c \in Chats, Done(c) PROVE chat' \in [Chats -> Views]
BY IdleTyped DEF Done, StudyTypeOK

\* A turn recorded from a view taken with progress.
LEMMA NewTurnTyped ==
  ASSUME StudyTypeOK, NEW c \in Chats, chat[c].rev # 0
  PROVE  NewTurn(c) \in Turns
BY DEF StudyTypeOK, Views, Turns, NewTurn

\* The steps of a chat keep the types.
LEMMA ChatTyped == ASSUME StudyTypeOK, NEW c \in Chats, ChatStep(c) PROVE StudyTypeOK'
<1>1. CASE ReadSession(c)
  <2>1. chat' \in [Chats -> Views]
    <3>1. CASE Done(c)
      BY <3>1, DoneTyped
    <3>2. CASE session # None /\ chat' = [chat EXCEPT ![c].at = "progress", ![c].mode = session.mode]
      <4>1. session.mode \in Modes
        BY <3>2 DEF StudyTypeOK, Sessions
      <4> QED
        BY <3>2, <4>1 DEF StudyTypeOK, Views
    <3> QED
      BY <1>1, <3>1, <3>2 DEF ReadSession
  <2> QED
    BY <1>1, <2>1 DEF ReadSession, StudyTypeOK
<1>2. CASE ReadProgress(c)
  <2>1. chat' \in [Chats -> Views]
    <3>1. CASE Done(c)
      BY <3>1, DoneTyped
    <3>2. ASSUME NEW act \in Actions,
                 chat' = [chat EXCEPT ![c] =
                   IF @.mode = "study" /\ progress # None
                   THEN [@ EXCEPT !.at = "insert", !.act = act, !.rev = progress.rev, !.step = progress.step]
                   ELSE [@ EXCEPT !.at = "insert"]]
          PROVE  chat' \in [Chats -> Views]
      <4> DEFINE seen == [chat[c] EXCEPT !.at = "insert", !.act = act, !.rev = progress.rev, !.step = progress.step]
                 plain == [chat[c] EXCEPT !.at = "insert"]
      <4>1. chat[c] \in Views /\ plain \in Views
        BY DEF StudyTypeOK, Views
      <4>2. ASSUME progress # None PROVE seen \in Views
        <5>1. progress.rev \in 0..6 /\ progress.step \in 0..5
          BY <4>2, ProgressTyped
        <5> QED
          BY <4>1, <5>1 DEF Views
      <4>3. chat' = [chat EXCEPT ![c] = IF chat[c].mode = "study" /\ progress # None THEN seen ELSE plain]
        BY <3>2 DEF StudyTypeOK
      <4> HIDE DEF seen, plain
      <4>4. CASE chat[c].mode = "study" /\ progress # None
        BY <4>2, <4>3, <4>4 DEF StudyTypeOK
      <4>5. CASE ~(chat[c].mode = "study" /\ progress # None)
        BY <4>1, <4>3, <4>5 DEF StudyTypeOK
      <4> QED
        BY <4>4, <4>5
    <3> QED
      BY <1>2, <3>1, <3>2 DEF ReadProgress
  <2> QED
    BY <1>2, <2>1 DEF ReadProgress, StudyTypeOK
<1>3. CASE InsertMessage(c)
  <2>1. chat' \in [Chats -> Views]
    BY <1>3, DoneTyped, IdleTyped DEF InsertMessage, StudyTypeOK
  <2>2. message' \in [Chats -> Messages]
    BY <1>3 DEF InsertMessage, StudyTypeOK, Messages
  <2>3. turns' \in Seq(Turns)
    BY <1>3, NewTurnTyped, AppendProperties DEF InsertMessage, StudyTypeOK
  <2> QED
    BY <1>3, <2>1, <2>2, <2>3 DEF InsertMessage, StudyTypeOK
<1>4. CASE StoreReply(c)
  <2>1. chat' \in [Chats -> Views]
    BY <1>4, DoneTyped DEF StoreReply
  <2>2. message' \in [Chats -> Messages]
    BY <1>4 DEF StoreReply, StudyTypeOK, Messages
  <2> QED
    BY <1>4, <2>1, <2>2 DEF StoreReply, StudyTypeOK
<1> QED
  BY <1>1, <1>2, <1>3, <1>4 DEF ChatStep

\* Steps of the session leave the chats alone and keep the types.
SessionStep ==
  \/ CreateStudy \/ CreateSession \/ StartProgress \/ Advance
  \/ UpdateSessionMode \/ EndSession \/ DeleteSession

\* The progress a session starts with.
LEMMA FirstStageTyped == [step |-> 0, rev |-> 1] \in Progresses
BY DEF Progresses

\* The steps of the session's own handlers keep the types.
LEMMA SessionTyped == ASSUME StudyTypeOK, SessionStep PROVE StudyTypeOK'
<1>1. session' \in Sessions \cup {None}
  <2>1. session # None => session \in Sessions
    BY DEF StudyTypeOK
  <2>2. CASE CreateStudy \/ CreateSession
    <3>1. \A m \in Modes : [mode |-> m, active |-> TRUE] \in Sessions
      BY DEF Sessions
    <3>2. "study" \in Modes
      BY DEF Modes
    <3> QED
      BY <2>2, <3>1, <3>2 DEF CreateStudy, CreateSession
  <2>3. CASE UpdateSessionMode
    BY <2>1, <2>3 DEF UpdateSessionMode, Sessions
  <2>4. CASE EndSession
    BY <2>1, <2>4 DEF EndSession, Sessions
  <2>5. CASE StartProgress \/ Advance \/ DeleteSession
    BY <2>5 DEF StartProgress, Advance, DeleteSession, StudyTypeOK
  <2> QED
    BY <2>2, <2>3, <2>4, <2>5 DEF SessionStep
<1>2. progress' \in Progresses \cup {None} /\ (progress' # None => progress'.rev = progress'.step + 1) /\ base' \in 1..6
  <2>1. CASE NewProgress
    BY <2>1, FirstStageTyped, StudyAssumption DEF NewProgress
  <2>2. CASE Advance
    <3>1. progress.step \in 0..4 /\ progress.rev = progress.step + 1
      BY <2>2, ProgressTyped DEF Advance, CanAdvance
    <3>2. [step |-> progress.step + 1, rev |-> progress.rev + 1] \in Progresses
      BY <3>1 DEF Progresses
    <3> QED
      BY <2>2, <3>1, <3>2 DEF Advance, StudyTypeOK
  <2>3. CASE progress' \in {progress, None} /\ base' = base
    BY <2>3 DEF StudyTypeOK
  <2> QED
    BY <2>1, <2>2, <2>3 DEF SessionStep, CreateStudy, CreateSession, StartProgress, UpdateSessionMode,
                            EndSession, DeleteSession
<1>3. turns' \in Seq(Turns) /\ message' \in [Chats -> Messages] /\ chat' = chat
  <2>1. CASE DeleteSession
    <3>1. <<>> \in Seq(Turns)
      OBVIOUS
    <3> QED
      BY <2>1, <3>1 DEF DeleteSession, StudyTypeOK, Messages
  <2>2. CASE Kept
    BY <2>2 DEF Kept, StudyTypeOK
  <2> QED
    BY <2>1, <2>2 DEF SessionStep, CreateStudy, CreateSession, StartProgress, Advance, UpdateSessionMode,
                      EndSession
<1> QED
  BY <1>1, <1>2, <1>3 DEF StudyTypeOK

\* Every step keeps the types.
LEMMA StudyTypesKept == StudyTypeOK /\ [StudyNext]_studyVars => StudyTypeOK'
<1> SUFFICES ASSUME StudyTypeOK, [StudyNext]_studyVars PROVE StudyTypeOK'
  OBVIOUS
<1>1. CASE UNCHANGED studyVars
  BY <1>1 DEF studyVars, StudyTypeOK
<1> QED
  BY <1>1, ChatTyped, SessionTyped DEF StudyNext, SessionStep

-----------------------------------------------------------------------------
(* Turns and views.                                                         *)

\* What appending a turn changes.
LEMMA AppendKeeps ==
  ASSUME StudyTypeOK, NEW t \in Turns, turns' = Append(turns, t)
  PROVE  /\ \A i \in DOMAIN turns : i \in DOMAIN turns' /\ turns'[i] = turns[i]
         /\ \A i \in DOMAIN turns' : i \in DOMAIN turns \/ turns'[i] = t
BY AppendProperties DEF StudyTypeOK

\* A turn names a chat.
LEMMA TurnsOfChats == ASSUME StudyTypeOK PROVE \A i \in DOMAIN turns : turns[i] \in Turns /\ turns[i].chat \in Chats
<1>1. \A i \in DOMAIN turns : turns[i] \in Turns
  BY DEF StudyTypeOK
<1> QED
  BY <1>1 DEF Turns

\* The only two ways the turns change.
LEMMA TurnsChange ==
  ASSUME StudyTypeOK, [StudyNext]_studyVars
  PROVE  \/ turns' = turns
         \/ DeleteSession
         \/ \E c \in Chats : InsertMessage(c) /\ chat[c].mode = "study" /\ chat[c].rev # 0
                             /\ turns' = Append(turns, NewTurn(c))
BY DEF StudyNext, ChatStep, ReadSession, ReadProgress, InsertMessage, StoreReply, CreateStudy, CreateSession,
       StartProgress, Advance, UpdateSessionMode, EndSession, Kept, studyVars

\* Chats only move forward, and only past their insertion once it is tried.
LEMMA ChatsMoveOn ==
  ASSUME StudyTypeOK, [StudyNext]_studyVars, NEW c \in Chats, chat[c].at \in {"generate", "done"}
  PROVE  chat'[c].at \in {"generate", "done"}
<1>1. ASSUME NEW d \in Chats, ChatStep(d) PROVE chat'[c].at \in {"generate", "done"}
  <2>1. CASE d = c
    <3>1. StoreReply(c)
      BY <1>1, <2>1 DEF ChatStep, ReadSession, ReadProgress, InsertMessage
    <3> QED
      BY <3>1 DEF StoreReply, Done, IdleChat, StudyTypeOK
  <2>2. CASE d # c
    <3>1. chat'[c] = chat[c]
      BY <1>1, <2>2 DEF ChatStep, ReadSession, ReadProgress, InsertMessage, StoreReply, Done, StudyTypeOK
    <3> QED
      BY <3>1
  <2> QED
    BY <2>1, <2>2
<1>2. CASE chat' = chat
  BY <1>2
<1> QED
  BY <1>1, <1>2 DEF StudyNext, CreateStudy, CreateSession, StartProgress, Advance, UpdateSessionMode, EndSession,
                    DeleteSession, Kept, studyVars

\* TurnsOnce is kept.
LEMMA TurnsStayOnce == StudyTypeOK /\ TurnsOnce /\ [StudyNext]_studyVars => TurnsOnce'
<1> SUFFICES ASSUME StudyTypeOK, TurnsOnce, [StudyNext]_studyVars, NEW i \in DOMAIN turns'
             PROVE  chat'[turns'[i].chat].at \in {"generate", "done"}
  BY DEF TurnsOnce
<1>1. ASSUME i \in DOMAIN turns, turns'[i] = turns[i] PROVE chat'[turns'[i].chat].at \in {"generate", "done"}
  BY <1>1, ChatsMoveOn, TurnsOfChats DEF TurnsOnce
<1>2. CASE DeleteSession
  BY <1>2 DEF DeleteSession
<1>3. ASSUME NEW c \in Chats, InsertMessage(c), chat[c].rev # 0, turns' = Append(turns, NewTurn(c))
      PROVE  chat'[turns'[i].chat].at \in {"generate", "done"}
  <2>1. (i \in DOMAIN turns /\ turns'[i] = turns[i]) \/ turns'[i] = NewTurn(c)
    BY <1>3, NewTurnTyped, AppendKeeps
  <2>2. chat'[c].at \in {"generate", "done"}
    BY <1>3 DEF InsertMessage, Done, IdleChat, StudyTypeOK
  <2> QED
    BY <1>1, <2>1, <2>2 DEF NewTurn
<1> QED
  BY <1>1, <1>2, <1>3, TurnsChange

\* ViewsFit is kept: revision and stage move together.
LEMMA ViewsStayFit == StudyTypeOK /\ ViewsFit /\ [StudyNext]_studyVars => ViewsFit'
<1> SUFFICES ASSUME StudyTypeOK, ViewsFit, [StudyNext]_studyVars, NEW c \in Chats, chat'[c].rev # 0
             PROVE  chat'[c].rev = chat'[c].step + 1
  BY DEF ViewsFit
<1>1. CASE chat'[c].rev = chat[c].rev /\ chat'[c].step = chat[c].step
  BY <1>1 DEF ViewsFit
<1>2. ASSUME NEW d \in Chats, ChatStep(d) PROVE chat'[c].rev = chat'[c].step + 1
  <2>1. CASE d # c
    <3>1. chat'[c] = chat[c]
      BY <1>2, <2>1 DEF ChatStep, ReadSession, ReadProgress, InsertMessage, StoreReply, Done, StudyTypeOK
    <3> QED
      BY <1>1, <3>1
  <2>2. CASE Done(c)
    BY <2>2 DEF Done, IdleChat, StudyTypeOK
  <2>3. CASE d = c /\ ReadSession(c) /\ ~Done(c)
    <3>1. chat' = [chat EXCEPT ![c].at = "progress", ![c].mode = session.mode] /\ chat[c] \in Views
      BY <2>3 DEF ReadSession, StudyTypeOK
    <3>2. chat'[c].rev = chat[c].rev /\ chat'[c].step = chat[c].step
      BY <3>1 DEF StudyTypeOK, Views
    <3> QED
      BY <1>1, <3>2
  <2>4. CASE d = c /\ ReadProgress(c) /\ ~Done(c)
    <3>1. PICK act \in Actions : chat' = [chat EXCEPT ![c] =
             IF @.mode = "study" /\ progress # None
             THEN [@ EXCEPT !.at = "insert", !.act = act, !.rev = progress.rev, !.step = progress.step]
             ELSE [@ EXCEPT !.at = "insert"]]
      BY <2>4 DEF ReadProgress
    <3>2. CASE chat[c].mode = "study" /\ progress # None
      <4>1. progress.rev = progress.step + 1
        BY <3>2, ProgressTyped
      <4>2. chat'[c].rev = progress.rev /\ chat'[c].step = progress.step
        BY <3>1, <3>2 DEF StudyTypeOK, Views
      <4> QED
        BY <4>1, <4>2
    <3>3. CASE ~(chat[c].mode = "study" /\ progress # None)
      <4>1. chat'[c].rev = chat[c].rev /\ chat'[c].step = chat[c].step
        BY <3>1, <3>3 DEF StudyTypeOK, Views
      <4> QED
        BY <1>1, <4>1
    <3> QED
      BY <3>2, <3>3
  <2>5. CASE d = c /\ InsertMessage(c) /\ ~Done(c)
    BY <2>5 DEF InsertMessage, IdleChat, StudyTypeOK
  <2>6. CASE d = c /\ StoreReply(c)
    BY <2>2, <2>6 DEF StoreReply
  <2> QED
    BY <1>2, <2>1, <2>2, <2>3, <2>4, <2>5, <2>6 DEF ChatStep
<1>3. CASE chat' = chat
  BY <1>1, <1>3
<1> QED
  BY <1>2, <1>3 DEF StudyNext, CreateStudy, CreateSession, StartProgress, Advance, UpdateSessionMode, EndSession,
                    DeleteSession, Kept, studyVars

-----------------------------------------------------------------------------
(* Evidence.                                                                *)

\* A reply that is complete stays so until the session is deleted: the one
\* chat that could overwrite it has recorded its message already.
LEMMA AnswersStay ==
  ASSUME StudyTypeOK, TurnsOnce, [StudyNext]_studyVars, ~DeleteSession,
         NEW i \in DOMAIN turns, message[turns[i].chat] = "complete"
  PROVE  message'[turns[i].chat] = "complete"
<1>1. turns[i].chat \in Chats /\ chat[turns[i].chat].at \in {"generate", "done"}
  BY TurnsOfChats DEF TurnsOnce
<1>2. ASSUME NEW d \in Chats, ChatStep(d) PROVE message'[turns[i].chat] = "complete"
  <2>1. CASE ReadSession(d) \/ ReadProgress(d)
    BY <2>1 DEF ReadSession, ReadProgress
  <2>2. CASE InsertMessage(d)
    <3>1. turns[i].chat # d
      BY <1>1, <2>2 DEF InsertMessage
    <3> QED
      BY <1>1, <2>2, <3>1 DEF InsertMessage, StudyTypeOK
  <2>3. CASE StoreReply(d)
    <3>1. message' = message \/ turns[i].chat # d
      BY <2>3 DEF StoreReply
    <3> QED
      BY <1>1, <2>3, <3>1 DEF StoreReply, StudyTypeOK
  <2> QED
    BY <1>2, <2>1, <2>2, <2>3 DEF ChatStep
<1>3. CASE message' = message
  BY <1>3
<1> QED
  BY <1>2, <1>3 DEF StudyNext, CreateStudy, CreateSession, StartProgress, Advance, UpdateSessionMode, EndSession, Kept, studyVars

\* Turns keep their places and contents until the session is deleted.
LEMMA TurnsStay ==
  ASSUME StudyTypeOK, [StudyNext]_studyVars, ~DeleteSession
  PROVE  \A i \in DOMAIN turns : i \in DOMAIN turns' /\ turns'[i] = turns[i]
<1>1. ASSUME NEW c \in Chats, chat[c].rev # 0, turns' = Append(turns, NewTurn(c))
      PROVE  \A i \in DOMAIN turns : i \in DOMAIN turns' /\ turns'[i] = turns[i]
  BY <1>1, NewTurnTyped, AppendKeeps
<1> QED
  BY <1>1, TurnsChange

\* The evidence of a stage stays while its session does.
LEMMA EvidenceStays ==
  ASSUME StudyTypeOK, TurnsOnce, [StudyNext]_studyVars, ~DeleteSession,
         NEW v \in 1..6, NEW i \in DOMAIN turns, Evidence(i, v)
  PROVE  i \in DOMAIN turns' /\ Evidence(i, v)'
<1>1. i \in DOMAIN turns' /\ turns'[i] = turns[i]
  BY TurnsStay
<1>2. turns'[i].rev = v /\ message'[turns'[i].chat] = "complete"
  BY <1>1, AnswersStay DEF Evidence
<1>3. ASSUME v = 4
      PROVE  turns'[i].act = "reply" /\ \E q \in Questions(v)' : q < i /\ message'[turns'[q].chat] = "complete"
  <2>1. PICK q \in Questions(v) : q < i /\ message[turns[q].chat] = "complete"
    BY <1>3 DEF Evidence
  <2>2. q \in DOMAIN turns /\ turns[q].rev = v /\ turns[q].act = "start"
    BY DEF Questions, TurnsAt
  <2>3. q \in DOMAIN turns' /\ turns'[q] = turns[q]
    BY <2>2, TurnsStay
  <2>4. message'[turns'[q].chat] = "complete"
    BY <2>1, <2>2, <2>3, AnswersStay
  <2>5. q \in Questions(v)'
    BY <2>2, <2>3 DEF Questions, TurnsAt
  <2> QED
    BY <1>1, <1>3, <2>1, <2>4, <2>5 DEF Evidence
<1> QED
  BY <1>1, <1>2, <1>3 DEF Evidence

\* The row is written by creation, by a start, by an advance and by deletion.
LEMMA ProgressChange ==
  ASSUME [StudyNext]_studyVars
  PROVE  \/ progress' = progress /\ base' = base
         \/ NewProgress
         \/ Advance
         \/ progress' = None
BY DEF StudyNext, ChatStep, ReadSession, ReadProgress, InsertMessage, StoreReply, CreateStudy, CreateSession,
       StartProgress, UpdateSessionMode, EndSession, DeleteSession, Kept, studyVars

\* EvidenceForEveryStage is kept: a stage is passed only on evidence of its own.
LEMMA EvidenceKept ==
  StudyTypeOK /\ TurnsOnce /\ EvidenceForEveryStage /\ [StudyNext]_studyVars => EvidenceForEveryStage'
<1> SUFFICES ASSUME StudyTypeOK, TurnsOnce, EvidenceForEveryStage, [StudyNext]_studyVars, progress' # None,
                    NEW v \in base'..(progress'.rev - 1)
             PROVE  \E i \in DOMAIN turns' : Evidence(i, v)'
  BY DEF EvidenceForEveryStage
<1>1. ~DeleteSession
  BY DEF DeleteSession
<1>2. ASSUME progress # None, v \in base..(progress.rev - 1) PROVE \E i \in DOMAIN turns' : Evidence(i, v)'
  <2>1. v \in 1..6
    BY <1>2, ProgressTyped DEF StudyTypeOK
  <2>2. PICK i \in DOMAIN turns : Evidence(i, v)
    BY <1>2 DEF EvidenceForEveryStage
  <2> QED
    BY <1>1, <2>1, <2>2, EvidenceStays
<1>3. CASE progress' = progress /\ base' = base
  BY <1>2, <1>3
<1>4. CASE NewProgress
  BY <1>4 DEF NewProgress
<1>5. CASE Advance
  <2>1. progress # None /\ base' = base /\ progress'.rev = progress.rev + 1 /\ CanAdvance(progress)
    BY <1>5 DEF Advance
  <2>2. progress.rev \in 1..6 /\ progress.rev = progress.step + 1 /\ progress.step \in 0..5 /\ base \in 1..6
    BY <2>1, ProgressTyped DEF StudyTypeOK
  <2>3. CASE v = progress.rev
    <3>1. PICK i \in DOMAIN turns :
            /\ IsLatest(i, TurnsAt(progress.rev)) /\ Answered(i)
            /\ progress.step = 3 => CheckAnswered(i, progress.rev)
      BY <2>1 DEF CanAdvance
    <3>2. turns[i].rev = v
      BY <2>3, <3>1 DEF IsLatest, TurnsAt
    <3>3. v = 4 => turns[i].act = "reply" /\ \E q \in Questions(v) : q < i /\ message[turns[q].chat] = "complete"
      BY <2>2, <2>3, <3>1 DEF CheckAnswered, IsLatest, Answered
    <3>4. Evidence(i, v)
      BY <3>1, <3>2, <3>3 DEF Evidence, Answered
    <3> QED
      BY <1>1, <2>2, <2>3, <3>4, EvidenceStays
  <2>4. CASE v # progress.rev
    <3>1. v \in base..(progress.rev - 1)
      BY <2>1, <2>2, <2>4
    <3> QED
      BY <1>2, <2>1, <3>1
  <2> QED
    BY <2>3, <2>4
<1> QED
  BY <1>3, <1>4, <1>5, ProgressChange

-----------------------------------------------------------------------------
(* Prompts and modes.                                                       *)

\* Under the lock the row still has the revision the prompt was built from.
LEMMA PromptAtInsert ==
  ASSUME StudyIInv, NEW c \in Chats, InsertMessage(c), chat[c].mode = "study", chat[c].rev # 0,
         turns' = Append(turns, NewTurn(c)), turns' # turns
  PROVE  /\ progress # None /\ progress' = progress /\ NewTurn(c).rev = progress.rev
         /\ NewTurn(c).rev = NewTurn(c).step + 1
<1>1. StudyTypeOK
  BY DEF StudyIInv
<1>2. SameRevision(c)
  BY DEF InsertMessage
<1>3. progress # None /\ chat[c].rev = progress.rev
  BY <1>2 DEF SameRevision, ActualRevision
<1> QED
  BY <1>3 DEF InsertMessage, NewTurn, StudyIInv, ViewsFit

\* The revision of a flow never falls, except with the whole session.
LEMMA RowNeverShrinks ==
  ASSUME StudyIInv, [StudyNext]_studyVars, ~DeleteSession, progress # None
  PROVE  progress' # None /\ progress'.rev \in Nat /\ progress.rev <= progress'.rev
<1>1. StudyTypeOK /\ StudyModeIsLocked
  BY DEF StudyIInv
<1>2. progress.rev \in 1..6
  BY <1>1, ProgressTyped
<1>3. CASE Advance
  <2>1. progress' = [step |-> progress.step + 1, rev |-> progress.rev + 1]
    BY <1>3 DEF Advance
  <2>2. progress.step \in 0..4 /\ progress.rev = progress.step + 1
    BY <1>1, <1>3, ProgressTyped DEF Advance, CanAdvance
  <2>3. progress' \in Progresses
    BY <2>1, <2>2 DEF Progresses
  <2>4. progress' # None
    BY <2>3, StudyAssumption
  <2> QED
    BY <1>2, <2>1, <2>4
<1>4. CASE progress' = progress
  BY <1>2, <1>4
<1>5. progress' = progress \/ Advance
  BY <1>1 DEF StudyModeIsLocked, StudyNext, ChatStep, ReadSession, ReadProgress, InsertMessage, StoreReply,
              CreateStudy, CreateSession, StartProgress, UpdateSessionMode, EndSession, Kept, studyVars
<1> QED
  BY <1>3, <1>4, <1>5

\* PromptFitsTurn is kept: the revision fences the stage the prompt names.
LEMMA PromptsFit == StudyIInv /\ [StudyNext]_studyVars => PromptFitsTurn'
<1> SUFFICES ASSUME StudyIInv, [StudyNext]_studyVars, NEW i \in DOMAIN turns'
             PROVE  /\ turns'[i].rev = turns'[i].step + 1
                    /\ progress' # None /\ turns'[i].rev <= progress'.rev
  BY DEF PromptFitsTurn
<1>0. StudyTypeOK
  BY DEF StudyIInv
<1>1. CASE DeleteSession
  BY <1>1 DEF DeleteSession
<1>2. ASSUME ~DeleteSession, i \in DOMAIN turns, turns'[i] = turns[i]
      PROVE  /\ turns'[i].rev = turns'[i].step + 1
             /\ progress' # None /\ turns'[i].rev <= progress'.rev
  <2>1. /\ turns[i].rev = turns[i].step + 1 /\ progress # None /\ turns[i].rev <= progress.rev
    BY <1>2 DEF StudyIInv, PromptFitsTurn
  <2>2. turns[i].rev \in 1..6 /\ progress.rev \in 1..6
    BY <1>0, <1>2, <2>1, TurnsOfChats, ProgressTyped DEF Turns
  <2>3. progress' # None /\ progress'.rev \in Nat /\ progress.rev <= progress'.rev
    BY <1>2, <2>1, RowNeverShrinks
  <2> QED
    BY <1>2, <2>1, <2>2, <2>3
<1>3. ASSUME ~DeleteSession, NEW c \in Chats, InsertMessage(c), chat[c].mode = "study", chat[c].rev # 0,
             turns' = Append(turns, NewTurn(c))
      PROVE  /\ turns'[i].rev = turns'[i].step + 1
             /\ progress' # None /\ turns'[i].rev <= progress'.rev
  <2>1. CASE i \in DOMAIN turns /\ turns'[i] = turns[i]
    BY <1>2, <1>3, <2>1
  <2>2. CASE turns'[i] = NewTurn(c) /\ turns' # turns
    <3>1. /\ progress # None /\ progress' = progress /\ NewTurn(c).rev = progress.rev
          /\ NewTurn(c).rev = NewTurn(c).step + 1
      BY <1>3, <2>2, PromptAtInsert
    <3>2. progress.rev \in 1..6
      BY <1>0, <3>1, ProgressTyped
    <3> QED
      BY <2>2, <3>1, <3>2
  <2> QED
    BY <1>0, <1>3, <2>1, <2>2, NewTurnTyped, AppendKeeps
<1> QED
  BY <1>0, <1>1, <1>2, <1>3, TurnsChange

\* A session with progress keeps the study mode.
LEMMA ModeStaysLocked == StudyIInv /\ [StudyNext]_studyVars => StudyModeIsLocked'
<1> SUFFICES ASSUME StudyIInv, [StudyNext]_studyVars, progress' # None
             PROVE  session' # None /\ session'.mode = "study"
  BY DEF StudyModeIsLocked
<1>0. StudyTypeOK /\ (progress # None => session # None /\ session.mode = "study")
  BY DEF StudyIInv, StudyModeIsLocked
<1>1. session # None => session \in Sessions
  BY <1>0 DEF StudyTypeOK
<1>3. CASE CreateStudy
  <2>1. [mode |-> "study", active |-> TRUE] \in Sessions
    BY DEF Sessions, Modes
  <2>2. session' = [mode |-> "study", active |-> TRUE]
    BY <1>3 DEF CreateStudy
  <2> QED
    BY <2>1, <2>2, StudyAssumption
<1>2. CASE session' = session
  <2>1. CASE StartProgress
    BY <1>2, <2>1 DEF StartProgress, LockedStudy
  <2>2. CASE progress # None
    BY <1>0, <1>2, <2>2
  <2>3. progress' = progress \/ StartProgress \/ CreateStudy \/ progress # None
    BY <1>2 DEF StudyNext, ChatStep, ReadSession, ReadProgress, InsertMessage, StoreReply, CreateSession,
                Advance, UpdateSessionMode, EndSession, DeleteSession, studyVars
  <2> QED
    BY <1>3, <2>1, <2>2, <2>3
<1>4. CASE CreateSession
  BY <1>0, <1>4 DEF CreateSession
<1>5. CASE UpdateSessionMode
  <2>1. progress # None /\ session \in Sessions /\ session.mode = "study"
    BY <1>0, <1>1, <1>5 DEF UpdateSessionMode
  <2>2. session' = [session EXCEPT !.mode = "study"]
    BY <1>5, <2>1 DEF UpdateSessionMode, ModeAllowed
  <2>3. session' = session
    BY <2>1, <2>2 DEF Sessions
  <2> QED
    BY <1>2, <2>3
<1>6. CASE EndSession
  <2>1. session \in Sessions /\ session.mode = "study" /\ session' = [session EXCEPT !.active = FALSE]
    BY <1>0, <1>1, <1>6 DEF EndSession
  <2>2. session' \in Sessions /\ session'.mode = "study"
    BY <2>1 DEF Sessions
  <2> QED
    BY <2>2, StudyAssumption
<1>7. CASE DeleteSession
  BY <1>7 DEF DeleteSession
<1> QED
  BY <1>2, <1>3, <1>4, <1>5, <1>6, <1>7 DEF StudyNext, ChatStep, ReadSession, ReadProgress, InsertMessage,
     StoreReply, StartProgress, Advance, studyVars

-----------------------------------------------------------------------------
(* The theorems.                                                            *)

\* The initial states satisfy the invariant.
LEMMA InitInv == StudyInit => StudyIInv
<1> SUFFICES ASSUME StudyInit PROVE StudyIInv
  OBVIOUS
<1>1. StudyTypeOK /\ base \in 1..6
  BY InitTyped DEF StudyTypeOK
<1>2. turns = <<>> /\ \A c \in Chats : chat[c] = IdleChat
  BY DEF StudyInit
<1>3. TurnsOnce /\ ViewsFit /\ PromptFitsTurn
  BY <1>2 DEF TurnsOnce, ViewsFit, PromptFitsTurn, IdleChat
<1>4. progress # None => progress.rev = base
  <2>1. CASE \E k \in 0..5 : progress = [step |-> k, rev |-> k + 1] /\ base = k + 1
    BY <2>1
  <2> QED
    BY <2>1 DEF StudyInit
<1>5. EvidenceForEveryStage
  BY <1>1, <1>4 DEF EvidenceForEveryStage
<1>6. StudyModeIsLocked
  <2>1. [mode |-> "study", active |-> TRUE] \in Sessions
    BY DEF Sessions, Modes
  <2>2. progress = None \/ session = [mode |-> "study", active |-> TRUE]
    BY DEF StudyInit
  <2>3. CASE session = [mode |-> "study", active |-> TRUE]
    BY <2>1, <2>3, StudyAssumption DEF StudyModeIsLocked
  <2> QED
    BY <2>2, <2>3 DEF StudyModeIsLocked
<1> QED
  BY <1>1, <1>3, <1>5, <1>6 DEF StudyIInv

\* Every step keeps it.
LEMMA NextInv == StudyIInv /\ [StudyNext]_studyVars => StudyIInv'
BY StudyTypesKept, TurnsStayOnce, ViewsStayFit, EvidenceKept, PromptsFit, ModeStaysLocked DEF StudyIInv

\* The invariant all theorems rest on.
THEOREM StudyInvariant == StudySpec => []StudyIInv
BY InitInv, NextInv, PTL DEF StudySpec

\* Every behaviour of the learning flow is well typed.
THEOREM StudyTypeCorrect == StudySpec => []StudyTypeOK
<1>1. StudyIInv => StudyTypeOK
  BY DEF StudyIInv
<1> QED
  BY <1>1, StudyInvariant, PTL

\* However many chats run, stop or are retried, no stage is passed without a
\* completed turn of that very stage.
THEOREM StagesAreEarned == StudySpec => []EvidenceForEveryStage
<1>1. StudyIInv => EvidenceForEveryStage
  BY DEF StudyIInv
<1> QED
  BY <1>1, StudyInvariant, PTL

\* A turn counts for the stage its prompt was written for.
THEOREM PromptsFitTheirTurns == StudySpec => []PromptFitsTurn
<1>1. StudyIInv => PromptFitsTurn
  BY DEF StudyIInv
<1> QED
  BY <1>1, StudyInvariant, PTL

\* A session with progress never leaves the study mode.
THEOREM ModeIsLocked == StudySpec => []StudyModeIsLocked
<1>1. StudyIInv => StudyModeIsLocked
  BY DEF StudyIInv
<1> QED
  BY <1>1, StudyInvariant, PTL

\* The flow of an ended session does not move (is_active under the lock).
THEOREM EndedFlowsAreFrozen == StudySpec => EndedIsFrozen
<1>1. StudyIInv /\ [StudyNext]_studyVars => (session # None /\ ~session.active /\ session' # None => UNCHANGED <<progress, turns>>)
  <2> SUFFICES ASSUME StudyIInv, [StudyNext]_studyVars, session # None, ~session.active, session' # None
               PROVE  UNCHANGED <<progress, turns>>
    OBVIOUS
  <2>1. StudyModeIsLocked
    BY DEF StudyIInv
  <2> QED
    BY <2>1 DEF StudyModeIsLocked, StudyNext, ChatStep, ReadSession, ReadProgress, InsertMessage, StoreReply,
       CreateStudy, CreateSession, StartProgress, Advance, UpdateSessionMode, EndSession, DeleteSession,
       Kept, LockedStudy, SameRevision, ActualRevision, studyVars
<1> QED
  BY <1>1, StudyInvariant, PTL DEF StudySpec, EndedIsFrozen

-----------------------------------------------------------------------------
(* The exercises: types.                                                   *)

Attempts == [route : Routes, key : SubmissionIds, correct : BOOLEAN, exercise : Nat,
             assigned : BOOLEAN, counted : BOOLEAN, archived : BOOLEAN]
Phases == {"idle", "graded", "locked", "solving", "shown"}
RequestRows == [phase : Phases, route : Routes, key : SubmissionIds \cup {"none"}, revision : Nat, source : Nat,
                exercise : Nat, correct : BOOLEAN, scheduled : BOOLEAN, correction : BOOLEAN]
Plans == [status : {"none", "pending", "verification_due", "mastered", "archived"}, source : Nat, assigned : BOOLEAN,
          exercise : Nat, due : {"never", "later", "now"}, successes : Nat, errors : Nat, last : Nat, revision : Nat]
Assignments == [status : {"none", "ready", "completed"}, exercise : Nat, first : Nat,
                result : {"none", "correct", "incorrect"}, corrected : Nat]

ExerciseTyped ==
  /\ content \in [version : 1..MaxVersion, open : BOOLEAN]
  /\ assignment \in Assignments
  /\ attempts \in Seq(Attempts) /\ Len(attempts) <= MaxAttempts
  /\ plan \in Plans
  /\ requests \in [Clients -> RequestRows]
  /\ trackingLock \in Clients \cup {"free"}
  /\ \A c \in Clients : /\ requests[c].phase \in {"graded", "locked"} => requests[c].key \in SubmissionIds
                        /\ requests[c].phase = "locked" <=> trackingLock = c

\* A client without a request.
LEMMA NoRequestTyped == NoRequest \in RequestRows /\ NoRequest.phase = "idle"
BY DEF NoRequest, Request, RequestRows, Phases, Routes

\* The attempts, one by one.
LEMMA AttemptsTyped ==
  ASSUME ExerciseTyped
  PROVE  /\ DOMAIN attempts = 1..Len(attempts) /\ Len(attempts) \in Nat
         /\ \A i \in DOMAIN attempts : i \in Nat /\ attempts[i] \in Attempts
BY DEF ExerciseTyped

\* The question behind a route that is open.
LEMMA ExerciseTypedWhenOpen ==
  ASSUME ExerciseTyped, NEW r, r.route \in Routes, r.route = "redo" => RedoOpen(r)
  PROVE  ExerciseOf(r) \in Nat
<1>1. r.route = "redo" => attempts[r.source].exercise \in Nat
  BY AttemptsTyped DEF RedoOpen, OpenMistakes, Attempts
<1>2. plan.exercise \in Nat /\ assignment.exercise \in Nat /\ content.version \in Nat
  BY ExerciseAssumption DEF ExerciseTyped, Plans, Assignments
<1>3. QED
  BY <1>1, <1>2 DEF ExerciseOf, Routes

\* A request, once its key and route are read, is a request.
LEMMA AskedTyped ==
  ASSUME ExerciseTyped, NEW route \in Routes, NEW key \in SubmissionIds \cup {"none"},
         route = "redo" => RedoOpen(Asked(route, key))
  PROVE  /\ Asked(route, key) \in RequestRows
         /\ Asked(route, key).route = route /\ Asked(route, key).key = key
         /\ ExerciseOf(Asked(route, key)) \in Nat
<1>1. plan.revision \in Nat /\ plan.source \in Nat
  BY DEF ExerciseTyped, Plans
<1>2. route = "redo" => NewestMistake \in Nat
  BY AttemptsTyped DEF RedoOpen, Asked, Request, OpenMistakes
<1>3. Asked(route, key) \in RequestRows
  BY <1>1, <1>2 DEF Asked, Request, RequestRows, Phases
<1>4. Asked(route, key).route = route /\ Asked(route, key).key = key
  BY DEF Asked, Request
<1>5. QED
  BY <1>3, <1>4, ExerciseTypedWhenOpen

\* A client's request is replaced: the other requests are left alone.
LEMMA RequestTyped ==
  ASSUME ExerciseTyped, NEW c \in Clients, NEW r \in RequestRows, requests' = [requests EXCEPT ![c] = r],
         r.phase \in {"graded", "locked"} => r.key \in SubmissionIds,
         r.phase = "locked" <=> trackingLock' = c,
         \A d \in Clients \ {c} : trackingLock' = d <=> trackingLock = d
  PROVE  /\ requests' \in [Clients -> RequestRows]
         /\ \A d \in Clients : /\ requests'[d].phase \in {"graded", "locked"} => requests'[d].key \in SubmissionIds
                               /\ requests'[d].phase = "locked" <=> trackingLock' = d
BY DEF ExerciseTyped

\* Giving the lock back keeps requests and lock in step.
LEMMA ReleaseTyped ==
  ASSUME ExerciseTyped, NEW c \in Clients, Release(c)
  PROVE  /\ requests' \in [Clients -> RequestRows] /\ trackingLock' \in Clients \cup {"free"}
         /\ \A d \in Clients : /\ requests'[d].phase \in {"graded", "locked"} => requests'[d].key \in SubmissionIds
                               /\ requests'[d].phase = "locked" <=> trackingLock' = d
<1>1. trackingLock' \in Clients \cup {"free"} /\ trackingLock' # c
      /\ \A d \in Clients \ {c} : trackingLock' = d <=> trackingLock = d
  BY ExerciseAssumption DEF Release, ExerciseTyped
<1>2. QED
  BY <1>1, NoRequestTyped, RequestTyped DEF Release

\* What is recorded is an attempt.
LEMMA NewAttemptTyped ==
  ASSUME ExerciseTyped, NEW c \in Clients, requests[c].phase = "locked", NEW counted \in BOOLEAN
  PROVE  NewAttempt(requests[c], counted) \in Attempts
BY DEF ExerciseTyped, NewAttempt, AssignedAttempt, Attempts, RequestRows

\* A plan that moves on keeps its other fields.
LEMMA TouchedTyped ==
  ASSUME ExerciseTyped, NEW n \in Nat, NEW r, NEW counted
  PROVE  LET t == Touched(n, r, counted)
         IN  t \in Plans /\ t.errors = plan.errors /\ t.revision = plan.revision + 1 /\ t.source = plan.source
             /\ t.exercise = plan.exercise /\ t.successes = plan.successes /\ t.status = plan.status
<1> DEFINE last == IF r.route = "review" \/ counted THEN n ELSE plan.last
           up == plan.revision + 1
<1>2. plan \in Plans /\ up \in Nat /\ last \in Nat
  BY DEF ExerciseTyped, Plans
<1>3. Touched(n, r, counted) = [plan EXCEPT !.revision = up, !.last = last]
  BY DEF Touched
<1>4. up = plan.revision + 1
  OBVIOUS
<1> HIDE DEF last, up
<1>5. LET t == [plan EXCEPT !.revision = up, !.last = last]
      IN  t \in Plans /\ t.errors = plan.errors /\ t.revision = up /\ t.source = plan.source
           /\ t.exercise = plan.exercise /\ t.successes = plan.successes /\ t.status = plan.status
  BY <1>2 DEF Plans
<1>6. QED
  BY <1>3, <1>4, <1>5

\* The plan after an answer is a plan.
LEMMA PlanAfterTyped ==
  ASSUME ExerciseTyped, NEW c \in Clients, NEW n \in Nat PROVE PlanAfter(n, requests[c]) \in Plans
<1> DEFINE r == requests[c]
<1>1. r \in RequestRows /\ plan \in Plans
  BY DEF ExerciseTyped
<1> HIDE DEF r
<1>2. AssignedAttempt(r) \in BOOLEAN /\ r.exercise \in Nat
  BY <1>1 DEF AssignedAttempt, RequestRows
<1>3. Cardinality(WrongAttempts) \in Nat
  <2>1. IsFiniteSet(DOMAIN attempts)
    BY AttemptsTyped, FS_Interval
  <2>2. WrongAttempts \subseteq DOMAIN attempts
    BY DEF WrongAttempts
  <2>3. IsFiniteSet(WrongAttempts)
    BY <2>1, <2>2, FS_Subset
  <2>4. QED
    BY <2>3, FS_CardinalityType
<1>s. \A p \in Plans, m \in Nat, s \in {"mastered", "verification_due"}, d \in {"never", "later"} :
        [p EXCEPT !.successes = m, !.status = s, !.due = d] \in Plans
  BY DEF Plans
<1>f. ASSUME NEW p \in Plans, NEW m \in Nat, NEW k \in Nat, NEW x \in Nat, NEW a \in BOOLEAN
      PROVE  [p EXCEPT !.last = m, !.source = n, !.assigned = a, !.exercise = x,
                       !.status = "pending", !.due = "later", !.successes = 0, !.errors = k] \in Plans
  <2> DEFINE moved == [p EXCEPT !.last = m, !.source = n, !.assigned = a, !.exercise = x]
  <2>1. moved \in Plans
    BY DEF Plans
  <2> HIDE DEF moved
  <2>2. [moved EXCEPT !.status = "pending", !.due = "later", !.successes = 0, !.errors = k] \in Plans
    BY <2>1 DEF Plans
  <2>3. QED
    BY <2>2 DEF moved
<1>n. \A p \in Plans, k \in Nat, x \in Nat, a \in BOOLEAN :
        [p EXCEPT !.status = "pending", !.source = n, !.assigned = a, !.exercise = x, !.due = "later",
                  !.errors = k] \in Plans
  BY ZenonT(30) DEF Plans
<1>4. NewPlan(n, r) \in Plans
  <2>1. NoPlan \in Plans
    BY DEF NoPlan, Plans
  <2>2. Cardinality(WrongAttempts) + 1 \in Nat
    BY <1>3
  <2>3. QED
    BY <1>n, <1>2, <2>1, <2>2 DEF NewPlan
<1>5. \A counted \in BOOLEAN : Touched(n, r, counted) \in Plans
  BY TouchedTyped
<1>6. \A counted \in BOOLEAN : Failed(n, r, counted) \in Plans
  <2> SUFFICES ASSUME NEW counted \in BOOLEAN PROVE Failed(n, r, counted) \in Plans
    OBVIOUS
  <2>1. Touched(n, r, counted) \in Plans
    BY <1>5
  <2>2. (IF r.route = "review" \/ counted THEN n ELSE 0) \in Nat /\ Touched(n, r, counted).errors + 1 \in Nat
    BY <2>1 DEF Plans
  <2>3. QED
    BY <1>f, <1>2, <2>1, <2>2 DEF Failed
<1>7. Succeeded(n, r) \in Plans
  <2>1. Touched(n, r, TRUE) \in Plans
    BY <1>5
  <2>2. plan.successes + 1 \in Nat
    BY <1>1 DEF Plans
  <2>3. QED
    BY <1>s, <2>1, <2>2 DEF Succeeded
<1>8. Counted(r) \in BOOLEAN
  BY <1>1 DEF Counted, AssignedAttempt, RequestRows
<1>9. QED
  BY <1>1, <1>4, <1>5, <1>6, <1>7, <1>8 DEF PlanAfter, r

\* The assignment after an answer of the day is an assignment.
LEMMA AnswerTyped ==
  ASSUME ExerciseTyped, NEW n \in Nat, NEW correct \in BOOLEAN PROVE AnswerAssignment(n, correct) \in Assignments
BY DEF ExerciseTyped, AnswerAssignment, Assignments

\* The request that takes the lock.
LEMMA ReadAgainLocks ==
  ASSUME ExerciseTyped, NEW c \in Clients, ReadAgain(c), StillAnswerable(requests[c])
  PROVE  LET r == [requests[c] EXCEPT !.phase = "locked",
                     !.scheduled = requests[c].route = "review" /\ Active /\ plan.due = "now",
                     !.correction = requests[c].route = "review" /\ plan.assigned /\ Correctable]
         IN  /\ r \in RequestRows /\ requests' = [requests EXCEPT ![c] = r] /\ trackingLock' = c /\ trackingLock = "free"
             /\ r.phase = "locked" /\ r.route = requests[c].route /\ r.key = requests[c].key
             /\ r.source = requests[c].source /\ r.revision = requests[c].revision /\ r.exercise = requests[c].exercise
             /\ r.scheduled => r.route = "review" /\ Active
<1>1. requests \in [Clients -> RequestRows] /\ requests[c] \in RequestRows /\ plan.assigned \in BOOLEAN
  BY DEF ExerciseTyped, Plans
<1>2. (requests[c].route = "review" /\ Active /\ plan.due = "now") \in BOOLEAN
      /\ (requests[c].route = "review" /\ plan.assigned /\ Correctable) \in BOOLEAN
  OBVIOUS
<1> DEFINE s == requests[c].route = "review" /\ Active /\ plan.due = "now"
           k == requests[c].route = "review" /\ plan.assigned /\ Correctable
           one == [requests EXCEPT ![c].phase = "locked"]
           two == [one EXCEPT ![c].scheduled = s]
           three == [two EXCEPT ![c].correction = k]
           r == [requests[c] EXCEPT !.phase = "locked", !.scheduled = s, !.correction = k]
<1>3. requests' = three /\ trackingLock' = c /\ trackingLock = "free"
  BY DEF ReadAgain
<1>4. s => requests[c].route = "review" /\ Active
  OBVIOUS
<1> HIDE DEF s, k
<1>5. three = [requests EXCEPT ![c] = r]
  BY <1>1
<1>6. s \in BOOLEAN /\ k \in BOOLEAN
  BY <1>2 DEF s, k
<1>7. r \in RequestRows /\ r.phase = "locked" /\ r.route = requests[c].route /\ r.key = requests[c].key
      /\ r.source = requests[c].source /\ r.revision = requests[c].revision /\ r.exercise = requests[c].exercise
      /\ r.scheduled = s
  BY <1>1, <1>6 DEF RequestRows, Phases
<1>8. QED
  BY <1>3, <1>4, <1>5, <1>7 DEF s, k

\* The second reading, under the lock, keeps the types.
LEMMA ReadAgainTyped == ASSUME ExerciseTyped, NEW c \in Clients, ReadAgain(c) PROVE ExerciseTyped'
<1>1. UNCHANGED <<content, assignment, attempts, plan>> /\ requests[c].phase = "graded" /\ trackingLock = "free"
      /\ requests[c].key \in SubmissionIds
  BY DEF ReadAgain, ExerciseTyped
<1>2. CASE StillAnswerable(requests[c])
  <2>1. PICK r \in RequestRows : requests' = [requests EXCEPT ![c] = r] /\ trackingLock' = c /\ r.phase = "locked"
                                 /\ r.key = requests[c].key
    BY <1>2, ReadAgainLocks
  <2>2. \A d \in Clients \ {c} : trackingLock' = d <=> trackingLock = d
    BY <1>1, <2>1, ExerciseAssumption
  <2>3. QED
    BY <1>1, <2>1, <2>2, RequestTyped DEF ExerciseTyped
<1>3. CASE ~StillAnswerable(requests[c])
  <2>1. requests' = [requests EXCEPT ![c] = NoRequest] /\ trackingLock' = trackingLock
    BY <1>3 DEF ReadAgain
  <2>2. trackingLock' # c
    BY <1>1, <2>1, ExerciseAssumption
  <2>3. QED
    BY <1>1, <2>1, <2>2, RequestTyped, NoRequestTyped DEF ExerciseTyped
<1>4. QED
  BY <1>2, <1>3

\* What recording an attempt does to the attempts.
LEMMA RecordedAttempt ==
  ASSUME ExerciseTyped, NEW c \in Clients, RecordAttempt(c)
  PROVE  /\ trackingLock = c /\ trackingLock' = "free" /\ requests[c].phase = "locked" /\ requests[c] \in RequestRows
         /\ Len(attempts) \in Nat /\ Len(attempts) < MaxAttempts /\ Len(attempts') = Len(attempts) + 1
         /\ DOMAIN attempts = 1..Len(attempts) /\ DOMAIN attempts' = DOMAIN attempts \cup {Len(attempts) + 1}
         /\ Len(attempts) + 1 \notin DOMAIN attempts
         /\ attempts' \in Seq(Attempts)
         /\ \A i \in DOMAIN attempts : attempts'[i] = attempts[i]
         /\ attempts'[Len(attempts) + 1] = NewAttempt(requests[c], plan.status # "none" /\ Counted(requests[c]))
         /\ requests[c].key \in SubmissionIds
<1>1. /\ requests[c].phase = "locked" /\ trackingLock = c /\ requests[c] \in RequestRows /\ requests[c].key \in SubmissionIds
      /\ attempts \in Seq(Attempts)
  BY DEF RecordAttempt, ExerciseTyped
<1>2. trackingLock' = "free"
  BY <1>1 DEF RecordAttempt, Release
<1> DEFINE a == NewAttempt(requests[c], plan.status # "none" /\ Counted(requests[c]))
<1>3. a \in Attempts
  <2>1. (plan.status # "none" /\ Counted(requests[c])) \in BOOLEAN
    OBVIOUS
  <2>2. QED
    BY <1>1, <2>1, NewAttemptTyped
<1>4. attempts' = Append(attempts, a)
  BY DEF RecordAttempt
<1> HIDE DEF a
<1>5. /\ Len(attempts) \in Nat /\ Len(attempts') = Len(attempts) + 1 /\ DOMAIN attempts = 1..Len(attempts)
      /\ DOMAIN attempts' = 1..(Len(attempts) + 1) /\ attempts' \in Seq(Attempts)
      /\ \A i \in 1..Len(attempts) : attempts'[i] = attempts[i]
      /\ attempts'[Len(attempts) + 1] = a
  BY <1>1, <1>3, <1>4
<1>6. 1..(Len(attempts) + 1) = 1..Len(attempts) \cup {Len(attempts) + 1} /\ Len(attempts) + 1 \notin 1..Len(attempts)
  BY <1>5
<1>7. Len(attempts) < MaxAttempts
  BY DEF RecordAttempt
<1>8. QED
  BY <1>1, <1>2, <1>5, <1>6, <1>7 DEF a

\* What archiving does to the attempts: nothing but the mark on the wrong ones.
LEMMA ArchivedAttempts ==
  ASSUME ExerciseTyped, NEW i \in DOMAIN attempts, ArchiveMistake(i)
  PROVE  /\ attempts' \in Seq(Attempts) /\ Len(attempts') = Len(attempts) /\ DOMAIN attempts' = DOMAIN attempts
         /\ trackingLock = "free" /\ requests' = requests
         /\ \A k \in DOMAIN attempts :
              /\ attempts'[k].route = attempts[k].route /\ attempts'[k].key = attempts[k].key
              /\ attempts'[k].correct = attempts[k].correct /\ attempts'[k].exercise = attempts[k].exercise
              /\ attempts'[k].assigned = attempts[k].assigned /\ attempts'[k].counted = attempts[k].counted
              /\ ~attempts[k].correct => attempts'[k].archived
<1>1. DOMAIN attempts = 1..Len(attempts) /\ Len(attempts) \in Nat /\ \A k \in DOMAIN attempts : attempts[k] \in Attempts
  BY AttemptsTyped
<1>2. attempts' = [k \in 1..Len(attempts) |-> [attempts[k] EXCEPT !.archived = @ \/ ~attempts[k].correct]]
  BY <1>1 DEF ArchiveMistake
<1>3. \A k \in DOMAIN attempts : /\ [attempts[k] EXCEPT !.archived = @ \/ ~attempts[k].correct] \in Attempts
                                 /\ attempts'[k] = [attempts[k] EXCEPT !.archived = @ \/ ~attempts[k].correct]
  BY <1>1, <1>2 DEF Attempts
<1>4. attempts' \in Seq(Attempts) /\ Len(attempts') = Len(attempts) /\ DOMAIN attempts' = DOMAIN attempts
  BY <1>1, <1>2, <1>3
<1>5. QED
  BY <1>1, <1>3, <1>4 DEF ArchiveMistake, Attempts

\* Every step keeps the types.
LEMMA ExerciseTypesKept == ExerciseTyped /\ [ExerciseNext]_exerciseVars => ExerciseTyped'
<1> SUFFICES ASSUME ExerciseTyped, [ExerciseNext]_exerciseVars PROVE ExerciseTyped'
  OBVIOUS
<1>0. content.version \in Nat /\ plan \in Plans /\ assignment \in Assignments
  BY ExerciseAssumption DEF ExerciseTyped
<1>1. ASSUME NEW c \in Clients, NEW route \in Routes, NEW key \in SubmissionIds, NEW correct \in BOOLEAN,
             SubmitAnswer(c, route, key, correct)
      PROVE  ExerciseTyped'
  <2> DEFINE question == Asked(route, key)
             r == [question EXCEPT !.phase = "graded", !.exercise = ExerciseOf(question), !.correct = correct]
  <2>1. RouteOpen(question) /\ requests' = [requests EXCEPT ![c] = r] /\ requests[c].phase = "idle"
        /\ UNCHANGED <<content, assignment, attempts, plan, trackingLock>>
    BY <1>1 DEF SubmitAnswer
  <2>2. question.route = route
    BY DEF Asked, Request
  <2>3. route = "redo" => RedoOpen(question)
    BY <2>1, <2>2 DEF RouteOpen
  <2>4. question \in RequestRows /\ question.key = key /\ ExerciseOf(question) \in Nat
    BY <2>3, AskedTyped
  <2> HIDE DEF question
  <2>5. r \in RequestRows /\ r.phase = "graded" /\ r.key = key
    BY <2>4 DEF RequestRows, Phases
  <2>6. trackingLock # c
    BY <2>1 DEF ExerciseTyped
  <2> HIDE DEF r
  <2>7. QED
    BY <2>1, <2>5, <2>6, RequestTyped DEF ExerciseTyped
<1>2. ASSUME NEW c \in Clients, ReadAgain(c) PROVE ExerciseTyped'
  BY <1>2, ReadAgainTyped
<1>3. ASSUME NEW c \in Clients, RecordAttempt(c) PROVE ExerciseTyped'
  <2>1. attempts' \in Seq(Attempts) /\ Len(attempts') <= MaxAttempts /\ Len(attempts) + 1 \in Nat
    BY <1>3, RecordedAttempt, ExerciseAssumption
  <2>2. requests[c].correct \in BOOLEAN
    BY DEF ExerciseTyped, RequestRows
  <2>3. plan' \in Plans /\ assignment' \in Assignments /\ content' = content
    BY <1>0, <1>3, <2>1, <2>2, PlanAfterTyped, AnswerTyped DEF RecordAttempt
  <2>4. QED
    BY <1>3, <2>1, <2>3, ReleaseTyped DEF RecordAttempt, ExerciseTyped
<1>4. ASSUME NEW c \in Clients, AbandonRequest(c) PROVE ExerciseTyped'
  BY <1>4, ReleaseTyped DEF AbandonRequest, ExerciseTyped
<1>5. ASSUME NEW i \in DOMAIN attempts, ArchiveMistake(i) PROVE ExerciseTyped'
  <2>1. plan.revision + 1 \in Nat
    BY <1>0 DEF Plans
  <2>2. [plan EXCEPT !.status = "archived", !.due = "never", !.revision = @ + 1] \in Plans
    BY <1>0, <2>1 DEF Plans
  <2>3. plan' \in Plans
    BY <1>0, <1>5, <2>2 DEF ArchiveMistake
  <2>4. QED
    BY <1>5, <2>3, ArchivedAttempts DEF ArchiveMistake, ExerciseTyped
<1>6. CASE ReviewComesDue
  <2>1. plan' \in Plans
    BY <1>0, <1>6 DEF ReviewComesDue, Plans
  <2>2. QED
    BY <1>6, <2>1 DEF ReviewComesDue, ExerciseTyped
<1>7. ASSUME NEW c \in Clients, NEW route \in Routes, GetSolution(c, route) PROVE ExerciseTyped'
  <2> DEFINE question == IF route = "review" THEN Request(route, "none", plan.revision, plan.last) ELSE Asked(route, "none")
             r == [question EXCEPT !.phase = "solving", !.exercise = ExerciseOf(question)]
  <2>1. SolutionOpen(question) /\ requests' = [requests EXCEPT ![c] = r] /\ requests[c].phase = "idle"
        /\ UNCHANGED <<content, assignment, attempts, plan, trackingLock>>
    BY <1>7 DEF GetSolution
  <2>2. question.route = route
    BY DEF Asked, Request
  <2>3. route = "redo" => RedoOpen(question)
    BY <2>1, <2>2 DEF SolutionOpen
  <2>4. question \in RequestRows /\ ExerciseOf(question) \in Nat
    <3>1. CASE route = "review"
      <4>1. question \in RequestRows
        BY <1>0, <3>1 DEF Request, RequestRows, Phases, Plans
      <4>2. QED
        BY <2>2, <3>1, <4>1, ExerciseTypedWhenOpen
    <3>2. CASE route # "review"
      BY <2>3, <3>2, AskedTyped
    <3>3. QED
      BY <3>1, <3>2
  <2> HIDE DEF question
  <2>5. r \in RequestRows /\ r.phase = "solving"
    BY <2>4 DEF RequestRows, Phases
  <2>6. trackingLock # c
    BY <2>1 DEF ExerciseTyped
  <2> HIDE DEF r
  <2>7. QED
    BY <2>1, <2>5, <2>6, RequestTyped DEF ExerciseTyped
<1>8. ASSUME NEW c \in Clients, FinalizeSolution(c) PROVE ExerciseTyped'
  <2>1. requests[c] \in RequestRows /\ requests[c].phase = "solving" /\ trackingLock # c
        /\ UNCHANGED <<content, assignment, attempts, plan, trackingLock>>
    BY <1>8 DEF FinalizeSolution, ExerciseTyped
  <2>2. [requests[c] EXCEPT !.phase = "shown"] \in RequestRows /\ [requests[c] EXCEPT !.phase = "shown"].phase = "shown"
    BY <2>1 DEF RequestRows, Phases
  <2>3. PICK r \in RequestRows : requests' = [requests EXCEPT ![c] = r] /\ r.phase \in {"shown", "idle"}
    BY <1>8, <2>2, NoRequestTyped DEF FinalizeSolution
  <2>4. QED
    BY <2>1, <2>3, RequestTyped DEF ExerciseTyped
<1>9. CASE EditQuestion \/ WithdrawOrPublish
  <2>1. content' \in [version : 1..MaxVersion, open : BOOLEAN]
    <3>1. CASE EditQuestion
      <4>1. content.version + 1 \in 1..MaxVersion
        BY <3>1, ExerciseAssumption DEF EditQuestion, ExerciseTyped
      <4>2. QED
        BY <3>1, <4>1 DEF EditQuestion, ExerciseTyped
    <3>2. CASE WithdrawOrPublish
      BY <3>2 DEF WithdrawOrPublish, ExerciseTyped
    <3>3. QED
      BY <1>9, <3>1, <3>2
  <2>2. QED
    BY <1>9, <2>1 DEF EditQuestion, WithdrawOrPublish, ExerciseTyped
<1>10. CASE AssignQuestion
  <2>1. assignment' \in Assignments
    BY <1>0, <1>10 DEF AssignQuestion, NoAssignment, Assignments
  <2>2. QED
    BY <1>10, <2>1 DEF AssignQuestion, ExerciseTyped
<1>11. CASE UNCHANGED exerciseVars
  BY <1>11 DEF exerciseVars, ExerciseTyped
<1>12. QED
  BY <1>1, <1>2, <1>3, <1>4, <1>5, <1>6, <1>7, <1>8, <1>9, <1>10, <1>11 DEF ExerciseNext

-----------------------------------------------------------------------------
(* The lock.                                                               *)

\* What a request has read again stays true while it holds the student's lock.
StillFits(r) ==
  /\ Stored(r) = {}
  /\ r.route \in {"redo", "review"} => OpenMistakes # {}
  /\ r.scheduled => Active
  /\ r.route = "daily" => assignment.status # "none"
  /\ ExerciseOf(r) = r.exercise
LockProtects == \A c \in Clients : requests[c].phase = "locked" => StillFits(requests[c])

\* Who holds the lock after a step has just taken it, or has been alone with the rows.
LEMMA StepsUnderTheLock ==
  ASSUME ExerciseTyped, ExerciseTyped', [ExerciseNext]_exerciseVars, NEW q \in Clients, requests'[q].phase = "locked"
  PROVE  \/ ReadAgain(q) /\ StillAnswerable(requests[q])
         \/ /\ requests[q].phase = "locked" /\ requests'[q] = requests[q] /\ attempts' = attempts
            /\ plan' = plan \/ plan' = [plan EXCEPT !.due = "now"]
            /\ assignment' = assignment \/ assignment.status = "none"
            /\ content'.version = content.version \/ requests[q].route = "daily"
<1>0. requests \in [Clients -> RequestRows] /\ trackingLock' = q /\ q # "free"
  BY ExerciseAssumption DEF ExerciseTyped
<1> DEFINE Goal == \/ ReadAgain(q) /\ StillAnswerable(requests[q])
                   \/ /\ requests[q].phase = "locked" /\ requests'[q] = requests[q] /\ attempts' = attempts
                      /\ plan' = plan \/ plan' = [plan EXCEPT !.due = "now"]
                      /\ assignment' = assignment \/ assignment.status = "none"
                      /\ content'.version = content.version \/ requests[q].route = "daily"
<1> SUFFICES Goal
  OBVIOUS
<1>1. ASSUME trackingLock' = trackingLock, UNCHANGED <<content, assignment, attempts, plan>>,
             NEW c \in Clients, NEW r, r.phase # "locked", requests' = [requests EXCEPT ![c] = r]
      PROVE  Goal
  BY <1>0, <1>1 DEF ExerciseTyped
<1>2. ASSUME NEW c \in Clients, NEW route \in Routes, NEW key \in SubmissionIds, NEW correct \in BOOLEAN,
             SubmitAnswer(c, route, key, correct)
      PROVE  Goal
  <2> DEFINE question == Asked(route, key)
             r == [question EXCEPT !.phase = "graded", !.exercise = ExerciseOf(question), !.correct = correct]
  <2>1. r.phase = "graded"
    BY DEF Asked, Request
  <2>2. trackingLock' = trackingLock /\ UNCHANGED <<content, assignment, attempts, plan>> /\ requests' = [requests EXCEPT ![c] = r]
    BY <1>2 DEF SubmitAnswer
  <2> HIDE DEF r
  <2>3. QED
    BY <1>1, <2>1, <2>2
<1>3. ASSUME NEW c \in Clients, ReadAgain(c) PROVE Goal
  <2>1. CASE StillAnswerable(requests[c])
    BY <1>0, <1>3, <2>1 DEF ReadAgain
  <2>2. CASE ~StillAnswerable(requests[c])
    BY <1>0, <1>3, <2>2 DEF ReadAgain
  <2>3. QED
    BY <2>1, <2>2
<1>4. ASSUME NEW c \in Clients, RecordAttempt(c) PROVE Goal
  BY <1>0, <1>4, RecordedAttempt
<1>5. ASSUME NEW c \in Clients, AbandonRequest(c) PROVE Goal
  <2>1. trackingLock = q /\ q # c /\ requests'[q] = requests[q]
    BY <1>0, <1>5 DEF AbandonRequest, Release
  <2>2. QED
    BY <1>5, <2>1 DEF AbandonRequest, ExerciseTyped
<1>6. ASSUME NEW i \in DOMAIN attempts, ArchiveMistake(i) PROVE Goal
  BY <1>0, <1>6 DEF ArchiveMistake
<1>7. ASSUME NEW c \in Clients, NEW route \in Routes, GetSolution(c, route) PROVE Goal
  <2> DEFINE question == IF route = "review" THEN Request(route, "none", plan.revision, plan.last) ELSE Asked(route, "none")
             r == [question EXCEPT !.phase = "solving", !.exercise = ExerciseOf(question)]
  <2>1. r.phase = "solving"
    BY DEF Asked, Request
  <2>2. trackingLock' = trackingLock /\ UNCHANGED <<content, assignment, attempts, plan>> /\ requests' = [requests EXCEPT ![c] = r]
    BY <1>7 DEF GetSolution
  <2> HIDE DEF r
  <2>3. QED
    BY <1>1, <2>1, <2>2
<1>8. ASSUME NEW c \in Clients, FinalizeSolution(c) PROVE Goal
  <2>1. [requests[c] EXCEPT !.phase = "shown"].phase = "shown"
    BY <1>0 DEF RequestRows
  <2>2. PICK r : requests' = [requests EXCEPT ![c] = r] /\ r.phase \in {"shown", "idle"}
    BY <1>8, <2>1, NoRequestTyped DEF FinalizeSolution
  <2>3. trackingLock' = trackingLock /\ UNCHANGED <<content, assignment, attempts, plan>>
    BY <1>8 DEF FinalizeSolution
  <2>4. QED
    BY <1>1, <2>2, <2>3
<1>9. CASE EditQuestion
  BY <1>0, <1>9 DEF EditQuestion, Shared, ExerciseTyped
<1>10. CASE WithdrawOrPublish
  BY <1>0, <1>10 DEF WithdrawOrPublish, ExerciseTyped
<1>11. CASE AssignQuestion
  BY <1>0, <1>11 DEF AssignQuestion, ExerciseTyped
<1>12. CASE ReviewComesDue
  BY <1>0, <1>12 DEF ReviewComesDue, ExerciseTyped
<1>13. CASE UNCHANGED exerciseVars
  BY <1>0, <1>13 DEF exerciseVars, ExerciseTyped
<1>14. QED
  BY <1>2, <1>3, <1>4, <1>5, <1>6, <1>7, <1>8, <1>9, <1>10, <1>11, <1>12, <1>13 DEF ExerciseNext

\* LockProtects is kept: what the holder of the lock has read still fits what it will record.
LEMMA LockStaysProtecting ==
  ASSUME ExerciseTyped, ExerciseTyped', LockProtects, [ExerciseNext]_exerciseVars PROVE LockProtects'
<1> SUFFICES ASSUME NEW q \in Clients, requests'[q].phase = "locked"
             PROVE  StillFits(requests[q])'
  BY DEF LockProtects
<1>0. plan \in Plans /\ requests \in [Clients -> RequestRows]
  BY DEF ExerciseTyped
<1>1. CASE ReadAgain(q) /\ StillAnswerable(requests[q])
  <2>1. /\ requests'[q].route = requests[q].route /\ requests'[q].key = requests[q].key
        /\ requests'[q].source = requests[q].source /\ requests'[q].revision = requests[q].revision
        /\ requests'[q].exercise = requests[q].exercise
        /\ requests'[q].scheduled => requests[q].route = "review" /\ Active
    BY <1>0, <1>1, ReadAgainLocks
  <2>2. UNCHANGED <<content, assignment, attempts, plan>>
    BY <1>1 DEF ReadAgain
  <2>3. Stored(requests[q])' = {} /\ ExerciseOf(requests[q])' = requests'[q].exercise
    BY <1>1, <2>1, <2>2 DEF StillAnswerable, Stored, ExerciseOf
  <2>4. OpenMistakes' = OpenMistakes /\ (Active' <=> Active)
    BY <2>2 DEF OpenMistakes, Active
  <2>5. requests[q].route \in {"redo", "review"} => OpenMistakes # {}
    BY <1>1 DEF StillAnswerable, RouteOpen, RedoOpen
  <2>6. requests[q].route = "daily" => assignment.status # "none"
    BY <1>1 DEF StillAnswerable, RouteOpen, DailyOpen, Correctable
  <2>7. QED
    BY <2>1, <2>2, <2>3, <2>4, <2>5, <2>6 DEF StillFits
<1>2. CASE /\ requests[q].phase = "locked" /\ requests'[q] = requests[q] /\ attempts' = attempts
           /\ plan' = plan \/ plan' = [plan EXCEPT !.due = "now"]
           /\ assignment' = assignment \/ assignment.status = "none"
           /\ content'.version = content.version \/ requests[q].route = "daily"
  <2>1. StillFits(requests[q])
    BY <1>2 DEF LockProtects
  <2>2. plan'.exercise = plan.exercise /\ plan'.status = plan.status
    BY <1>0, <1>2 DEF Plans
  <2>3. Stored(requests[q])' = Stored(requests[q]) /\ OpenMistakes' = OpenMistakes /\ (Active' <=> Active)
    BY <1>2, <2>2 DEF Stored, OpenMistakes, Active
  <2>4. requests[q].route = "daily" => assignment' = assignment
    BY <1>2, <2>1 DEF StillFits
  <2>5. ExerciseOf(requests[q])' = ExerciseOf(requests[q])
    BY <1>2, <2>2, <2>4 DEF ExerciseOf
  <2>6. QED
    BY <1>2, <2>1, <2>3, <2>4, <2>5 DEF StillFits
<1>3. QED
  BY <1>1, <1>2, StepsUnderTheLock

-----------------------------------------------------------------------------
(* The review plan.                                                        *)

\* The reviews counted since an attempt.
CountedSince(s) == {i \in DOMAIN attempts : i > s /\ attempts[i].correct /\ attempts[i].counted}

\* Every recorded attempt moves the plan on by one revision, and so does each archiving of a live plan.
RevisionFits ==
  plan.revision + (IF plan.status \in {"none", "archived"} THEN 0 ELSE 1) <= 2 * Len(attempts)

\* The recorded attempts are finitely many.
LEMMA AttemptsAreFinite ==
  ASSUME ExerciseTyped
  PROVE  /\ IsFiniteSet(WrongAttempts) /\ Cardinality(WrongAttempts) \in Nat
         /\ \A s : IsFiniteSet(CountedSince(s)) /\ Cardinality(CountedSince(s)) \in Nat
<1>1. IsFiniteSet(DOMAIN attempts)
  BY AttemptsTyped, FS_Interval
<1>2. WrongAttempts \subseteq DOMAIN attempts /\ \A s : CountedSince(s) \subseteq DOMAIN attempts
  BY DEF WrongAttempts, CountedSince
<1>3. IsFiniteSet(WrongAttempts) /\ \A s : IsFiniteSet(CountedSince(s))
  BY <1>1, <1>2, FS_Subset
<1>4. QED
  BY <1>3, FS_CardinalityType

\* The mistakes and the counted reviews after an attempt is recorded.
LEMMA RecordedMistakes ==
  ASSUME ExerciseTyped, NEW c \in Clients, RecordAttempt(c)
  PROVE  LET n == Len(attempts) + 1
             r == requests[c]
         IN  /\ r.correct => WrongAttempts' = WrongAttempts /\ OpenMistakes' = OpenMistakes
             /\ ~r.correct => /\ WrongAttempts' = WrongAttempts \cup {n} /\ OpenMistakes' = OpenMistakes \cup {n}
                              /\ Cardinality(WrongAttempts') = Cardinality(WrongAttempts) + 1
             /\ \A i \in WrongAttempts : i < n
             /\ n \in Nat
<1> DEFINE n == Len(attempts) + 1
           r == requests[c]
<1>0. /\ DOMAIN attempts' = DOMAIN attempts \cup {n} /\ n \notin DOMAIN attempts
      /\ \A i \in DOMAIN attempts : attempts'[i] = attempts[i]
      /\ attempts'[n] = NewAttempt(r, plan.status # "none" /\ Counted(r))
  BY RecordedAttempt
<1>a. n \in Nat /\ \A i \in DOMAIN attempts : i < n
  BY AttemptsTyped
<1>1. /\ DOMAIN attempts' = DOMAIN attempts \cup {n} /\ n \notin DOMAIN attempts /\ n \in Nat
      /\ \A i \in DOMAIN attempts : attempts'[i] = attempts[i] /\ i < n
      /\ attempts'[n] = NewAttempt(r, plan.status # "none" /\ Counted(r))
  BY <1>0, <1>a
<1>2. attempts'[n].correct = r.correct /\ attempts'[n].archived = FALSE
  BY <1>1 DEF NewAttempt
<1> HIDE DEF n, r
<1>3. r.correct => WrongAttempts' = WrongAttempts /\ OpenMistakes' = OpenMistakes
  BY <1>1, <1>2 DEF WrongAttempts, OpenMistakes
<1>4. ~r.correct => WrongAttempts' = WrongAttempts \cup {n} /\ OpenMistakes' = OpenMistakes \cup {n}
  BY <1>1, <1>2 DEF WrongAttempts, OpenMistakes
<1>5. n \notin WrongAttempts /\ \A i \in WrongAttempts : i < n
  BY <1>1 DEF WrongAttempts
<1>6. ~r.correct => Cardinality(WrongAttempts') = Cardinality(WrongAttempts) + 1
  BY <1>4, <1>5, AttemptsAreFinite, FS_AddElement
<1>7. QED
  BY <1>1, <1>3, <1>4, <1>5, <1>6 DEF n, r

\* Recording an answer adds at most one counted review after each earlier attempt.
LEMMA RecordedReviews ==
  ASSUME ExerciseTyped, NEW c \in Clients, RecordAttempt(c)
  PROVE  LET n == Len(attempts) + 1
             r == requests[c]
         IN  /\ {i \in DOMAIN attempts' : i > n /\ attempts'[i].correct /\ attempts'[i].counted} = {}
             /\ \A s \in DOMAIN attempts :
                  Cardinality({i \in DOMAIN attempts' : i > s /\ attempts'[i].correct /\ attempts'[i].counted})
                    = Cardinality(CountedSince(s)) + (IF r.correct /\ plan.status # "none" /\ Counted(r) THEN 1 ELSE 0)
<1> DEFINE n == Len(attempts) + 1
           r == requests[c]
           k == r.correct /\ plan.status # "none" /\ Counted(r)
           After(s) == {i \in DOMAIN attempts' : i > s /\ attempts'[i].correct /\ attempts'[i].counted}
<1>1. /\ DOMAIN attempts' = DOMAIN attempts \cup {n} /\ n \notin DOMAIN attempts /\ n \in Nat
      /\ \A i \in DOMAIN attempts : attempts'[i] = attempts[i] /\ i < n /\ i \in Nat
      /\ attempts'[n] = NewAttempt(r, plan.status # "none" /\ Counted(r))
  <2>1. /\ DOMAIN attempts' = DOMAIN attempts \cup {n} /\ n \notin DOMAIN attempts
        /\ \A i \in DOMAIN attempts : attempts'[i] = attempts[i]
        /\ attempts'[n] = NewAttempt(r, plan.status # "none" /\ Counted(r))
    BY RecordedAttempt
  <2>2. n \in Nat /\ \A i \in DOMAIN attempts : i < n /\ i \in Nat
    BY AttemptsTyped
  <2>3. QED
    BY <2>1, <2>2
<1>2. (attempts'[n].correct /\ attempts'[n].counted) <=> k
  <2>1. attempts'[n].correct = r.correct /\ attempts'[n].counted = (plan.status # "none" /\ Counted(r))
    BY <1>1 DEF NewAttempt
  <2>2. QED
    BY <2>1
<1> HIDE DEF n, r, k
<1>3. After(n) = {}
  BY <1>1
<1>4. ASSUME NEW s \in DOMAIN attempts
      PROVE  Cardinality(After(s)) = Cardinality(CountedSince(s)) + (IF k THEN 1 ELSE 0)
  <2>1. s < n
    BY <1>1
  <2>2. CASE k
    <3>1. After(s) = CountedSince(s) \cup {n}
      BY <1>1, <1>2, <2>1, <2>2 DEF CountedSince
    <3>2. n \notin CountedSince(s)
      BY <1>1 DEF CountedSince
    <3>3. QED
      BY <2>2, <3>1, <3>2, AttemptsAreFinite, FS_AddElement
  <2>3. CASE ~k
    <3>1. After(s) = CountedSince(s)
      BY <1>1, <1>2, <2>1, <2>3 DEF CountedSince
    <3>2. QED
      BY <2>3, <3>1, AttemptsAreFinite
  <2>4. QED
    BY <2>2, <2>3
<1>5. QED
  BY <1>3, <1>4 DEF n, r, k

\* An attempt counts as a review of a live plan only.
LEMMA CountedIsActive ==
  ASSUME LockProtects, NEW c \in Clients, requests[c].phase = "locked", Counted(requests[c]) PROVE Active
BY DEF LockProtects, StillFits, Counted

\* The plan that follows an attempt, field by field.
LEMMA PlanFollows ==
  ASSUME ExerciseTyped, LockProtects, NEW c \in Clients, RecordAttempt(c)
  PROVE  LET n == Len(attempts) + 1
             r == requests[c]
         IN  \/ /\ plan.status = "none" /\ r.correct /\ plan' = plan
             \/ /\ plan.status = "none" /\ ~r.correct /\ plan'.status = "pending" /\ plan'.source = n
                /\ plan'.exercise = r.exercise /\ plan'.errors = Cardinality(WrongAttempts) + 1
                /\ plan'.successes = 0 /\ plan'.revision = 0
             \/ /\ plan.status # "none" /\ ~r.correct /\ plan'.status = "pending" /\ plan'.source = n
                /\ plan'.exercise = r.exercise /\ plan'.errors = plan.errors + 1
                /\ plan'.successes = 0 /\ plan'.revision = plan.revision + 1
             \/ /\ plan.status # "none" /\ r.correct /\ Counted(r) /\ Active
                /\ plan'.source = plan.source /\ plan'.exercise = plan.exercise /\ plan'.errors = plan.errors
                /\ plan'.successes = plan.successes + 1 /\ plan'.revision = plan.revision + 1
                /\ plan'.status = IF plan.successes + 1 >= SuccessTarget THEN "mastered" ELSE "verification_due"
             \/ /\ plan.status # "none" /\ r.correct /\ ~Counted(r)
                /\ plan'.source = plan.source /\ plan'.exercise = plan.exercise /\ plan'.errors = plan.errors
                /\ plan'.successes = plan.successes /\ plan'.revision \in {plan.revision, plan.revision + 1}
                /\ plan'.status = plan.status
<1> DEFINE n == Len(attempts) + 1
           r == requests[c]
<1>1. plan \in Plans /\ r.phase = "locked" /\ n \in Nat /\ plan' = PlanAfter(n, r)
  BY RecordedAttempt DEF RecordAttempt, ExerciseTyped
<1>2. plan.status # "none" /\ Counted(r) => Active
  BY <1>1, CountedIsActive
<1> HIDE DEF n, r
<1>3. CASE plan.status = "none"
  BY <1>1, <1>3 DEF PlanAfter, NewPlan, NoPlan, n, r
<1>4. CASE plan.status # "none" /\ ~r.correct
  <2>1. plan' = Failed(n, r, Counted(r))
    BY <1>1, <1>4 DEF PlanAfter
  <2> DEFINE t == Touched(n, r, Counted(r))
  <2>2. t \in Plans /\ t.errors = plan.errors /\ t.revision = plan.revision + 1
    BY <1>1, TouchedTyped
  <2>3. plan' = [t EXCEPT !.last = IF r.route = "review" \/ Counted(r) THEN n ELSE 0,
                          !.source = n, !.assigned = AssignedAttempt(r), !.exercise = r.exercise,
                          !.status = "pending", !.due = "later", !.successes = 0, !.errors = @ + 1]
    BY <2>1 DEF Failed
  <2> HIDE DEF t
  <2>4. plan'.status = "pending" /\ plan'.source = n /\ plan'.exercise = r.exercise /\ plan'.errors = plan.errors + 1
        /\ plan'.successes = 0 /\ plan'.revision = plan.revision + 1
    BY <2>2, <2>3 DEF Plans
  <2>5. QED
    BY <1>4, <2>4 DEF n, r
<1>5. CASE plan.status # "none" /\ r.correct /\ Counted(r)
  <2> DEFINE t == Touched(n, r, TRUE)
             done == plan.successes + 1
  <2>1. plan' = [t EXCEPT !.successes = done,
                          !.status = IF done >= SuccessTarget THEN "mastered" ELSE "verification_due",
                          !.due = IF done >= SuccessTarget THEN "never" ELSE "later"]
    BY <1>1, <1>5 DEF PlanAfter, Succeeded
  <2>2. t \in Plans /\ t.errors = plan.errors /\ t.revision = plan.revision + 1 /\ t.source = plan.source
        /\ t.exercise = plan.exercise
    BY <1>1, TouchedTyped
  <2> HIDE DEF t
  <2>3. plan'.successes = done /\ plan'.status = (IF done >= SuccessTarget THEN "mastered" ELSE "verification_due")
        /\ plan'.errors = plan.errors /\ plan'.revision = plan.revision + 1 /\ plan'.source = plan.source
        /\ plan'.exercise = plan.exercise
    BY <2>1, <2>2 DEF Plans
  <2>4. QED
    BY <1>2, <1>5, <2>3 DEF n, r
<1>6. CASE plan.status # "none" /\ r.correct /\ ~Counted(r)
  <2>1. plan' = plan \/ plan' = Touched(n, r, FALSE)
    BY <1>1, <1>6 DEF PlanAfter
  <2>2. CASE plan' = plan
    BY <1>6, <2>2 DEF n, r
  <2>3. CASE plan' = Touched(n, r, FALSE)
    <3>1. /\ plan'.source = plan.source /\ plan'.exercise = plan.exercise /\ plan'.errors = plan.errors
          /\ plan'.successes = plan.successes /\ plan'.revision = plan.revision + 1 /\ plan'.status = plan.status
      BY <1>1, <2>3, TouchedTyped, ZenonT(30)
    <3>2. plan'.revision \in {plan.revision, plan.revision + 1}
      BY <3>1
    <3>3. QED
      BY <1>6, <3>1, <3>2 DEF n, r
  <2>4. QED
    BY <2>1, <2>2, <2>3
<1>7. QED
  BY <1>3, <1>4, <1>5, <1>6 DEF n, r

\* The part of PlanAgrees that speaks of a plan that exists.
PlanRests ==
  /\ plan.source \in WrongAttempts
  /\ \A i \in WrongAttempts : i <= plan.source
  /\ plan.exercise = attempts[plan.source].exercise
  /\ plan.errors = Cardinality(WrongAttempts)
  /\ plan.successes = Cardinality(CountedSince(plan.source))

\* PlanAgrees, conjunct by conjunct.
LEMMA PlanAgreesInParts ==
  PlanAgrees <=> /\ plan.status \in {"none", "archived"} <=> OpenMistakes = {}
                 /\ plan.status = "none" => WrongAttempts = {}
                 /\ plan.status # "none" => PlanRests
                 /\ plan.status = "mastered" => plan.successes = SuccessTarget
                 /\ Active => plan.successes < SuccessTarget
BY DEF PlanAgrees, PlanRests, CountedSince

\* Recording an answer moves the plan with the attempts (updateMistakeReviewTask).
LEMMA RecordKeepsPlan ==
  ASSUME ExerciseTyped, LockProtects, PlanAgrees, RevisionFits, NEW c \in Clients, RecordAttempt(c)
  PROVE  PlanAgrees' /\ RevisionFits'
<1> DEFINE n == Len(attempts) + 1
           r == requests[c]
<1>1. plan \in Plans /\ n \in Nat /\ SuccessTarget \in Nat \ {0} /\ Len(attempts) \in Nat
  BY AttemptsTyped, ExerciseAssumption DEF ExerciseTyped
<1>a. plan.successes \in Nat /\ plan.revision \in Nat /\ plan.source \in Nat
  BY <1>1 DEF Plans
<1>2. Len(attempts') = n /\ \A i \in DOMAIN attempts : attempts'[i] = attempts[i]
  BY RecordedAttempt
<1>3. attempts'[n].exercise = r.exercise
  <2>1. attempts'[n] = NewAttempt(r, plan.status # "none" /\ Counted(r))
    BY RecordedAttempt
  <2>2. QED
    BY <2>1 DEF NewAttempt
<1>4. /\ r.correct => WrongAttempts' = WrongAttempts /\ OpenMistakes' = OpenMistakes
      /\ ~r.correct => /\ WrongAttempts' = WrongAttempts \cup {n} /\ OpenMistakes' = OpenMistakes \cup {n}
                       /\ Cardinality(WrongAttempts') = Cardinality(WrongAttempts) + 1
      /\ \A i \in WrongAttempts : i < n
  BY RecordedMistakes
<1>5. /\ {i \in DOMAIN attempts' : i > n /\ attempts'[i].correct /\ attempts'[i].counted} = {}
      /\ \A s \in DOMAIN attempts :
           Cardinality(CountedSince(s)') = Cardinality(CountedSince(s))
             + (IF r.correct /\ plan.status # "none" /\ Counted(r) THEN 1 ELSE 0)
  BY RecordedReviews, <1>2 DEF CountedSince
<1>6. WrongAttempts \subseteq DOMAIN attempts /\ OpenMistakes \subseteq WrongAttempts
      /\ \A s : Cardinality(CountedSince(s)) \in Nat
  BY AttemptsAreFinite DEF WrongAttempts, OpenMistakes
<1>w. ASSUME ~r.correct, plan'.status = "pending", plan'.source = n, plan'.exercise = r.exercise,
             plan'.errors = Cardinality(WrongAttempts) + 1, plan'.successes = 0
      PROVE  PlanAgrees'
  <2>1. n \in WrongAttempts' /\ OpenMistakes' # {} /\ \A i \in WrongAttempts' : i <= n
    BY <1>1, <1>4, <1>6, <1>w, AttemptsTyped
  <2>2. CountedSince(plan.source)' = {}
    BY <1>5, <1>w DEF CountedSince
  <2>3. Cardinality(CountedSince(plan.source)') = 0
    BY <2>2, FS_EmptySet
  <2>4. PlanRests'
    <3>1. plan'.successes = Cardinality(CountedSince(plan.source)')
      BY <1>w, <2>3
    <3>2. plan'.errors = Cardinality(WrongAttempts')
      BY <1>4, <1>w
    <3>3. QED
      BY <1>3, <1>w, <2>1, <3>1, <3>2 DEF PlanRests
  <2>5. QED
    BY <1>1, <1>w, <2>1, <2>4, PlanAgreesInParts DEF Active, PlanAgrees, PlanRests, CountedSince
<1>s. ASSUME r.correct, plan.status # "none", plan'.source = plan.source, plan'.exercise = plan.exercise,
             plan'.errors = plan.errors,
             plan'.successes = plan.successes + (IF Counted(r) THEN 1 ELSE 0)
      PROVE  PlanRests'
  <2>1. PlanRests
    BY <1>s, PlanAgreesInParts
  <2>2. plan.source \in DOMAIN attempts
    BY <1>6, <2>1 DEF PlanRests
  <2>3. attempts'[plan.source] = attempts[plan.source]
    BY <1>2, <2>2
  <2>4. Cardinality(CountedSince(plan.source)') = plan'.successes
    <3>1. Cardinality({i \in DOMAIN attempts' : i > plan.source /\ attempts'[i].correct /\ attempts'[i].counted})
            = Cardinality(CountedSince(plan.source)) + (IF Counted(r) THEN 1 ELSE 0)
      BY <1>s, <2>2, RecordedReviews
    <3>2. Cardinality(CountedSince(plan.source)) = plan.successes
      BY <2>1 DEF PlanRests
    <3>3. QED
      BY <1>s, <3>1, <3>2 DEF CountedSince
  <2>5. QED
    BY <1>4, <1>s, <2>1, <2>3, <2>4 DEF PlanRests
<1> HIDE DEF n, r
<1>7. CASE plan.status = "none" /\ r.correct /\ plan' = plan
  <2>1. PlanAgrees'
    BY <1>4, <1>7, PlanAgreesInParts DEF PlanAgrees, Active
  <2>2. RevisionFits'
    BY <1>1, <1>a, <1>2, <1>7 DEF RevisionFits, n
  <2>3. QED
    BY <2>1, <2>2
<1>8. CASE /\ plan.status = "none" /\ ~r.correct /\ plan'.status = "pending" /\ plan'.source = n
           /\ plan'.exercise = r.exercise /\ plan'.errors = Cardinality(WrongAttempts) + 1
           /\ plan'.successes = 0 /\ plan'.revision = 0
  <2>1. PlanAgrees'
    BY <1>8, <1>w
  <2>2. RevisionFits'
    BY <1>1, <1>2, <1>8 DEF RevisionFits, n
  <2>3. QED
    BY <2>1, <2>2
<1>9. CASE /\ plan.status # "none" /\ ~r.correct /\ plan'.status = "pending" /\ plan'.source = n
           /\ plan'.exercise = r.exercise /\ plan'.errors = plan.errors + 1
           /\ plan'.successes = 0 /\ plan'.revision = plan.revision + 1
  <2>1. plan.errors = Cardinality(WrongAttempts)
    BY <1>9, PlanAgreesInParts DEF PlanRests
  <2>2. PlanAgrees'
    BY <1>9, <1>w, <2>1
  <2>3. RevisionFits'
    BY <1>1, <1>a, <1>2, <1>9 DEF RevisionFits, n
  <2>4. QED
    BY <2>2, <2>3
<1>10. CASE /\ plan.status # "none" /\ r.correct /\ Counted(r) /\ Active
            /\ plan'.source = plan.source /\ plan'.exercise = plan.exercise /\ plan'.errors = plan.errors
            /\ plan'.successes = plan.successes + 1 /\ plan'.revision = plan.revision + 1
            /\ plan'.status = IF plan.successes + 1 >= SuccessTarget THEN "mastered" ELSE "verification_due"
  <2>1. PlanRests'
    BY <1>10, <1>s
  <2>2. plan.successes < SuccessTarget /\ OpenMistakes' # {}
    BY <1>4, <1>10, PlanAgreesInParts DEF Active
  <2>3. plan'.status = "mastered" => plan'.successes = SuccessTarget
    BY <1>1, <1>a, <1>10, <2>2
  <2>4. plan'.status = "verification_due" => plan'.successes < SuccessTarget
    BY <1>1, <1>a, <1>10, <2>2
  <2>5. plan'.status \in {"mastered", "verification_due"}
    BY <1>10
  <2>6. PlanAgrees'
    BY <2>1, <2>2, <2>3, <2>4, <2>5 DEF PlanAgrees, PlanRests, CountedSince, Active
  <2>7. RevisionFits'
    BY <1>1, <1>a, <1>2, <1>10, <2>5 DEF RevisionFits, Active, n
  <2>8. QED
    BY <2>6, <2>7
<1>11. CASE /\ plan.status # "none" /\ r.correct /\ ~Counted(r)
            /\ plan'.source = plan.source /\ plan'.exercise = plan.exercise /\ plan'.errors = plan.errors
            /\ plan'.successes = plan.successes /\ plan'.revision \in {plan.revision, plan.revision + 1}
            /\ plan'.status = plan.status
  <2>1. PlanRests'
    BY <1>a, <1>11, <1>s
  <2>2. PlanAgrees'
    BY <1>4, <1>11, <2>1, PlanAgreesInParts DEF PlanAgrees, PlanRests, CountedSince, Active
  <2>3. RevisionFits'
    BY <1>1, <1>a, <1>2, <1>11 DEF RevisionFits, n
  <2>4. QED
    BY <2>2, <2>3
<1>12. QED
  BY <1>7, <1>8, <1>9, <1>10, <1>11, PlanFollows DEF n, r

\* Archiving a mistake keeps plan and attempts in agreement, and retires the plan.
LEMMA ArchiveKeepsPlan ==
  ASSUME ExerciseTyped, PlanAgrees, RevisionFits, NEW i \in DOMAIN attempts, ArchiveMistake(i)
  PROVE  PlanAgrees' /\ RevisionFits' /\ plan'.status = "archived"
<1>1. plan \in Plans /\ Len(attempts) \in Nat /\ plan.revision \in Nat
  BY AttemptsTyped DEF ExerciseTyped, Plans
<1>2. /\ Len(attempts') = Len(attempts) /\ DOMAIN attempts' = DOMAIN attempts
      /\ \A k \in DOMAIN attempts :
              /\ attempts'[k].correct = attempts[k].correct /\ attempts'[k].exercise = attempts[k].exercise
              /\ attempts'[k].counted = attempts[k].counted
              /\ ~attempts[k].correct => attempts'[k].archived
  BY ArchivedAttempts
<1>3. WrongAttempts' = WrongAttempts /\ OpenMistakes' = {}
  BY <1>2 DEF WrongAttempts, OpenMistakes
<1>4. OpenMistakes # {}
  BY DEF ArchiveMistake
<1>5. plan.status \notin {"none", "archived"}
  BY <1>4, PlanAgreesInParts
<1>6. plan' = [plan EXCEPT !.status = "archived", !.due = "never", !.revision = @ + 1]
  BY <1>5 DEF ArchiveMistake
<1>7. /\ plan'.status = "archived" /\ plan'.source = plan.source /\ plan'.exercise = plan.exercise
      /\ plan'.errors = plan.errors /\ plan'.successes = plan.successes /\ plan'.revision = plan.revision + 1
  BY <1>1, <1>6 DEF Plans
<1>8. PlanRests
  BY <1>5, PlanAgreesInParts
<1>9. CountedSince(plan.source)' = CountedSince(plan.source)
  BY <1>2, <1>7 DEF CountedSince
<1>10. attempts'[plan.source].exercise = attempts[plan.source].exercise
  BY <1>2, <1>8 DEF PlanRests, WrongAttempts
<1>11. PlanRests'
  BY <1>3, <1>7, <1>8, <1>9, <1>10 DEF PlanRests
<1>12. PlanAgrees'
  BY <1>3, <1>7, <1>11 DEF PlanAgrees, PlanRests, CountedSince, Active
<1>13. RevisionFits'
  BY <1>1, <1>2, <1>5, <1>7 DEF RevisionFits
<1>14. QED
  BY <1>7, <1>12, <1>13

\* PlanAgrees is kept.
LEMMA PlanStays ==
  ASSUME ExerciseTyped, LockProtects, PlanAgrees, RevisionFits, [ExerciseNext]_exerciseVars
  PROVE  PlanAgrees' /\ RevisionFits'
<1>1. ASSUME UNCHANGED <<attempts, plan>> PROVE PlanAgrees' /\ RevisionFits'
  BY <1>1 DEF PlanAgrees, RevisionFits, OpenMistakes, WrongAttempts, Active
<1>2. CASE ReviewComesDue
  <2>1. attempts' = attempts /\ plan'.status = plan.status /\ plan'.source = plan.source /\ plan'.revision = plan.revision
        /\ plan'.exercise = plan.exercise /\ plan'.errors = plan.errors /\ plan'.successes = plan.successes
    BY <1>2 DEF ReviewComesDue, ExerciseTyped, Plans
  <2>2. QED
    BY <2>1 DEF PlanAgrees, RevisionFits, OpenMistakes, WrongAttempts, Active
<1>3. ASSUME NEW c \in Clients, RecordAttempt(c) PROVE PlanAgrees' /\ RevisionFits'
  BY <1>3, RecordKeepsPlan
<1>4. ASSUME NEW i \in DOMAIN attempts, ArchiveMistake(i) PROVE PlanAgrees' /\ RevisionFits'
  BY <1>4, ArchiveKeepsPlan
<1>5. QED
  BY <1>1, <1>2, <1>3, <1>4
     DEF ExerciseNext, SubmitAnswer, ReadAgain, AbandonRequest, GetSolution, FinalizeSolution, EditQuestion,
         WithdrawOrPublish, AssignQuestion, exerciseVars

-----------------------------------------------------------------------------
(* The day's assignment.                                                   *)

\* The assignment names attempts on record, and none before its first answer.
AssignmentFits ==
  /\ assignment.first \in 0..Len(attempts) /\ assignment.corrected \in 0..Len(attempts)
  /\ assignment.status \in {"none", "ready"} => assignment.first = 0 /\ assignment.corrected = 0

\* Recording writes the first answer of the day once, and a correction beside it.
LEMMA RecordKeepsAssignment ==
  ASSUME ExerciseTyped, AssignmentFits, AssignmentAgrees, NEW c \in Clients, RecordAttempt(c)
  PROVE  /\ AssignmentFits' /\ AssignmentAgrees'
         /\ assignment.first # 0 => assignment'.first = assignment.first /\ assignment'.result = assignment.result
         /\ assignment.corrected # 0 => assignment'.corrected = assignment.corrected
<1> DEFINE n == Len(attempts) + 1
           r == requests[c]
<1>1. assignment \in Assignments /\ n \in Nat /\ n # 0 /\ Len(attempts) \in Nat /\ DOMAIN attempts = 1..Len(attempts)
  BY AttemptsTyped DEF ExerciseTyped
<1>2. Len(attempts') = n /\ \A i \in DOMAIN attempts : attempts'[i] = attempts[i]
  BY RecordedAttempt
<1>3. attempts'[n].correct = r.correct /\ attempts'[n].assigned = AssignedAttempt(r)
  <2>1. attempts'[n] = NewAttempt(r, plan.status # "none" /\ Counted(r))
    BY RecordedAttempt
  <2>2. QED
    BY <2>1 DEF NewAttempt
<1>4. AssignedAttempt(r) => assignment.status = "ready" \/ Correctable
  BY DEF RecordAttempt
<1>5. assignment' = IF AssignedAttempt(r) THEN AnswerAssignment(n, r.correct) ELSE assignment
  BY DEF RecordAttempt
<1>6. /\ assignment.first # 0 => assignment.first \in DOMAIN attempts /\ assignment.first < n
      /\ assignment.corrected # 0 => assignment.corrected \in DOMAIN attempts
      /\ assignment.first \in 0..n /\ assignment.corrected \in 0..n /\ n \in 0..n /\ 0 \in 0..n
  BY <1>1 DEF AssignmentFits
<1> HIDE DEF n, r
<1>7. CASE ~AssignedAttempt(r)
  <2>1. assignment' = assignment
    BY <1>5, <1>7
  <2>2. AssignmentFits'
    BY <1>2, <1>6, <2>1 DEF AssignmentFits
  <2>3. AssignmentAgrees'
    BY <1>2, <1>6, <2>1 DEF AssignmentAgrees
  <2>4. QED
    BY <2>1, <2>2, <2>3
<1>8. CASE AssignedAttempt(r) /\ assignment.status = "ready"
  <2>1. assignment' = [assignment EXCEPT !.status = "completed", !.first = n,
                                         !.result = IF r.correct THEN "correct" ELSE "incorrect"]
    BY <1>5, <1>8 DEF AnswerAssignment
  <2>2. /\ assignment'.status = "completed" /\ assignment'.first = n /\ assignment'.corrected = assignment.corrected
        /\ assignment'.result = IF r.correct THEN "correct" ELSE "incorrect"
    BY <1>1, <2>1 DEF Assignments
  <2>3. assignment.first = 0 /\ assignment.corrected = 0
    BY <1>8 DEF AssignmentFits
  <2>4. AssignmentFits'
    BY <1>2, <1>6, <2>2 DEF AssignmentFits
  <2>5. AssignmentAgrees'
    BY <1>3, <1>8, <2>2, <2>3 DEF AssignmentAgrees
  <2>6. QED
    BY <2>3, <2>4, <2>5
<1>9. CASE AssignedAttempt(r) /\ assignment.status # "ready"
  <2>1. Correctable
    BY <1>4, <1>9
  <2>2. assignment' = [assignment EXCEPT !.corrected = IF r.correct THEN n ELSE 0]
    BY <1>5, <1>9 DEF AnswerAssignment
  <2>3. /\ assignment'.status = assignment.status /\ assignment'.first = assignment.first
        /\ assignment'.result = assignment.result /\ assignment'.corrected = IF r.correct THEN n ELSE 0
    BY <1>1, <2>2 DEF Assignments
  <2>4. AssignmentFits'
    BY <1>2, <1>6, <2>1, <2>3 DEF AssignmentFits, Correctable
  <2>5. AssignmentAgrees'
    <3>1. assignment'.corrected # 0 =>
            /\ r.correct /\ assignment'.corrected = n /\ assignment'.result = "incorrect"
            /\ assignment'.corrected > assignment'.first
      BY <1>1, <1>6, <2>1, <2>3 DEF Correctable, Assignments
    <3>2. assignment'.first # 0 => attempts'[assignment'.first] = attempts[assignment.first]
      BY <1>2, <1>6, <2>3
    <3>3. QED
      BY <1>3, <1>9, <2>3, <3>1, <3>2 DEF AssignmentAgrees
  <2>6. QED
    BY <2>1, <2>3, <2>4, <2>5 DEF Correctable
<1>10. QED
  BY <1>7, <1>8, <1>9 DEF n, r

\* What the assignment says of its first answer and its correction stays.
LEMMA AssignmentStays ==
  ASSUME ExerciseTyped, AssignmentFits, AssignmentAgrees, [ExerciseNext]_exerciseVars
  PROVE  /\ AssignmentFits' /\ AssignmentAgrees'
         /\ assignment.first # 0 => assignment'.first = assignment.first /\ assignment'.result = assignment.result
         /\ assignment.corrected # 0 => assignment'.corrected = assignment.corrected
<1> DEFINE Goal == /\ AssignmentFits' /\ AssignmentAgrees'
                   /\ assignment.first # 0 => assignment'.first = assignment.first /\ assignment'.result = assignment.result
                   /\ assignment.corrected # 0 => assignment'.corrected = assignment.corrected
<1>1. ASSUME UNCHANGED <<attempts, assignment>> PROVE Goal
  BY <1>1 DEF AssignmentFits, AssignmentAgrees
<1>2. ASSUME NEW c \in Clients, RecordAttempt(c) PROVE Goal
  BY <1>2, RecordKeepsAssignment
<1>3. ASSUME NEW i \in DOMAIN attempts, ArchiveMistake(i) PROVE Goal
  <2>1. /\ Len(attempts') = Len(attempts) /\ assignment' = assignment
        /\ \A k \in DOMAIN attempts : attempts'[k].correct = attempts[k].correct /\ attempts'[k].assigned = attempts[k].assigned
    BY <1>3, ArchivedAttempts DEF ArchiveMistake
  <2>2. /\ assignment.first # 0 => assignment.first \in DOMAIN attempts
        /\ assignment.corrected # 0 => assignment.corrected \in DOMAIN attempts
    BY AttemptsTyped DEF AssignmentFits
  <2>3. AssignmentFits'
    BY <2>1 DEF AssignmentFits
  <2>4. AssignmentAgrees'
    BY <2>1, <2>2 DEF AssignmentAgrees
  <2>5. QED
    BY <2>1, <2>3, <2>4
<1>4. CASE AssignQuestion
  <2>1. assignment.first = 0 /\ assignment.corrected = 0 /\ attempts' = attempts
        /\ assignment'.first = 0 /\ assignment'.corrected = 0
    BY <1>4 DEF AssignQuestion, AssignmentFits, NoAssignment
  <2>2. QED
    BY <2>1, AttemptsTyped DEF AssignmentFits, AssignmentAgrees
<1>5. QED
  BY <1>1, <1>2, <1>3, <1>4
     DEF ExerciseNext, SubmitAnswer, ReadAgain, AbandonRequest, GetSolution, FinalizeSolution, EditQuestion,
         WithdrawOrPublish, ReviewComesDue, exerciseVars

-----------------------------------------------------------------------------
(* The invariant.                                                          *)

ExerciseIInv == /\ ExerciseTyped
                /\ LockProtects
                /\ PlanAgrees
                /\ RevisionFits
                /\ AssignmentFits
                /\ AssignmentAgrees

\* The initial states satisfy the invariant.
LEMMA InitHolds == ExerciseInit => ExerciseIInv
<1> SUFFICES ASSUME ExerciseInit PROVE ExerciseIInv
  OBVIOUS
<1>0. attempts = <<>> /\ Len(attempts) = 0 /\ DOMAIN attempts = {} /\ assignment = NoAssignment /\ plan = NoPlan
      /\ \A c \in Clients : requests[c] = NoRequest
  BY DEF ExerciseInit
<1>1. ExerciseTyped
  <2>1. content \in [version : 1..MaxVersion, open : BOOLEAN]
    BY ExerciseAssumption DEF ExerciseInit
  <2>2. assignment \in Assignments /\ plan \in Plans
    BY <1>0 DEF NoAssignment, NoPlan, Assignments, Plans
  <2>3. attempts \in Seq(Attempts) /\ Len(attempts) <= MaxAttempts
    BY <1>0, ExerciseAssumption
  <2>4. requests \in [Clients -> RequestRows] /\ trackingLock = "free"
    BY NoRequestTyped DEF ExerciseInit
  <2>5. \A c \in Clients : requests[c].phase = "idle" /\ trackingLock # c
    BY <1>0, <2>4, NoRequestTyped, ExerciseAssumption
  <2>6. QED
    BY <2>1, <2>2, <2>3, <2>4, <2>5 DEF ExerciseTyped
<1>2. LockProtects
  BY <1>0, NoRequestTyped DEF LockProtects
<1>3. OpenMistakes = {} /\ WrongAttempts = {}
  BY <1>0 DEF OpenMistakes, WrongAttempts
<1>4. PlanAgrees /\ RevisionFits
  BY <1>0, <1>3 DEF NoPlan, PlanAgrees, RevisionFits, Active
<1>5. AssignmentFits /\ AssignmentAgrees
  BY <1>0 DEF NoAssignment, AssignmentFits, AssignmentAgrees
<1>6. QED
  BY <1>1, <1>2, <1>4, <1>5 DEF ExerciseIInv

\* The invariant is inductive.
THEOREM ExerciseInvariant == ExerciseSpec => []ExerciseIInv
<1>1. ExerciseIInv /\ [ExerciseNext]_exerciseVars => ExerciseIInv'
  BY ExerciseTypesKept, LockStaysProtecting, PlanStays, AssignmentStays DEF ExerciseIInv
<1>2. QED
  BY <1>1, InitHolds, PTL DEF ExerciseSpec

\* The types of ExerciseSubmission, with the bound on the revisions of the plan
\* (MistakeReviewTask.Revision): at most two for each recorded attempt.
THEOREM ExerciseTypeCorrect == ExerciseSpec => []ExerciseTypeOK
<1>1. ExerciseIInv => ExerciseTypeOK
  <2> SUFFICES ASSUME ExerciseIInv PROVE ExerciseTypeOK
    OBVIOUS
  <2>1. Len(attempts) \in Nat /\ Len(attempts) <= MaxAttempts /\ plan \in Plans
    BY AttemptsTyped DEF ExerciseIInv, ExerciseTyped
  <2>2. plan.revision \in Nat /\ plan.status \in {"none", "pending", "verification_due", "mastered", "archived"}
    BY <2>1 DEF Plans
  <2>3. plan.revision \in 0..(2 * MaxAttempts)
    BY <2>1, <2>2, ExerciseAssumption DEF ExerciseIInv, RevisionFits
  <2>4. QED
    BY <2>2, <2>3 DEF ExerciseIInv, ExerciseTyped, ExerciseTypeOK
<1>2. QED
  BY <1>1, ExerciseInvariant, PTL

\* The review plan, the mistakes and the day's assignment tell the same story
\* whatever the routes and the interleaving of submissions, archiving and
\* edits (updateMistakeReviewTask, ApplyDailyAttempt, DeleteMistake).
THEOREM PlanStory == ExerciseSpec => []PlanHolds
<1>1. ExerciseIInv => PlanHolds
  BY DEF ExerciseIInv, PlanHolds
<1>2. QED
  BY <1>1, ExerciseInvariant, PTL

\* The first answer of the day and its correction, once recorded, stay
\* (ApplyDailyAttempt writes a correction beside the first answer).
THEOREM TheFirstAnswerStands == ExerciseSpec => FirstAnswerStands
<1>1. ExerciseIInv /\ [ExerciseNext]_exerciseVars
        => [/\ assignment.first # 0 => /\ assignment'.first = assignment.first
                                       /\ assignment'.result = assignment.result
            /\ assignment.corrected # 0 => assignment'.corrected = assignment.corrected]_exerciseVars
  BY AssignmentStays DEF ExerciseIInv
<1>2. QED
  BY <1>1, ExerciseInvariant, PTL DEF ExerciseSpec, FirstAnswerStands

\* The one step that leaves an archived plan.
LEMMA ArchivedPlansRest ==
  ASSUME ExerciseIInv, [ExerciseNext]_exerciseVars, plan.status = "archived", plan'.status # "archived"
  PROVE  /\ Len(attempts') = Len(attempts) + 1
         /\ attempts'[Len(attempts')].route \in {"regular", "daily"}
         /\ ~attempts'[Len(attempts')].correct
<1>0. ExerciseTyped /\ LockProtects /\ PlanAgrees /\ RevisionFits /\ plan \in Plans
  BY DEF ExerciseIInv, ExerciseTyped
<1>1. PICK c \in Clients : RecordAttempt(c)
  <2>1. plan' # plan
    OBVIOUS
  <2>2. ~ReviewComesDue
    BY <1>0 DEF ReviewComesDue, Plans
  <2>3. \A i \in DOMAIN attempts : ~ArchiveMistake(i)
    BY <1>0, ArchiveKeepsPlan
  <2>4. QED
    BY <2>1, <2>2, <2>3
       DEF ExerciseNext, SubmitAnswer, ReadAgain, AbandonRequest, GetSolution, FinalizeSolution, EditQuestion,
           WithdrawOrPublish, AssignQuestion, exerciseVars
<1> DEFINE r == requests[c]
<1>2. ~r.correct
  BY <1>0, <1>1, PlanFollows DEF Active
<1>3. r.route \in Routes /\ r.phase = "locked"
  BY <1>0, <1>1, RecordedAttempt DEF RequestRows
<1>4. OpenMistakes = {}
  BY <1>0 DEF PlanAgrees
<1>5. r.route \in {"regular", "daily"}
  BY <1>0, <1>3, <1>4 DEF LockProtects, StillFits, Routes
<1>6. Len(attempts') = Len(attempts) + 1
      /\ attempts'[Len(attempts) + 1] = NewAttempt(r, plan.status # "none" /\ Counted(r))
  BY <1>0, <1>1, RecordedAttempt
<1>7. attempts'[Len(attempts')].route = r.route /\ attempts'[Len(attempts')].correct = r.correct
  BY <1>6 DEF NewAttempt
<1>8. QED
  BY <1>2, <1>5, <1>6, <1>7

\* An archived mistake comes back only with a new wrong answer on the ordinary
\* or the daily route: no redo and no review that was being graded when the
\* student archived it (DeleteMistake) revives the plan.
THEOREM ArchivedMistakesRest == ExerciseSpec => ArchiveRests
<1>1. ExerciseIInv /\ [ExerciseNext]_exerciseVars
        => [plan.status = "archived" /\ plan'.status # "archived" =>
              /\ Len(attempts') = Len(attempts) + 1
              /\ attempts'[Len(attempts')].route \in {"regular", "daily"}
              /\ ~attempts'[Len(attempts')].correct]_exerciseVars
  BY ArchivedPlansRest
<1>2. QED
  BY <1>1, ExerciseInvariant, PTL DEF ExerciseSpec, ArchiveRests

\* The one step that shows a solution.
LEMMA ShownByFinalize ==
  ASSUME ExerciseTyped, ExerciseNext, NEW c \in Clients, requests[c].phase # "shown", requests'[c].phase = "shown"
  PROVE  FinalizeSolution(c) /\ SolutionOpen(requests[c])
<1>0. requests \in [Clients -> RequestRows]
  BY DEF ExerciseTyped
<1>1. ASSUME NEW d \in Clients, NEW r, r.phase # "shown", requests' = [requests EXCEPT ![d] = r] PROVE FALSE
  BY <1>0, <1>1
<1>2. ASSUME NEW d \in Clients, NEW route \in Routes, NEW key \in SubmissionIds, NEW correct \in BOOLEAN,
             SubmitAnswer(d, route, key, correct)
      PROVE  FALSE
  <2> DEFINE question == Asked(route, key)
             r == [question EXCEPT !.phase = "graded", !.exercise = ExerciseOf(question), !.correct = correct]
  <2>1. r.phase = "graded"
    BY DEF Asked, Request
  <2>2. requests' = [requests EXCEPT ![d] = r]
    BY <1>2 DEF SubmitAnswer
  <2> HIDE DEF r
  <2>3. QED
    BY <1>1, <2>1, <2>2
<1>3. ASSUME NEW d \in Clients, ReadAgain(d) PROVE FALSE
  <2>1. CASE StillAnswerable(requests[d])
    <3>1. PICK r \in RequestRows : requests' = [requests EXCEPT ![d] = r] /\ r.phase = "locked"
      BY <1>3, <2>1, ReadAgainLocks
    <3>2. QED
      BY <1>1, <3>1
  <2>2. CASE ~StillAnswerable(requests[d])
    BY <1>1, <1>3, <2>2, NoRequestTyped DEF ReadAgain
  <2>3. QED
    BY <2>1, <2>2
<1>4. ASSUME NEW d \in Clients, RecordAttempt(d) \/ AbandonRequest(d) PROVE FALSE
  BY <1>1, <1>4, NoRequestTyped DEF RecordAttempt, AbandonRequest, Release
<1>5. ASSUME NEW d \in Clients, NEW route \in Routes, GetSolution(d, route) PROVE FALSE
  <2> DEFINE question == IF route = "review" THEN Request(route, "none", plan.revision, plan.last) ELSE Asked(route, "none")
             r == [question EXCEPT !.phase = "solving", !.exercise = ExerciseOf(question)]
  <2>1. r.phase = "solving"
    BY DEF Asked, Request
  <2>2. requests' = [requests EXCEPT ![d] = r]
    BY <1>5 DEF GetSolution
  <2> HIDE DEF r
  <2>3. QED
    BY <1>1, <2>1, <2>2
<1>6. ASSUME NEW d \in Clients, FinalizeSolution(d) PROVE FinalizeSolution(c) /\ SolutionOpen(requests[c])
  <2>1. d = c
    BY <1>0, <1>6 DEF FinalizeSolution
  <2>2. CASE ~SolutionOpen(requests[c])
    BY <1>1, <1>6, <2>1, <2>2, NoRequestTyped DEF FinalizeSolution
  <2>3. QED
    BY <1>6, <2>1, <2>2
<1>7. ASSUME requests' = requests PROVE FALSE
  BY <1>7
<1>8. QED
  BY <1>2, <1>3, <1>4, <1>5, <1>6, <1>7
     DEF ExerciseNext, ArchiveMistake, ReviewComesDue, EditQuestion, WithdrawOrPublish, AssignQuestion

\* A solution that took its time is not shown on the ordinary or the daily
\* route while the question is today's unanswered one (finalizeSolutionResponse).
THEOREM SolutionsAreDue == ExerciseSpec => SolutionIsDue
<1>1. ASSUME ExerciseIInv, ExerciseNext, NEW c \in Clients, requests[c].phase # "shown", requests'[c].phase = "shown",
             requests[c].route \in {"regular", "daily"}
      PROVE  assignment.status # "ready" /\ attempts # <<>>
  <2>1. SolutionOpen(requests[c])
    BY <1>1, ShownByFinalize DEF ExerciseIInv
  <2>2. CASE requests[c].route = "regular"
    BY <2>1, <2>2 DEF SolutionOpen, RegularOpen
  <2>3. CASE requests[c].route = "daily"
    <3>1. assignment.status = "completed" /\ assignment.first # 0
      BY <2>1, <2>3 DEF SolutionOpen
    <3>2. Len(attempts) # 0
      BY <1>1, <3>1 DEF ExerciseIInv, AssignmentFits
    <3>3. QED
      BY <3>1, <3>2
  <2>4. QED
    BY <1>1, <2>2, <2>3
<1>2. ExerciseIInv /\ [ExerciseNext]_exerciseVars
        => [\A c \in Clients :
              /\ requests[c].phase # "shown" /\ requests'[c].phase = "shown"
              /\ requests[c].route \in {"regular", "daily"}
              => assignment.status # "ready" /\ attempts # <<>>]_exerciseVars
  BY <1>1
<1>3. QED
  BY <1>2, ExerciseInvariant, PTL DEF ExerciseSpec, SolutionIsDue

\* FirstAnswerStands, ArchiveRests and SolutionIsDue, as the run checks them.
THEOREM AnswersAreFinal == ExerciseSpec => AnswersStand
BY TheFirstAnswerStands, ArchivedMistakesRest, SolutionsAreDue DEF AnswersStand

\* The one step that adds an attempt.
LEMMA AddedByRecord ==
  ASSUME ExerciseTyped, [ExerciseNext]_exerciseVars, attempts' # attempts
  PROVE  \/ \E c \in Clients : RecordAttempt(c)
         \/ \E i \in DOMAIN attempts : ArchiveMistake(i)
BY DEF ExerciseNext, SubmitAnswer, ReadAgain, AbandonRequest, GetSolution, FinalizeSolution, EditQuestion,
       WithdrawOrPublish, AssignQuestion, ReviewComesDue, exerciseVars

\* A verdict is recorded only for the question it was given on: the record
\* agrees with the question under the lock, however long the grading took.
THEOREM VerdictsFitTheirQuestions == ExerciseSpec => GradedOnWhatIsAsked
<1>1. ASSUME ExerciseIInv, [ExerciseNext]_exerciseVars, Len(attempts') > Len(attempts)
      PROVE  attempts'[Len(attempts')].exercise = ExerciseOf(requests[trackingLock])
  <2>0. ExerciseTyped /\ LockProtects /\ Len(attempts) \in Nat
    BY <1>1, AttemptsTyped DEF ExerciseIInv
  <2>1. PICK c \in Clients : RecordAttempt(c)
    <3>1. attempts' # attempts
      BY <1>1, <2>0
    <3>2. \A i \in DOMAIN attempts : ~ArchiveMistake(i)
      BY <1>1, <2>0, ArchivedAttempts
    <3>3. QED
      BY <1>1, <2>0, <3>1, <3>2, AddedByRecord
  <2>2. trackingLock = c /\ requests[c].phase = "locked" /\ Len(attempts') = Len(attempts) + 1
        /\ attempts'[Len(attempts) + 1] = NewAttempt(requests[c], plan.status # "none" /\ Counted(requests[c]))
    BY <2>0, <2>1, RecordedAttempt
  <2>3. attempts'[Len(attempts')].exercise = requests[c].exercise
    BY <2>2 DEF NewAttempt
  <2>4. QED
    BY <2>0, <2>2, <2>3 DEF LockProtects, StillFits
<1>2. ExerciseIInv /\ [ExerciseNext]_exerciseVars
        => [Len(attempts') > Len(attempts) =>
              attempts'[Len(attempts')].exercise = ExerciseOf(requests[trackingLock])]_exerciseVars
  BY <1>1
<1>3. QED
  BY <1>2, ExerciseInvariant, PTL DEF ExerciseSpec, GradedOnWhatIsAsked

-----------------------------------------------------------------------------
(* The refinement.                                                         *)

\* Recording an attempt decides its slot, which was undecided.
LEMMA RecordDecides ==
  ASSUME ExerciseIInv, NEW c \in Clients, RecordAttempt(c) PROVE Register!RegisterNext
<1> DEFINE n == Len(attempts) + 1
           r == requests[c]
           s == <<r.route, r.key>>
           v == <<n, r.correct>>
<1>0. ExerciseTyped /\ LockProtects
  BY DEF ExerciseIInv
<1>1. /\ r.phase = "locked" /\ r \in RequestRows /\ r.key \in SubmissionIds /\ n \in 1..MaxAttempts
      /\ DOMAIN attempts' = DOMAIN attempts \cup {n}
      /\ \A i \in DOMAIN attempts : attempts'[i] = attempts[i]
  <2>1. r.phase = "locked" /\ r \in RequestRows /\ r.key \in SubmissionIds /\ DOMAIN attempts' = DOMAIN attempts \cup {n}
        /\ \A i \in DOMAIN attempts : attempts'[i] = attempts[i]
    BY <1>0, RecordedAttempt
  <2>2. Len(attempts) \in Nat /\ Len(attempts) < MaxAttempts
    BY <1>0, RecordedAttempt
  <2>3. n \in 1..MaxAttempts
    BY <2>2, ExerciseAssumption
  <2>4. QED
    BY <2>1, <2>3
<1>2. attempts'[n].route = r.route /\ attempts'[n].key = r.key /\ attempts'[n].correct = r.correct
  <2>1. attempts'[n] = NewAttempt(r, plan.status # "none" /\ Counted(r))
    BY <1>0, RecordedAttempt
  <2>2. QED
    BY <2>1 DEF NewAttempt
<1>3. Stored(r) = {}
  BY <1>0, <1>1 DEF LockProtects, StillFits
<1>4. s \in Routes \X SubmissionIds /\ v \in (1..MaxAttempts) \X BOOLEAN
  BY <1>1 DEF RequestRows
<1> HIDE DEF n, r
<1>5. \A d \in SlotVerdicts : d[1] # s
  BY <1>3 DEF SlotVerdicts, Stored
<1>6. SlotVerdicts' = SlotVerdicts \cup {<<s, v>>}
  <2>1. \A i \in DOMAIN attempts : <<<<attempts'[i].route, attempts'[i].key>>, <<i, attempts'[i].correct>>>>
                                     = <<<<attempts[i].route, attempts[i].key>>, <<i, attempts[i].correct>>>>
    BY <1>1
  <2>2. <<<<attempts'[n].route, attempts'[n].key>>, <<n, attempts'[n].correct>>>> = <<s, v>>
    BY <1>2
  <2>3. QED
    BY <1>1, <2>1, <2>2 DEF SlotVerdicts
<1> HIDE DEF s, v
<1>7. SlotVerdicts' # SlotVerdicts
  <2>1. <<s, v>>[1] = s
    OBVIOUS
  <2>2. <<s, v>> \notin SlotVerdicts
    BY <2>1, <1>5
  <2> QED BY <2>2, <1>6
<1>8. QED
  BY <1>4, <1>5, <1>6, <1>7 DEF Register!RegisterNext, Register!Decide, Register!Undecided

\* Archiving is a stutter of the register: it shows no verdict differently.
LEMMA ArchiveStutters ==
  ASSUME ExerciseTyped, NEW i \in DOMAIN attempts, ArchiveMistake(i) PROVE SlotVerdicts' = SlotVerdicts
<1>1. DOMAIN attempts' = DOMAIN attempts
      /\ \A k \in DOMAIN attempts : <<<<attempts'[k].route, attempts'[k].key>>, <<k, attempts'[k].correct>>>>
                                     = <<<<attempts[k].route, attempts[k].key>>, <<k, attempts[k].correct>>>>
  BY ArchivedAttempts
<1>2. QED
  BY <1>1 DEF SlotVerdicts

\* The submission service implements the register: a slot is given a verdict
\* at most once and keeps it, whatever is retried and runs side by side
\* (AcquireTrackingLock, then the stored response is read again).
THEOREM SubmissionsRefineTheRegister == ExerciseSpec => SubmissionsAreRegistered
<1>1. ExerciseInit => Register!RegisterInit
  BY DEF ExerciseInit, Register!RegisterInit, SlotVerdicts
<1>2. ExerciseIInv /\ [ExerciseNext]_exerciseVars => [Register!RegisterNext]_SlotVerdicts
  <2> SUFFICES ASSUME ExerciseIInv, [ExerciseNext]_exerciseVars PROVE [Register!RegisterNext]_SlotVerdicts
    OBVIOUS
  <2>1. CASE attempts' = attempts
    BY <2>1 DEF SlotVerdicts
  <2>2. ASSUME NEW c \in Clients, RecordAttempt(c) PROVE Register!RegisterNext
    BY <2>2, RecordDecides
  <2>3. ASSUME NEW i \in DOMAIN attempts, ArchiveMistake(i) PROVE SlotVerdicts' = SlotVerdicts
    BY <2>3, ArchiveStutters DEF ExerciseIInv
  <2>4. QED
    BY <2>1, <2>2, <2>3, AddedByRecord DEF ExerciseIInv
<1>3. QED
  BY <1>1, <1>2, ExerciseInvariant, PTL DEF ExerciseSpec, SubmissionsAreRegistered, Register!RegisterSpec

-----------------------------------------------------------------------------
(* The record of practice.                                                  *)

PagePhases == {"idle", "creating", "checking", "recalling", "choosing", "offering", "tracking", "measuring",
               "writing", "clearing"}
ProfileRow == [exists : BOOLEAN, total : Nat, correct : Nat, portrait : Int, version : Nat,
               revision : Nat, cleared : Nat]
EstimateRow == [attempts : Nat, correct : Nat, sequence : Nat]
PageRow == [phase : PagePhases, session : Nat, exercise : Nat, recent : SUBSET Nat, seen : Nat,
            correct : BOOLEAN, profile : ProfileRow, estimates : [Record!Tracked -> EstimateRow]]
AnswerRow == [exercise : Pool, correct : BOOLEAN]
SessionRow == [current : Nat, fresh : BOOLEAN]

RecordTyped ==
  /\ offered \subseteq Pool /\ sessions \in Seq(SessionRow) /\ answers \in Seq(AnswerRow)
  /\ profile \in ProfileRow /\ estimates \in [Record!Tracked -> EstimateRow] /\ practices \in [Concepts -> Int]
  /\ pages \in [Pages -> PageRow] /\ tracker \in Pages \cup {"free"}

\* What a request has read still holds: the one that records an answer has the lock, and what it
\* will write back is what is stored; what a search knows of the newest answers is so until there
\* is another; a portrait under way is written only over the one its request has found.
PageFits(p) ==
  LET request == pages[p] IN
  /\ request.seen <= Len(answers)
  /\ request.phase \in {"checking", "recalling", "choosing", "offering"} => request.session \in 1..Len(sessions)
  /\ request.phase \in {"choosing", "offering"} /\ request.seen = Len(answers) => request.recent = Record!ListRecentContentIDs
  /\ request.phase = "offering" => request.exercise \in Pool \ request.recent
  /\ request.phase = "tracking" => /\ tracker = p /\ request.exercise \in Pool /\ request.estimates = estimates
                                   /\ request.profile.total = profile.total /\ request.profile.correct = profile.correct
  /\ request.phase \in {"measuring", "writing", "clearing"} => request.profile.revision <= profile.revision
  /\ request.phase = "writing" /\ request.profile.revision = profile.revision =>
       request.seen >= profile.portrait /\ request.seen >= profile.cleared

PortraitFits == profile.portrait <= Len(answers) /\ profile.cleared <= Len(answers)

RecordInv ==
  RecordTyped /\ Record!CountersAgree /\ Record!PendingIsFresh /\ PortraitFits /\ \A p \in Pages : PageFits(p)

-----------------------------------------------------------------------------
\* The maximum of a set is its greatest number.
LEMMA GreatestNumber ==
  ASSUME NEW S, NEW n \in Nat, n \in S, \A i \in S : i \in Nat /\ i <= n
  PROVE  Record!Max(S) = n
<1>1. \A m \in S : (\A i \in S : m >= i) <=> m = n
  OBVIOUS
<1> QED BY <1>1 DEF Record!Max

\* The size of a set is the same in the module of the record and here.
LEMMA RecordCounts == ASSUME NEW S PROVE Record!Cardinality(S) = Cardinality(S)
BY DEF Record!Cardinality, Cardinality

\* Of some numbers one is the least.
LEMMA LeastNumber ==
  ASSUME NEW S, S \subseteq Nat, S # {}
  PROVE  \E x \in S : \A y \in S : x <= y
<1>1. IsWellFoundedOn(OpToRel(<,Nat), Nat)
  BY NatLessThanWellFounded, Zenon
<1>2. PICK x \in S : \A y \in S : ~(<<y, x>> \in OpToRel(<,Nat))
  BY <1>1, WFMin, Zenon
<1>3. \A y \in S : ~(y < x)
  BY <1>2, Zenon DEF OpToRel
<1> QED BY <1>3

\* The rows that stand for nothing.
LEMMA RecordRows ==
  /\ Record!NoEstimate \in EstimateRow /\ Record!NoEstimate.attempts = 0 /\ Record!NoEstimate.correct = 0 /\ Record!NoEstimate.sequence = 0
  /\ Record!NoProfile \in ProfileRow /\ Record!NoProfile.total = 0 /\ Record!NoProfile.correct = 0
  /\ Record!NoProfile.portrait = Record!NoPortrait /\ Record!NoProfile.cleared = 0 /\ Record!NoPortrait \in Int /\ Record!NoPortrait < 0
  /\ \A phase \in PagePhases : /\ Record!Page(phase) \in PageRow /\ Record!Page(phase).phase = phase /\ Record!Page(phase).seen = 0
  /\ Record!Blank \in SessionRow /\ Record!Blank.current = 0
<1>1. Record!NoEstimate \in EstimateRow /\ Record!NoEstimate.attempts = 0 /\ Record!NoEstimate.correct = 0 /\ Record!NoEstimate.sequence = 0
  BY DEF Record!NoEstimate, EstimateRow
<1>2. /\ Record!NoProfile \in ProfileRow /\ Record!NoProfile.total = 0 /\ Record!NoProfile.correct = 0
      /\ Record!NoProfile.portrait = Record!NoPortrait /\ Record!NoProfile.cleared = 0 /\ Record!NoPortrait \in Int /\ Record!NoPortrait < 0
  BY DEF Record!NoProfile, ProfileRow, Record!NoPortrait
<1>3. Record!Blank \in SessionRow /\ Record!Blank.current = 0
  BY DEF Record!Blank, Record!Session, SessionRow
<1>4. \A phase \in PagePhases : Record!Page(phase) \in PageRow /\ Record!Page(phase).phase = phase /\ Record!Page(phase).seen = 0
  BY <1>1, <1>2 DEF Record!Page, PageRow
<1> QED BY <1>1, <1>2, <1>3, <1>4

\* An answer is about an exercise of the pool.
LEMMA AnswersTyped ==
  ASSUME RecordTyped
  PROVE  /\ Len(answers) \in Nat /\ DOMAIN answers = 1..Len(answers)
         /\ \A i \in DOMAIN answers : answers[i] \in AnswerRow /\ answers[i].exercise \in Pool
<1>1. Len(answers) \in Nat /\ DOMAIN answers = 1..Len(answers)
  BY DEF RecordTyped
<1>2. \A i \in DOMAIN answers : answers[i] \in AnswerRow
  BY DEF RecordTyped
<1> QED BY <1>1, <1>2 DEF AnswerRow

\* Nor is none an exercise.
LEMMA NoneIsNought ==
  ASSUME RecordTyped
  PROVE  0 \notin Record!ListRecentContentIDs
BY RecordAssumption, AnswersTyped DEF Record!ListRecentContentIDs, Record!ClassAnswers

\* What one request does leaves the others as they are.
LEMMA OthersFit ==
  ASSUME RecordTyped, NEW p \in Pages, PageFits(p), pages'[p] = pages[p],
         answers' = answers, sessions' \in Seq(SessionRow), Len(sessions') >= Len(sessions),
         estimates' = estimates, profile' \in ProfileRow,
         profile'.total = profile.total, profile'.correct = profile.correct,
         \/ /\ profile'.revision = profile.revision
            /\ profile'.portrait = profile.portrait /\ profile'.cleared = profile.cleared
         \/ profile'.revision = profile.revision + 1,
         tracker = p => tracker' = p
  PROVE  PageFits(p)'
<1>1. /\ pages[p] \in PageRow /\ pages[p].session \in Nat /\ pages[p].seen \in Nat
      /\ pages[p].profile.revision \in Nat /\ profile.revision \in Nat /\ profile'.revision \in Nat
      /\ Len(sessions) \in Nat /\ Len(sessions') \in Nat
  <2>1. pages[p] \in PageRow
    BY DEF RecordTyped
  <2>2. pages[p].session \in Nat /\ pages[p].seen \in Nat /\ pages[p].profile \in ProfileRow
    BY <2>1 DEF PageRow
  <2>3. profile \in ProfileRow
    BY DEF RecordTyped
  <2>4. Len(sessions) \in Nat /\ Len(sessions') \in Nat
    BY DEF RecordTyped
  <2> QED BY <2>1, <2>2, <2>3, <2>4 DEF ProfileRow
<1>2. Record!ListRecentContentIDs' = Record!ListRecentContentIDs
  BY DEF Record!ListRecentContentIDs, Record!ClassAnswers, Record!Newest
<1>3. pages[p].phase = "writing" /\ pages[p].profile.revision = profile'.revision =>
        pages[p].seen >= profile'.portrait /\ pages[p].seen >= profile'.cleared
  BY <1>1 DEF PageFits
<1>4. pages[p].phase \in {"measuring", "writing", "clearing"} => pages[p].profile.revision <= profile'.revision
  BY <1>1 DEF PageFits
<1>5. pages[p].phase \in {"checking", "recalling", "choosing", "offering"} => pages[p].session \in 1..Len(sessions')
  BY <1>1 DEF PageFits
<1> QED BY <1>2, <1>3, <1>4, <1>5 DEF PageFits

\* Nothing is counted.
LEMMA CountersRest ==
  ASSUME Record!CountersAgree, answers' = answers, estimates' = estimates, practices' = practices,
         profile'.total = profile.total, profile'.correct = profile.correct
  PROVE  Record!CountersAgree'
<1>1. Record!Correct' = Record!Correct /\ \A c \in Record!Tracked : Record!About(c)' = Record!About(c)
  BY DEF Record!Correct, Record!About
<1>2. \A c \in Record!Tracked : Record!SequenceOf(c)' = Record!SequenceOf(c)
  BY <1>1 DEF Record!SequenceOf
<1>3. ASSUME NEW c \in Record!Tracked
      PROVE  (/\ estimates[c].attempts = Cardinality(Record!About(c))
              /\ estimates[c].correct = Cardinality(Record!About(c) \cap Record!Correct)
              /\ estimates[c].sequence = Record!SequenceOf(c))'
  BY <1>1, <1>2, RecordCounts DEF Record!CountersAgree
<1> QED BY <1>1, <1>3, Zenon DEF Record!CountersAgree

\* The exercise that is pending, as long as nothing is answered.
LEMMA PendingRests ==
  ASSUME Record!PendingIsFresh, answers' = answers,
         Len(sessions') = 1 /\ sessions'[1].fresh /\ sessions'[1].current # 0 => sessions' = sessions,
         RecordTyped
  PROVE  Record!PendingIsFresh'
<1>1. Record!ListRecentContentIDs' = Record!ListRecentContentIDs
  BY DEF Record!ListRecentContentIDs, Record!ClassAnswers, Record!Newest
<1>2. 0 \notin Record!ListRecentContentIDs
  BY RecordAssumption, AnswersTyped DEF Record!ListRecentContentIDs, Record!ClassAnswers
<1> QED BY <1>1, <1>2 DEF Record!PendingIsFresh

\* A step of a request that records nothing: its own page is what is left to show.
LEMMA RequestHolds ==
  ASSUME RecordInv, NEW p \in Pages, NEW request \in PageRow, Record!Goes(p, request),
         offered' \subseteq Pool, answers' = answers, estimates' = estimates, practices' = practices,
         sessions' \in Seq(SessionRow), Len(sessions') >= Len(sessions),
         profile' \in ProfileRow, profile'.total = profile.total, profile'.correct = profile.correct,
         \/ /\ profile'.revision = profile.revision
            /\ profile'.portrait = profile.portrait /\ profile'.cleared = profile.cleared
         \/ profile'.revision = profile.revision + 1,
         tracker' \in Pages \cup {"free"}, tracker \notin {p, "free"} => tracker' = tracker,
         PageFits(p)', Record!PendingIsFresh', PortraitFits'
  PROVE  RecordInv'
<1>1. pages' \in [Pages -> PageRow] /\ \A q \in Pages \ {p} : pages'[q] = pages[q]
  BY DEF RecordInv, RecordTyped, Record!Goes
<1>2. RecordTyped'
  BY <1>1 DEF RecordInv, RecordTyped
<1>3. ASSUME NEW q \in Pages \ {p} PROVE PageFits(q)'
  BY <1>1, OthersFit, RecordAssumption DEF RecordInv
<1>4. Record!CountersAgree'
  BY CountersRest DEF RecordInv
<1> QED BY <1>2, <1>3, <1>4 DEF RecordInv

\* A page that rests fits.
LEMMA RestFits ==
  ASSUME RecordTyped, NEW p \in Pages, Record!Rests(p), answers' = answers
  PROVE  PageFits(p)'
<1>1. pages'[p] = Record!NoPage /\ Record!NoPage.phase = "idle" /\ Record!NoPage.seen = 0
  BY RecordRows DEF RecordTyped, Record!Rests, Record!Goes, Record!NoPage, PagePhases
<1>2. Len(answers) \in Nat
  BY DEF RecordTyped
<1> QED BY <1>1, <1>2 DEF PageFits

-----------------------------------------------------------------------------
\* A request reads what is stored, or stores nothing: its page is what it was told.
LEMMA ReaderHolds ==
  ASSUME RecordInv, NEW p \in Pages, NEW request \in PageRow, Record!Goes(p, request), PageFits(p)',
         UNCHANGED <<offered, answers, estimates, practices, profile, sessions>>,
         tracker' \in Pages \cup {"free"}, tracker \notin {p, "free"} => tracker' = tracker
  PROVE  RecordInv'
<1>1. /\ sessions' \in Seq(SessionRow) /\ Len(sessions') >= Len(sessions) /\ profile' \in ProfileRow
      /\ offered' \subseteq Pool
  <2>1. Len(sessions) \in Nat
    BY DEF RecordInv, RecordTyped
  <2> QED BY <2>1 DEF RecordInv, RecordTyped
<1>2. Record!PendingIsFresh'
  BY PendingRests DEF RecordInv
<1>3. PortraitFits'
  BY DEF RecordInv, PortraitFits
<1> QED BY <1>1, <1>2, <1>3, RequestHolds

\* The newest session is looked up.
LEMMA GetNextHolds ==
  ASSUME RecordInv, NEW p \in Pages, Record!GetNextExercise(p)
  PROVE  RecordInv'
<1>1. /\ Len(sessions) \in Nat /\ DOMAIN sessions = 1..Len(sessions) /\ Len(answers) \in Nat
      /\ sessions # <<>> => Len(sessions) \in 1..Len(sessions)
      /\ \A n \in 1..Len(sessions) : sessions[n] \in SessionRow
  BY DEF RecordInv, RecordTyped
<1>2. UNCHANGED <<offered, answers, estimates, practices, profile, sessions, tracker>>
  BY DEF Record!GetNextExercise, Record!bankVars, Record!learnedVars
<1>3. tracker' \in Pages \cup {"free"}
  BY <1>2 DEF RecordInv, RecordTyped
<1>4. CASE sessions = <<>>
  <2>1. Record!Goes(p, Record!Page("creating")) /\ Record!Page("creating") \in PageRow
    BY <1>4, RecordRows DEF Record!GetNextExercise, PagePhases
  <2>2. pages'[p] = Record!Page("creating") /\ pages'[p].phase = "creating" /\ pages'[p].seen = 0
    BY <2>1, RecordRows DEF RecordInv, RecordTyped, Record!Goes, PagePhases
  <2>3. PageFits(p)'
    BY <2>2, <1>1, <1>2 DEF PageFits
  <2> QED BY <2>1, <2>3, <1>2, <1>3, ReaderHolds
<1>5. CASE sessions # <<>>
  <2>1. PICK phase \in {"recalling", "checking"} : phase = (IF sessions[Len(sessions)].current = 0 THEN "recalling" ELSE "checking")
    OBVIOUS
  <2> DEFINE request == [Record!Page(phase) EXCEPT !.session = Len(sessions), !.exercise = sessions[Len(sessions)].current]
  <2>2. Record!Page(phase) \in PageRow /\ Record!Page(phase).phase = phase /\ Record!Page(phase).seen = 0
    BY RecordRows DEF PagePhases
  <2>3. sessions[Len(sessions)].current \in Nat
    BY <1>1, <1>5 DEF SessionRow
  <2>4. request \in PageRow /\ request.phase = phase /\ request.seen = 0 /\ request.session = Len(sessions)
    BY <2>2, <2>3, <1>1 DEF PageRow
  <2>5. Record!Goes(p, request)
    BY <1>5, <2>1 DEF Record!GetNextExercise
  <2> HIDE DEF request
  <2>6. pages'[p] = request
    BY <2>5 DEF RecordInv, RecordTyped, Record!Goes
  <2>7. PageFits(p)'
    BY <2>4, <2>6, <1>1, <1>2, <1>5 DEF PageFits
  <2> QED BY <2>4, <2>5, <2>7, <1>2, <1>3, ReaderHolds
<1> QED BY <1>4, <1>5

\* A session is created.
LEMMA CreateHolds ==
  ASSUME RecordInv, NEW p \in Pages, Record!CreateSession(p)
  PROVE  RecordInv'
<1>1. /\ Len(sessions) \in Nat /\ Len(answers) \in Nat /\ sessions \in Seq(SessionRow)
  BY DEF RecordInv, RecordTyped
<1>2. UNCHANGED <<offered, answers, estimates, practices, profile, tracker>>
  BY DEF Record!CreateSession, Record!bankVars, Record!learnedVars
<1>3. tracker' \in Pages \cup {"free"} /\ offered' \subseteq Pool /\ profile' \in ProfileRow
  BY <1>2 DEF RecordInv, RecordTyped
<1>4. sessions' = Append(sessions, Record!Blank)
  BY DEF Record!CreateSession
<1>5. sessions' \in Seq(SessionRow) /\ Len(sessions') = Len(sessions) + 1 /\ sessions'[Len(sessions) + 1] = Record!Blank
  BY <1>1, <1>4, RecordRows, AppendProperties
<1> DEFINE request == [Record!Page("recalling") EXCEPT !.session = Len(sessions) + 1]
<1>6. Record!Page("recalling") \in PageRow /\ Record!Page("recalling").phase = "recalling" /\ Record!Page("recalling").seen = 0
  BY RecordRows DEF PagePhases
<1>7. request \in PageRow /\ request.phase = "recalling" /\ request.seen = 0 /\ request.session = Len(sessions) + 1
  BY <1>1, <1>6 DEF PageRow
<1>8. Record!Goes(p, request)
  BY DEF Record!CreateSession
<1> HIDE DEF request
<1>9. pages'[p] = request
  BY <1>8 DEF RecordInv, RecordTyped, Record!Goes
<1>10. PageFits(p)'
  BY <1>1, <1>2, <1>5, <1>7, <1>9 DEF PageFits
<1>11. Record!PendingIsFresh'
  <2>1. Len(sessions') = 1 => sessions'[1].current = 0
    BY <1>1, <1>5, RecordRows
  <2> QED BY <2>1, <1>2, PendingRests DEF RecordInv
<1>12. PortraitFits'
  BY <1>2 DEF RecordInv, PortraitFits
<1>13. Len(sessions') >= Len(sessions)
  BY <1>1, <1>5
<1> QED BY <1>2, <1>3, <1>5, <1>7, <1>8, <1>10, <1>11, <1>12, <1>13, RequestHolds

\* What every state is made of.
LEMMA RowsOfRecord ==
  ASSUME RecordTyped
  PROVE  /\ Len(sessions) \in Nat /\ DOMAIN sessions = 1..Len(sessions) /\ Len(answers) \in Nat
         /\ \A n \in 1..Len(sessions) : sessions[n] \in SessionRow /\ sessions[n].current \in Nat
         /\ profile \in ProfileRow /\ profile.revision \in Nat /\ profile.portrait \in Int /\ profile.cleared \in Nat
         /\ profile.total \in Nat /\ profile.correct \in Nat /\ profile.version \in Nat
         /\ \A p \in Pages : /\ pages[p] \in PageRow /\ pages[p].session \in Nat /\ pages[p].exercise \in Nat
                              /\ pages[p].seen \in Nat /\ pages[p].recent \subseteq Nat /\ pages[p].correct \in BOOLEAN
                              /\ pages[p].profile \in ProfileRow /\ pages[p].profile.revision \in Nat
<1>1. /\ Len(sessions) \in Nat /\ DOMAIN sessions = 1..Len(sessions) /\ Len(answers) \in Nat
      /\ \A n \in 1..Len(sessions) : sessions[n] \in SessionRow
  BY DEF RecordTyped
<1>2. profile \in ProfileRow /\ \A p \in Pages : pages[p] \in PageRow
  BY DEF RecordTyped
<1>3. \A n \in 1..Len(sessions) : sessions[n].current \in Nat
  BY <1>1 DEF SessionRow
<1>4. /\ profile.revision \in Nat /\ profile.portrait \in Int /\ profile.cleared \in Nat
      /\ profile.total \in Nat /\ profile.correct \in Nat /\ profile.version \in Nat
  BY <1>2 DEF ProfileRow
<1>5. \A p \in Pages : /\ pages[p].session \in Nat /\ pages[p].exercise \in Nat
                       /\ pages[p].seen \in Nat /\ pages[p].recent \subseteq Nat /\ pages[p].correct \in BOOLEAN
                       /\ pages[p].profile \in ProfileRow
  BY <1>2 DEF PageRow
<1>6. \A p \in Pages : pages[p].profile.revision \in Nat
  BY <1>5 DEF ProfileRow
<1> QED BY <1>1, <1>2, <1>3, <1>4, <1>5, <1>6

\* The session of the page is given another exercise, or none.
LEMMA SessionChanges ==
  ASSUME RecordTyped, NEW n \in 1..Len(sessions), NEW x \in Nat, NEW fresh \in BOOLEAN,
         Record!UpdateSessionCurrentContent(n, x, fresh)
  PROVE  /\ sessions' \in Seq(SessionRow) /\ Len(sessions') = Len(sessions)
         /\ sessions'[n].current = x /\ sessions'[n].fresh = fresh
<1>1. Record!Session(x, fresh) \in SessionRow /\ Record!Session(x, fresh).current = x /\ Record!Session(x, fresh).fresh = fresh
  BY DEF Record!Session, SessionRow
<1>2. sessions' = [sessions EXCEPT ![n] = Record!Session(x, fresh)] /\ sessions \in Seq(SessionRow)
  BY DEF Record!UpdateSessionCurrentContent, RecordTyped
<1>3. sessions' \in Seq(SessionRow) /\ Len(sessions') = Len(sessions) /\ sessions'[n] = Record!Session(x, fresh)
  BY <1>1, <1>2, ExceptSeq
<1> QED BY <1>1, <1>3

\* What is pending is shown again, or given up.
LEMMA CheckHolds ==
  ASSUME RecordInv, NEW p \in Pages, Record!CheckCurrent(p)
  PROVE  RecordInv'
<1>0. RecordTyped /\ PageFits(p)
  BY DEF RecordInv
<1>1. UNCHANGED <<offered, answers, estimates, practices, profile, tracker>> /\ pages[p].phase = "checking"
  BY DEF Record!CheckCurrent, Record!bankVars, Record!learnedVars, Record!At
<1>2. tracker' \in Pages \cup {"free"} /\ offered' \subseteq Pool /\ profile' \in ProfileRow
  BY <1>1 DEF RecordInv, RecordTyped
<1>3. CASE Record!Pending(pages[p].exercise)
  <2>1. Record!Rests(p) /\ sessions' = sessions
    BY <1>3 DEF Record!CheckCurrent
  <2>2. Record!NoPage \in PageRow
    BY RecordRows DEF Record!NoPage, PagePhases
  <2>3. PageFits(p)'
    BY <2>1, <1>0, <1>1, RestFits
  <2> QED BY <2>1, <2>2, <2>3, <1>1, <1>2, ReaderHolds DEF Record!Rests
<1>4. CASE ~Record!Pending(pages[p].exercise)
  <2> DEFINE n == pages[p].session
             request == [pages[p] EXCEPT !.phase = "recalling", !.exercise = 0]
  <2>1. n \in 1..Len(sessions)
    BY <1>0, <1>1 DEF PageFits
  <2>2. Record!UpdateSessionCurrentContent(n, 0, TRUE) /\ Record!Goes(p, request)
    BY <1>4 DEF Record!CheckCurrent
  <2>3. sessions' \in Seq(SessionRow) /\ Len(sessions') = Len(sessions) /\ sessions'[n].current = 0
    BY <1>0, <2>1, <2>2, SessionChanges
  <2>4. /\ request \in PageRow /\ request.phase = "recalling" /\ request.seen = pages[p].seen /\ request.session = n
    BY <1>0, RowsOfRecord DEF PageRow, PagePhases
  <2> HIDE DEF request
  <2>5. pages'[p] = request
    BY <2>2 DEF RecordInv, RecordTyped, Record!Goes
  <2>6. PageFits(p)'
    BY <2>1, <2>3, <2>4, <2>5, <1>0, <1>1 DEF PageFits
  <2>7. Record!PendingIsFresh'
    <3>1. Len(sessions') = 1 => sessions'[1].current = 0
      BY <2>1, <2>3, <1>0, RowsOfRecord
    <3> QED BY <3>1, <1>0, <1>1, PendingRests DEF RecordInv
  <2>8. PortraitFits'
    BY <1>1 DEF RecordInv, PortraitFits
  <2>9. Len(sessions') >= Len(sessions)
    BY <2>3, <1>0, RowsOfRecord
  <2> QED BY <1>1, <1>2, <2>2, <2>3, <2>4, <2>6, <2>7, <2>8, <2>9, RequestHolds
<1> QED BY <1>3, <1>4

\* The newest answers are read.
LEMMA RecallHolds ==
  ASSUME RecordInv, NEW p \in Pages, Record!Recall(p)
  PROVE  RecordInv'
<1>0. RecordTyped /\ PageFits(p)
  BY DEF RecordInv
<1>1. UNCHANGED <<offered, answers, estimates, practices, profile, sessions, tracker>> /\ pages[p].phase = "recalling"
  BY DEF Record!Recall, Record!bankVars, Record!learnedVars, Record!At
<1>2. tracker' \in Pages \cup {"free"}
  BY <1>1 DEF RecordInv, RecordTyped
<1>3. CASE enrolled
  <2> DEFINE request == [pages[p] EXCEPT !.phase = "choosing", !.recent = Record!ListRecentContentIDs, !.seen = Len(answers)]
  <2>1. Record!Goes(p, request)
    BY <1>3 DEF Record!Recall
  <2>2. Record!ListRecentContentIDs \subseteq Nat
    BY <1>0, AnswersTyped, RecordAssumption DEF Record!ListRecentContentIDs, Record!ClassAnswers
  <2>3. /\ request \in PageRow /\ request.phase = "choosing" /\ request.seen = Len(answers) /\ request.session = pages[p].session
        /\ request.recent = Record!ListRecentContentIDs
    BY <1>0, <2>2, RowsOfRecord DEF PageRow, PagePhases
  <2> HIDE DEF request
  <2>4. pages'[p] = request
    BY <2>1 DEF RecordInv, RecordTyped, Record!Goes
  <2>5. Record!ListRecentContentIDs' = Record!ListRecentContentIDs
    BY <1>1 DEF Record!ListRecentContentIDs, Record!ClassAnswers, Record!Newest
  <2>6. PageFits(p)'
    BY <2>3, <2>4, <2>5, <1>0, <1>1, RowsOfRecord DEF PageFits
  <2> QED BY <2>1, <2>3, <2>6, <1>1, <1>2, ReaderHolds
<1>4. CASE ~enrolled
  <2>1. Record!Rests(p) /\ Record!NoPage \in PageRow
    BY <1>4, RecordRows DEF Record!Recall, Record!NoPage, PagePhases
  <2> QED BY <2>1, <1>0, <1>1, <1>2, RestFits, ReaderHolds DEF Record!Rests
<1> QED BY <1>3, <1>4

\* An exercise is chosen that is not among the newest answers.
LEMMA ChooseHolds ==
  ASSUME RecordInv, NEW p \in Pages, NEW concept, NEW level, Record!Choose(p, concept, level)
  PROVE  RecordInv'
<1>0. RecordTyped /\ PageFits(p) /\ offered \subseteq Pool
  BY DEF RecordInv, RecordTyped
<1>1. UNCHANGED <<offered, answers, estimates, practices, profile, sessions, tracker>> /\ pages[p].phase = "choosing"
  BY DEF Record!Choose, Record!bankVars, Record!learnedVars, Record!At
<1>2. tracker' \in Pages \cup {"free"}
  BY <1>1 DEF RecordInv, RecordTyped
<1> DEFINE near == Record!ListCandidateExercises(pages[p].recent, {level})
           candidates == IF near = {} THEN Record!ListCandidateExercises(pages[p].recent, Levels) ELSE near
<1>3. candidates \subseteq Pool \ pages[p].recent
  BY <1>0 DEF Record!ListCandidateExercises
<1>4. CASE candidates = {}
  <2>1. Record!Rests(p) /\ Record!NoPage \in PageRow
    BY <1>4, RecordRows DEF Record!Choose, Record!NoPage, PagePhases
  <2> QED BY <2>1, <1>0, <1>1, <1>2, RestFits, ReaderHolds DEF Record!Rests
<1>5. CASE candidates # {}
  <2> DEFINE preferred == Record!preferConcept(candidates, concept)
             x == Record!selectExercise(preferred)
             request == [pages[p] EXCEPT !.phase = "offering", !.exercise = x]
  <2>1. Record!Goes(p, request)
    BY <1>5 DEF Record!Choose
  <2>2. preferred \subseteq candidates /\ preferred # {}
    BY <1>5 DEF Record!preferConcept
  <2>3. x \in preferred
    <3>1. preferred \in SUBSET Nat
      BY <2>2, <1>3, RecordAssumption
    <3>2. PICK y \in preferred : \A z \in preferred : y <= z
      BY <3>1, <2>2, LeastNumber
    <3> QED BY <3>2 DEF Record!selectExercise
  <2>4. x \in Pool \ pages[p].recent /\ x \in Nat
    BY <2>2, <2>3, <1>3, RecordAssumption
  <2> HIDE DEF x
  <2>5. /\ request \in PageRow /\ request.phase = "offering" /\ request.seen = pages[p].seen /\ request.session = pages[p].session
        /\ request.recent = pages[p].recent /\ request.exercise = x
    BY <1>0, <2>4, RowsOfRecord DEF PageRow, PagePhases
  <2> HIDE DEF request
  <2>6. pages'[p] = request
    BY <2>1 DEF RecordInv, RecordTyped, Record!Goes
  <2>7. Record!ListRecentContentIDs' = Record!ListRecentContentIDs
    BY <1>1 DEF Record!ListRecentContentIDs, Record!ClassAnswers, Record!Newest
  <2>8. PageFits(p)'
    BY <2>4, <2>5, <2>6, <2>7, <1>0, <1>1 DEF PageFits
  <2> QED BY <2>1, <2>5, <2>8, <1>1, <1>2, ReaderHolds
<1> QED BY <1>4, <1>5

\* It becomes the pending one.
LEMMA OfferHolds ==
  ASSUME RecordInv, NEW p \in Pages, Record!Offer(p)
  PROVE  RecordInv'
<1>0. RecordTyped /\ PageFits(p)
  BY DEF RecordInv
<1>1. UNCHANGED <<offered, answers, estimates, practices, profile, tracker>> /\ pages[p].phase = "offering"
  BY DEF Record!Offer, Record!bankVars, Record!learnedVars, Record!At
<1>2. tracker' \in Pages \cup {"free"} /\ offered' \subseteq Pool /\ profile' \in ProfileRow
  BY <1>1 DEF RecordInv, RecordTyped
<1> DEFINE n == pages[p].session
           x == pages[p].exercise
<1>3. n \in 1..Len(sessions) /\ x \in Pool \ pages[p].recent /\ x \in Nat
  BY <1>0, <1>1, RecordAssumption DEF PageFits
<1>4. Record!UpdateSessionCurrentContent(n, x, pages[p].seen = Len(answers)) /\ Record!Rests(p) /\ Record!NoPage \in PageRow
  BY RecordRows DEF Record!Offer, Record!NoPage, PagePhases
<1>5. PICK fresh \in BOOLEAN : fresh = (pages[p].seen = Len(answers))
  OBVIOUS
<1>6. /\ sessions' \in Seq(SessionRow) /\ Len(sessions') = Len(sessions)
      /\ sessions'[n].current = x /\ sessions'[n].fresh = fresh
  BY <1>0, <1>3, <1>4, <1>5, SessionChanges, ZenonT(30)
<1>7. Record!PendingIsFresh'
  <2>1. Record!ListRecentContentIDs' = Record!ListRecentContentIDs
    BY <1>1 DEF Record!ListRecentContentIDs, Record!ClassAnswers, Record!Newest
  <2>2. fresh => pages[p].recent = Record!ListRecentContentIDs
    BY <1>0, <1>1, <1>5 DEF PageFits
  <2>3. Len(sessions') = 1 => n = 1
    BY <1>3, <1>6
  <2> QED BY <2>1, <2>2, <2>3, <1>3, <1>6 DEF Record!PendingIsFresh
<1>8. PortraitFits' /\ PageFits(p)'
  BY <1>0, <1>1, <1>4, RestFits DEF RecordInv, PortraitFits
<1>9. Len(sessions') >= Len(sessions)
  BY <1>6, <1>0, RowsOfRecord
<1> QED BY <1>1, <1>2, <1>4, <1>6, <1>7, <1>8, <1>9, RequestHolds DEF Record!Rests

\* A chat is opened.
LEMMA OpenHolds ==
  ASSUME RecordInv, Record!OpenChat
  PROVE  RecordInv'
<1>0. RecordTyped /\ sessions \in Seq(SessionRow) /\ Record!Blank \in SessionRow
  BY RecordRows DEF RecordInv, RecordTyped
<1>1. /\ UNCHANGED <<offered, answers, estimates, practices, profile, pages, tracker>>
      /\ Len(sessions) = 1 /\ sessions' = Append(sessions, Record!Blank)
  BY DEF Record!OpenChat, Record!bankVars, Record!learnedVars
<1>2. sessions' \in Seq(SessionRow) /\ Len(sessions') = 2
  <2>1. sessions' \in Seq(SessionRow) /\ Len(sessions') = Len(sessions) + 1
    BY <1>0, <1>1, AppendProperties
  <2> QED BY <2>1, <1>1
<1>3. RecordTyped'
  BY <1>0, <1>1, <1>2 DEF RecordTyped
<1>4. Record!CountersAgree' /\ Record!PendingIsFresh' /\ PortraitFits'
  BY <1>0, <1>1, <1>2, CountersRest, PendingRests DEF RecordInv, PortraitFits
<1>5. ASSUME NEW q \in Pages PROVE PageFits(q)'
  <2>1. PageFits(q) /\ profile \in ProfileRow /\ Len(sessions') >= Len(sessions)
    BY <1>1, <1>2, <1>0, RowsOfRecord DEF RecordInv
  <2> QED BY <2>1, <1>0, <1>1, <1>2, OthersFit
<1> QED BY <1>3, <1>4, <1>5 DEF RecordInv

\* The exercises of the teacher, the day's and the class: nothing of the record changes.
LEMMA BankHolds ==
  ASSUME RecordInv, offered' \subseteq offered,
         UNCHANGED <<answers, estimates, practices, profile, sessions, pages, tracker>>
  PROVE  RecordInv'
<1>1. RecordTyped'
  BY DEF RecordInv, RecordTyped
<1>2. Record!CountersAgree' /\ Record!PendingIsFresh' /\ PortraitFits'
  BY CountersRest, PendingRests DEF RecordInv, PortraitFits
<1>3. ASSUME NEW q \in Pages PROVE PageFits(q)'
  <2>1. Record!ListRecentContentIDs' = Record!ListRecentContentIDs
    BY DEF Record!ListRecentContentIDs, Record!ClassAnswers, Record!Newest
  <2> QED BY <2>1 DEF RecordInv, PageFits
<1> QED BY <1>1, <1>2, <1>3 DEF RecordInv

\* A submission has the lock, and reads what it will write back.
LEMMA SubmitHolds ==
  ASSUME RecordInv, NEW p \in Pages, NEW x \in Pool, NEW correct \in BOOLEAN, Record!SubmitExercise(p, x, correct)
  PROVE  RecordInv'
<1>0. RecordTyped /\ estimates \in [Record!Tracked -> EstimateRow] /\ x \in Nat
  BY RecordAssumption DEF RecordInv, RecordTyped
<1>1. UNCHANGED <<offered, answers, estimates, practices, profile, sessions>> /\ tracker = "free" /\ tracker' = p
  BY DEF Record!SubmitExercise, Record!bankVars, Record!learnedVars, Record!LockStudentTracking
<1> DEFINE read == [profile EXCEPT !.exists = TRUE]
           request == [Record!Page("tracking") EXCEPT !.exercise = x, !.correct = correct, !.profile = read,
                                            !.estimates = estimates]
<1>2. Record!Goes(p, request)
  BY DEF Record!SubmitExercise
<1>3. /\ read \in ProfileRow /\ read.total = profile.total /\ read.correct = profile.correct
  BY <1>0, RowsOfRecord DEF ProfileRow
<1> HIDE DEF read
<1>4. Record!Page("tracking") \in PageRow /\ Record!Page("tracking").phase = "tracking" /\ Record!Page("tracking").seen = 0
  BY RecordRows DEF PagePhases
<1>5. /\ request \in PageRow /\ request.phase = "tracking" /\ request.seen = 0 /\ request.exercise = x
      /\ request.profile = read /\ request.estimates = estimates
  BY <1>0, <1>3, <1>4 DEF PageRow
<1> HIDE DEF request
<1>6. pages'[p] = request
  BY <1>2 DEF RecordInv, RecordTyped, Record!Goes
<1>7. PageFits(p)'
  BY <1>0, <1>1, <1>3, <1>5, <1>6, RowsOfRecord DEF PageFits
<1> QED BY <1>1, <1>2, <1>5, <1>7, ReaderHolds

\* It fails.
LEMMA AbandonHolds ==
  ASSUME RecordInv, NEW p \in Pages, Record!AbandonAnswer(p)
  PROVE  RecordInv'
<1>0. RecordTyped /\ tracker = p
  BY DEF RecordInv, Record!AbandonAnswer, Record!At, PageFits
<1>1. /\ UNCHANGED <<offered, answers, estimates, practices, profile, sessions>> /\ tracker' = "free"
      /\ Record!Rests(p) /\ Record!NoPage \in PageRow
  BY RecordRows DEF Record!AbandonAnswer, Record!bankVars, Record!NoPage, PagePhases
<1> QED BY <1>0, <1>1, RestFits, ReaderHolds DEF Record!Rests

\* What a portrait will tell is counted: the answers of now.
LEMMA MeasureHolds ==
  ASSUME RecordInv, NEW p \in Pages, Record!MeasureActivity(p)
  PROVE  RecordInv'
<1>0. RecordTyped /\ PageFits(p) /\ PortraitFits /\ tracker \in Pages \cup {"free"}
  BY DEF RecordInv, RecordTyped
<1>1. UNCHANGED <<offered, answers, estimates, practices, profile, sessions, tracker>> /\ pages[p].phase = "measuring"
  BY DEF Record!MeasureActivity, Record!bankVars, Record!learnedVars, Record!At
<1> DEFINE request == [pages[p] EXCEPT !.phase = "writing", !.seen = Len(answers)]
<1>2. Record!Goes(p, request)
  BY DEF Record!MeasureActivity
<1>3. request \in PageRow /\ request.phase = "writing" /\ request.seen = Len(answers) /\ request.profile = pages[p].profile
  BY <1>0, RowsOfRecord DEF PageRow, PagePhases
<1> HIDE DEF request
<1>4. pages'[p] = request
  BY <1>2 DEF RecordInv, RecordTyped, Record!Goes
<1>5. PageFits(p)'
  BY <1>0, <1>1, <1>3, <1>4, RowsOfRecord DEF PageFits, PortraitFits
<1> QED BY <1>0, <1>1, <1>2, <1>3, <1>5, ReaderHolds

\* A portrait is asked for, or its removal.
LEMMA BeginHolds ==
  ASSUME RecordInv, NEW p \in Pages, NEW phase \in {"measuring", "clearing"}, Record!BeginPortrait(p, phase)
  PROVE  RecordInv'
<1>0. RecordTyped /\ PageFits(p) /\ PortraitFits /\ tracker \in Pages \cup {"free"} /\ offered \subseteq Pool
      /\ sessions \in Seq(SessionRow)
  BY DEF RecordInv, RecordTyped
<1>1. UNCHANGED <<offered, answers, estimates, practices, sessions, tracker>>
      /\ profile' = [profile EXCEPT !.exists = TRUE]
  BY DEF Record!BeginPortrait, Record!bankVars, Record!ensureProfile
<1>2. /\ profile' \in ProfileRow /\ profile'.total = profile.total /\ profile'.correct = profile.correct
      /\ profile'.revision = profile.revision /\ profile'.portrait = profile.portrait
      /\ profile'.cleared = profile.cleared
  BY <1>0, <1>1, RowsOfRecord DEF ProfileRow
<1> DEFINE request == [Record!Page(phase) EXCEPT !.profile = profile']
<1>3. Record!Page(phase) \in PageRow /\ Record!Page(phase).phase = phase /\ Record!Page(phase).seen = 0
  BY RecordRows DEF PagePhases
<1>4. request \in PageRow /\ request.phase = phase /\ request.seen = 0 /\ request.profile = profile'
  BY <1>2, <1>3 DEF PageRow
<1>5. Record!Goes(p, request)
  BY DEF Record!BeginPortrait
<1> HIDE DEF request
<1>6. pages'[p] = request
  BY <1>5 DEF RecordInv, RecordTyped, Record!Goes
<1>7. PageFits(p)'
  <2>1. pages'[p].phase = phase /\ pages'[p].seen = 0 /\ pages'[p].profile.revision = profile'.revision
    BY <1>4, <1>6
  <2>2. profile'.revision \in Nat /\ Len(answers') \in Nat
    BY <1>0, <1>1, <1>2, RowsOfRecord
  <2> QED BY <2>1, <2>2 DEF PageFits
<1>8. Record!PendingIsFresh' /\ PortraitFits'
  BY <1>0, <1>1, <1>2, PendingRests DEF RecordInv, PortraitFits
<1>9. Len(sessions') >= Len(sessions)
  BY <1>0, <1>1, RowsOfRecord
<1> QED BY <1>0, <1>1, <1>2, <1>4, <1>5, <1>7, <1>8, <1>9, RequestHolds

\* A portrait is written, or removed, over the one that was found.
LEMMA WriteHolds ==
  ASSUME RecordInv, NEW p \in Pages, Record!SavePortrait(p) \/ Record!ClearPortrait(p)
  PROVE  RecordInv' /\ (profile'.portrait \notin {profile.portrait, Record!NoPortrait} =>
                          profile'.portrait >= profile.portrait /\ profile'.portrait >= profile.cleared)
<1>0. RecordTyped /\ PageFits(p) /\ PortraitFits /\ tracker \in Pages \cup {"free"} /\ offered \subseteq Pool
      /\ sessions \in Seq(SessionRow)
  BY DEF RecordInv, RecordTyped
<1>1. UNCHANGED <<offered, answers, estimates, practices, sessions, tracker>> /\ Record!Rests(p) /\ Record!NoPage \in PageRow
  BY RecordRows DEF Record!SavePortrait, Record!ClearPortrait, Record!bankVars, Record!NoPage, PagePhases
<1>2. /\ profile' \in ProfileRow /\ profile'.total = profile.total /\ profile'.correct = profile.correct
      /\ profile'.portrait <= Len(answers) /\ profile'.cleared <= Len(answers)
      /\ \/ profile' = profile
         \/ /\ profile'.revision = profile.revision + 1
            /\ profile'.portrait # Record!NoPortrait =>
                 profile'.portrait >= profile.portrait /\ profile'.portrait >= profile.cleared
  <2>0. /\ profile \in ProfileRow /\ profile.version + 1 \in Nat /\ profile.revision + 1 \in Nat
        /\ pages[p].seen \in Nat /\ pages[p].seen \in Int /\ Len(answers) \in Nat /\ Record!NoPortrait \in Int
    BY <1>0, RowsOfRecord, RecordRows
  <2>1. CASE ~Record!Expected(p)
    <3>1. profile' = profile
      BY <2>1 DEF Record!SavePortrait, Record!ClearPortrait
    <3> QED BY <3>1, <1>0, RowsOfRecord DEF PortraitFits
  <2>2. CASE Record!Expected(p) /\ Record!SavePortrait(p)
    <3>1. profile' = [profile EXCEPT !.portrait = pages[p].seen, !.version = @ + 1, !.revision = @ + 1]
      BY <2>2 DEF Record!SavePortrait
    <3>2. /\ profile' \in ProfileRow /\ profile'.total = profile.total /\ profile'.correct = profile.correct
          /\ profile'.portrait = pages[p].seen /\ profile'.cleared = profile.cleared
          /\ profile'.revision = profile.revision + 1
      BY <3>1, <2>0 DEF ProfileRow
    <3>3. /\ pages[p].seen <= Len(answers) /\ pages[p].seen >= profile.portrait /\ pages[p].seen >= profile.cleared
      BY <2>2, <1>0 DEF Record!SavePortrait, Record!At, Record!Expected, PageFits
    <3> QED BY <3>2, <3>3, <1>0 DEF PortraitFits
  <2>3. CASE Record!Expected(p) /\ Record!ClearPortrait(p)
    <3>1. profile' = [profile EXCEPT !.portrait = Record!NoPortrait, !.version = 0, !.revision = @ + 1,
                                     !.cleared = Len(answers)]
      BY <2>3 DEF Record!ClearPortrait
    <3>2. /\ profile' \in ProfileRow /\ profile'.total = profile.total /\ profile'.correct = profile.correct
          /\ profile'.portrait = Record!NoPortrait /\ profile'.cleared = Len(answers)
          /\ profile'.revision = profile.revision + 1
      BY <3>1, <2>0 DEF ProfileRow
    <3> QED BY <3>2, <1>0, RowsOfRecord, RecordRows
  <2> QED BY <2>1, <2>2, <2>3
<1>3. Record!PendingIsFresh' /\ PortraitFits' /\ PageFits(p)'
  BY <1>0, <1>1, <1>2, PendingRests, RestFits DEF RecordInv, PortraitFits
<1>4. Len(sessions') >= Len(sessions)
  BY <1>0, <1>1, RowsOfRecord
<1>5. RecordInv'
  BY <1>0, <1>1, <1>2, <1>3, <1>4, RequestHolds DEF Record!Rests
<1> QED BY <1>2, <1>5

\* A practice plan counts from what was counted.
LEMMA StartHolds ==
  ASSUME RecordInv, NEW c \in Concepts, Record!StartPortraitAction(c)
  PROVE  RecordInv'
<1>0. RecordTyped /\ Record!CountersAgree /\ c \in Record!Tracked /\ practices \in [Concepts -> Int]
      /\ estimates \in [Record!Tracked -> EstimateRow]
  BY DEF RecordInv, RecordTyped, Record!Tracked
<1>1. UNCHANGED <<offered, answers, estimates, profile, sessions, pages, tracker>>
  BY DEF Record!StartPortraitAction, Record!bankVars
<1>2. estimates[c] \in EstimateRow /\ estimates[c].attempts \in Int
  BY <1>0 DEF EstimateRow
<1>3. PICK n \in Int : n \in {practices[c], estimates[c].attempts} /\ practices' = [practices EXCEPT ![c] = n]
  BY <1>0, <1>2 DEF Record!StartPortraitAction
<1>4. practices' \in [Concepts -> Int] /\ \A d \in Concepts : practices'[d] <= estimates[d].attempts
  BY <1>0, <1>2, <1>3 DEF Record!CountersAgree
<1>5. RecordTyped'
  BY <1>1, <1>4 DEF RecordInv, RecordTyped
<1>6. Record!CountersAgree'
  <2>1. Record!Correct' = Record!Correct /\ \A d \in Record!Tracked : Record!About(d)' = Record!About(d)
    BY <1>1 DEF Record!Correct, Record!About
  <2>2. \A d \in Record!Tracked : Record!SequenceOf(d)' = Record!SequenceOf(d)
    BY <2>1 DEF Record!SequenceOf
  <2>3. ASSUME NEW d \in Record!Tracked
        PROVE  (/\ estimates[d].attempts = Cardinality(Record!About(d))
                /\ estimates[d].correct = Cardinality(Record!About(d) \cap Record!Correct)
                /\ estimates[d].sequence = Record!SequenceOf(d))'
    BY <2>1, <2>2, <1>0, <1>1, RecordCounts DEF Record!CountersAgree
  <2>4. (profile.total = Len(answers) /\ profile.correct = Cardinality(Record!Correct))'
    BY <2>1, <1>0, <1>1, RecordCounts DEF Record!CountersAgree
  <2>5. (\A d \in Concepts : practices[d] <= estimates[d].attempts)'
    BY <1>1, <1>4
  <2> QED BY <2>3, <2>4, <2>5, RecordCounts DEF Record!CountersAgree
<1>7. Record!PendingIsFresh' /\ PortraitFits'
  BY <1>0, <1>1, PendingRests DEF RecordInv, PortraitFits
<1>8. ASSUME NEW q \in Pages PROVE PageFits(q)'
  <2>1. Record!ListRecentContentIDs' = Record!ListRecentContentIDs
    BY <1>1 DEF Record!ListRecentContentIDs, Record!ClassAnswers, Record!Newest
  <2> QED BY <1>1, <2>1 DEF RecordInv, PageFits
<1> QED BY <1>5, <1>6, <1>7, <1>8 DEF RecordInv

-----------------------------------------------------------------------------
\* The numbers of the answers are finite, however they are chosen.
LEMMA AnswersAreFinite ==
  ASSUME RecordTyped, NEW S, S \subseteq DOMAIN answers
  PROVE  IsFiniteSet(S) /\ Cardinality(S) \in Nat
<1>1. IsFiniteSet(DOMAIN answers)
  BY AnswersTyped, FS_Interval
<1>2. IsFiniteSet(S)
  BY <1>1, FS_Subset
<1> QED BY <1>2, FS_CardinalityType

\* One more in a set, or not.
LEMMA OneMore ==
  ASSUME NEW S, IsFiniteSet(S), NEW n, n \notin S, NEW b \in BOOLEAN
  PROVE  Cardinality(IF b THEN S \cup {n} ELSE S) = Record!Counted(Cardinality(S), b)
<1>1. Cardinality(S) \in Nat
  BY FS_CardinalityType
<1>2. Cardinality(S \cup {n}) = Cardinality(S) + 1
  BY FS_AddElement
<1> QED BY <1>1, <1>2 DEF Record!Counted

\* An answer more.
LEMMA OneAnswerMore ==
  ASSUME RecordTyped, NEW row \in AnswerRow, answers' = Append(answers, row)
  PROVE  LET n == Len(answers) + 1 IN
         /\ answers' \in Seq(AnswerRow) /\ Len(answers') = n /\ DOMAIN answers' = DOMAIN answers \cup {n}
         /\ n \notin DOMAIN answers /\ n \in Nat /\ answers'[n] = row
         /\ \A i \in DOMAIN answers : answers'[i] = answers[i]
         /\ \A i \in DOMAIN answers : i <= Len(answers) /\ i \in Nat
<1>1. answers \in Seq(AnswerRow) /\ Len(answers) \in Nat /\ DOMAIN answers = 1..Len(answers)
  BY DEF RecordTyped
<1>2. answers' \in Seq(AnswerRow) /\ Len(answers') = Len(answers) + 1 /\ answers'[Len(answers) + 1] = row
      /\ \A i \in 1..Len(answers) : answers'[i] = answers[i]
  BY <1>1, AppendProperties
<1>3. DOMAIN answers' = 1..(Len(answers) + 1)
  BY <1>2
<1> QED BY <1>1, <1>2, <1>3

\* An answer is recorded: what was read under the lock, and one more.
LEMMA RecordHoldsCounts ==
  ASSUME RecordInv, NEW p \in Pages, Record!RecordAnswer(p)
  PROVE  Record!CountersAgree'
<1> DEFINE x == pages[p].exercise
           right == pages[p].correct
           row == [exercise |-> x, correct |-> right]
           n == Len(answers) + 1
<1>0. RecordTyped /\ PageFits(p) /\ Record!CountersAgree /\ estimates \in [Record!Tracked -> EstimateRow] /\ pages[p].phase = "tracking"
  BY DEF RecordInv, RecordTyped, Record!RecordAnswer, Record!At
<1>1. /\ x \in Pool /\ pages[p].estimates = estimates /\ right \in BOOLEAN
      /\ pages[p].profile.total = profile.total /\ pages[p].profile.correct = profile.correct
  BY <1>0, RowsOfRecord DEF PageFits
<1>2. /\ row \in AnswerRow /\ row.exercise = x /\ row.correct = right
      /\ answers' = Append(answers, row) /\ practices' = practices
  BY <1>1 DEF Record!RecordAnswer, AnswerRow
<1> HIDE DEF row
<1>3. /\ Len(answers') = n /\ DOMAIN answers' = DOMAIN answers \cup {n}
      /\ n \notin DOMAIN answers /\ n \in Nat /\ answers'[n] = row
      /\ \A i \in DOMAIN answers : answers'[i] = answers[i]
      /\ \A i \in DOMAIN answers : i <= Len(answers) /\ i \in Nat
      /\ Len(answers) \in Nat
  BY <1>0, <1>2, OneAnswerMore, RowsOfRecord
<1> HIDE DEF n
<1>4. Record!Correct' = (IF right THEN Record!Correct \cup {n} ELSE Record!Correct)
  BY <1>1, <1>2, <1>3 DEF Record!Correct
<1>5. ASSUME NEW c \in Record!Tracked
      PROVE  Record!About(c)' = (IF c \in Record!trackedConceptIDs(x) THEN Record!About(c) \cup {n} ELSE Record!About(c))
  BY <1>2, <1>3 DEF Record!About
<1>6. IsFiniteSet(Record!Correct) /\ n \notin Record!Correct
  BY <1>0, <1>3, AnswersAreFinite DEF Record!Correct
<1>7. profile'.total = profile.total + 1 /\ profile'.correct = Record!Counted(profile.correct, right)
  <2>1. profile' = [profile EXCEPT !.exists = TRUE, !.total = pages[p].profile.total + 1,
                                   !.correct = Record!Counted(pages[p].profile.correct, right)]
    BY DEF Record!RecordAnswer, Record!UpdateProfileTracking
  <2> QED BY <2>1, <1>0, <1>1, RowsOfRecord DEF ProfileRow
<1>8. profile'.total = Len(answers') /\ profile'.correct = Cardinality(Record!Correct')
  <2>1. Cardinality(Record!Correct') = Record!Counted(Cardinality(Record!Correct), right)
    BY <1>1, <1>4, <1>6, OneMore
  <2> QED BY <2>1, <1>0, <1>3, <1>7, RecordCounts DEF Record!CountersAgree, n
<1>9. \A c \in Record!Tracked : estimates'[c] = IF c \in Record!trackedConceptIDs(x) THEN Record!dktUpdate(estimates[c], right) ELSE estimates[c]
  BY <1>1 DEF Record!RecordAnswer, Record!UpsertDKTStates
<1>10. ASSUME NEW c \in Record!Tracked
       PROVE  /\ (/\ estimates[c].attempts = Cardinality(Record!About(c))
                  /\ estimates[c].correct = Cardinality(Record!About(c) \cap Record!Correct)
                  /\ estimates[c].sequence = Record!SequenceOf(c))'
              /\ estimates'[c].attempts >= estimates[c].attempts
  <2>0. /\ estimates[c].attempts = Cardinality(Record!About(c)) /\ estimates[c].correct = Cardinality(Record!About(c) \cap Record!Correct)
        /\ estimates[c].sequence = Record!SequenceOf(c)
    BY <1>0, RecordCounts DEF Record!CountersAgree
  <2>1. /\ IsFiniteSet(Record!About(c)) /\ IsFiniteSet(Record!About(c) \cap Record!Correct) /\ n \notin Record!About(c)
        /\ Cardinality(Record!About(c)) \in Nat /\ Record!About(c) \subseteq DOMAIN answers
    <3>1. Record!About(c) \subseteq DOMAIN answers /\ Record!About(c) \cap Record!Correct \subseteq DOMAIN answers
      BY DEF Record!About
    <3> QED BY <3>1, <1>0, <1>3, AnswersAreFinite
  <2>2. CASE c \notin Record!trackedConceptIDs(x)
    <3>1. Record!About(c)' = Record!About(c) /\ estimates'[c] = estimates[c]
      BY <2>2, <1>5, <1>9
    <3>2. Record!About(c) \cap Record!Correct' = Record!About(c) \cap Record!Correct
      BY <1>4, <2>1
    <3>3. Record!SequenceOf(c)' = Record!SequenceOf(c)
      BY <3>1 DEF Record!SequenceOf
    <3> QED BY <2>0, <2>1, <3>1, <3>2, <3>3
  <2>3. CASE c \in Record!trackedConceptIDs(x)
    <3>1. Record!About(c)' = Record!About(c) \cup {n} /\ estimates'[c] = Record!dktUpdate(estimates[c], right)
      BY <2>3, <1>5, <1>9
    <3>2. Cardinality(Record!About(c)') = Cardinality(Record!About(c)) + 1
      BY <3>1, <2>1, FS_AddElement
    <3>3. (Record!About(c) \cap Record!Correct)' = (IF right THEN (Record!About(c) \cap Record!Correct) \cup {n} ELSE Record!About(c) \cap Record!Correct)
      BY <3>1, <1>4, <1>6, <2>1
    <3>4. Cardinality((Record!About(c) \cap Record!Correct)') = Record!Counted(Cardinality(Record!About(c) \cap Record!Correct), right)
      <4>1. n \notin Record!About(c) \cap Record!Correct
        BY <2>1
      <4> QED BY <3>3, <4>1, <1>1, <2>1, OneMore, ZenonT(30)
    <3>5. Record!Max(Record!About(c)') = n
      <4>1. n \in Record!About(c)' /\ \A i \in Record!About(c)' : i \in Nat /\ i <= n
        BY <3>1, <2>1, <1>3 DEF n
      <4> QED BY <4>1, <1>3, GreatestNumber
    <3>6. Record!SequenceOf(c)' = IF n < SequenceLimit THEN n ELSE SequenceLimit
      <4>1. Record!About(c)' # {}
        BY <3>1
      <4> QED BY <3>5, <4>1 DEF Record!SequenceOf
    <3>7. Record!buildDKTSequence = IF n < SequenceLimit THEN n ELSE SequenceLimit
      BY <1>3, RecordAssumption DEF Record!buildDKTSequence, Record!ListRecentInteractions, n
    <3>8. /\ estimates'[c].attempts = estimates[c].attempts + 1
          /\ estimates'[c].correct = Record!Counted(estimates[c].correct, right)
          /\ estimates'[c].sequence = Record!buildDKTSequence
      BY <3>1 DEF Record!dktUpdate
    <3>9. estimates'[c].attempts = Cardinality(Record!About(c)') /\ estimates'[c].attempts >= estimates[c].attempts
      BY <2>0, <2>1, <3>2, <3>8
    <3> QED BY <2>0, <3>4, <3>6, <3>7, <3>8, <3>9
  <2> QED BY <2>2, <2>3
<1>11. \A c \in Concepts : practices'[c] <= estimates'[c].attempts
  <2> SUFFICES ASSUME NEW c \in Concepts PROVE practices'[c] <= estimates'[c].attempts
    OBVIOUS
  <2>1. c \in Record!Tracked /\ practices[c] \in Int /\ estimates[c] \in EstimateRow
    BY <1>0 DEF Record!Tracked, RecordTyped
  <2>2. practices[c] <= estimates[c].attempts
    BY <1>0 DEF Record!CountersAgree
  <2>3. estimates'[c].attempts >= estimates[c].attempts /\ estimates'[c].attempts \in Nat /\ estimates[c].attempts \in Nat
    <3>1. estimates[c].attempts \in Nat
      BY <2>1 DEF EstimateRow
    <3>2. Record!dktUpdate(estimates[c], right).attempts = estimates[c].attempts + 1
      BY DEF Record!dktUpdate
    <3>3. estimates'[c] = Record!dktUpdate(estimates[c], right) \/ estimates'[c] = estimates[c]
      BY <2>1, <1>9
    <3> QED BY <3>1, <3>2, <3>3
  <2> QED BY <2>1, <2>2, <2>3, <1>2
<1> QED BY <1>8, <1>10, <1>11, RecordCounts DEF Record!CountersAgree

\* Among the newest exercises there is at most the last one more.
LEMMA NewestGrow ==
  ASSUME RecordTyped, NEW row \in AnswerRow, answers' = Append(answers, row)
  PROVE  Record!ListRecentContentIDs' \subseteq Record!ListRecentContentIDs \cup {row.exercise}
<1> DEFINE n == Len(answers) + 1
<1>1. /\ DOMAIN answers' = DOMAIN answers \cup {n} /\ n \notin DOMAIN answers /\ n \in Nat /\ answers'[n] = row
      /\ \A i \in DOMAIN answers : answers'[i] = answers[i] /\ i \in Nat
      /\ answers' \in Seq(AnswerRow)
  BY OneAnswerMore
<1> HIDE DEF n
<1>2. Record!ClassAnswers \subseteq Record!ClassAnswers' /\ Record!ClassAnswers' \subseteq Record!ClassAnswers \cup {n} /\ Record!ClassAnswers \subseteq DOMAIN answers
  BY <1>1 DEF Record!ClassAnswers
<1>3. ASSUME NEW i \in Record!ClassAnswers' \ {n}, Record!Newest(i)'
      PROVE  Record!Newest(i)
  <2> DEFINE later == {j \in Record!ClassAnswers' : j >= i}
             before == {j \in Record!ClassAnswers : j >= i}
  <2>1. before \subseteq later /\ later \subseteq DOMAIN answers' /\ before \subseteq DOMAIN answers
    BY <1>2 DEF Record!ClassAnswers
  <2>2. IsFiniteSet(later) /\ Cardinality(later) \in Nat
    <3>1. RecordTyped => IsFiniteSet(DOMAIN answers)
      BY AnswersTyped, FS_Interval
    <3>2. IsFiniteSet(DOMAIN answers')
      BY <3>1, <1>1, FS_AddElement
    <3> QED BY <3>2, <2>1, FS_Subset, FS_CardinalityType
  <2>3. Cardinality(before) <= Cardinality(later) /\ Cardinality(before) \in Nat
    BY <2>1, <2>2, FS_Subset, FS_CardinalityType
  <2>4. Cardinality(later) <= RecentLimit
    BY <1>3, RecordCounts DEF Record!Newest
  <2> QED BY <2>2, <2>3, <2>4, RecordAssumption, RecordCounts DEF Record!Newest
<1>4. ASSUME NEW i \in Record!ClassAnswers', Record!Newest(i)'
      PROVE  answers'[i].exercise \in Record!ListRecentContentIDs \cup {row.exercise}
  <2>1. CASE i = n
    BY <2>1, <1>1
  <2>2. CASE i # n
    <3>1. Record!Newest(i) /\ i \in Record!ClassAnswers /\ answers'[i] = answers[i]
      BY <2>2, <1>1, <1>2, <1>3, <1>4
    <3> QED BY <3>1 DEF Record!ListRecentContentIDs
  <2> QED BY <2>1, <2>2
<1> QED BY <1>4 DEF Record!ListRecentContentIDs

\* The answer is in the record, and the request is over.
LEMMA RecordAnswerHolds ==
  ASSUME RecordInv, NEW p \in Pages, Record!RecordAnswer(p)
  PROVE  RecordInv'
<1> DEFINE x == pages[p].exercise
           row == [exercise |-> x, correct |-> pages[p].correct]
<1>0. /\ RecordTyped /\ PageFits(p) /\ PortraitFits /\ pages[p].phase = "tracking" /\ tracker = p
      /\ sessions \in Seq(SessionRow) /\ Record!Blank \in SessionRow /\ Record!Blank.current = 0
  BY RecordRows DEF RecordInv, RecordTyped, Record!RecordAnswer, Record!At, PageFits
<1>1. x \in Pool /\ x # 0 /\ row \in AnswerRow /\ row.exercise = x
  BY <1>0, RowsOfRecord, RecordAssumption DEF PageFits, AnswerRow
<1>2. /\ answers' = Append(answers, row) /\ Record!UpdateSessionAfterSubmit(x) /\ Record!Rests(p) /\ tracker' = "free"
      /\ UNCHANGED <<offered, practices>>
  BY DEF Record!RecordAnswer, Record!bankVars
<1>3. /\ answers' \in Seq(AnswerRow) /\ Len(answers') = Len(answers) + 1 /\ Len(answers) \in Nat
      /\ Record!ListRecentContentIDs' \subseteq Record!ListRecentContentIDs \cup {x}
  BY <1>0, <1>1, <1>2, OneAnswerMore, NewestGrow, RowsOfRecord
<1>4. /\ profile' \in ProfileRow /\ profile'.revision = profile.revision
      /\ profile'.portrait = profile.portrait /\ profile'.cleared = profile.cleared
  <2> DEFINE total == pages[p].profile.total + 1
             correct == Record!Counted(pages[p].profile.correct, pages[p].correct)
  <2>1. profile' = [profile EXCEPT !.exists = TRUE, !.total = total, !.correct = correct]
    BY DEF Record!RecordAnswer, Record!UpdateProfileTracking
  <2>2. total \in Nat /\ correct \in Nat /\ profile \in ProfileRow
    <3>1. profile \in ProfileRow /\ profile.total \in Nat /\ profile.correct \in Nat
      BY <1>0 DEF RecordTyped, ProfileRow
    <3>2. pages[p].profile.total = profile.total /\ pages[p].profile.correct = profile.correct
      BY <1>0 DEF PageFits
    <3> QED BY <3>1, <3>2 DEF Record!Counted
  <2> HIDE DEF total, correct
  <2> QED BY <2>1, <2>2 DEF ProfileRow
<1>5. estimates' \in [Record!Tracked -> EstimateRow]
  <2>1. estimates \in [Record!Tracked -> EstimateRow] /\ Record!buildDKTSequence \in Nat
    BY <1>0, <1>3, RecordAssumption DEF RecordTyped, Record!buildDKTSequence, Record!ListRecentInteractions
  <2>2. \A e \in EstimateRow : Record!dktUpdate(e, pages[p].correct) \in EstimateRow
    BY <2>1 DEF EstimateRow, Record!dktUpdate, Record!Counted
  <2>3. pages[p].estimates = estimates
    BY <1>0 DEF PageFits
  <2> QED BY <2>1, <2>2, <2>3 DEF Record!RecordAnswer, Record!UpsertDKTStates
<1>6. /\ sessions' \in Seq(SessionRow) /\ Len(sessions') >= Len(sessions)
      /\ Len(sessions') = 1 /\ sessions'[1].fresh =>
           sessions'[1].current = 0 \/ (sessions' = sessions /\ sessions'[1].current # x)
  <2>1. CASE sessions = <<>>
    <3>1. sessions' = <<Record!Blank>> /\ Len(sessions) = 0
      BY <2>1, <1>2 DEF Record!UpdateSessionAfterSubmit
    <3>2. sessions' \in Seq(SessionRow) /\ Len(sessions') = 1 /\ sessions'[1] = Record!Blank
      BY <3>1, <1>0
    <3> QED BY <3>1, <3>2, <1>0
  <2>2. CASE sessions # <<>> /\ sessions[Len(sessions)].current = x
    <3>1. sessions' = [sessions EXCEPT ![Len(sessions)] = Record!Blank] /\ Len(sessions) \in 1..Len(sessions)
      BY <2>2, <1>0, <1>2 DEF Record!UpdateSessionAfterSubmit
    <3>2. sessions' \in Seq(SessionRow) /\ Len(sessions') = Len(sessions) /\ sessions'[Len(sessions)] = Record!Blank
      BY <3>1, <1>0, ExceptSeq
    <3>3. Len(sessions) = 1 => sessions'[1] = Record!Blank
      BY <3>2
    <3> QED BY <3>2, <3>3, <1>0
  <2>3. CASE sessions # <<>> /\ sessions[Len(sessions)].current # x
    <3>1. sessions' = sessions /\ Len(sessions) \in Nat
      BY <2>3, <1>0, <1>2 DEF Record!UpdateSessionAfterSubmit
    <3> QED BY <3>1, <2>3, <1>0
  <2> QED BY <2>1, <2>2, <2>3
<1>7. pages' \in [Pages -> PageRow] /\ pages'[p] = Record!NoPage /\ Record!NoPage.phase = "idle" /\ Record!NoPage.seen = 0
      /\ \A q \in Pages \ {p} : pages'[q] = pages[q]
  BY <1>0, <1>2, RecordRows DEF RecordTyped, Record!Rests, Record!Goes, Record!NoPage, PagePhases
<1>8. RecordTyped'
  BY <1>0, <1>2, <1>3, <1>4, <1>5, <1>6, <1>7 DEF RecordTyped
<1>9. Record!PendingIsFresh'
  <2>1. 0 \notin Record!ListRecentContentIDs'
    BY <1>0, <1>1, <1>3, NoneIsNought
  <2> QED BY <2>1, <1>3, <1>6 DEF RecordInv, Record!PendingIsFresh
<1>10. PortraitFits'
  BY <1>0, <1>3, <1>4, RowsOfRecord DEF PortraitFits
<1>11. ASSUME NEW q \in Pages PROVE PageFits(q)'
  <2>1. CASE q = p
    BY <2>1, <1>3, <1>7 DEF PageFits
  <2>2. CASE q # p
    <3>1. /\ pages'[q] = pages[q] /\ PageFits(q) /\ pages[q].seen \in Nat /\ pages[q].session \in Nat
          /\ pages[q].phase # "tracking" /\ Len(sessions) \in Nat /\ Len(sessions') \in Nat
      BY <2>2, <1>0, <1>6, <1>7, RowsOfRecord DEF RecordInv, PageFits
    <3>2. pages'[q].seen <= Len(answers') /\ pages'[q].seen # Len(answers')
      BY <3>1, <1>3 DEF PageFits
    <3> QED BY <3>1, <3>2, <1>4, <1>6 DEF PageFits
  <2> QED BY <2>1, <2>2
<1>12. Record!CountersAgree'
  BY RecordHoldsCounts
<1> QED BY <1>8, <1>9, <1>10, <1>11, <1>12 DEF RecordInv

\* Nothing has been answered yet.
LEMMA RecordBegins == Record!RecordInit => RecordInv
<1> SUFFICES ASSUME Record!RecordInit PROVE RecordInv
  OBVIOUS
<1>1. Record!NoPage \in PageRow /\ Record!NoPage.phase = "idle" /\ Record!NoPage.seen = 0
  BY RecordRows DEF Record!NoPage, PagePhases
<1>2. answers = <<>> /\ sessions = <<>> /\ profile = Record!NoProfile /\ Len(answers) = 0 /\ Len(sessions) = 0 /\ DOMAIN answers = {}
  BY DEF Record!RecordInit
<1>3. estimates = [c \in Record!Tracked |-> Record!NoEstimate] /\ practices = [c \in Concepts |-> Record!NotStarted]
  BY DEF Record!RecordInit
<1>4. RecordTyped
  <2>1. practices \in [Concepts -> Int] /\ estimates \in [Record!Tracked -> EstimateRow]
    BY <1>3, RecordRows DEF Record!NotStarted
  <2>2. pages \in [Pages -> PageRow]
    BY <1>1 DEF Record!RecordInit
  <2>3. sessions \in Seq(SessionRow) /\ answers \in Seq(AnswerRow)
    BY <1>2
  <2> QED BY <2>1, <2>2, <2>3, <1>2, RecordRows DEF RecordTyped, Record!RecordInit
<1>5. Record!CountersAgree
  <2>1. Record!Correct = {} /\ \A c \in Record!Tracked : Record!About(c) = {}
    BY <1>2 DEF Record!Correct, Record!About
  <2>2. Cardinality({}) = 0
    BY FS_EmptySet
  <2>3. profile.total = Len(answers) /\ profile.correct = Cardinality(Record!Correct)
    BY <1>2, <2>1, <2>2, RecordRows
  <2>4. ASSUME NEW c \in Record!Tracked
        PROVE  /\ estimates[c].attempts = Cardinality(Record!About(c)) /\ estimates[c].sequence = Record!SequenceOf(c)
               /\ estimates[c].correct = Cardinality(Record!About(c) \cap Record!Correct)
    <3>1. Record!About(c) = {} /\ Record!About(c) \cap Record!Correct = {} /\ estimates[c] = Record!NoEstimate
      BY <2>1, <1>3
    <3> QED BY <3>1, <2>2, RecordRows DEF Record!SequenceOf
  <2>5. \A c \in Concepts : practices[c] <= estimates[c].attempts
    <3> SUFFICES ASSUME NEW c \in Concepts PROVE practices[c] <= estimates[c].attempts
      OBVIOUS
    <3>1. c \in Record!Tracked
      BY DEF Record!Tracked
    <3>2. estimates[c] = Record!NoEstimate /\ practices[c] = 0 - 1
      BY <3>1, <1>3 DEF Record!NotStarted
    <3> QED BY <3>2, RecordRows
  <2> QED BY <2>3, <2>4, <2>5, RecordCounts DEF Record!CountersAgree
<1>6. Record!PendingIsFresh /\ PortraitFits
  BY <1>2, RecordRows DEF Record!PendingIsFresh, PortraitFits, Record!NoPortrait
<1>7. ASSUME NEW p \in Pages PROVE PageFits(p)
  <2>1. pages[p] = Record!NoPage
    BY DEF Record!RecordInit
  <2> QED BY <2>1, <1>1, <1>2 DEF PageFits
<1> QED BY <1>4, <1>5, <1>6, <1>7 DEF RecordInv

\* Every step of the record keeps the invariant and what is said of a new portrait.
LEMMA RecordStays ==
  ASSUME RecordInv, Record!RecordNext
  PROVE  RecordInv' /\ (profile'.portrait \notin {profile.portrait, Record!NoPortrait} =>
                          profile'.portrait >= profile.portrait /\ profile'.portrait >= profile.cleared)
<1> DEFINE Renewed == profile'.portrait \notin {profile.portrait, Record!NoPortrait} =>
                        profile'.portrait >= profile.portrait /\ profile'.portrait >= profile.cleared
<1> HIDE DEF Renewed
<1>0. ASSUME profile'.portrait = profile.portrait PROVE Renewed
  BY <1>0 DEF Renewed
<1>01. ASSUME profile' = profile PROVE Renewed
  BY <1>0, <1>01
<1>1. ASSUME NEW p \in Pages, Record!GetNextExercise(p) \/ Record!CreateSession(p) \/ Record!CheckCurrent(p) \/ Record!Recall(p) \/ Record!Offer(p)
      PROVE  RecordInv' /\ Renewed
  <2>1. profile' = profile
    BY <1>1 DEF Record!GetNextExercise, Record!CreateSession, Record!CheckCurrent, Record!Recall, Record!Offer, Record!learnedVars
  <2>2. RecordInv'
    BY <1>1, GetNextHolds, CreateHolds, CheckHolds, RecallHolds, OfferHolds
  <2> QED BY <2>1, <2>2, <1>01
<1>2. ASSUME NEW p \in Pages, NEW c, NEW l, Record!Choose(p, c, l)
      PROVE  RecordInv' /\ Renewed
  <2>1. profile' = profile
    BY <1>2 DEF Record!Choose, Record!learnedVars
  <2> QED BY <2>1, <1>2, <1>01, ChooseHolds
<1>3. ASSUME Record!OpenChat PROVE RecordInv' /\ Renewed
  <2>1. profile' = profile
    BY <1>3 DEF Record!OpenChat, Record!learnedVars
  <2> QED BY <2>1, <1>3, <1>01, OpenHolds
<1>4. ASSUME NEW p \in Pages, NEW x \in Pool, NEW correct \in BOOLEAN, Record!SubmitExercise(p, x, correct)
      PROVE  RecordInv' /\ Renewed
  <2>1. profile' = profile
    BY <1>4 DEF Record!SubmitExercise
  <2> QED BY <2>1, <1>4, <1>01, SubmitHolds
<1>5. ASSUME NEW p \in Pages, Record!RecordAnswer(p)
      PROVE  RecordInv' /\ Renewed
  <2>1. profile' = [profile EXCEPT !.exists = TRUE, !.total = pages[p].profile.total + 1,
                                   !.correct = Record!Counted(pages[p].profile.correct, pages[p].correct)]
    BY <1>5 DEF Record!RecordAnswer, Record!UpdateProfileTracking
  <2>2. profile \in ProfileRow
    BY DEF RecordInv, RecordTyped
  <2>3. profile'.portrait = profile.portrait
    BY <2>1, <2>2 DEF ProfileRow
  <2> QED BY <2>3, <1>0, <1>5, RecordAnswerHolds
<1>6. ASSUME NEW p \in Pages, Record!AbandonAnswer(p) \/ Record!MeasureActivity(p)
      PROVE  RecordInv' /\ Renewed
  <2>1. profile' = profile
    BY <1>6 DEF Record!AbandonAnswer, Record!MeasureActivity, Record!learnedVars
  <2> QED BY <2>1, <1>6, <1>01, AbandonHolds, MeasureHolds
<1>7. ASSUME NEW c \in Concepts, Record!StartPortraitAction(c) PROVE RecordInv' /\ Renewed
  <2>1. profile' = profile
    BY <1>7 DEF Record!StartPortraitAction
  <2> QED BY <2>1, <1>7, <1>01, StartHolds
<1>8. ASSUME NEW p \in Pages, NEW phase \in {"measuring", "clearing"}, Record!BeginPortrait(p, phase)
      PROVE  RecordInv' /\ Renewed
  <2>1. profile' = [profile EXCEPT !.exists = TRUE]
    BY <1>8 DEF Record!BeginPortrait, Record!ensureProfile
  <2>2. profile \in ProfileRow
    BY DEF RecordInv, RecordTyped
  <2>3. profile'.portrait = profile.portrait
    BY <2>1, <2>2 DEF ProfileRow
  <2> QED BY <2>3, <1>0, <1>8, BeginHolds
<1>9. ASSUME NEW p \in Pages, Record!SavePortrait(p) \/ Record!ClearPortrait(p) PROVE RecordInv' /\ Renewed
  BY <1>9, WriteHolds DEF Renewed
<1>10. ASSUME NEW x \in Pool, Record!WithdrawExercise(x) \/ Record!AssignToday(x) \/ Record!LeaveClass PROVE RecordInv' /\ Renewed
  <2>1. /\ offered' \subseteq offered
        /\ UNCHANGED <<answers, estimates, practices, profile, sessions, pages, tracker>>
    BY <1>10 DEF Record!WithdrawExercise, Record!AssignToday, Record!LeaveClass, Record!learnedVars
  <2> QED BY <2>1, <1>01, BankHolds
<1>11. ASSUME Record!LeaveClass PROVE RecordInv' /\ Renewed
  <2>1. /\ offered' \subseteq offered
        /\ UNCHANGED <<answers, estimates, practices, profile, sessions, pages, tracker>>
    BY <1>11 DEF Record!LeaveClass, Record!learnedVars
  <2> QED BY <2>1, <1>01, BankHolds
<1>12. RecordInv' /\ Renewed
  <2>1. \A p \in Pages : Record!GeneratePortrait(p) \/ Record!AskToClear(p) => \E phase \in {"measuring", "clearing"} : Record!BeginPortrait(p, phase)
    BY DEF Record!GeneratePortrait, Record!AskToClear
  <2> QED BY <1>1, <1>2, <1>3, <1>4, <1>5, <1>6, <1>7, <1>8, <1>9, <1>10, <1>11, <2>1, Zenon DEF Record!RecordNext
<1> QED BY <1>12 DEF Renewed

\* Nor does a step that leaves the record alone.
LEMMA RecordRests == RecordInv /\ UNCHANGED Record!recordVars => RecordInv'
<1> SUFFICES ASSUME RecordInv, UNCHANGED Record!recordVars PROVE RecordInv'
  OBVIOUS
<1>1. /\ offered' = offered /\ sessions' = sessions /\ answers' = answers /\ profile' = profile
      /\ estimates' = estimates /\ practices' = practices /\ pages' = pages /\ tracker' = tracker
  BY DEF Record!recordVars
<1> QED BY <1>1, BankHolds

-----------------------------------------------------------------------------
(* The mistake book.                                                        *)

MistakeRow == [content : Contents, correct : BOOLEAN, archived : BOOLEAN]
PlanRow == [status : Book!Statuses \cup {"none"}, source : Nat, stage : Nat, errors : Nat, due : Nat]
Doings == {"nothing", "listing", "listed", "opening", "loading", "opened", "counting", "measured"}
BookResults == {"none", "review", "redo", "not found", "counted", "other count"}
BookPages ==
  [doing : Doings, query : Book!CardQueries \cup Book!PlanQueries \cup {"none"}, number : Nat, total : Nat, seen : SUBSET Nat,
   rows : SUBSET Nat, of : Nat, plan : PlanRow, steady : BOOLEAN, result : BookResults]

BookTyped == submitted \in Seq(MistakeRow) /\ plans \in [Contents -> PlanRow] /\ page \in BookPages

\* A plan that is not archived rests on the last mistake of its question that is kept.
Begun(review) == review.status \notin {"none", "archived"}
PlansRest ==
  \A c \in Contents : /\ plans[c].source <= Len(submitted)
                      /\ Begun(plans[c]) => plans[c].source \in Book!Cards /\ submitted[plans[c].source].content = c
CardsRest == \A i \in Book!Cards : Book!Rests(Book!PlanOf(i), i)

\* How many rows of a query come before one of them, and the rows of its first pages.
Ahead(S, key, x, direction) == {y \in S : Book!Before(key, y, x, direction)}
\* An order that ORDER BY allows, and the places it gives.
Sorted(S, key, direction, order) ==
  /\ order \in [1..Cardinality(S) -> S]
  /\ \A m, n \in DOMAIN order : m < n => order[m] # order[n] /\ ~Book!Before(key, order[n], order[m], direction)
Numbered(S, key, direction, order) ==
  /\ \A x \in S : \E k \in 1..Cardinality(S) : order[k] = x
  /\ \A k \in 1..Cardinality(S) : Cardinality(Ahead(S, key, order[k], direction)) = k - 1
Foregoing(query, x) == Ahead(Book!Rows(query.kind, query.filter), Book!KeyOf(query.kind, query.sort), x, query.direction)
RowsUpto(query, number) ==
  {x \in Book!Rows(query.kind, query.filter) : Cardinality(Foregoing(query, x)) < number * PageSize}

ListFits ==
  page.doing \in {"listing", "listed"} =>
    /\ page.query \in Book!CardQueries \cup Book!PlanQueries /\ page.number # 0
    /\ page.steady =>
         /\ page.total = Book!Counted(page.query) /\ page.result # "other count"
         /\ page.doing = "listing" => page.seen \cup page.rows = RowsUpto(page.query, page.number - 1)
         /\ page.doing = "listed" =>
              /\ page.seen = RowsUpto(page.query, page.number - 1)
              /\ page.rows = RowsUpto(page.query, page.number) \ RowsUpto(page.query, page.number - 1)

OpeningFits ==
  page.doing \in {"opening", "loading", "opened"} =>
    /\ page.of \in DOMAIN submitted
    /\ page.doing = "opening" /\ page.steady => page.of \in Book!Cards
    /\ page.doing = "loading" => /\ Begun(page.plan) /\ Book!PlanOf(page.of).source >= page.of
                                 /\ page.steady => page.plan = Book!PlanOf(page.of)

CountFits == page.doing = "counting" => page.of <= Len(submitted)

BookInv ==
  /\ BookTyped /\ PlansRest /\ CardsRest /\ ListFits /\ OpeningFits /\ CountFits /\ Book!CardsOpenPlans /\ Book!SharesAreShares

-----------------------------------------------------------------------------
\* The place of a row in any order that ORDER BY allows is the number of rows before it.
LEMMA OrderRanks ==
  ASSUME NEW S, IsFiniteSet(S), S \subseteq Int, NEW key, \A x \in S : key[x] \in Int, NEW direction,
         NEW order, Sorted(S, key, direction, order)
  PROVE  Numbered(S, key, direction, order)
<1> DEFINE n == Cardinality(S)
<1>0. /\ order \in [1..n -> S]
      /\ \A m, k \in DOMAIN order : m < k => order[m] # order[k] /\ ~Book!Before(key, order[k], order[m], direction)
  BY DEF Sorted
<1>1. n \in Nat /\ Cardinality(1..n) = n /\ IsFiniteSet(1..n)
  BY FS_CardinalityType, FS_Interval
<1>2. \A a, b \in 1..n : order[a] = order[b] => a = b
  BY <1>0, <1>1
<1>3. order \in Injection(1..n, S)
  BY <1>0, <1>2 DEF Injection, IsInjective
<1>4. order \in Surjection(1..n, S)
  BY <1>1, <1>3, FS_Injection
<1>5. \A x \in S : \E k \in 1..n : order[k] = x
  BY <1>4 DEF Surjection
<1>6. \A x, y \in S : /\ ~Book!Before(key, x, x, direction)
                      /\ Book!Before(key, x, y, direction) => ~Book!Before(key, y, x, direction)
                      /\ x # y => Book!Before(key, x, y, direction) \/ Book!Before(key, y, x, direction)
  BY DEF Book!Before
<1>7. ASSUME NEW k \in 1..n
      PROVE  Cardinality(Ahead(S, key, order[k], direction)) = k - 1
  <2> DEFINE first == {y \in S : Book!Before(key, y, order[k], direction)}
             g == [m \in 1..(k - 1) |-> order[m]]
  <2>1. k \in Nat /\ k - 1 \in Nat /\ \A m \in 1..(k - 1) : m \in 1..n /\ m < k
    BY <1>1, <1>7
  <2>2. \A m \in 1..n : Book!Before(key, order[m], order[k], direction) <=> m < k
    <3> SUFFICES ASSUME NEW m \in 1..n PROVE Book!Before(key, order[m], order[k], direction) <=> m < k
      OBVIOUS
    <3>1. CASE m < k
      BY <3>1, <1>0, <1>6
    <3>2. CASE m = k
      BY <3>2, <1>0, <1>6, <1>1
    <3>3. CASE m > k
      BY <3>3, <1>0, <1>6
    <3> QED BY <3>1, <3>2, <3>3, <1>1
  <2>3. \A m \in 1..(k - 1) : g[m] = order[m] /\ g[m] \in first
    BY <1>0, <2>1, <2>2 DEF Ahead
  <2>4. \A y \in first : \E m \in 1..(k - 1) : g[m] = y
    <3> SUFFICES ASSUME NEW y \in first PROVE \E m \in 1..(k - 1) : g[m] = y
      OBVIOUS
    <3>1. PICK m \in 1..n : order[m] = y
      BY <1>5
    <3>2. m < k
      BY <3>1, <2>2
    <3> QED BY <3>1, <3>2, <2>1, <2>3
  <2>5. \A a, b \in 1..(k - 1) : g[a] = g[b] => a = b
    BY <2>1, <2>3, <1>2
  <2>6. g \in [1..(k - 1) -> first]
    BY <2>3
  <2> HIDE DEF g, first
  <2>7. g \in Bijection(1..(k - 1), first)
    BY <2>4, <2>5, <2>6 DEF Bijection, Injection, Surjection, IsInjective
  <2>8. ExistsBijection(1..(k - 1), first)
    BY <2>7 DEF ExistsBijection
  <2>9. IsFiniteSet(1..(k - 1)) /\ Cardinality(1..(k - 1)) = k - 1
    BY <2>1, FS_Interval
  <2> QED BY <2>8, <2>9, FS_Bijection DEF first, Ahead
<1> QED BY <1>5, <1>7, Zenon DEF Numbered

\* The size of a set is the same in the module of the book and here.
LEMMA BookCounts == ASSUME NEW S PROVE Book!Cardinality(S) = Cardinality(S)
BY DEF Book!Cardinality, Cardinality

\* The pages of a list are enough for its rows.
LEMMA PagesSuffice ==
  ASSUME NEW total \in Nat, NEW number \in Nat, number >= Book!TotalPages(total)
  PROVE  number * PageSize >= total
<1>1. PageSize \in Nat \ {0}
  BY BookAssumption
<1> DEFINE a == total + PageSize - 1
           d == a \div PageSize
<1>2. a \in Nat
  BY <1>1
<1> HIDE DEF a
<1>3. d \in Int /\ a < (d + 1) * PageSize
  BY <1>1, <1>2
<1> HIDE DEF d
<1>4. d <= number
  BY DEF Book!TotalPages, d, a
<1>5. (d + 1) * PageSize <= (number + 1) * PageSize
  BY <1>1, <1>3, <1>4
<1>6. (number + 1) * PageSize = number * PageSize + PageSize
  BY <1>1
<1>7. number * PageSize \in Nat
  BY <1>1
<1> QED BY <1>1, <1>3, <1>5, <1>6, <1>7 DEF a

\* What is known of the rows.
LEMMA BookRows ==
  ASSUME BookTyped
  PROVE  /\ Len(submitted) \in Nat /\ DOMAIN submitted = 1..Len(submitted) /\ DOMAIN submitted \subseteq Nat
         /\ \A i \in DOMAIN submitted : /\ submitted[i] \in MistakeRow /\ submitted[i].content \in Contents
                                        /\ submitted[i].correct \in BOOLEAN /\ submitted[i].archived \in BOOLEAN
         /\ \A c \in Contents : /\ plans[c] \in PlanRow /\ plans[c].source \in Nat /\ plans[c].errors \in Nat
                                /\ plans[c].stage \in Nat /\ plans[c].due \in Nat
                                /\ plans[c].status \in Book!Statuses \cup {"none"}
         /\ Book!Cards \subseteq DOMAIN submitted /\ IsFiniteSet(DOMAIN submitted) /\ IsFiniteSet(Book!Cards)
         /\ \A i \in Book!Cards : Book!PlanOf(i) = plans[submitted[i].content]
<1>1. Len(submitted) \in Nat /\ DOMAIN submitted = 1..Len(submitted) /\ DOMAIN submitted \subseteq Nat
  BY DEF BookTyped
<1>2. \A i \in DOMAIN submitted : submitted[i] \in MistakeRow
  BY <1>1 DEF BookTyped
<1>3. \A r \in MistakeRow : r.content \in Contents /\ r.correct \in BOOLEAN /\ r.archived \in BOOLEAN
  BY DEF MistakeRow
<1>4. \A c \in Contents : plans[c] \in PlanRow
  BY DEF BookTyped
<1>5. \A r \in PlanRow : /\ r.source \in Nat /\ r.errors \in Nat /\ r.stage \in Nat /\ r.due \in Nat
                         /\ r.status \in Book!Statuses \cup {"none"}
  BY DEF PlanRow
<1>6. Book!Cards \subseteq DOMAIN submitted
  BY DEF Book!Cards, Book!Kept, Book!Mistakes
<1>7. IsFiniteSet(DOMAIN submitted) /\ IsFiniteSet(Book!Cards)
  <2>1. IsFiniteSet(DOMAIN submitted)
    BY <1>1, FS_Interval
  <2> QED BY <2>1, <1>6, FS_Subset
<1> QED BY <1>1, <1>2, <1>3, <1>4, <1>5, <1>6, <1>7 DEF Book!PlanOf

\* A list has finitely many rows, each with a key.
LEMMA RowsAreKeyed ==
  ASSUME BookTyped, NEW query \in Book!CardQueries \cup Book!PlanQueries
  PROVE  /\ Book!Rows(query.kind, query.filter) \subseteq Nat /\ IsFiniteSet(Book!Rows(query.kind, query.filter))
         /\ \A x \in Book!Rows(query.kind, query.filter) : Book!KeyOf(query.kind, query.sort)[x] \in Int
<1>1. query.kind = "cards" \/ query.kind = "plans"
  BY DEF Book!CardQueries, Book!PlanQueries, Book!Query
<1>2. \A c, i, sort : c \in Contents /\ i \in Nat => Book!SortKey(plans[c], c, i, sort) \in Int
  BY BookRows, BookAssumption DEF Book!SortKey
<1>3. CASE query.kind = "cards"
  <2>1. Book!Rows(query.kind, query.filter) \subseteq Book!Cards
    BY <1>3 DEF Book!Rows, Book!ListMistakes
  <2>2. \A i \in Book!Cards : i \in Nat /\ submitted[i].content \in Contents /\ Book!PlanOf(i) = plans[submitted[i].content]
    BY BookRows
  <2>3. \A i \in Book!Cards : Book!KeyOf(query.kind, query.sort)[i] = Book!SortKey(Book!PlanOf(i), submitted[i].content, i, query.sort)
    BY <1>3 DEF Book!KeyOf
  <2>4. IsFiniteSet(Book!Cards)
    BY BookRows
  <2>5. IsFiniteSet(Book!Rows(query.kind, query.filter))
    BY <2>1, <2>4, FS_Subset
  <2>6. \A i \in Book!Cards : Book!KeyOf(query.kind, query.sort)[i] \in Int
    BY <2>2, <2>3, <1>2
  <2> QED BY <2>1, <2>2, <2>5, <2>6
<1>4. CASE query.kind = "plans"
  <2>1. Book!Rows(query.kind, query.filter) \subseteq Contents
    BY <1>4 DEF Book!Rows
  <2>2. \A c \in Contents : Book!KeyOf(query.kind, query.sort)[c] = Book!SortKey(plans[c], c, c, query.sort) /\ c \in Nat
    BY <1>4, BookAssumption DEF Book!KeyOf
  <2>3. IsFiniteSet(Book!Rows(query.kind, query.filter))
    BY <2>1, BookAssumption, FS_Subset
  <2>4. \A c \in Contents : Book!KeyOf(query.kind, query.sort)[c] \in Int
    BY <2>2, <1>2
  <2> QED BY <2>1, <2>2, <2>3, <2>4
<1> QED BY <1>1, <1>3, <1>4

\* The foregoing rows of a row are fewer than all.
LEMMA RanksAreBounded ==
  ASSUME BookTyped, NEW query \in Book!CardQueries \cup Book!PlanQueries, NEW x \in Book!Rows(query.kind, query.filter)
  PROVE  /\ Cardinality(Foregoing(query, x)) \in Nat /\ Cardinality(Foregoing(query, x)) < Book!Counted(query)
         /\ Book!Counted(query) \in Nat
<1> DEFINE S == Book!Rows(query.kind, query.filter)
<1>1. S \subseteq Nat /\ IsFiniteSet(S) /\ Book!KeyOf(query.kind, query.sort)[x] \in Int
  BY RowsAreKeyed
<1>2. Foregoing(query, x) \subseteq S /\ x \notin Foregoing(query, x)
  BY <1>1 DEF Foregoing, Ahead, Book!Before
<1>3. /\ IsFiniteSet(Foregoing(query, x)) /\ Cardinality(Foregoing(query, x)) \in Nat /\ Cardinality(S) \in Nat
      /\ Cardinality(Foregoing(query, x)) <= Cardinality(S)
      /\ Cardinality(Foregoing(query, x)) # Cardinality(S)
  BY <1>1, <1>2, FS_Subset, FS_CardinalityType
<1> QED BY <1>3, BookCounts DEF Book!Counted

\* A page is the rows whose place is on it, in whatever order they were read.
LEMMA PageOfRows ==
  ASSUME BookTyped, NEW query \in Book!CardQueries \cup Book!PlanQueries, NEW number \in Nat \ {0},
         NEW rows \in Book!PagesOf(Book!Rows(query.kind, query.filter), Book!KeyOf(query.kind, query.sort), query.direction, number)
  PROVE  rows = RowsUpto(query, number) \ RowsUpto(query, number - 1)
<1> DEFINE S == Book!Rows(query.kind, query.filter)
           key == Book!KeyOf(query.kind, query.sort)
           n == Cardinality(S)
<1>1. S \subseteq Int /\ IsFiniteSet(S) /\ (\A x \in S : key[x] \in Int) /\ n \in Nat
  BY RowsAreKeyed, FS_CardinalityType
<1>2. PICK order \in [1..n -> S] :
        /\ Sorted(S, key, query.direction, order) /\ rows = Book!Slice(order, number)
  BY BookCounts DEF Book!PagesOf, Book!Orders, Sorted
<1> HIDE DEF key, S
<1>3. /\ \A x \in S : \E k \in 1..n : order[k] = x
      /\ \A k \in 1..n : Cardinality(Ahead(S, key, order[k], query.direction)) = k - 1
  <2>1. S \subseteq Int /\ IsFiniteSet(S) /\ \A x \in S : key[x] \in Int
    BY <1>1
  <2>2. Sorted(S, key, query.direction, order)
    BY <1>2
  <2>3. Numbered(S, key, query.direction, order)
    BY <2>1, <2>2, OrderRanks, Zenon
  <2> QED BY <2>3 DEF Numbered
<1>4. \A k \in 1..n : Cardinality(Foregoing(query, order[k])) = k - 1 /\ order[k] \in S
  BY <1>2, <1>3 DEF Foregoing, key, S
<1> DEFINE low == (number - 1) * PageSize
           high == number * PageSize
<1>5. low \in Nat /\ high \in Nat
  BY BookAssumption
<1> HIDE DEF n
<1>6. rows = {order[k] : k \in {m \in 1..n : m > low /\ m <= high}}
  BY <1>2 DEF Book!Slice
<1>7. /\ RowsUpto(query, number) = {x \in S : Cardinality(Foregoing(query, x)) < high}
      /\ RowsUpto(query, number - 1) = {x \in S : Cardinality(Foregoing(query, x)) < low}
  BY DEF RowsUpto, S
<1> HIDE DEF low, high
<1>8. \A k \in 1..n : order[k] \in RowsUpto(query, number) \ RowsUpto(query, number - 1) <=> k > low /\ k <= high
  BY <1>1, <1>4, <1>5, <1>7
<1>9. \A x \in RowsUpto(query, number) \ RowsUpto(query, number - 1) : \E k \in 1..n : order[k] = x
  BY <1>3, <1>7
<1> QED BY <1>6, <1>8, <1>9

\* The first pages grow, and at the end they are all rows.
LEMMA PagesGrow ==
  ASSUME BookTyped, NEW query \in Book!CardQueries \cup Book!PlanQueries, NEW number \in Nat \ {0}
  PROVE  /\ RowsUpto(query, number - 1) \subseteq RowsUpto(query, number) /\ RowsUpto(query, 0) = {}
         /\ number >= Book!TotalPages(Book!Counted(query)) => RowsUpto(query, number) = Book!Rows(query.kind, query.filter)
<1> DEFINE low == (number - 1) * PageSize
           high == number * PageSize
<1>1. low \in Nat /\ high \in Nat /\ low <= high /\ 0 * PageSize = 0
  BY BookAssumption
<1>2. /\ RowsUpto(query, number) = {x \in Book!Rows(query.kind, query.filter) : Cardinality(Foregoing(query, x)) < high}
      /\ RowsUpto(query, number - 1) = {x \in Book!Rows(query.kind, query.filter) : Cardinality(Foregoing(query, x)) < low}
      /\ RowsUpto(query, 0) = {x \in Book!Rows(query.kind, query.filter) : Cardinality(Foregoing(query, x)) < 0}
  BY <1>1 DEF RowsUpto
<1> HIDE DEF low, high
<1>3. Book!Counted(query) \in Nat
  BY RowsAreKeyed, FS_CardinalityType, BookCounts DEF Book!Counted
<1>4. number >= Book!TotalPages(Book!Counted(query)) => high >= Book!Counted(query)
  BY <1>3, PagesSuffice DEF high
<1>5. \A x \in Book!Rows(query.kind, query.filter) :
        Cardinality(Foregoing(query, x)) \in Nat /\ Cardinality(Foregoing(query, x)) < Book!Counted(query)
  BY RanksAreBounded
<1>6. RowsUpto(query, number - 1) \subseteq RowsUpto(query, number) /\ RowsUpto(query, 0) = {}
  BY <1>1, <1>2, <1>5
<1>7. ASSUME number >= Book!TotalPages(Book!Counted(query)) PROVE RowsUpto(query, number) = Book!Rows(query.kind, query.filter)
  BY <1>1, <1>2, <1>3, <1>4, <1>5, <1>7
<1> QED BY <1>6, <1>7

\* So a steady list is whole.
LEMMA ListsFollow == ASSUME BookTyped, ListFits PROVE Book!ListsAreWhole
<1> SUFFICES ASSUME page.doing = "listed", page.steady PROVE
      /\ page.rows \cap page.seen = {} /\ page.result # "other count"
      /\ page.number >= Book!TotalPages(page.total) => Book!Cardinality(page.seen \cup page.rows) = page.total
  BY Zenon DEF Book!ListsAreWhole
<1>1. /\ page.query \in Book!CardQueries \cup Book!PlanQueries /\ page.number # 0 /\ page.total = Book!Counted(page.query)
      /\ page.result # "other count" /\ page.seen = RowsUpto(page.query, page.number - 1)
      /\ page.rows = RowsUpto(page.query, page.number) \ RowsUpto(page.query, page.number - 1)
  BY DEF ListFits
<1>2. page.number \in Nat \ {0}
  BY <1>1 DEF BookTyped, BookPages
<1>3. RowsUpto(page.query, page.number - 1) \subseteq RowsUpto(page.query, page.number)
  BY <1>1, <1>2, PagesGrow
<1>4. page.seen \cup page.rows = RowsUpto(page.query, page.number) /\ page.rows \cap page.seen = {}
  BY <1>1, <1>3
<1>5. ASSUME page.number >= Book!TotalPages(page.total) PROVE Cardinality(page.seen \cup page.rows) = page.total
  <2>1. Book!Counted(page.query) = Cardinality(Book!Rows(page.query.kind, page.query.filter))
    BY BookCounts, Zenon DEF Book!Counted
  <2>2. page.seen \cup page.rows = Book!Rows(page.query.kind, page.query.filter)
    BY <1>1, <1>2, <1>4, <1>5, PagesGrow, Zenon
  <2> QED BY <2>1, <2>2, <1>1, Zenon
<1>6. Book!Cardinality(page.seen \cup page.rows) = Cardinality(page.seen \cup page.rows)
  BY BookCounts
<1> QED BY <1>1, <1>4, <1>5, <1>6, Zenon

\* A page at its beginning.
LEMMA PageIsARow ==
  /\ \A doing \in Doings :
       /\ Book!Page(doing) \in BookPages /\ Book!Page(doing).doing = doing /\ Book!Page(doing).number = 1
       /\ Book!Page(doing).seen = {} /\ Book!Page(doing).rows = {} /\ Book!Page(doing).steady = TRUE /\ Book!Page(doing).result = "none"
  /\ Book!NoPage = Book!Page("nothing") /\ Book!NoPlan \in PlanRow
<1>1. Book!NoPlan \in PlanRow
  BY DEF Book!NoPlan, PlanRow, Book!Never
<1>2. ASSUME NEW doing \in Doings
      PROVE  /\ Book!Page(doing) \in BookPages /\ Book!Page(doing).doing = doing /\ Book!Page(doing).number = 1
             /\ Book!Page(doing).seen = {} /\ Book!Page(doing).rows = {} /\ Book!Page(doing).steady = TRUE /\ Book!Page(doing).result = "none"
  <2> QED BY <1>1 DEF Book!Page, BookPages, BookResults
<1> QED BY <1>2, <1>1 DEF Book!NoPage

\* A right answer keeps the mistake that a plan rests on, a wrong one becomes it.
LEMMA PlansMove ==
  ASSUME NEW review \in PlanRow, NEW counts \in BOOLEAN
  PROVE  /\ Book!Right(review, counts) \in PlanRow /\ Book!Right(review, counts).source = review.source /\ (Begun(Book!Right(review, counts)) <=> Begun(review))
         /\ \A n \in Nat : Book!Wrong(review, n) \in PlanRow /\ Book!Wrong(review, n).source = n /\ Begun(Book!Wrong(review, n))
<1>1. Book!Right(review, counts) \in PlanRow
  <2> DEFINE status == IF review.stage + 1 = SuccessTarget THEN "mastered" ELSE "verification_due"
             due == IF review.stage + 1 = SuccessTarget THEN Book!Never ELSE 2
  <2>1. Book!Right(review, counts) = IF ~(counts /\ Book!IsDue(review)) THEN review
                      ELSE [review EXCEPT !.stage = review.stage + 1,
                                        !.status = status, !.due = due]
    BY DEF Book!Right
  <2>2. status \in Book!Statuses \cup {"none"} /\ due \in Nat
    BY DEF Book!Statuses, Book!Never
  <2>3. review.stage + 1 \in Nat
    BY DEF PlanRow
  <2> HIDE DEF status, due
  <2> QED BY <2>1, <2>2, <2>3 DEF PlanRow
<1>2. Book!Right(review, counts).source = review.source
  BY DEF Book!Right, PlanRow
<1>3. Begun(Book!Right(review, counts)) <=> Begun(review)
  <2>1. CASE ~(counts /\ Book!IsDue(review))
    BY <2>1 DEF Book!Right
  <2>2. CASE counts /\ Book!IsDue(review)
    <3>1. review.status \in {"pending", "verification_due"} /\ Book!Right(review, counts).status \in {"mastered", "verification_due"}
      BY <2>2 DEF Book!IsDue, Book!Active, Book!Right, PlanRow
    <3> QED BY <3>1 DEF Begun
  <2> QED BY <2>1, <2>2
<1>4. \A n \in Nat : Book!Wrong(review, n) \in PlanRow /\ Book!Wrong(review, n).source = n /\ Begun(Book!Wrong(review, n))
  <2>1. review.errors \in Nat
    BY DEF PlanRow
  <2> QED BY <2>1 DEF Book!Wrong, PlanRow, Begun, Book!Statuses
<1> QED BY <1>1, <1>2, <1>3, <1>4

\* What a change of the book leaves of what a page is reading.
Follows ==
  /\ submitted' \in Seq(MistakeRow) /\ plans' \in [Contents -> PlanRow]
  /\ DOMAIN submitted \subseteq DOMAIN submitted' /\ Len(submitted) <= Len(submitted')
  /\ \A i \in DOMAIN submitted : submitted'[i].content = submitted[i].content
  /\ \A c \in Contents : /\ plans'[c].source >= plans[c].source
                         /\ \A i \in DOMAIN submitted : Book!Rests(plans'[c], i) => Book!Rests(plans[c], i)

\* A page that is read over a change is not steady any more.
LEMMA PagesUnsettle ==
  ASSUME BookInv, Follows, Book!Unsettles, PlansRest', CardsRest'
  PROVE  BookInv'
<1>0. /\ BookTyped /\ ListFits /\ OpeningFits /\ CountFits /\ Book!CardsOpenPlans /\ Book!SharesAreShares /\ page \in BookPages
  BY DEF BookInv, BookTyped
<1>1. CASE page = Book!NoPage
  <2>1. page' = page /\ page'.doing = "nothing"
    BY <1>1, PageIsARow DEF Book!Unsettles, Doings
  <2>2. BookTyped'
    BY <2>1, <1>0 DEF BookTyped, Follows
  <2>3. ListFits' /\ OpeningFits' /\ CountFits' /\ Book!CardsOpenPlans' /\ Book!SharesAreShares'
    BY <2>1 DEF ListFits, OpeningFits, CountFits, Book!CardsOpenPlans, Book!SharesAreShares
  <2> QED BY <2>2, <2>3 DEF BookInv
<1>2. CASE page # Book!NoPage
  <2>1. /\ page' \in BookPages /\ page'.steady = FALSE /\ page'.doing = page.doing /\ page'.query = page.query
        /\ page'.number = page.number /\ page'.of = page.of /\ page'.plan = page.plan /\ page'.result = page.result
        /\ page'.total = page.total
    BY <1>2, <1>0 DEF Book!Unsettles, BookPages
  <2>2. BookTyped'
    BY <2>1, <1>0 DEF BookTyped, Follows
  <2>3. ListFits' /\ Book!SharesAreShares'
    BY <2>1, <1>0 DEF ListFits, Book!SharesAreShares
  <2>4. ASSUME page.of \in DOMAIN submitted
        PROVE  /\ page.of \in DOMAIN submitted' /\ Book!PlanOf(page.of) \in PlanRow /\ Book!PlanOf(page.of)' = plans'[submitted[page.of].content]
               /\ Book!PlanOf(page.of)'.source >= Book!PlanOf(page.of).source /\ Book!PlanOf(page.of).source \in Nat
               /\ Book!Rests(Book!PlanOf(page.of)', page.of) => Book!Rests(Book!PlanOf(page.of), page.of)
               /\ Book!PlanOf(page.of)'.source \in Nat /\ page.of \in Nat
    <3>1. /\ submitted[page.of].content \in Contents /\ Book!PlanOf(page.of) = plans[submitted[page.of].content]
          /\ page.of \in Nat /\ Book!PlanOf(page.of).source \in Nat /\ Book!PlanOf(page.of) \in PlanRow
      BY <1>0, <2>4, BookRows DEF Book!PlanOf
    <3>2. Book!PlanOf(page.of)' = plans'[submitted[page.of].content] /\ page.of \in DOMAIN submitted'
      BY <2>1, <2>4 DEF Book!PlanOf, Follows
    <3>3. plans'[submitted[page.of].content].source \in Nat
      BY <3>1 DEF Follows, PlanRow
    <3> QED BY <3>1, <3>2, <3>3, <2>4 DEF Follows
  <2>5. OpeningFits'
    BY <2>1, <2>4, <1>0 DEF OpeningFits
  <2>6. CountFits'
    BY <2>1, <1>0, BookRows DEF CountFits, Follows, BookPages
  <2>7. Book!CardsOpenPlans'
    <3>1. CASE page.doing # "opened"
      BY <3>1, <2>1 DEF Book!CardsOpenPlans
    <3>2. CASE page.doing = "opened"
      <4>1. page.of \in DOMAIN submitted
        BY <3>2, <1>0 DEF OpeningFits
      <4> QED BY <3>2, <4>1, <2>1, <2>4, <1>0 DEF Book!CardsOpenPlans
    <3> QED BY <3>1, <3>2
  <2> QED BY <2>2, <2>3, <2>5, <2>6, <2>7 DEF BookInv
<1> QED BY <1>1, <1>2

\* An answer: a wrong one is the card of its question.
LEMMA AnswerHolds ==
  ASSUME BookInv, NEW c \in Contents, NEW correct \in BOOLEAN, NEW review \in BOOLEAN,
         Book!Answer(c, correct, review)
  PROVE  BookInv'
<1> DEFINE n == Len(submitted) + 1
           row == [content |-> c, correct |-> correct, archived |-> FALSE]
<1>0. BookTyped /\ PlansRest /\ CardsRest /\ Book!Unsettles
  BY DEF BookInv, Book!Answer
<1>1. row \in MistakeRow /\ row.content = c /\ row.correct = correct /\ row.archived = FALSE /\ submitted' = Append(submitted, row)
  BY DEF Book!Answer, MistakeRow
<1> HIDE DEF row
<1>2. /\ submitted' \in Seq(MistakeRow) /\ DOMAIN submitted' = DOMAIN submitted \cup {n} /\ n \notin DOMAIN submitted
      /\ n \in Nat /\ submitted'[n] = row /\ Len(submitted') = n /\ Len(submitted) <= n
      /\ \A i \in DOMAIN submitted : submitted'[i] = submitted[i] /\ i \in Nat /\ i < n
  <2>1. /\ submitted \in Seq(MistakeRow) /\ Len(submitted) \in Nat /\ DOMAIN submitted = 1..Len(submitted)
    BY <1>0, BookRows DEF BookTyped
  <2>2. /\ submitted' \in Seq(MistakeRow) /\ Len(submitted') = n /\ submitted'[n] = row
        /\ \A i \in 1..Len(submitted) : submitted'[i] = submitted[i]
    BY <2>1, <1>1, AppendProperties
  <2>3. DOMAIN submitted' = 1..n
    BY <2>2
  <2> QED BY <2>1, <2>2, <2>3
<1>3. /\ plans' \in [Contents -> PlanRow] /\ \A d \in Contents \ {c} : plans'[d] = plans[d]
      /\ plans'[c] = IF correct THEN Book!Right(plans[c], review) ELSE Book!Wrong(plans[c], n)
  <2>1. plans' = [plans EXCEPT ![c] = IF correct THEN Book!Right(plans[c], review) ELSE Book!Wrong(plans[c], n)]
    BY DEF Book!Answer
  <2>2. (IF correct THEN Book!Right(plans[c], review) ELSE Book!Wrong(plans[c], n)) \in PlanRow
    BY <1>0, <1>2, BookRows, PlansMove
  <2> QED BY <2>1, <2>2, <1>0 DEF BookTyped
<1> HIDE DEF n
<1>4. /\ plans[c] \in PlanRow /\ plans[c].source \in Nat /\ \A d \in Contents : Begun(plans[d]) => plans[d].source \in DOMAIN submitted
      /\ Book!Cards \subseteq DOMAIN submitted /\ \A i \in DOMAIN submitted : submitted[i].content \in Contents
  <2>1. Book!Cards \subseteq DOMAIN submitted
    BY <1>0, BookRows
  <2> QED BY <2>1, <1>0, BookRows DEF PlansRest
<1>5. CASE correct
  <2>1. plans'[c].source = plans[c].source /\ (Begun(plans'[c]) <=> Begun(plans[c]))
    BY <1>3, <1>4, <1>5, PlansMove
  <2>2. \A d \in Contents : plans'[d].source = plans[d].source /\ (Begun(plans'[d]) <=> Begun(plans[d]))
    BY <2>1, <1>3
  <2>3. Book!Kept' = Book!Kept
    BY <1>1, <1>2, <1>5 DEF Book!Kept, Book!Mistakes
  <2>4. Book!Cards' = Book!Cards
    BY <2>3, <1>2 DEF Book!Cards, Book!Representative, Book!Kept, Book!Mistakes
  <2>5. PlansRest'
    <3> SUFFICES ASSUME NEW d \in Contents
                 PROVE  /\ plans'[d].source <= Len(submitted')
                        /\ Begun(plans'[d]) => plans'[d].source \in Book!Cards' /\ submitted'[plans'[d].source].content = d
      BY DEF PlansRest
    <3>1. /\ plans[d].source <= Len(submitted) /\ plans[d].source \in Nat /\ Len(submitted) \in Nat
          /\ Begun(plans[d]) => plans[d].source \in Book!Cards /\ submitted[plans[d].source].content = d
      BY <1>0, BookRows DEF PlansRest
    <3>2. plans'[d].source = plans[d].source /\ (Begun(plans'[d]) <=> Begun(plans[d]))
      BY <2>2
    <3> QED BY <3>1, <3>2, <2>4, <1>2, <1>4
  <2>6. CardsRest'
    BY <2>2, <2>4, <1>0, <1>2, <1>4 DEF CardsRest, Book!Rests, Book!PlanOf, Begun
  <2>7. Follows
    BY <2>2, <1>2, <1>3, <1>0, BookRows DEF Follows, Book!Rests, Begun
  <2> QED BY <2>5, <2>6, <2>7, <1>0, PagesUnsettle
<1>6. CASE ~correct
  <2>1. plans'[c].source = n /\ Begun(plans'[c])
    <3>1. plans'[c] = Book!Wrong(plans[c], n) /\ plans[c] \in PlanRow /\ n \in Nat
      BY <1>2, <1>3, <1>4, <1>6
    <3>2. Book!Wrong(plans[c], n).source = n /\ Begun(Book!Wrong(plans[c], n))
      BY <3>1, PlansMove
    <3> QED BY <3>1, <3>2, Zenon
  <2>2. Book!Kept' = Book!Kept \cup {n} /\ Book!Kept \subseteq DOMAIN submitted
    BY <1>1, <1>2, <1>6 DEF Book!Kept, Book!Mistakes
  <2>3. n \in Book!Cards' /\ \A i \in Book!Cards' \ {n} : i \in Book!Cards /\ submitted[i].content # c
    <3>1. n \in Book!Cards'
      BY <2>2, <1>1, <1>2 DEF Book!Cards, Book!Representative
    <3>2. ASSUME NEW i \in Book!Cards' \ {n} PROVE i \in Book!Cards /\ submitted[i].content # c
      <4>1. i \in Book!Kept /\ \A j \in Book!Kept \cup {n} : submitted'[j].content = submitted'[i].content => j <= i
        BY <2>2, <3>2 DEF Book!Cards, Book!Representative
      <4>2. i \in DOMAIN submitted /\ i < n /\ i \in Nat /\ n \in Nat /\ submitted'[i] = submitted[i] /\ submitted'[n].content = c
        BY <4>1, <2>2, <1>1, <1>2
      <4>3. submitted[i].content # c
        BY <4>1, <4>2
      <4>4. i \in Book!Cards
        BY <4>1, <4>2, <2>2, <1>2 DEF Book!Cards, Book!Representative
      <4> QED BY <4>3, <4>4
    <3> QED BY <3>1, <3>2
  <2>4. \A i \in Book!Cards : submitted[i].content # c => i \in Book!Cards'
    <3> SUFFICES ASSUME NEW i \in Book!Cards, submitted[i].content # c PROVE i \in Book!Cards'
      OBVIOUS
    <3>1. i \in Book!Kept /\ i \in DOMAIN submitted /\ \A j \in Book!Kept : submitted[j].content = submitted[i].content => j <= i
      BY <2>2 DEF Book!Cards, Book!Representative
    <3> QED BY <3>1, <2>2, <1>1, <1>2 DEF Book!Cards, Book!Representative
  <2>5. PlansRest'
    <3> SUFFICES ASSUME NEW d \in Contents
                 PROVE  /\ plans'[d].source <= Len(submitted')
                        /\ Begun(plans'[d]) => plans'[d].source \in Book!Cards' /\ submitted'[plans'[d].source].content = d
      BY DEF PlansRest
    <3>1. CASE d = c
      BY <3>1, <2>1, <2>3, <1>1, <1>2
    <3>2. CASE d # c
      <4>1. /\ plans'[d] = plans[d] /\ plans[d].source \in Nat /\ plans[d].source <= Len(submitted) /\ Len(submitted) \in Nat
            /\ Begun(plans[d]) => plans[d].source \in Book!Cards /\ submitted[plans[d].source].content = d
        BY <3>2, <1>0, <1>3, BookRows DEF PlansRest
      <4> QED BY <4>1, <3>2, <2>4, <1>2, <1>4
    <3> QED BY <3>1, <3>2
  <2>6. CardsRest'
    <3> SUFFICES ASSUME NEW i \in Book!Cards' PROVE Book!Rests(plans'[submitted'[i].content], i)
      BY DEF CardsRest, Book!PlanOf
    <3>1. CASE i = n
      BY <3>1, <2>1, <1>1, <1>2 DEF Book!Rests, Begun
    <3>2. CASE i # n
      <4>1. i \in Book!Cards /\ submitted[i].content # c /\ submitted'[i] = submitted[i] /\ submitted[i].content \in Contents
        BY <3>2, <2>3, <1>2, <1>4
      <4>2. plans'[submitted[i].content] = plans[submitted[i].content]
        BY <4>1, <1>3
      <4> QED BY <4>1, <4>2, <1>0 DEF CardsRest, Book!PlanOf
    <3> QED BY <3>1, <3>2
  <2>7. Follows
    <3>1. ASSUME NEW d \in Contents
          PROVE  /\ plans'[d].source >= plans[d].source
                 /\ \A i \in DOMAIN submitted : Book!Rests(plans'[d], i) => Book!Rests(plans[d], i)
      <4>1. CASE d = c
        <5>1. plans[c].source <= n
          BY <1>0, <1>2, <1>4, BookRows DEF PlansRest
        <5> QED BY <5>1, <4>1, <2>1, <1>2, <1>4 DEF Book!Rests
      <4>2. CASE d # c
        BY <4>2, <1>3, <1>0, BookRows
      <4> QED BY <4>1, <4>2
    <3> QED BY <3>1, <1>2, <1>3 DEF Follows
  <2> QED BY <2>5, <2>6, <2>7, <1>0, PagesUnsettle
<1> QED BY <1>5, <1>6

\* A due date comes.
LEMMA DueHolds ==
  ASSUME BookInv, NEW c \in Contents, Book!DueComes(c)
  PROVE  BookInv'
<1>0. BookTyped /\ PlansRest /\ CardsRest /\ Book!Unsettles /\ submitted' = submitted
  BY DEF BookInv, Book!DueComes
<1>1. plans' = [plans EXCEPT ![c].due = 1] /\ plans[c] \in PlanRow
  BY <1>0, BookRows DEF Book!DueComes
<1>2. plans' \in [Contents -> PlanRow] /\ \A d \in Contents : plans'[d].source = plans[d].source /\ plans'[d].status = plans[d].status
  BY <1>0, <1>1 DEF BookTyped, PlanRow
<1>3. Book!Cards' = Book!Cards /\ Book!Cards \subseteq DOMAIN submitted /\ \A i \in DOMAIN submitted : submitted[i].content \in Contents
  BY <1>0, BookRows DEF Book!Cards, Book!Representative, Book!Kept, Book!Mistakes
<1>4. PlansRest'
  BY <1>0, <1>2, <1>3 DEF PlansRest, Begun
<1>5. CardsRest'
  BY <1>0, <1>2, <1>3 DEF CardsRest, Book!Rests, Book!PlanOf
<1>6. Follows
  BY <1>0, <1>2, BookRows DEF Follows, Book!Rests, BookTyped
<1> QED BY <1>0, <1>4, <1>5, <1>6, PagesUnsettle

\* A mistake is archived: its card and its plan are gone.
LEMMA DeleteHolds ==
  ASSUME BookInv, NEW i \in DOMAIN submitted, Book!DeleteMistake(i)
  PROVE  BookInv'
<1> DEFINE c == submitted[i].content
           gone(j) == submitted[j].archived \/ (submitted[j].content = c /\ ~submitted[j].correct)
           row(j) == [submitted[j] EXCEPT !.archived = gone(j)]
<1>0. BookTyped /\ PlansRest /\ CardsRest /\ Book!Unsettles /\ c \in Contents
  BY BookRows DEF BookInv, Book!DeleteMistake
<1>1. /\ submitted' = [j \in DOMAIN submitted |-> row(j)]
      /\ plans' = [plans EXCEPT ![c].status = "archived", ![c].due = Book!Never]
  BY DEF Book!DeleteMistake
<1>2. \A j \in DOMAIN submitted : /\ row(j) \in MistakeRow /\ row(j).content = submitted[j].content
                                  /\ row(j).correct = submitted[j].correct /\ row(j).archived = gone(j)
  <2> SUFFICES ASSUME NEW j \in DOMAIN submitted
               PROVE  /\ row(j) \in MistakeRow /\ row(j).content = submitted[j].content
                      /\ row(j).correct = submitted[j].correct /\ row(j).archived = gone(j)
    OBVIOUS
  <2>1. submitted[j] \in MistakeRow /\ gone(j) \in BOOLEAN
    BY <1>0, BookRows
  <2> HIDE DEF gone, c
  <2> QED BY <2>1 DEF MistakeRow
<1> HIDE DEF row
<1>3. /\ submitted' \in Seq(MistakeRow) /\ DOMAIN submitted' = DOMAIN submitted /\ Len(submitted') = Len(submitted)
      /\ \A j \in DOMAIN submitted : submitted'[j] = row(j)
  <2>1. Len(submitted) \in Nat /\ DOMAIN submitted = 1..Len(submitted)
    BY <1>0, BookRows
  <2>2. submitted' \in [1..Len(submitted) -> MistakeRow]
    BY <2>1, <1>1, <1>2
  <2> QED BY <2>1, <2>2, <1>1
<1>4. /\ plans' \in [Contents -> PlanRow] /\ plans'[c].status = "archived"
      /\ \A d \in Contents : plans'[d].source = plans[d].source /\ (d # c => plans'[d] = plans[d])
  <2>1. plans[c] \in PlanRow
    BY <1>0, BookRows
  <2>2. "archived" \in Book!Statuses /\ Book!Never \in Nat
    BY DEF Book!Statuses, Book!Never
  <2> HIDE DEF c
  <2> QED BY <1>0, <1>1, <2>1, <2>2 DEF BookTyped, PlanRow
<1>5. \A j \in Book!Kept' : j \in Book!Kept /\ submitted[j].content # c /\ submitted'[j].content = submitted[j].content
  BY <1>2, <1>3 DEF Book!Kept, Book!Mistakes
<1>6. \A j \in Book!Kept : /\ submitted'[j].content = submitted[j].content /\ j \in DOMAIN submitted
                           /\ submitted[j].content # c => j \in Book!Kept'
  <2> SUFFICES ASSUME NEW j \in Book!Kept
               PROVE  /\ submitted'[j].content = submitted[j].content /\ j \in DOMAIN submitted
                      /\ submitted[j].content # c => j \in Book!Kept'
    OBVIOUS
  <2>1. j \in DOMAIN submitted /\ ~submitted[j].correct /\ ~submitted[j].archived
    BY DEF Book!Kept, Book!Mistakes
  <2>2. submitted'[j].content = submitted[j].content /\ submitted'[j].correct = submitted[j].correct /\ submitted'[j].archived = gone(j)
    BY <2>1, <1>2, <1>3
  <2> QED BY <2>1, <2>2, <1>3 DEF Book!Kept, Book!Mistakes
<1> HIDE DEF c, gone
<1>7. \A j \in Book!Cards' : j \in Book!Cards /\ submitted[j].content # c
  <2> SUFFICES ASSUME NEW j \in Book!Cards' PROVE j \in Book!Cards /\ submitted[j].content # c
    OBVIOUS
  <2>1. j \in Book!Kept' /\ \A k \in Book!Kept' : submitted'[k].content = submitted'[j].content => k <= j
    BY DEF Book!Cards, Book!Representative
  <2>2. j \in Book!Kept /\ submitted[j].content # c /\ submitted'[j].content = submitted[j].content
    BY <2>1, <1>5
  <2>3. ASSUME NEW k \in Book!Kept, submitted[k].content = submitted[j].content PROVE k <= j
    BY <2>1, <2>2, <2>3, <1>6
  <2> QED BY <2>2, <2>3 DEF Book!Cards, Book!Representative
<1>8. \A j \in Book!Cards : submitted[j].content # c => j \in Book!Cards'
  <2> SUFFICES ASSUME NEW j \in Book!Cards, submitted[j].content # c PROVE j \in Book!Cards'
    OBVIOUS
  <2>1. j \in Book!Kept /\ \A k \in Book!Kept : submitted[k].content = submitted[j].content => k <= j
    BY DEF Book!Cards, Book!Representative
  <2>2. j \in Book!Kept' /\ submitted'[j].content = submitted[j].content
    BY <2>1, <1>6
  <2>3. ASSUME NEW k \in Book!Kept', submitted'[k].content = submitted'[j].content PROVE k <= j
    BY <2>1, <2>2, <2>3, <1>5
  <2> QED BY <2>2, <2>3 DEF Book!Cards, Book!Representative
<1>9. Book!Cards \subseteq DOMAIN submitted /\ \A j \in DOMAIN submitted : submitted[j].content \in Contents
  BY <1>0, BookRows
<1>10. PlansRest'
  <2> SUFFICES ASSUME NEW d \in Contents
               PROVE  /\ plans'[d].source <= Len(submitted')
                      /\ Begun(plans'[d]) => plans'[d].source \in Book!Cards' /\ submitted'[plans'[d].source].content = d
    BY DEF PlansRest
  <2>1. /\ plans[d].source <= Len(submitted) /\ plans'[d].source = plans[d].source
        /\ Begun(plans[d]) => plans[d].source \in Book!Cards /\ submitted[plans[d].source].content = d
    BY <1>0, <1>4 DEF PlansRest
  <2>2. Begun(plans'[d]) => d # c /\ Begun(plans[d])
    BY <1>4 DEF Begun
  <2> QED BY <2>1, <2>2, <1>2, <1>3, <1>8, <1>9
<1>11. CardsRest'
  <2> SUFFICES ASSUME NEW j \in Book!Cards' PROVE Book!Rests(plans'[submitted'[j].content], j)
    BY DEF CardsRest, Book!PlanOf
  <2>1. j \in Book!Cards /\ submitted[j].content # c /\ submitted'[j].content = submitted[j].content /\ submitted[j].content \in Contents
    BY <1>2, <1>3, <1>7, <1>9
  <2> QED BY <2>1, <1>0, <1>4 DEF CardsRest, Book!PlanOf
<1>12. Follows
  <2>1. ASSUME NEW d \in Contents
        PROVE  plans'[d].source >= plans[d].source /\ \A j \in DOMAIN submitted : Book!Rests(plans'[d], j) => Book!Rests(plans[d], j)
    <3>1. plans'[d].source = plans[d].source /\ plans[d].source \in Nat
      BY <1>0, <1>4, BookRows
    <3> QED BY <3>1, <1>4 DEF Book!Rests
  <2> QED BY <2>1, <1>0, <1>2, <1>3, <1>4, BookRows DEF Follows
<1> QED BY <1>0, <1>10, <1>11, <1>12, PagesUnsettle

\* A page is read: the book stays, and the page is as it should.
LEMMA ReadsHold ==
  ASSUME BookInv, UNCHANGED <<submitted, plans>>, page' \in BookPages,
         ListFits', OpeningFits', CountFits', Book!CardsOpenPlans', Book!SharesAreShares'
  PROVE  BookInv'
<1>1. submitted' = submitted /\ plans' = plans
  OBVIOUS
<1>2. Book!Cards' = Book!Cards
  BY <1>1 DEF Book!Cards, Book!Representative, Book!Kept, Book!Mistakes
<1>3. PlansRest' /\ CardsRest'
  BY <1>1, <1>2 DEF BookInv, PlansRest, CardsRest, Book!PlanOf
<1> QED BY <1>1, <1>3 DEF BookInv, BookTyped

\* The rows of a query are the same while the book is.
LEMMA RowsRest ==
  ASSUME UNCHANGED <<submitted, plans>>, NEW query \in Book!CardQueries \cup Book!PlanQueries, NEW number
  PROVE  Book!Counted(query)' = Book!Counted(query) /\ RowsUpto(query, number)' = RowsUpto(query, number)
<1>1. submitted' = submitted /\ plans' = plans
  OBVIOUS
<1>2. Book!Cards' = Book!Cards
  BY <1>1 DEF Book!Cards, Book!Representative, Book!Kept, Book!Mistakes
<1>3. \A i \in Book!Cards : Book!PlanOf(i)' = Book!PlanOf(i)
  BY <1>1 DEF Book!PlanOf
<1>4. Book!Rows(query.kind, query.filter)' = Book!Rows(query.kind, query.filter)
  BY <1>1, <1>2, <1>3 DEF Book!Rows, Book!ListMistakes, Book!Passes, Book!IsDue, Book!Scheduled, Book!Active
<1>5. Book!KeyOf(query.kind, query.sort)' = Book!KeyOf(query.kind, query.sort)
  BY <1>1, <1>2, <1>3 DEF Book!KeyOf, Book!SortKey
<1> QED BY <1>4, <1>5 DEF Book!Counted, RowsUpto, Foregoing, Ahead, Book!Before

\* A list is opened: its rows are counted.
LEMMA ListHolds ==
  ASSUME BookInv, NEW query \in Book!CardQueries \cup Book!PlanQueries, Book!ListMistakePage(query)
  PROVE  BookInv'
<1> DEFINE doing == IF Book!Counted(query) = 0 THEN "listed" ELSE "listing"
           fresh == Book!Page(doing)
<1>0. BookTyped /\ UNCHANGED <<submitted, plans>> /\ Book!Counted(query) \in Nat
  BY RowsAreKeyed, FS_CardinalityType, BookCounts DEF BookInv, Book!ListMistakePage, Book!Counted
<1>1. /\ fresh \in BookPages /\ fresh.doing = doing /\ fresh.number = 1 /\ fresh.seen = {} /\ fresh.rows = {}
      /\ fresh.steady = TRUE /\ fresh.result = "none"
  BY PageIsARow DEF Doings
<1>2. page' = [fresh EXCEPT !.query = query, !.total = Book!Counted(query)]
  BY DEF Book!ListMistakePage
<1> HIDE DEF fresh
<1>3. /\ page' \in BookPages /\ page'.doing = doing /\ page'.number = 1 /\ page'.seen = {} /\ page'.rows = {}
      /\ page'.result = "none" /\ page'.query = query /\ page'.total = Book!Counted(query)
  BY <1>0, <1>1, <1>2 DEF BookPages
<1>4. RowsUpto(query, 0) = {} /\ (Book!Counted(query) = 0 => RowsUpto(query, 1) = {})
  <2>1. RowsUpto(query, 0) = {}
    BY <1>0, PagesGrow
  <2>2. ASSUME Book!Counted(query) = 0 PROVE RowsUpto(query, 1) = {}
    <3>1. \A x \in Book!Rows(query.kind, query.filter) : FALSE
      BY <1>0, <2>2, RanksAreBounded
    <3> QED BY <3>1 DEF RowsUpto
  <2> QED BY <2>1, <2>2
<1>5. \A k : Book!Counted(query)' = Book!Counted(query) /\ RowsUpto(query, k)' = RowsUpto(query, k)
  BY <1>0, RowsRest
<1>6. 1 - 1 = 0
  OBVIOUS
<1>7. ListFits'
  BY <1>3, <1>4, <1>5, <1>6 DEF ListFits
<1>8. OpeningFits' /\ CountFits' /\ Book!CardsOpenPlans' /\ Book!SharesAreShares'
  BY <1>3 DEF OpeningFits, CountFits, Book!CardsOpenPlans, Book!SharesAreShares
<1> QED BY <1>0, <1>3, <1>7, <1>8, ReadsHold

\* The rows of a page are read.
LEMMA RowsHold ==
  ASSUME BookInv, Book!ReadRows
  PROVE  BookInv'
<1>0. BookTyped /\ UNCHANGED <<submitted, plans>> /\ page \in BookPages /\ page.doing = "listing"
  BY DEF BookInv, Book!ReadRows, BookTyped
<1> PICK q \in Book!CardQueries \cup Book!PlanQueries, number \in Nat \ {0} : page.query = q /\ page.number = number
  BY <1>0 DEF BookInv, ListFits, BookPages
<1>1. /\ page.query = q /\ page.number = number
      /\ page.steady => /\ page.total = Book!Counted(q) /\ page.result # "other count"
                        /\ page.seen \cup page.rows = RowsUpto(q, number - 1)
  BY <1>0 DEF BookInv, ListFits, BookPages
<1>2. PICK rows \in Book!PagesOf(Book!Rows(q.kind, q.filter), Book!KeyOf(q.kind, q.sort), q.direction, number) :
        page' = [page EXCEPT !.doing = "listed", !.rows = rows, !.seen = page.seen \cup page.rows]
  BY DEF Book!ReadRows
<1>3. rows = RowsUpto(q, number) \ RowsUpto(q, number - 1)
  BY <1>0, <1>1, <1>2, PageOfRows
<1>4. rows \subseteq Nat
  BY <1>0, <1>1, <1>3, RowsAreKeyed DEF RowsUpto
<1>5. /\ page' \in BookPages /\ page'.doing = "listed" /\ page'.query = q /\ page'.number = number
      /\ page'.steady = page.steady /\ page'.total = page.total /\ page'.result = page.result
      /\ page'.rows = rows /\ page'.seen = page.seen \cup page.rows
  <2>1. page.seen \in SUBSET Nat /\ page.rows \in SUBSET Nat
    BY <1>0 DEF BookPages
  <2> QED BY <2>1, <1>0, <1>2, <1>4 DEF BookPages, Doings
<1>6. \A k : Book!Counted(q)' = Book!Counted(q) /\ RowsUpto(q, k)' = RowsUpto(q, k)
  BY <1>0, RowsRest
<1>7. ListFits'
  BY <1>1, <1>3, <1>5, <1>6 DEF ListFits
<1>8. OpeningFits' /\ CountFits' /\ Book!CardsOpenPlans' /\ Book!SharesAreShares'
  BY <1>5 DEF OpeningFits, CountFits, Book!CardsOpenPlans, Book!SharesAreShares
<1> QED BY <1>0, <1>5, <1>7, <1>8, ReadsHold

\* The student turns the page.
LEMMA TurnHolds ==
  ASSUME BookInv, Book!NextPage
  PROVE  BookInv'
<1>0. /\ BookTyped /\ UNCHANGED <<submitted, plans>> /\ page \in BookPages /\ page.doing = "listed"
      /\ page' = [page EXCEPT !.doing = "listing", !.number = page.number + 1]
  BY DEF BookInv, Book!NextPage, BookTyped
<1> PICK q \in Book!CardQueries \cup Book!PlanQueries, number \in Nat \ {0} : page.query = q /\ page.number = number
  BY <1>0 DEF BookInv, ListFits, BookPages
<1>1. page.steady => /\ page.total = Book!Counted(q) /\ page.result # "other count"
                     /\ page.seen = RowsUpto(q, number - 1)
                     /\ page.rows = RowsUpto(q, number) \ RowsUpto(q, number - 1)
  BY <1>0 DEF BookInv, ListFits
<1> DEFINE next == page.number + 1
<1>n. next \in Nat /\ next = number + 1 /\ next # 0 /\ next - 1 = number
  OBVIOUS
<1> HIDE DEF next
<1>2. /\ page' \in BookPages /\ page'.doing = "listing" /\ page'.query = q /\ page'.number = next
      /\ page'.steady = page.steady /\ page'.total = page.total /\ page'.result = page.result
      /\ page'.rows = page.rows /\ page'.seen = page.seen
  BY <1>0, <1>n DEF BookPages, Doings, next
<1>3. RowsUpto(q, number - 1) \subseteq RowsUpto(q, number)
  BY <1>0, PagesGrow
<1>4. \A k : Book!Counted(q)' = Book!Counted(q) /\ RowsUpto(q, k)' = RowsUpto(q, k)
  BY <1>0, RowsRest
<1>5. ListFits'
  <2> SUFFICES ASSUME page.steady
               PROVE  /\ page'.total = Book!Counted(q)' /\ page'.result # "other count"
                      /\ page'.seen \cup page'.rows = RowsUpto(q, number)'
    BY <1>n, <1>2 DEF ListFits
  <2> QED BY <1>1, <1>2, <1>3, <1>4, ZenonT(30)
<1>6. OpeningFits' /\ CountFits' /\ Book!CardsOpenPlans' /\ Book!SharesAreShares'
  BY <1>2 DEF OpeningFits, CountFits, Book!CardsOpenPlans, Book!SharesAreShares
<1> QED BY <1>0, <1>2, <1>5, <1>6, ReadsHold

\* The plans that are due are counted beside their list.
LEMMA DueCountHolds ==
  ASSUME BookInv, Book!CountReviewTasks
  PROVE  BookInv'
<1> DEFINE result == IF page.query.filter = "due" /\ Book!DueNow # page.total THEN "other count" ELSE "counted"
<1>0. /\ BookTyped /\ UNCHANGED <<submitted, plans>> /\ page \in BookPages /\ page.doing = "listed"
      /\ page.query.kind = "plans" /\ page' = [page EXCEPT !.result = result]
  BY DEF BookInv, Book!CountReviewTasks, BookTyped
<1> PICK q \in Book!CardQueries \cup Book!PlanQueries, number \in Nat \ {0} : page.query = q /\ page.number = number
  BY <1>0 DEF BookInv, ListFits, BookPages
<1>1. page.steady => /\ page.total = Book!Counted(q) /\ page.seen = RowsUpto(q, number - 1)
                     /\ page.rows = RowsUpto(q, number) \ RowsUpto(q, number - 1)
  BY <1>0 DEF BookInv, ListFits
<1>2. ASSUME page.steady PROVE result = "counted"
  <2>1. CASE q.filter # "due"
    BY <2>1
  <2>2. CASE q.filter = "due"
    <3>1. Book!Rows("plans", "due") = {c \in Contents : Book!IsDue(plans[c])}
      BY DEF Book!Rows, Book!Passes, Book!IsDue
    <3> QED BY <3>1, <2>2, <1>0, <1>1, <1>2 DEF Book!Counted, Book!DueNow
  <2> QED BY <2>1, <2>2
<1>3. result \in BookResults
  BY DEF BookResults
<1> HIDE DEF result
<1>4. /\ page' \in BookPages /\ page'.doing = "listed" /\ page'.query = q /\ page'.number = number
      /\ page'.steady = page.steady /\ page'.total = page.total /\ page'.result = result
      /\ page'.rows = page.rows /\ page'.seen = page.seen
  BY <1>0, <1>3 DEF BookPages
<1>5. \A k : Book!Counted(q)' = Book!Counted(q) /\ RowsUpto(q, k)' = RowsUpto(q, k)
  BY <1>0, RowsRest
<1>6. ListFits'
  BY <1>1, <1>2, <1>4, <1>5 DEF ListFits
<1>7. OpeningFits' /\ CountFits' /\ Book!CardsOpenPlans' /\ Book!SharesAreShares'
  BY <1>4 DEF OpeningFits, CountFits, Book!CardsOpenPlans, Book!SharesAreShares
<1> QED BY <1>0, <1>4, <1>6, <1>7, ReadsHold

\* The exercise of a card is opened.
LEMMA MistakeHolds ==
  ASSUME BookInv, NEW i \in DOMAIN submitted, Book!GetMistakeByAttempt(i)
  PROVE  BookInv'
<1> DEFINE fresh == Book!Page("opening")
<1>0. BookTyped /\ UNCHANGED <<submitted, plans>> /\ i \in Nat
  BY BookRows DEF BookInv, Book!GetMistakeByAttempt
<1>1. fresh \in BookPages /\ fresh.doing = "opening" /\ page' = [fresh EXCEPT !.of = i]
  BY PageIsARow DEF Doings, Book!GetMistakeByAttempt
<1> HIDE DEF fresh
<1>2. page' \in BookPages /\ page'.doing = "opening" /\ page'.of = i
  BY <1>0, <1>1 DEF BookPages
<1>3. i \in Book!Cards'
  BY <1>0 DEF Book!GetMistakeByAttempt, Book!Cards, Book!Representative, Book!Kept, Book!Mistakes
<1>4. ListFits' /\ OpeningFits' /\ CountFits' /\ Book!CardsOpenPlans' /\ Book!SharesAreShares'
  BY <1>0, <1>2, <1>3 DEF ListFits, OpeningFits, CountFits, Book!CardsOpenPlans, Book!SharesAreShares
<1> QED BY <1>0, <1>2, <1>4, ReadsHold

\* The plan of the card is read, if the card has one still.
LEMMA TaskHolds ==
  ASSUME BookInv, Book!GetReviewTaskByAttempt
  PROVE  BookInv'
<1> DEFINE doing == IF Book!Rests(Book!PlanOf(page.of), page.of) THEN "loading" ELSE "opened"
           result == IF Book!Rests(Book!PlanOf(page.of), page.of) THEN "none" ELSE "redo"
           review == Book!PlanOf(page.of)
<1>0. /\ BookTyped /\ CardsRest /\ UNCHANGED <<submitted, plans>> /\ page \in BookPages /\ page.doing = "opening"
      /\ page' = [page EXCEPT !.doing = doing, !.result = result, !.plan = review]
      /\ page.of \in DOMAIN submitted /\ (page.steady => page.of \in Book!Cards)
  BY DEF BookInv, Book!GetReviewTaskByAttempt, BookTyped, OpeningFits
<1>1. /\ review \in PlanRow /\ doing \in Doings /\ result \in BookResults /\ review = plans[submitted[page.of].content]
      /\ review.source \in Nat /\ page.of \in Nat
  BY <1>0, BookRows DEF Book!PlanOf, Doings, BookResults
<1>2. page.steady => Book!Rests(review, page.of)
  BY <1>0 DEF CardsRest
<1>3. /\ Book!Rests(review, page.of) => doing = "loading" /\ result = "none" /\ Begun(review) /\ review.source = page.of
      /\ ~Book!Rests(review, page.of) => doing = "opened" /\ result = "redo"
  BY DEF Book!Rests, Begun
<1>4. \A d, r : page' = [page EXCEPT !.doing = d, !.result = r, !.plan = review] /\ d \in Doings /\ r \in BookResults
                => /\ page' \in BookPages /\ page'.doing = d /\ page'.result = r /\ page'.plan = review
                   /\ page'.of = page.of /\ page'.steady = page.steady
  <2> HIDE DEF review
  <2> QED BY <1>0, <1>1, ZenonT(30) DEF BookPages
<1>5. /\ page' \in BookPages /\ page'.doing = doing /\ page'.result = result /\ page'.plan = review
      /\ page'.of = page.of /\ page'.steady = page.steady
  BY <1>0, <1>1, <1>4
<1>6. Book!PlanOf(page.of)' = review
  BY <1>0, <1>5 DEF Book!PlanOf
<1> HIDE DEF doing, result, review
<1>7. OpeningFits'
  BY <1>0, <1>1, <1>2, <1>3, <1>5, <1>6 DEF OpeningFits
<1>8. Book!CardsOpenPlans'
  BY <1>2, <1>3, <1>5, <1>6 DEF Book!CardsOpenPlans
<1>9. ListFits' /\ CountFits' /\ Book!SharesAreShares'
  BY <1>3, <1>5 DEF ListFits, CountFits, Book!SharesAreShares
<1> QED BY <1>0, <1>5, <1>7, <1>8, <1>9, ReadsHold

\* The review is opened, if its plan is in the view still.
LEMMA ReviewHolds ==
  ASSUME BookInv, Book!GetReviewExerciseByAttempt
  PROVE  BookInv'
<1> DEFINE result == IF Book!InView(Book!PlanOf(page.of), page.plan) THEN "review" ELSE "not found"
           review == Book!PlanOf(page.of)
<1>0. /\ BookTyped /\ UNCHANGED <<submitted, plans>> /\ page \in BookPages /\ page.doing = "loading"
      /\ page' = [page EXCEPT !.doing = "opened", !.result = result, !.plan = review]
      /\ page.of \in DOMAIN submitted /\ Begun(page.plan) /\ review.source >= page.of
      /\ page.steady => page.plan = review
  BY DEF BookInv, Book!GetReviewExerciseByAttempt, BookTyped, OpeningFits
<1>1. review \in PlanRow /\ result \in BookResults /\ page.plan \in PlanRow
  BY <1>0, BookRows DEF Book!PlanOf, BookResults, BookPages
<1>2. result = "review" => Begun(review)
  BY DEF Book!InView, Book!Active, Begun
<1>3. page.steady => result = "review"
  <2>1. Begun(page.plan) => Book!Active(page.plan) \/ page.plan.status = "mastered"
    BY <1>1 DEF Begun, Book!Active, PlanRow, Book!Statuses
  <2> QED BY <2>1, <1>0 DEF Book!InView
<1>4. result \in {"review", "not found"}
  OBVIOUS
<1> HIDE DEF result, review
<1>5. /\ page' \in BookPages /\ page'.doing = "opened" /\ page'.result = result /\ page'.plan = review
      /\ page'.of = page.of /\ page'.steady = page.steady
  BY <1>0, <1>1 DEF BookPages, Doings
<1>6. Book!CardsOpenPlans'
  BY <1>0, <1>2, <1>3, <1>4, <1>5 DEF Book!CardsOpenPlans, Begun
<1>7. ListFits' /\ OpeningFits' /\ CountFits' /\ Book!SharesAreShares'
  BY <1>0, <1>5 DEF ListFits, OpeningFits, CountFits, Book!SharesAreShares
<1> QED BY <1>0, <1>5, <1>6, <1>7, ReadsHold

\* The statistics: the mistakes are counted, and then the answers.
LEMMA StatisticsHold ==
  ASSUME BookInv, Book!GetStatistics \/ Book!CountSubmittedAttempts
  PROVE  BookInv'
<1>0. BookTyped /\ UNCHANGED <<submitted, plans>> /\ page \in BookPages /\ Len(submitted) \in Nat
  BY BookRows DEF BookInv, Book!GetStatistics, Book!CountSubmittedAttempts, BookTyped
<1>1. CASE Book!GetStatistics
  <2> DEFINE fresh == Book!Page("counting")
  <2>1. Cardinality(Book!Mistakes) \in Nat /\ Cardinality(Book!Mistakes) <= Len(submitted)
    <3>1. IsFiniteSet(DOMAIN submitted) /\ Cardinality(DOMAIN submitted) = Len(submitted) /\ Book!Mistakes \in SUBSET DOMAIN submitted
      BY <1>0, BookRows, FS_Interval DEF Book!Mistakes
    <3> QED BY <3>1, FS_Subset, FS_CardinalityType
  <2>2. fresh \in BookPages /\ fresh.doing = "counting" /\ page' = [fresh EXCEPT !.of = Cardinality(Book!Mistakes)]
    BY <1>1, PageIsARow, BookCounts DEF Doings, Book!GetStatistics
  <2> HIDE DEF fresh
  <2>3. page' \in BookPages /\ page'.doing = "counting" /\ page'.of = Cardinality(Book!Mistakes)
    BY <2>1, <2>2 DEF BookPages
  <2>4. ListFits' /\ OpeningFits' /\ CountFits' /\ Book!CardsOpenPlans' /\ Book!SharesAreShares'
    BY <2>1, <2>3, <1>0 DEF ListFits, OpeningFits, CountFits, Book!CardsOpenPlans, Book!SharesAreShares
  <2> QED BY <1>0, <2>3, <2>4, ReadsHold
<1>2. CASE Book!CountSubmittedAttempts
  <2>1. page.doing = "counting" /\ page' = [page EXCEPT !.doing = "measured", !.total = Len(submitted)] /\ page.of <= Len(submitted)
    BY <1>2 DEF Book!CountSubmittedAttempts, BookInv, CountFits
  <2>2. page' \in BookPages /\ page'.doing = "measured" /\ page'.of = page.of /\ page'.total = Len(submitted)
    BY <1>0, <2>1 DEF BookPages, Doings
  <2>3. ListFits' /\ OpeningFits' /\ CountFits' /\ Book!CardsOpenPlans' /\ Book!SharesAreShares'
    BY <2>1, <2>2 DEF ListFits, OpeningFits, CountFits, Book!CardsOpenPlans, Book!SharesAreShares
  <2> QED BY <1>0, <2>2, <2>3, ReadsHold
<1> QED BY <1>1, <1>2

\* No page.
LEMMA NoPageFits ==
  ASSUME page = Book!NoPage
  PROVE  page \in BookPages /\ ListFits /\ OpeningFits /\ CountFits /\ Book!CardsOpenPlans /\ Book!SharesAreShares
<1>1. page \in BookPages /\ page.doing = "nothing"
  BY PageIsARow DEF Doings
<1> QED BY <1>1 DEF ListFits, OpeningFits, CountFits, Book!CardsOpenPlans, Book!SharesAreShares

\* Every step of the book.
LEMMA BookStays == BookInv /\ Book!BookNext => BookInv'
<1> SUFFICES ASSUME BookInv, Book!BookNext PROVE BookInv'
  OBVIOUS
<1>1. ASSUME Book!ClosePage PROVE BookInv'
  <2>1. page' = Book!NoPage /\ UNCHANGED <<submitted, plans>>
    BY <1>1 DEF Book!ClosePage
  <2>2. page' \in BookPages /\ page'.doing = "nothing"
    BY <2>1, PageIsARow DEF Doings
  <2>3. ListFits' /\ OpeningFits' /\ CountFits' /\ Book!CardsOpenPlans' /\ Book!SharesAreShares'
    BY <2>2 DEF ListFits, OpeningFits, CountFits, Book!CardsOpenPlans, Book!SharesAreShares
  <2> QED BY <2>1, <2>2, <2>3, ReadsHold
<1> QED BY <1>1, AnswerHolds, DueHolds, DeleteHolds, ListHolds, RowsHold, TurnHolds, DueCountHolds, MistakeHolds,
           TaskHolds, ReviewHolds, StatisticsHold, Zenon DEF Book!BookNext

\* Nor does a step that leaves the book alone.
LEMMA BookRests == BookInv /\ UNCHANGED Book!bookVars => BookInv'
<1> SUFFICES ASSUME BookInv, UNCHANGED Book!bookVars PROVE BookInv'
  OBVIOUS
<1>1. submitted' = submitted /\ plans' = plans /\ page' = page
  BY DEF Book!bookVars
<1>2. Book!Cards' = Book!Cards /\ \A i \in Book!Cards : Book!PlanOf(i)' = Book!PlanOf(i)
  BY <1>1 DEF Book!Cards, Book!Representative, Book!Kept, Book!Mistakes, Book!PlanOf
<1>3. Book!PlanOf(page.of)' = Book!PlanOf(page.of)
  BY <1>1 DEF Book!PlanOf
<1>4. OpeningFits' /\ CountFits' /\ Book!CardsOpenPlans' /\ Book!SharesAreShares'
  BY <1>1, <1>2, <1>3 DEF BookInv, OpeningFits, CountFits, Book!CardsOpenPlans, Book!SharesAreShares
<1>5. ListFits'
  <2>1. ASSUME page.query \in Book!CardQueries \cup Book!PlanQueries, page.number \in Nat
        PROVE  ListFits'
    <3> PICK q \in Book!CardQueries \cup Book!PlanQueries, number \in Nat : page.query = q /\ page.number = number
      BY <2>1
    <3>1. \A k : Book!Counted(q)' = Book!Counted(q) /\ RowsUpto(q, k)' = RowsUpto(q, k)
      BY <1>1, RowsRest
    <3> QED BY <3>1, <1>1 DEF BookInv, ListFits
  <2>2. page \in BookPages /\ page.number \in Nat
    BY DEF BookInv, BookTyped, BookPages
  <2> QED BY <2>1, <2>2, <1>1 DEF BookInv, ListFits
<1> QED BY <1>1, <1>4, <1>5, ReadsHold DEF BookInv, BookTyped

\* Nothing has been answered yet.
LEMMA BookBegins == Book!BookInit => BookInv
<1> SUFFICES ASSUME Book!BookInit PROVE BookInv
  OBVIOUS
<1>1. submitted = <<>> /\ Len(submitted) = 0 /\ DOMAIN submitted = {} /\ plans = [c \in Contents |-> Book!NoPlan] /\ page = Book!NoPage
  BY DEF Book!BookInit
<1>2. BookTyped
  BY <1>1, NoPageFits, PageIsARow DEF BookTyped
<1>3. Book!Cards = {}
  BY <1>1 DEF Book!Cards, Book!Kept, Book!Mistakes
<1>4. PlansRest /\ CardsRest
  BY <1>1, <1>3 DEF PlansRest, CardsRest, Begun, Book!NoPlan
<1> QED BY <1>1, <1>2, <1>4, NoPageFits DEF BookInv

\* What the invariant says of the book.
LEMMA BookAgrees == BookInv => Book!BookHolds
<1> SUFFICES ASSUME BookInv PROVE Book!BookHolds
  OBVIOUS
<1>1. Book!CardsHavePlans
  BY DEF BookInv, PlansRest, CardsRest, Book!CardsHavePlans, Begun
<1> QED BY <1>1, ListsFollow DEF BookInv, Book!BookHolds

-----------------------------------------------------------------------------
(* The grading.                                                             *)

Marks == {"solved", "agrees", "steps"}
Answers == Grading!Texts \cup Grading!Written \cup {"none"}
QuestionRows ==
  [kind : {"none", "choice", "numeric", "expression"}, origin : {"none", "teacher", "generated"},
   options : Grading!OptionLists \cup {<<>>}, answer : Answers, meant : DOMAIN Letters \cup {0},
   tolerance : Grading!Tolerances, attempts : SUBSET (Nat \X Marks), body : {"none", "new", "seen"}]
WorkRows ==
  [phase : {"idle", "recognize", "grade", "write", "solve", "match", "steps", "store"},
   purpose : {"none", "submission", "question", "solution"}, attempt : 0..3, avoid : BOOLEAN,
   draft : QuestionRows, answer : Answers, checked : SUBSET (Nat \X Marks)]

\* A draft means what it says; what was checked of it was checked in one attempt, in this order;
\* and the solver's answer, once it agrees, names the option that is meant.
Marked(phase) ==
  CASE phase = "solve" -> {} [] phase = "match" -> {"solved"} [] phase = "steps" -> {"solved", "agrees"} [] OTHER -> Marks
DraftFits ==
  work.phase \in {"solve", "match", "steps", "store"} /\ work.purpose = "question" =>
    /\ work.draft.origin = "generated" /\ work.attempt \in 1..3
    /\ work.checked = {work.attempt} \X Marked(work.phase)
    /\ work.draft.kind = "choice" =>
         /\ work.draft.meant \in DOMAIN work.draft.options /\ work.draft.answer = work.draft.options[work.draft.meant]
         /\ work.phase \in {"steps", "store"} => Grading!VerifiedAnswer(work.draft, work.answer) = work.draft.answer

AttemptFits == work.phase = "write" => work.attempt \in 1..3 /\ work.checked = {}
GradingInv == asked \in QuestionRows /\ work \in WorkRows /\ AttemptFits /\ DraftFits /\ Grading!GeneratedIsVerified

-----------------------------------------------------------------------------
\* Nothing asked, nothing under way.
LEMMA GradingRows ==
  /\ Grading!NoQuestion \in QuestionRows /\ Grading!NoQuestion.origin = "none" /\ Grading!NoQuestion.kind = "none"
  /\ Grading!Idle \in WorkRows /\ Grading!Idle.phase = "idle" /\ Grading!Idle.checked = {}
  /\ Grading!Exactly \in Grading!Tolerances
<1>1. Grading!Exactly \in Grading!Tolerances
  BY DEF Grading!Tolerances
<1>2. Grading!NoQuestion \in QuestionRows /\ Grading!NoQuestion.origin = "none" /\ Grading!NoQuestion.kind = "none"
  BY <1>1 DEF Grading!NoQuestion, QuestionRows, Answers
<1>3. Grading!Idle \in WorkRows /\ Grading!Idle.phase = "idle" /\ Grading!Idle.checked = {}
  BY <1>2 DEF Grading!Idle, WorkRows, Answers
<1> QED BY <1>1, <1>2, <1>3

\* Another attempt is a row, too.
LEMMA AttemptsFit ==
  ASSUME work \in WorkRows, work.attempt \in 1..3
  PROVE  /\ Grading!AnotherAttempt \in WorkRows /\ Grading!AnotherAttempt.phase \in {"idle", "write"} /\ Grading!Idle \in WorkRows
         /\ Grading!AnotherAttempt.phase = "write" => Grading!AnotherAttempt.attempt \in 1..3 /\ Grading!AnotherAttempt.checked = {}
<1>1. Grading!GenerationAttempts(work.avoid) \in 2..3 /\ work.avoid \in BOOLEAN
  BY DEF WorkRows, Grading!GenerationAttempts
<1>2. CASE work.attempt < Grading!GenerationAttempts(work.avoid)
  <2> DEFINE next == work.attempt + 1
  <2>1. next \in 1..3
    BY <1>1, <1>2
  <2>2. Grading!AnotherAttempt = [Grading!Idle EXCEPT !.phase = "write", !.purpose = "question", !.attempt = next, !.avoid = work.avoid]
    BY <1>2 DEF Grading!AnotherAttempt
  <2> HIDE DEF next
  <2>3. \A w \in WorkRows : [w EXCEPT !.phase = "write", !.purpose = "question", !.attempt = next, !.avoid = work.avoid] \in WorkRows
    <3> DEFINE avoid == work.avoid
    <3>1. avoid \in BOOLEAN /\ next \in 0..3
      BY <1>1, <2>1
    <3> HIDE DEF avoid
    <3> SUFFICES ASSUME NEW w \in WorkRows
                 PROVE  [w EXCEPT !.phase = "write", !.purpose = "question", !.attempt = next, !.avoid = avoid] \in WorkRows
      BY DEF avoid
    <3> QED BY <3>1 DEF WorkRows
  <2>4. Grading!AnotherAttempt \in WorkRows
    BY <2>2, <2>3, GradingRows
  <2>5. Grading!AnotherAttempt.phase = "write" /\ Grading!AnotherAttempt.attempt = next /\ Grading!AnotherAttempt.checked = {}
    BY <2>2, GradingRows DEF WorkRows
  <2> QED BY <2>1, <2>4, <2>5, GradingRows
<1>3. CASE ~(work.attempt < Grading!GenerationAttempts(work.avoid))
  BY <1>3, GradingRows DEF Grading!AnotherAttempt
<1> QED BY <1>2, <1>3

\* A piece of work that is at rest, or has to begin, leaves the question alone.
LEMMA WorkEnds ==
  ASSUME GradingInv, asked' = asked, work' \in WorkRows,
         work'.phase \in {"idle", "recognize", "grade", "write"}, work'.phase = "write" => work'.attempt \in 1..3 /\ work'.checked = {}
  PROVE  GradingInv'
<1>1. Grading!GeneratedIsVerified'
  BY DEF GradingInv, Grading!GeneratedIsVerified
<1>2. DraftFits' /\ AttemptFits'
  BY DEF DraftFits, AttemptFits
<1> QED BY <1>1, <1>2 DEF GradingInv

\* A draft goes on to its next check.
LEMMA WorkGoesOn ==
  ASSUME GradingInv, asked' = asked, work' \in WorkRows, DraftFits', work'.phase # "write"
  PROVE  GradingInv'
<1>1. Grading!GeneratedIsVerified'
  BY DEF GradingInv, Grading!GeneratedIsVerified
<1> QED BY <1>1 DEF GradingInv, AttemptFits

\* A question of a teacher.
LEMMA TeachersQuestion ==
  ASSUME GradingInv, asked' \in QuestionRows, asked'.origin # "generated", work' = work
  PROVE  GradingInv'
BY DEF GradingInv, Grading!GeneratedIsVerified, DraftFits, AttemptFits, Grading!VerifiedAnswer, Grading!CanonicalStudentOption, Grading!FirstFound,
       Grading!MatchingOption, Grading!OptionFromLabel

\* Answers are texts and numbers.
LEMMA AnswersAreTexts ==
  ASSUME NEW kind
  PROVE  Grading!AnswerTexts(kind) \subseteq Answers /\ Grading!Texts \subseteq Answers /\ Grading!Written \subseteq Answers /\ Formulas \subseteq Answers
BY DEF Grading!AnswerTexts, Grading!Texts, Answers

\* An option that is found stands at a position of the list.
LEMMA OptionsStand ==
  ASSUME NEW options \in Grading!OptionLists, NEW answer, \E i \in DOMAIN options : options[i] = answer
  PROVE  /\ Grading!PositionOf(options, answer) \in DOMAIN options /\ options[Grading!PositionOf(options, answer)] = answer
         /\ Grading!PositionOf(options, answer) \in DOMAIN Letters
<1>1. DOMAIN options = DOMAIN Letters
  BY DEF Grading!OptionLists
<1> QED BY <1>1 DEF Grading!PositionOf

\* What is read as an option of a form is a text of the list.
LEMMA OptionsAreRead ==
  ASSUME NEW options \in Grading!OptionLists, NEW text, Grading!CanonicalQuestionOption(options, text).found
  PROVE  \E i \in DOMAIN options : options[i] = Grading!CanonicalQuestionOption(options, text).option
<1> DEFINE labelled == \E i \in DOMAIN options : Letters[i] = text
<1>1. CASE labelled
  <2> DEFINE place == CHOOSE i \in DOMAIN options : Letters[i] = text
  <2>1. place \in DOMAIN options
    BY <1>1
  <2>2. Grading!CanonicalQuestionOption(options, text) = Grading!Found(options[place])
    BY <1>1 DEF Grading!CanonicalQuestionOption, Grading!FirstFound, Grading!OptionFromLabel, Grading!Found
  <2>3. Grading!CanonicalQuestionOption(options, text).option = options[place]
    <3> HIDE DEF place
    <3> QED BY <2>2 DEF Grading!Found
  <2> QED BY <2>1, <2>3
<1>2. CASE ~labelled
  <2>1. Grading!CanonicalQuestionOption(options, text) = Grading!MatchingOption(options, text)
    BY <1>2 DEF Grading!CanonicalQuestionOption, Grading!FirstFound, Grading!OptionFromLabel, Grading!NotFound
  <2>2. CASE \E i \in DOMAIN options : options[i] = text
    BY <2>1, <2>2 DEF Grading!MatchingOption, Grading!Found
  <2>3. CASE ~\E i \in DOMAIN options : options[i] = text
    BY <2>1, <2>3 DEF Grading!MatchingOption, Grading!NotFound
  <2> QED BY <2>2, <2>3
<1> QED BY <1>1, <1>2

\* A solver's answer that agrees with a generated choice names the option that is meant.
LEMMA AgreementNamesTheOption ==
  ASSUME NEW draft \in QuestionRows, draft.kind = "choice", draft.origin = "generated",
         draft.meant \in DOMAIN draft.options, draft.answer = draft.options[draft.meant],
         NEW text, NEW check \in Grading!VerifySolutionAnswer(draft, text), Grading!NormalizeAnswerCheck(check).decision = "correct"
  PROVE  Grading!VerifiedAnswer(draft, text) = draft.answer
<1> DEFINE picked == Grading!CanonicalStudentOption(draft.options, text)
           reference == Grading!CanonicalCorrectOption(draft, draft.answer)
           wrong == Grading!Check("incorrect", "high", "none", "choice")
           right == Grading!Check("correct", "high", "none", "choice")
           settled == Grading!DeterministicMultipleChoice(draft, text)
<1>1. Grading!MatchingOption(draft.options, draft.answer) = Grading!Found(draft.answer)
  BY DEF Grading!MatchingOption
<1>2. reference = Grading!Found(draft.answer)
  BY <1>1 DEF Grading!CanonicalCorrectOption, Grading!FirstFound, Grading!Found
<1>3. reference.found /\ reference.option = draft.answer
  BY <1>2 DEF Grading!Found
<1> HIDE DEF picked, reference
<1>4. ~Grading!InvalidMultipleChoiceReference(draft)
  BY <1>3 DEF Grading!InvalidMultipleChoiceReference, reference
<1>5. settled = IF picked.found /\ picked.option = reference.option THEN right ELSE wrong
  BY <1>4 DEF Grading!DeterministicMultipleChoice, picked, reference
<1>6. Grading!NormalizeAnswerCheck(right) = right /\ Grading!NormalizeAnswerCheck(wrong) = wrong
  BY DEF Grading!NormalizeAnswerCheck, Grading!Check
<1>7. right.decision = "correct" /\ wrong.decision = "incorrect"
  BY DEF Grading!Check
<1> HIDE DEF right, wrong, settled
<1>8. Grading!LocalCheck(draft, text) = settled
  BY DEF Grading!LocalCheck, settled
<1>9. Grading!VerifySolutionAnswer(draft, text) = {settled}
  <2>1. Grading!NormalizeAnswerCheck(Grading!LocalCheck(draft, text)) = settled /\ settled.decision # "indeterminate"
    BY <1>5, <1>6, <1>7, <1>8
  <2> QED BY <2>1 DEF Grading!VerifySolutionAnswer
<1>10. settled = right
  BY <1>5, <1>6, <1>7, <1>9
<1>11. picked.found /\ picked.option = reference.option
  BY <1>5, <1>7, <1>10
<1> QED BY <1>3, <1>11 DEF Grading!VerifiedAnswer, picked

\* Where a piece of work begins.
LEMMA WorkBegins ==
  ASSUME GradingInv, NEW phase \in {"recognize", "grade", "write"}, NEW purpose \in {"submission", "question"},
         NEW avoid \in BOOLEAN, NEW attempt \in 1..3, asked' = asked,
         \/ work' = [Grading!Idle EXCEPT !.phase = phase, !.purpose = purpose] /\ phase # "write"
         \/ work' = [Grading!Idle EXCEPT !.phase = phase, !.purpose = purpose, !.attempt = attempt, !.avoid = avoid]
  PROVE  GradingInv'
<1>1. ASSUME NEW w \in WorkRows
      PROVE  /\ [w EXCEPT !.phase = phase, !.purpose = purpose] \in WorkRows
             /\ [w EXCEPT !.phase = phase, !.purpose = purpose].phase = phase
             /\ [w EXCEPT !.phase = phase, !.purpose = purpose, !.attempt = attempt, !.avoid = avoid] \in WorkRows
             /\ [w EXCEPT !.phase = phase, !.purpose = purpose, !.attempt = attempt, !.avoid = avoid].phase = phase
             /\ [w EXCEPT !.phase = phase, !.purpose = purpose, !.attempt = attempt, !.avoid = avoid].attempt = attempt
             /\ [w EXCEPT !.phase = phase, !.purpose = purpose, !.attempt = attempt, !.avoid = avoid].checked = w.checked
  <2>1. attempt \in 0..3
    OBVIOUS
  <2> QED BY <2>1 DEF WorkRows
<1>2. Grading!Idle \in WorkRows /\ Grading!Idle.checked = {}
  BY GradingRows
<1>3. work' \in WorkRows /\ work'.phase = phase /\ (phase = "write" => work'.attempt = attempt /\ work'.checked = {})
  BY <1>1, <1>2
<1> QED BY <1>3, WorkEnds

\* A question of a teacher, in each of the forms.
LEMMA SaveChoiceKeeps ==
  ASSUME GradingInv, NEW options \in Grading!OptionLists, NEW text, Grading!SaveChoice(options, text)
  PROVE  GradingInv'
<1> DEFINE option == Grading!CanonicalQuestionOption(options, text).option
           place == Grading!PositionOf(options, option)
<1>1. \E i \in DOMAIN options : options[i] = option
  BY OptionsAreRead DEF Grading!SaveChoice
<1>2. option \in Grading!Texts
  BY <1>1 DEF Grading!OptionLists
<1>3. place \in DOMAIN Letters /\ option \in Answers
  BY <1>1, <1>2, OptionsStand DEF Answers
<1>4. asked' = [Grading!NoQuestion EXCEPT !.kind = "choice", !.origin = "teacher", !.options = options, !.answer = option, !.meant = place]
  BY Zenon DEF Grading!SaveChoice
<1> HIDE DEF option, place
<1>5. ASSUME NEW q \in QuestionRows
      PROVE  /\ [q EXCEPT !.kind = "choice", !.origin = "teacher", !.options = options, !.answer = option, !.meant = place] \in QuestionRows
             /\ [q EXCEPT !.kind = "choice", !.origin = "teacher", !.options = options, !.answer = option, !.meant = place].origin = "teacher"
  BY <1>3 DEF QuestionRows
<1>6. asked' \in QuestionRows /\ asked'.origin = "teacher" /\ work' = work
  BY <1>4, <1>5, GradingRows, ZenonT(30) DEF Grading!SaveChoice
<1> QED BY <1>6, TeachersQuestion

LEMMA SaveShortAnswerKeeps ==
  ASSUME GradingInv, NEW kind \in {"numeric", "expression"}, NEW answer \in Answers, NEW tolerance \in Grading!Tolerances,
         Grading!SaveShortAnswer(kind, answer, tolerance)
  PROVE  GradingInv'
<1>1. ASSUME NEW q \in QuestionRows
      PROVE  /\ [q EXCEPT !.kind = kind, !.origin = "teacher", !.answer = answer, !.tolerance = tolerance] \in QuestionRows
             /\ [q EXCEPT !.kind = kind, !.origin = "teacher", !.answer = answer, !.tolerance = tolerance].origin = "teacher"
  BY DEF QuestionRows
<1>2. asked' \in QuestionRows /\ asked'.origin = "teacher" /\ work' = work
  BY <1>1, GradingRows DEF Grading!SaveShortAnswer
<1> QED BY <1>2, TeachersQuestion

LEMMA PublishChoiceKeeps ==
  ASSUME GradingInv, Grading!PublishChoice
  PROVE  GradingInv'
<1> DEFINE option == Grading!CanonicalQuestionOption(asked.options, asked.answer).option
<1>1. asked \in QuestionRows
  BY DEF GradingInv
<1>2. asked.options \in Grading!OptionLists \/ asked.options = <<>>
  BY <1>1 DEF QuestionRows
<1>3. option \in Answers
  <2>1. CASE asked.options \in Grading!OptionLists
    <3>1. \E i \in DOMAIN asked.options : asked.options[i] = option
      BY <2>1, OptionsAreRead DEF Grading!PublishChoice
    <3> QED BY <2>1, <3>1 DEF Grading!OptionLists, Answers
  <2>2. CASE asked.options = <<>>
    BY <2>2 DEF Grading!PublishChoice, Grading!CanonicalQuestionOption, Grading!FirstFound, Grading!OptionFromLabel, Grading!MatchingOption, Grading!NotFound
  <2> QED BY <1>2, <2>1, <2>2
<1>4. asked' = [asked EXCEPT !.answer = option]
  BY Zenon DEF Grading!PublishChoice
<1> HIDE DEF option
<1>5. asked' \in QuestionRows /\ asked'.origin = "teacher" /\ work' = work
  BY <1>1, <1>3, <1>4 DEF QuestionRows, Grading!PublishChoice
<1> QED BY <1>5, TeachersQuestion

\* An answer is submitted, read off a photograph, and graded.
LEMMA SubmitKeeps ==
  ASSUME GradingInv, NEW photograph \in BOOLEAN, Grading!Submit(photograph)
  PROVE  GradingInv'
<1> DEFINE next == IF photograph THEN "recognize" ELSE "grade"
<1>1. next \in {"recognize", "grade", "write"} /\ next # "write"
  OBVIOUS
<1>2. work' = [Grading!Idle EXCEPT !.phase = next, !.purpose = "submission"] /\ asked' = asked
  BY Zenon DEF Grading!Submit
<1> HIDE DEF next
<1>3. "submission" \in {"submission", "question"} /\ 1 \in 1..3 /\ FALSE \in BOOLEAN
  OBVIOUS
<1> QED BY <1>1, <1>2, <1>3, WorkBegins

LEMMA RecognizeAnswerKeeps ==
  ASSUME GradingInv, NEW json, Grading!RecognizeAnswer(json)
  PROVE  GradingInv'
<1>1. CASE Grading!Recognized(json)
  <2>1. work' = [work EXCEPT !.phase = "grade"] /\ asked' = asked
    BY <1>1 DEF Grading!RecognizeAnswer
  <2>2. work' \in WorkRows /\ work'.phase = "grade"
    BY <2>1 DEF GradingInv, WorkRows
  <2> QED BY <2>1, <2>2, WorkEnds
<1>2. CASE ~Grading!Recognized(json)
  BY <1>2, GradingRows, WorkEnds DEF Grading!RecognizeAnswer
<1> QED BY <1>1, <1>2

LEMMA GradeKeeps ==
  ASSUME GradingInv, NEW text, Grading!Grade(text)
  PROVE  GradingInv'
<1>1. work' = Grading!Idle /\ asked' = asked
  BY DEF Grading!Grade
<1> QED BY <1>1, GradingRows, WorkEnds

LEMMA GenerateExerciseKeeps ==
  ASSUME GradingInv, NEW avoid \in BOOLEAN, Grading!GenerateExercise(avoid)
  PROVE  GradingInv'
<1>1. work' = [Grading!Idle EXCEPT !.phase = "write", !.purpose = "question", !.attempt = 1, !.avoid = avoid] /\ asked' = asked
  BY Zenon DEF Grading!GenerateExercise
<1>2. "question" \in {"submission", "question"} /\ 1 \in 1..3 /\ "write" \in {"recognize", "grade", "write"}
  OBVIOUS
<1> QED BY <1>1, <1>2, WorkBegins

\* What follows a draft that is refused, at any of its checks.
LEMMA AnotherAttemptKeeps ==
  ASSUME GradingInv, work.attempt \in 1..3, asked' = asked, work' \in {Grading!AnotherAttempt, Grading!Idle}
  PROVE  GradingInv'
<1>1. work \in WorkRows
  BY DEF GradingInv
<1>2. work' \in WorkRows /\ work'.phase \in {"idle", "write"} /\ (work'.phase = "write" => work'.attempt \in 1..3 /\ work'.checked = {})
  BY <1>1, AttemptsFit, GradingRows
<1> QED BY <1>2, WorkEnds

LEMMA DraftFailsKeeps ==
  ASSUME GradingInv, Grading!DraftFails
  PROVE  GradingInv'
<1>1. work.attempt \in 1..3
  BY DEF Grading!DraftFails, GradingInv, AttemptFits
<1> QED BY <1>1, AnotherAttemptKeeps DEF Grading!DraftFails

LEMMA RejectedKeeps ==
  ASSUME GradingInv, work.phase \in {"solve", "match", "steps"}, asked' = asked, work' \in {Grading!Rejected, Grading!Idle}
  PROVE  GradingInv'
<1>1. CASE work.purpose = "question"
  <2>1. work.attempt \in 1..3
    BY <1>1 DEF GradingInv, DraftFits
  <2>2. Grading!Rejected = Grading!AnotherAttempt
    BY <1>1 DEF Grading!Rejected
  <2> QED BY <2>1, <2>2, AnotherAttemptKeeps
<1>2. CASE work.purpose # "question"
  <2>1. work' = Grading!Idle
    BY <1>2 DEF Grading!Rejected
  <2> QED BY <2>1, GradingRows, WorkEnds
<1> QED BY <1>1, <1>2

\* What a model writes is a question once its meaning is told.
LEMMA DraftsAreQuestions ==
  ASSUME NEW kind, NEW options, NEW answer, NEW b \in {"new", "seen"},
         \/ kind = "choice" /\ options \in Grading!OptionLists /\ answer \in Grading!Texts
         \/ kind = "numeric" /\ options = <<>> /\ answer \in Grading!Written,
         Grading!ValidGeneratedQuestion(Grading!Draft(kind, options, answer, b))
  PROVE  /\ Grading!WithMeaning(Grading!Draft(kind, options, answer, b)) \in QuestionRows
         /\ Grading!WithMeaning(Grading!Draft(kind, options, answer, b)).origin = "generated"
         /\ Grading!WithMeaning(Grading!Draft(kind, options, answer, b)).kind = "choice" =>
              /\ Grading!WithMeaning(Grading!Draft(kind, options, answer, b)).meant \in DOMAIN Grading!WithMeaning(Grading!Draft(kind, options, answer, b)).options
              /\ Grading!WithMeaning(Grading!Draft(kind, options, answer, b)).answer
                   = Grading!WithMeaning(Grading!Draft(kind, options, answer, b)).options[Grading!WithMeaning(Grading!Draft(kind, options, answer, b)).meant]
<1> DEFINE draft == Grading!Draft(kind, options, answer, b)
<1>1. kind \in {"choice", "numeric"} /\ options \in Grading!OptionLists \cup {<<>>} /\ answer \in Answers
  BY DEF Answers
<1>2. ASSUME NEW q \in QuestionRows
      PROVE  LET d == [q EXCEPT !.kind = kind, !.origin = "generated", !.options = options, !.answer = answer, !.body = b]
             IN  d \in QuestionRows /\ d.kind = kind /\ d.origin = "generated" /\ d.options = options /\ d.answer = answer
  BY <1>1 DEF QuestionRows
<1>3. draft \in QuestionRows /\ draft.kind = kind /\ draft.origin = "generated" /\ draft.options = options /\ draft.answer = answer
  BY <1>2, GradingRows DEF Grading!Draft
<1> HIDE DEF draft
<1>4. CASE kind = "choice"
  <2> DEFINE place == Grading!PositionOf(options, answer)
  <2>1. \E i \in DOMAIN options : options[i] = answer
    BY <1>3, <1>4 DEF Grading!ValidGeneratedQuestion, draft
  <2>2. options \in Grading!OptionLists
    BY <1>4
  <2>3. place \in DOMAIN Letters /\ place \in DOMAIN options /\ options[place] = answer
    BY <2>1, <2>2, OptionsStand
  <2>4. Grading!WithMeaning(draft) = [draft EXCEPT !.meant = place]
    BY <1>3, <1>4 DEF Grading!WithMeaning
  <2> HIDE DEF place
  <2>5. Grading!WithMeaning(draft) \in QuestionRows /\ Grading!WithMeaning(draft).origin = "generated" /\ Grading!WithMeaning(draft).meant = place
        /\ Grading!WithMeaning(draft).options = options /\ Grading!WithMeaning(draft).answer = answer
    BY <1>3, <2>3, <2>4 DEF QuestionRows
  <2> QED BY <2>3, <2>5 DEF draft
<1>5. CASE kind # "choice"
  <2>1. Grading!WithMeaning(draft) = draft
    BY <1>3, <1>5 DEF Grading!WithMeaning
  <2> QED BY <1>3, <1>5, <2>1 DEF draft
<1> QED BY <1>4, <1>5

LEMMA DraftArrivesKeeps ==
  ASSUME GradingInv, NEW kind, NEW options, NEW answer, NEW b \in {"new", "seen"},
         \/ kind = "choice" /\ options \in Grading!OptionLists /\ answer \in Grading!Texts
         \/ kind = "numeric" /\ options = <<>> /\ answer \in Grading!Written,
         Grading!DraftArrives(Grading!Draft(kind, options, answer, b))
  PROVE  GradingInv'
<1> DEFINE draft == Grading!Draft(kind, options, answer, b)
           meaning == Grading!WithMeaning(draft)
<1>1. asked' = asked /\ work.phase = "write" /\ work.attempt \in 1..3 /\ work \in WorkRows
  BY DEF Grading!DraftArrives, GradingInv, AttemptFits
<1>2. CASE Grading!ValidGeneratedQuestion(draft)
  <2>1. /\ meaning \in QuestionRows /\ meaning.origin = "generated"
        /\ meaning.kind = "choice" => meaning.meant \in DOMAIN meaning.options /\ meaning.answer = meaning.options[meaning.meant]
    BY <1>2, DraftsAreQuestions, Zenon
  <2>2. work' = [work EXCEPT !.phase = "solve", !.draft = meaning]
    BY <1>2, Zenon DEF Grading!DraftArrives
  <2> HIDE DEF meaning, draft
  <2>3. work' \in WorkRows /\ work'.phase = "solve" /\ work'.draft = meaning /\ work'.attempt = work.attempt
        /\ work'.checked = work.checked
    BY <1>1, <2>1, <2>2 DEF WorkRows
  <2>4. work.checked = {}
    BY <1>1 DEF GradingInv, AttemptFits
  <2>5. DraftFits'
    <3>1. work'.checked = {work'.attempt} \X Marked("solve")
      BY <2>3, <2>4 DEF Marked
    <3> QED BY <1>1, <2>1, <2>3, <3>1 DEF DraftFits
  <2> QED BY <1>1, <2>3, <2>5, WorkGoesOn
<1>3. CASE ~Grading!ValidGeneratedQuestion(draft)
  BY <1>1, <1>3, AnotherAttemptKeeps DEF Grading!DraftArrives
<1> QED BY <1>2, <1>3

LEMMA GetSolutionKeeps ==
  ASSUME GradingInv, Grading!GetSolution
  PROVE  GradingInv'
<1>1. work' = [Grading!Idle EXCEPT !.phase = "solve", !.purpose = "solution", !.attempt = 1, !.draft = asked] /\ asked' = asked
  BY Zenon DEF Grading!GetSolution
<1>2. asked \in QuestionRows
  BY DEF GradingInv
<1>3. ASSUME NEW w \in WorkRows
      PROVE  LET d == [w EXCEPT !.phase = "solve", !.purpose = "solution", !.attempt = 1, !.draft = asked]
             IN  d \in WorkRows /\ d.phase = "solve" /\ d.purpose = "solution"
  <2>1. 1 \in 0..3
    OBVIOUS
  <2> QED BY <1>2, <2>1 DEF WorkRows
<1>4. work' \in WorkRows /\ work'.phase = "solve" /\ work'.purpose = "solution"
  BY <1>1, <1>3, GradingRows
<1>5. DraftFits'
  BY <1>4 DEF DraftFits
<1> QED BY <1>1, <1>4, <1>5, WorkGoesOn

\* The checks of a draft: a solution is found, its answer agrees, its steps are right.
LEMMA ChecksAccumulate ==
  ASSUME GradingInv, NEW phase \in {"match", "steps", "store"}, NEW mark \in Marks, NEW answer \in Answers,
         asked' = asked, work.phase \in {"solve", "match", "steps"}, Marked(phase) = Marked(work.phase) \cup {mark},
         work' = [work EXCEPT !.phase = phase, !.answer = answer, !.checked = @ \cup {<<work.attempt, mark>>}],
         work.purpose = "question" /\ work.draft.kind = "choice" /\ phase # "match" => Grading!VerifiedAnswer(work.draft, answer) = work.draft.answer
  PROVE  GradingInv'
<1> DEFINE added == work.checked \cup {<<work.attempt, mark>>}
<1>1. work \in WorkRows
  BY DEF GradingInv
<1>2. added \in SUBSET (Nat \X Marks)
  BY <1>1 DEF WorkRows
<1>3. work' = [work EXCEPT !.phase = phase, !.answer = answer, !.checked = added]
  OBVIOUS
<1>4. work.purpose = "question" => added = {work.attempt} \X Marked(phase)
  <2> SUFFICES ASSUME work.purpose = "question" PROVE added = {work.attempt} \X Marked(phase)
    OBVIOUS
  <2>1. work.checked = {work.attempt} \X Marked(work.phase)
    BY DEF GradingInv, DraftFits
  <2> QED BY <2>1
<1> HIDE DEF added
<1>5. work' \in WorkRows /\ work'.phase = phase /\ work'.answer = answer /\ work'.checked = added
      /\ work'.draft = work.draft /\ work'.attempt = work.attempt /\ work'.purpose = work.purpose
  BY <1>1, <1>2, <1>3 DEF WorkRows
<1>6. DraftFits'
  <2> SUFFICES ASSUME work.purpose = "question"
               PROVE  DraftFits'
    BY <1>5 DEF DraftFits
  <2>1. work.draft.origin = "generated" /\ work.attempt \in 1..3
    BY DEF GradingInv, DraftFits
  <2>2. work.draft.kind = "choice" => work.draft.meant \in DOMAIN work.draft.options /\ work.draft.answer = work.draft.options[work.draft.meant]
    BY DEF GradingInv, DraftFits
  <2>3. work'.checked = {work'.attempt} \X Marked(work'.phase)
    BY <1>4, <1>5
  <2>4. work'.draft.kind = "choice" /\ work'.phase \in {"steps", "store"} => Grading!VerifiedAnswer(work'.draft, work'.answer) = work'.draft.answer
    BY <1>5
  <2> QED BY <1>5, <2>1, <2>2, <2>3, <2>4 DEF DraftFits
<1> QED BY <1>5, <1>6, WorkGoesOn

LEMMA SolveKeeps ==
  ASSUME GradingInv, NEW text \in Answers, NEW status, NEW confidence, NEW evidence, Grading!Solve(text, status, confidence, evidence)
  PROVE  GradingInv'
<1>1. work.phase = "solve" /\ asked' = asked
  BY DEF Grading!Solve
<1>2. CASE Grading!Solved(status, confidence, evidence)
  <2>1. work' = [work EXCEPT !.phase = "match", !.answer = text, !.checked = @ \cup {<<work.attempt, "solved">>}]
    BY <1>2, Zenon DEF Grading!Solve
  <2>2. Marked("match") = Marked(work.phase) \cup {"solved"} /\ "solved" \in Marks
    BY <1>1 DEF Marked, Marks
  <2> QED BY <1>1, <2>1, <2>2, ChecksAccumulate
<1>3. CASE ~Grading!Solved(status, confidence, evidence)
  BY <1>1, <1>3, RejectedKeeps DEF Grading!Solve
<1> QED BY <1>2, <1>3

LEMMA MatchKeeps ==
  ASSUME GradingInv, Grading!Match
  PROVE  GradingInv'
<1>1. work.phase = "match" /\ asked' = asked /\ work \in WorkRows
  BY DEF Grading!Match, GradingInv
<1>2. PICK check \in Grading!VerifySolutionAnswer(work.draft, work.answer) :
        work' = IF Grading!NormalizeAnswerCheck(check).decision = "correct"
                  THEN [work EXCEPT !.phase = "steps", !.checked = @ \cup {<<work.attempt, "agrees">>}]
                  ELSE Grading!Rejected
  BY Zenon DEF Grading!Match
<1>3. CASE Grading!NormalizeAnswerCheck(check).decision = "correct"
  <2> DEFINE added == work.checked \cup {<<work.attempt, "agrees">>}
  <2>1. work.answer \in Answers /\ work.draft \in QuestionRows
    BY <1>1 DEF WorkRows
  <2>2. work' = [work EXCEPT !.phase = "steps", !.checked = added]
    BY <1>2, <1>3
  <2> HIDE DEF added
  <2>3. work' = [work EXCEPT !.phase = "steps", !.answer = work.answer, !.checked = added]
    BY <1>1, <2>2 DEF WorkRows
  <2>4. Marked("steps") = Marked(work.phase) \cup {"agrees"} /\ "agrees" \in Marks
    BY <1>1 DEF Marked, Marks
  <2>5. work.purpose = "question" /\ work.draft.kind = "choice" => Grading!VerifiedAnswer(work.draft, work.answer) = work.draft.answer
    <3> SUFFICES ASSUME work.purpose = "question", work.draft.kind = "choice"
                 PROVE  Grading!VerifiedAnswer(work.draft, work.answer) = work.draft.answer
      OBVIOUS
    <3>1. work.draft.origin = "generated" /\ work.draft.meant \in DOMAIN work.draft.options
          /\ work.draft.answer = work.draft.options[work.draft.meant]
      BY <1>1 DEF GradingInv, DraftFits
    <3> QED BY <1>3, <2>1, <3>1, AgreementNamesTheOption
  <2>6. work' = [work EXCEPT !.phase = "steps", !.answer = work.answer, !.checked = @ \cup {<<work.attempt, "agrees">>}]
    BY <2>3 DEF added
  <2> QED BY <1>1, <2>1, <2>4, <2>5, <2>6, ChecksAccumulate
<1>4. CASE Grading!NormalizeAnswerCheck(check).decision # "correct"
  BY <1>1, <1>2, <1>4, RejectedKeeps
<1> QED BY <1>3, <1>4

LEMMA CheckStepsKeeps ==
  ASSUME GradingInv, Grading!CheckSteps
  PROVE  GradingInv'
<1>1. work.phase = "steps" /\ asked' = asked /\ work \in WorkRows
  BY DEF Grading!CheckSteps, GradingInv
<1>2. \/ work' = [work EXCEPT !.phase = "store", !.checked = @ \cup {<<work.attempt, "steps">>}]
      \/ work' \in {Grading!Rejected, Grading!Idle}
  BY DEF Grading!CheckSteps
<1>3. CASE work' = [work EXCEPT !.phase = "store", !.checked = @ \cup {<<work.attempt, "steps">>}]
  <2> DEFINE added == work.checked \cup {<<work.attempt, "steps">>}
  <2>1. work.answer \in Answers
    BY <1>1 DEF WorkRows
  <2>2. work' = [work EXCEPT !.phase = "store", !.checked = added]
    BY <1>3
  <2> HIDE DEF added
  <2>3. work' = [work EXCEPT !.phase = "store", !.answer = work.answer, !.checked = added]
    BY <1>1, <2>2 DEF WorkRows
  <2>4. Marked("store") = Marked(work.phase) \cup {"steps"} /\ "steps" \in Marks
    BY <1>1 DEF Marked, Marks
  <2>5. work.purpose = "question" /\ work.draft.kind = "choice" => Grading!VerifiedAnswer(work.draft, work.answer) = work.draft.answer
    BY <1>1 DEF GradingInv, DraftFits
  <2>6. work' = [work EXCEPT !.phase = "store", !.answer = work.answer, !.checked = @ \cup {<<work.attempt, "steps">>}]
    BY <2>3 DEF added
  <2> QED BY <1>1, <2>1, <2>4, <2>5, <2>6, ChecksAccumulate
<1>4. CASE work' \in {Grading!Rejected, Grading!Idle}
  BY <1>1, <1>4, RejectedKeeps
<1> QED BY <1>2, <1>3, <1>4

LEMMA StoreOrShowKeeps ==
  ASSUME GradingInv, Grading!StoreOrShow
  PROVE  GradingInv'
<1>1. work.phase = "store" /\ work' = Grading!Idle /\ work \in WorkRows
  BY DEF Grading!StoreOrShow, GradingInv
<1>2. CASE work.purpose = "question"
  <2> DEFINE answer == Grading!VerifiedAnswer(work.draft, work.answer)
  <2>1. asked' = [work.draft EXCEPT !.answer = answer, !.attempts = work.checked]
    BY <1>2, Zenon DEF Grading!StoreOrShow
  <2>2. work.draft.origin = "generated" /\ work.attempt \in 1..3 /\ work.checked = {work.attempt} \X Marked(work.phase)
    BY <1>1, <1>2 DEF GradingInv, DraftFits
  <2>3. work.draft.kind = "choice" => answer = work.draft.answer /\ work.draft.answer = work.draft.options[work.draft.meant]
    BY <1>1, <1>2 DEF GradingInv, DraftFits
  <2>4. answer = work.draft.answer
    <3>1. CASE work.draft.kind = "choice"
      BY <2>3, <3>1
    <3>2. CASE work.draft.kind # "choice"
      BY <3>2 DEF Grading!VerifiedAnswer
    <3> QED BY <3>1, <3>2
  <2> HIDE DEF answer
  <2>5. work.draft \in QuestionRows /\ work.checked \in SUBSET (Nat \X Marks)
    BY <1>1 DEF WorkRows
  <2>6. answer \in Answers
    BY <2>4, <2>5 DEF QuestionRows
  <2>7. asked' \in QuestionRows /\ asked'.attempts = work.checked /\ asked'.answer = answer /\ asked'.kind = work.draft.kind
        /\ asked'.options = work.draft.options /\ asked'.meant = work.draft.meant
    BY <2>1, <2>5, <2>6 DEF QuestionRows
  <2>8. asked'.attempts = {work.attempt} \X {"solved", "agrees", "steps"}
    BY <1>1, <2>2, <2>7 DEF Marked, Marks
  <2>9. Grading!GeneratedIsVerified'
    BY <2>2, <2>3, <2>4, <2>7, <2>8 DEF Grading!GeneratedIsVerified
  <2>10. AttemptFits' /\ DraftFits' /\ work' \in WorkRows
    BY <1>1, GradingRows DEF AttemptFits, DraftFits
  <2> QED BY <2>7, <2>9, <2>10 DEF GradingInv
<1>3. CASE work.purpose # "question"
  <2>1. asked' = asked
    BY <1>3 DEF Grading!StoreOrShow
  <2> QED BY <1>1, <2>1, GradingRows, WorkEnds
<1> QED BY <1>2, <1>3

-----------------------------------------------------------------------------
\* At the beginning nothing is asked.
LEMMA GradingBegins ==
  ASSUME Grading!GradingInit
  PROVE  GradingInv
BY GradingRows DEF Grading!GradingInit, GradingInv, AttemptFits, DraftFits, Grading!GeneratedIsVerified

\* Every step of the grading keeps it.
LEMMA GradingStays ==
  ASSUME GradingInv, Grading!GradingNext
  PROVE  GradingInv'
<1>1. ASSUME NEW options \in Grading!OptionLists, NEW text \in Grading!Texts, Grading!SaveChoice(options, text)
      PROVE  GradingInv'
  BY <1>1, SaveChoiceKeeps
<1>2. ASSUME NEW n \in Grading!Written, NEW t \in Grading!Tolerances, Grading!SaveShortAnswer("numeric", n, t)
      PROVE  GradingInv'
  BY <1>2, SaveShortAnswerKeeps, AnswersAreTexts
<1>3. ASSUME NEW f \in Formulas, Grading!SaveShortAnswer("expression", f, Grading!Exactly)
      PROVE  GradingInv'
  <2>1. f \in Answers /\ Grading!Exactly \in Grading!Tolerances /\ "expression" \in {"numeric", "expression"}
    BY AnswersAreTexts, GradingRows
  <2> QED BY <1>3, <2>1, SaveShortAnswerKeeps
<1>4. ASSUME NEW b \in {"new", "seen"}, NEW o \in Grading!OptionLists, NEW t \in Grading!Texts, Grading!DraftArrives(Grading!Draft("choice", o, t, b))
      PROVE  GradingInv'
  BY <1>4, DraftArrivesKeeps
<1>5. ASSUME NEW b \in {"new", "seen"}, NEW n \in Grading!Written, Grading!DraftArrives(Grading!Draft("numeric", <<>>, n, b))
      PROVE  GradingInv'
  BY <1>5, DraftArrivesKeeps
<1>6. ASSUME NEW text \in Grading!AnswerTexts(work.draft.kind), NEW status \in {"solved", "indeterminate"}, NEW c \in Grading!Confidences,
             NEW e \in BOOLEAN, Grading!Solve(text, status, c, e)
      PROVE  GradingInv'
  <2>1. text \in Answers
    BY AnswersAreTexts
  <2> QED BY <1>6, <2>1, SolveKeeps
<1>7. ASSUME NEW photograph \in BOOLEAN, Grading!Submit(photograph) \/ Grading!GenerateExercise(photograph)
      PROVE  GradingInv'
  BY <1>7, SubmitKeeps, GenerateExerciseKeeps
<1> QED BY <1>1, <1>2, <1>3, <1>4, <1>5, <1>6, <1>7, PublishChoiceKeeps, RecognizeAnswerKeeps, GradeKeeps, DraftFailsKeeps,
           GetSolutionKeeps, MatchKeeps, CheckStepsKeeps, StoreOrShowKeeps DEF Grading!GradingNext

LEMMA GradingRests ==
  ASSUME GradingInv, UNCHANGED Grading!gradingVars
  PROVE  GradingInv'
BY DEF GradingInv, Grading!gradingVars, AttemptFits, DraftFits, Grading!GeneratedIsVerified, Grading!VerifiedAnswer, Grading!CanonicalStudentOption, Grading!FirstFound,
       Grading!MatchingOption, Grading!OptionFromLabel

-----------------------------------------------------------------------------
(* The modules on their own, and all of a student's learning.              *)

GradingSpec == Grading!GradingInit /\ [][Grading!GradingNext]_gradingVars
RecordSpec == Record!RecordInit /\ [][Record!RecordNext]_recordVars
BookSpec == Book!BookInit /\ [][Book!BookNext]_bookVars

\* A question that a model has written is stored only once a solver has found its answer,
\* agreed with it and confirmed the steps, in one attempt, and the option it names is the one
\* that was meant (GenerateExercise, verifySolutionAnswer).
THEOREM GeneratedQuestionsAreVerified == GradingSpec => []Grading!GeneratedIsVerified
<1>1. GradingInv /\ [Grading!GradingNext]_gradingVars => GradingInv'
  BY GradingStays, GradingRests DEF gradingVars, Grading!gradingVars
<1>2. GradingInv => Grading!GeneratedIsVerified
  BY DEF GradingInv
<1> QED BY <1>1, <1>2, GradingBegins, PTL DEF GradingSpec

\* The counters of the profile and of every concept are those of the answers on record, and the
\* exercise that is pending is a fresh one, however many requests overlap (RecordAnswer,
\* OfferExercise); a portrait is replaced by a later one only, and not by one that was measured
\* before it was cleared.
THEOREM RecordsAgree == RecordSpec => []Record!RecordHolds /\ Record!PortraitIsRenewed
<1>1. RecordInv /\ [Record!RecordNext]_recordVars => RecordInv'
  BY RecordStays, RecordRests DEF recordVars, Record!recordVars
<1>2. RecordInv => Record!RecordHolds
  BY DEF RecordInv, Record!RecordHolds
<1>3. RecordSpec => []RecordInv
  BY <1>1, RecordBegins, PTL DEF RecordSpec
<1>4. RecordInv /\ [Record!RecordNext]_recordVars =>
        [profile'.portrait \notin {profile.portrait, Record!NoPortrait} =>
           profile'.portrait >= profile.portrait /\ profile'.portrait >= profile.cleared]_recordVars
  BY RecordStays
<1>5. RecordSpec => [][profile'.portrait \notin {profile.portrait, Record!NoPortrait} =>
           profile'.portrait >= profile.portrait /\ profile'.portrait >= profile.cleared]_recordVars
  BY <1>3, <1>4, PTL DEF RecordSpec
<1>6. Record!recordVars = recordVars
  BY DEF recordVars, Record!recordVars
<1>7. RecordSpec => Record!PortraitIsRenewed
  BY <1>5 DEF Record!PortraitIsRenewed, recordVars, Record!recordVars
<1>8. RecordSpec => []Record!RecordHolds
  BY <1>2, <1>3, PTL
<1> QED BY <1>7, <1>8

\* A card of the mistake book has a plan and opens it, the pages of a list are the whole list
\* without a repetition while nothing changes, and a share is a share (mistake.Service).
THEOREM BooksAgree == BookSpec => []Book!BookHolds
<1>1. BookInv /\ [Book!BookNext]_bookVars => BookInv'
  BY BookStays, BookRests DEF bookVars, Book!bookVars
<1> QED BY <1>1, BookBegins, BookAgrees, PTL DEF BookSpec

LearningVars == <<part, studyVars, exerciseVars, gradingVars, recordVars, pathVars, shown, bookVars, choiceVars>>

\* Whatever a student does is a behaviour of each module.
THEOREM LearningIsItsModules == LearningSpec => StudySpec /\ ExerciseSpec /\ GradingSpec /\ RecordSpec /\ BookSpec
<1>1. LearningInit => StudyInit /\ ExerciseInit /\ Grading!GradingInit /\ Record!RecordInit /\ Book!BookInit
  BY DEF LearningInit
<1>2. LearningNext => [StudyNext]_studyVars /\ [ExerciseNext]_exerciseVars /\ [Grading!GradingNext]_gradingVars
                      /\ [Record!RecordNext]_recordVars /\ [Book!BookNext]_bookVars
  BY DEF LearningNext
<1>3. UNCHANGED LearningVars => [StudyNext]_studyVars /\ [ExerciseNext]_exerciseVars /\ [Grading!GradingNext]_gradingVars
                      /\ [Record!RecordNext]_recordVars /\ [Book!BookNext]_bookVars
  BY DEF LearningVars
<1>4. LearningSpec => StudyInit /\ [][StudyNext]_studyVars
  BY <1>1, <1>2, <1>3, PTL DEF LearningSpec, LearningVars
<1>5. LearningSpec => ExerciseInit /\ [][ExerciseNext]_exerciseVars
  BY <1>1, <1>2, <1>3, PTL DEF LearningSpec, LearningVars
<1>6. LearningSpec => GradingSpec
  BY <1>1, <1>2, <1>3, PTL DEF LearningSpec, LearningVars, GradingSpec
<1>7. LearningSpec => RecordSpec
  BY <1>1, <1>2, <1>3, PTL DEF LearningSpec, LearningVars, RecordSpec
<1>8. LearningSpec => BookSpec
  BY <1>1, <1>2, <1>3, PTL DEF LearningSpec, LearningVars, BookSpec
<1> QED BY <1>4, <1>5, <1>6, <1>7, <1>8 DEF StudySpec, ExerciseSpec

\* The types of the flow and of the exercises, with everything else under way.
THEOREM LearningTypeCorrect == LearningSpec => []LearningTypeOK
<1>1. StudyTypeOK /\ ExerciseTypeOK => LearningTypeOK
  BY DEF LearningTypeOK
<1> QED BY <1>1, LearningIsItsModules, StudyTypeCorrect, ExerciseTypeCorrect, PTL

\* What is kept of a student's exercises tells one story: the review plan, the answers, the
\* questions a model wrote, the counters and the mistake book.
THEOREM LearningIsKept == LearningSpec => []LearningHolds
<1>1. PlanHolds /\ Grading!GeneratedIsVerified /\ Record!RecordHolds /\ Book!BookHolds => LearningHolds
  BY DEF LearningHolds
<1>2. LearningSpec => []PlanHolds
  BY LearningIsItsModules, PlanStory
<1>3. LearningSpec => []Grading!GeneratedIsVerified
  BY LearningIsItsModules, GeneratedQuestionsAreVerified
<1>4. LearningSpec => []Record!RecordHolds
  BY LearningIsItsModules, RecordsAgree
<1>5. LearningSpec => []Book!BookHolds
  BY LearningIsItsModules, BooksAgree
<1> QED BY <1>1, <1>2, <1>3, <1>4, <1>5, PTL

\* A student gets to no stage without evidence of the one before, and is prompted for the
\* stage the turn belongs to.
THEOREM StudyIsKept == LearningSpec => []StudyHolds
<1>1. EvidenceForEveryStage /\ PromptFitsTurn => StudyHolds
  BY DEF StudyHolds
<1> QED BY <1>1, LearningIsItsModules, StagesAreEarned, PromptsFitTheirTurns, PTL

\* Answers, verdicts and portraits are not undone, in whatever order the requests run.
THEOREM LearningRecordsStand == LearningSpec => RecordsStand
BY LearningIsItsModules, AnswersAreFinal, VerdictsFitTheirQuestions, RecordsAgree DEF RecordsStand
=============================================================================
