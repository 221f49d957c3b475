------------------------------ MODULE Messages ------------------------------
(* One channel between a student and a teacher: a conversation (internal/      *)
(* application/conversation, adapter/postgres/conversation_repository.go) or a *)
(* question thread (qathread, qathread_repository.go). A mutation is one       *)
(* transaction that locks the users and then the channel's row, or one         *)
(* statement; what a client does with a page it loaded is a step of its own.   *)
(* Text, attachments, search and the page's older entries are left out.        *)
EXTENDS Integers, Sequences

CONSTANTS
  MaxMessages,    \* bound: messages of the channel
  MaxClock,       \* bound: the database's clock, which may be set back
  PageSize        \* messages of one page

ASSUME MessageAssumption == MaxMessages \in Nat /\ MaxClock \in Nat \ {0} /\ PageSize \in Nat \ {0}

Sides == {"student", "teacher"}
Other(side) == IF side = "student" THEN "teacher" ELSE "student"
ThreadStatuses == {"waiting", "answered", "solved", "follow_up"}

VARIABLES
  dbClock,        \* clock_timestamp() of the database
  channel,        \* the row of conversations or question_threads
  messages,       \* its messages, in the order in which they were committed
  handed,         \* the cutoffs a client was given and has not sent back
  shown,          \* the newest message each side was given in a page
  reminders,      \* messages for which a WeChat reminder is queued
  usable,         \* the accounts that are active
  taught          \* the student is enrolled in a class of the teacher

messageVars == <<dbClock, channel, messages, handed, shown, reminders, usable, taught>>
outside == <<usable, taught>>

NoChannel == [kind |-> "none", last |-> 0, archived |-> {}, status |-> "waiting", judged |-> 0]

MessageInit ==
  /\ dbClock = 1 /\ channel = NoChannel /\ messages = <<>>
  /\ handed = [side \in Sides |-> {}] /\ shown = [side \in Sides |-> 0]
  /\ reminders = {} /\ usable = Sides /\ taught \in BOOLEAN

Later(t) == IF dbClock > t THEN dbClock ELSE t + 1
Append1(from, at) == messages' = Append(messages, [from |-> from, at |-> at, read |-> FALSE])
Announced == reminders' = reminders \cup {Len(messages) + 1}
Room == Len(messages) < MaxMessages

-----------------------------------------------------------------------------
(* Conversations.                                                            *)

\* mutant: the new message is stamped with the clock alone
StampByClock(from, last) ==
  LET at == dbClock IN
  /\ Append1(from, at) /\ Announced
  /\ channel' = [channel EXCEPT !.kind = "conversation", !.last = at, !.archived = {}]

(* The message is later than the conversation's last one, whatever the clock    *)
(* says, and brings the conversation back to both lists.                      *)
WithMessage(from, last) ==
  LET at == Later(last) IN
  /\ Append1(from, at) /\ Announced
  /\ channel' = [channel EXCEPT !.kind = "conversation", !.last = at, !.archived = {}]

WithoutMessage(row) == channel' = row /\ UNCHANGED <<messages, reminders>>

(* A pair has one conversation: creating it again is a conflict, unless the     *)
(* creator has archived it, which then reopens it for the creator.            *)
Reopenable(side) == channel.kind = "conversation" /\ side \in channel.archived

StoreConversation(side, withText) ==
  \/ /\ channel.kind = "none"
     /\ IF withText THEN WithMessage(side, dbClock)
        ELSE WithoutMessage([channel EXCEPT !.kind = "conversation", !.last = dbClock])
  \/ /\ Reopenable(side)
     /\ IF withText THEN WithMessage(side, channel.last)
        ELSE WithoutMessage([channel EXCEPT !.archived = channel.archived \ {side}])

(* Both accounts must be active when the transaction locks them.               *)
BothLocked == usable = Sides

CreateConversation(side, withText) ==
  /\ BothLocked
  /\ withText => Room
  /\ StoreConversation(side, withText)
  /\ UNCHANGED <<dbClock, handed, shown, outside>>

SenderLocked(side) == side \in usable

SendMessage(side) ==
  /\ channel.kind = "conversation" /\ SenderLocked(side) /\ Room
  /\ WithMessage(side, channel.last)
  /\ UNCHANGED <<dbClock, handed, shown, outside>>

ArchiveConversation(side) ==
  /\ channel.kind = "conversation"
  /\ channel' = [channel EXCEPT !.archived = @ \cup {side}]
  /\ UNCHANGED <<dbClock, messages, handed, shown, reminders, outside>>

-----------------------------------------------------------------------------
(* Question threads.                                                         *)

(* The thread's row and its first message are one transaction, which also       *)
(* locks the enrollment and the class that entitle the student.               *)
StoreThread ==
  LET at == dbClock + 1 IN
  /\ Append1("student", at) /\ Announced
  /\ channel' = [NoChannel EXCEPT !.kind = "thread", !.last = at]

CreateThread ==
  /\ channel.kind = "none" /\ BothLocked /\ taught /\ Room
  /\ StoreThread
  /\ UNCHANGED <<dbClock, handed, shown, outside>>

StatusAfter(side) == IF side = "teacher" THEN "answered" ELSE "waiting"

CreateThreadMessage(side) ==
  /\ channel.kind = "thread" /\ SenderLocked(side) /\ Room
  /\ LET at == Later(channel.last) IN
       /\ Append1(side, at) /\ Announced
       /\ channel' = [channel EXCEPT !.last = at, !.status = StatusAfter(side)]
  /\ UNCHANGED <<dbClock, handed, shown, outside>>

(* The row's time advances too, so that the thread moves up in the list and     *)
(* the next message is later than the change. judged is a history variable.   *)
UpdateThreadStatus(status) ==
  /\ channel.kind = "thread" /\ channel.last < MaxClock + MaxMessages
  /\ channel' = [channel EXCEPT !.status = status, !.last = Later(channel.last),
                                !.judged = Len(messages)]
  /\ UNCHANGED <<dbClock, messages, handed, shown, reminders, outside>>

-----------------------------------------------------------------------------
(* Pages and their acknowledgement.                                          *)

(* Pages are cut from the newest message backwards; the page's newest message  *)
(* is the cutoff the client may send back. shown is a history variable.       *)
Cutoff(page) == Len(messages) - (page - 1) * PageSize

GetConversation(side, page) ==
  /\ channel.kind # "none" /\ Cutoff(page) > 0
  /\ handed' = [handed EXCEPT ![side] = @ \cup {Cutoff(page)}]
  /\ shown' = [shown EXCEPT ![side] = IF @ < Cutoff(page) THEN Cutoff(page) ELSE @]
  /\ UNCHANGED <<dbClock, channel, messages, reminders, outside>>

(* One statement: the messages of the other side that are not later than the   *)
(* cutoff's row, compared by time and not by arrival.                         *)
UpTo(cutoff) == {i \in 1..Len(messages) : messages[i].at <= messages[cutoff].at}

MarkRead(side, cutoff) ==
  messages' = [i \in 1..Len(messages) |->
                 [messages[i] EXCEPT !.read =
                    @ \/ (i \in UpTo(cutoff) /\ messages[i].from = Other(side))]]

AcknowledgeRead(side, cutoff) ==
  /\ cutoff \in handed[side]
  /\ MarkRead(side, cutoff)
  /\ handed' \in {handed, [handed EXCEPT ![side] = @ \ {cutoff}]}   \* or it is sent again
  /\ UNCHANGED <<dbClock, channel, shown, reminders, outside>>

-----------------------------------------------------------------------------
(* The lists.                                                                *)

UnreadBy(side) == {i \in 1..Len(messages) : messages[i].from = Other(side) /\ ~messages[i].read}
ListedFor(side) == channel.kind = "conversation" /\ side \notin channel.archived
LatestByTime == {i \in 1..Len(messages) : \A j \in 1..Len(messages) : messages[j].at <= messages[i].at}
PendingReply == \E i \in LatestByTime : messages[i].from = "student"
NeedsTeacher == channel.kind = "thread" /\ channel.status = "waiting"

ClockMoves == dbClock' \in {dbClock + 1, dbClock - 1} \cap 0..MaxClock
              /\ UNCHANGED <<channel, messages, handed, shown, reminders, outside>>

AccountsAndClasses ==
  /\ \/ \E side \in Sides : usable' = usable \ {side} /\ usable = Sides /\ UNCHANGED taught
     \/ usable' = Sides /\ usable # Sides /\ UNCHANGED taught
     \/ taught' = ~taught /\ UNCHANGED usable
  /\ UNCHANGED <<dbClock, channel, messages, handed, shown, reminders>>

MessageNext ==
  \/ \E side \in Sides :
       \/ \E withText \in BOOLEAN : CreateConversation(side, withText)
       \/ SendMessage(side) \/ ArchiveConversation(side) \/ CreateThreadMessage(side)
       \/ \E page \in 1..2 : GetConversation(side, page)
       \/ \E cutoff \in handed[side] : AcknowledgeRead(side, cutoff)
  \/ CreateThread
  \/ \E status \in ThreadStatuses : UpdateThreadStatus(status)
  \/ ClockMoves \/ AccountsAndClasses

MessageSpec == MessageInit /\ [][MessageNext]_messageVars

-----------------------------------------------------------------------------
MessageTypeOK ==
  /\ dbClock \in 0..MaxClock
  /\ channel \in [kind : {"none", "conversation", "thread"}, last : Nat, archived : SUBSET Sides,
                  status : ThreadStatuses, judged : 0..MaxMessages]
  /\ Len(messages) <= MaxMessages
  /\ \A i \in 1..Len(messages) : messages[i] \in [from : Sides, at : Nat, read : BOOLEAN]
  /\ \A side \in Sides : handed[side] \subseteq 1..Len(messages) /\ shown[side] \in 0..Len(messages)
  /\ usable \subseteq Sides /\ taught \in BOOLEAN

(* Time agrees with the order of the commits although the clock may be set      *)
(* back, so that "the latest message" and "not later than" mean what they say. *)
TimeFollowsCommits ==
  \A i \in 1..Len(messages) :
    /\ messages[i].at <= channel.last
    /\ \A j \in 1..(i - 1) : messages[j].at < messages[i].at

(* Nothing newer than the newest message its reader was given is marked as     *)
(* read, however late or often a page is acknowledged and whatever was sent   *)
(* meanwhile. What is older is marked with it, on pages that were never       *)
(* loaded too: the acknowledgement names a cutoff, not what was shown.        *)
NothingNewerIsRead ==
  \A i \in 1..Len(messages) : messages[i].read => i <= shown[Other(messages[i].from)]

(* What is unread is the newest of what the other side sent: acknowledgements  *)
(* that arrive late, out of order or twice leave no gap behind them.          *)
ReadIsAPrefix ==
  \A i \in 1..Len(messages) : \A j \in 1..(i - 1) :
    messages[i].read /\ messages[j].from = messages[i].from => messages[j].read

(* A thread is listed as waiting exactly while its newest message is the         *)
(* student's, unless the teacher has set the status since that message.        *)
StatusFollowsTheThread ==
  channel.kind = "thread" /\ channel.judged < Len(messages) =>
    (NeedsTeacher <=> PendingReply) /\ (~NeedsTeacher => channel.status = "answered")

(* A stored message is in its recipient's list, unread, and has its reminder.    *)
NewMessageIsSeen ==
  [][Len(messages') > Len(messages) =>
       /\ Len(messages) + 1 \in reminders'
       /\ \E side \in Sides : messages'[Len(messages')].from = Other(side)
                              /\ Len(messages') \in UnreadBy(side)'
       /\ channel'.kind = "conversation" => ListedFor("student")' /\ ListedFor("teacher")']_messageVars

MessagesHold == TimeFollowsCommits /\ NothingNewerIsRead /\ ReadIsAPrefix /\ StatusFollowsTheThread
=============================================================================
