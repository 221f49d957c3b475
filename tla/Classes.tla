------------------------------- MODULE Classes -------------------------------
(* The classes of one teacher, their enrollments with the history the daily      *)
(* statistics read, and notices to a class: internal/application/classroom and *)
(* notice, adapter/postgres/class_repository.go and notice_repository.go.      *)
(* Joining is two reads of the service, the time it takes and the transaction  *)
(* that stores it; leaving takes the database's time inside its transaction;   *)
(* disbanding is one transaction of two statements; everything else is one     *)
(* transaction or one statement.                                               *)
EXTENDS Integers

CONSTANTS
  Students, ClassIds,
  NoClass,        \* stands for NULL
  EnrollmentIds,  \* bound: rows of the history at one time
  MaxTime,        \* bound: the database's clock
  Skews           \* how far the application's clock may be from the database's

\* The clocks differ by less than what Open leaves beyond MaxTime.
ASSUME ClassAssumption ==
  /\ NoClass \notin ClassIds /\ 0 \notin EnrollmentIds
  /\ MaxTime \in Nat \ {0, 1} /\ Skews \subseteq Int /\ \A k \in Skews : k < 10

VARIABLES
  time,           \* the database's clock
  skew,           \* the application's clock is time + skew
  classes,        \* the classes that exist
  enrolled,       \* class_enrollments, unique per student
  history,        \* class_enrollment_history
  joining,        \* what a join in progress has read
  doomed,         \* the enrollments an open transaction has deleted, by class
  leaving,        \* the time an open transaction of a leaving has written, or 0
  notice,         \* one row of notices with its recipients and confirmations
  activeStudents  \* students whose account is active

classVars == <<time, skew, classes, enrolled, history, joining, doomed, leaving, notice, activeStudents>>

NoNotice == [class |-> NoClass, sent |-> FALSE, recipients |-> {}, confirmed |-> {}, queued |-> {}]
NotEnrolled == [class |-> NoClass, id |-> 0, joined |-> 0]
AppTime == time + skew
Open == MaxTime + 10   \* left_at IS NULL

ClassInit ==
  /\ time = 2 /\ skew \in Skews /\ classes = {}
  /\ enrolled = [s \in Students |-> NotEnrolled] /\ history = {}
  /\ joining = [s \in Students |-> [phase |-> "idle", class |-> NoClass, joined |-> 0]]
  /\ doomed = [c \in ClassIds |-> {}] /\ leaving = [s \in Students |-> 0]
  /\ notice = NoNotice /\ activeStudents = Students

MembersOf(c) == {s \in Students : enrolled[s].class = c}
Untouched(s) == leaving[s] = 0 /\ \A c \in ClassIds : s \notin doomed[c]
Settled(c) == \A s \in MembersOf(c) : leaving[s] = 0

-----------------------------------------------------------------------------
CreateClass(c) ==
  /\ c \notin classes
  /\ classes' = classes \cup {c}
  /\ UNCHANGED <<time, skew, enrolled, history, joining, doomed, leaving, notice, activeStudents>>

Joining(s, phase, c) ==
  joining' = [joining EXCEPT ![s] = [phase |-> phase, class |-> c, joined |-> 0]]

StudentHasEnrollment(s) == enrolled[s].class # NoClass
FreeIds == EnrollmentIds \ {h.id : h \in history}

(* JoinClass looks for an enrollment, then for the class of the code, takes the  *)
(* time, and then inserts; another tab of the student may do the same.        *)
JoinClass(s) ==
  /\ joining[s].phase = "idle" /\ ~StudentHasEnrollment(s) /\ FreeIds # {}
  /\ Joining(s, "free", NoClass)
  /\ UNCHANGED <<time, skew, classes, enrolled, history, doomed, leaving, notice, activeStudents>>

LookupClassByCode(s) ==
  /\ joining[s].phase = "free"
  /\ \E c \in classes : Joining(s, "found", c)
  /\ UNCHANGED <<time, skew, classes, enrolled, history, doomed, leaving, notice, activeStudents>>

TakeTime(s) ==
  /\ joining[s].phase = "found"
  /\ joining' = [joining EXCEPT ![s].phase = "inserting", ![s].joined = AppTime]
  /\ UNCHANGED <<time, skew, classes, enrolled, history, doomed, leaving, notice, activeStudents>>

(* The unique index on the student and the foreign key to the class decide what  *)
(* the two reads cannot, once the transactions that have deleted the student's  *)
(* row have ended; an insertion that fails leaves nothing behind.              *)
Insertable(s, c) == ~StudentHasEnrollment(s) /\ c \in classes

CreateEnrollment(s, again) ==
  /\ joining[s].phase = "inserting" /\ Untouched(s)
  /\ LET c == joining[s].class
         row == [class |-> c, id |-> CHOOSE id \in FreeIds : TRUE, joined |-> joining[s].joined]
     IN  IF Insertable(s, c) /\ FreeIds # {}
           THEN /\ enrolled' = [enrolled EXCEPT ![s] = row]
                /\ history' = history \cup {[id |-> row.id, class |-> c, student |-> s,
                                             joined |-> row.joined, left |-> Open]}
           ELSE UNCHANGED <<enrolled, history>>
  /\ CASE again = "no" -> Joining(s, "idle", NoClass)
       [] again = "found" -> Joining(s, "found", joining[s].class)
       [] OTHER -> UNCHANGED joining
  /\ UNCHANGED <<time, skew, classes, doomed, leaving, notice, activeStudents>>

(* The history row is closed with the database's clock; its check refuses a       *)
(* leaving before the joining, and the whole transaction with it. The others see  *)
(* the leaving when it is committed, with the time of its statement, or never.    *)
Closable(s) == enrolled[s].joined <= time

DeleteEnrollment(s) ==
  /\ Untouched(s) /\ Closable(s)
  /\ leaving' = [leaving EXCEPT ![s] = time]
  /\ UNCHANGED <<time, skew, classes, enrolled, history, joining, doomed, notice, activeStudents>>

LeaveClass(s) == StudentHasEnrollment(s) /\ DeleteEnrollment(s)
RemoveStudent(c, s) == c \in classes /\ enrolled[s].class = c /\ DeleteEnrollment(s)

Closed(s) ==
  {IF h.id = enrolled[s].id /\ h.left = Open THEN [h EXCEPT !.left = leaving[s]] ELSE h : h \in history}

\* mutant: the enrollment is deleted and its history row stays open
UnenrollOnly(s) == enrolled' = [enrolled EXCEPT ![s] = NotEnrolled] /\ history' = history

Unenroll(s) ==
  /\ enrolled' = [enrolled EXCEPT ![s] = NotEnrolled]
  /\ history' = Closed(s)

EndLeaving(s) ==
  /\ leaving[s] # 0
  /\ leaving' = [leaving EXCEPT ![s] = 0]
  /\ Unenroll(s) \/ UNCHANGED <<enrolled, history>>
  /\ UNCHANGED <<time, skew, classes, joining, doomed, notice, activeStudents>>

(* DisbandClass deletes the enrollments, then the class. A student who joins       *)
(* in between makes the second statement fail on the foreign key, and the         *)
(* transaction leaves everything as it was. Both wait for who is leaving.       *)
DisbandDeletesEnrollments(c) ==
  /\ c \in classes /\ doomed[c] = {} /\ MembersOf(c) # {} /\ Settled(c)
  /\ doomed' = [doomed EXCEPT ![c] = MembersOf(c)]
  /\ UNCHANGED <<time, skew, classes, enrolled, history, joining, leaving, notice, activeStudents>>

DisbandClass(c) ==
  /\ c \in classes /\ (doomed[c] = {} => MembersOf(c) = {}) /\ Settled(c)
  /\ doomed' = [doomed EXCEPT ![c] = {}]
  /\ IF MembersOf(c) \subseteq doomed[c]
       THEN /\ classes' = classes \ {c}
            /\ enrolled' = [s \in Students |-> IF s \in doomed[c] THEN NotEnrolled ELSE enrolled[s]]
            /\ history' = {h \in history : h.class # c}   \* ON DELETE CASCADE
            /\ notice' = IF notice.class = c THEN [notice EXCEPT !.class = NoClass] ELSE notice
       ELSE UNCHANGED <<classes, enrolled, history, notice>>
  /\ UNCHANGED <<time, skew, joining, leaving, activeStudents>>

-----------------------------------------------------------------------------
(* Notices.                                                                  *)

(* The trigger of the insertion copies the class's active students.            *)
Recipients(c) == MembersOf(c) \cap activeStudents

CreateNotice(c) ==
  /\ ~notice.sent /\ c \in classes
  /\ notice' = [NoNotice EXCEPT !.class = c, !.sent = TRUE, !.recipients = Recipients(c),
                                !.queued = Recipients(c)]
  /\ UNCHANGED <<time, skew, classes, enrolled, history, joining, doomed, leaving, activeStudents>>

Unconfirmed == notice.recipients \ notice.confirmed

RemindUnconfirmed ==
  /\ notice.sent
  /\ notice' = [notice EXCEPT !.queued = @ \cup Unconfirmed]
  /\ UNCHANGED <<time, skew, classes, enrolled, history, joining, doomed, leaving, activeStudents>>

\* mutant: membership of the class is taken for being a recipient
ConfirmByAnyone(s) ==
  /\ notice.sent
  /\ notice' = [notice EXCEPT !.confirmed = @ \cup {s}]
  /\ UNCHANGED <<time, skew, classes, enrolled, history, joining, doomed, leaving, activeStudents>>

(* Left the class or not, a recipient confirms; nobody else does.                *)
ConfirmNotice(s) ==
  /\ notice.sent /\ s \in notice.recipients
  /\ notice' = [notice EXCEPT !.confirmed = @ \cup {s}]
  /\ UNCHANGED <<time, skew, classes, enrolled, history, joining, doomed, leaving, activeStudents>>

ReminderLeaves(s) ==
  /\ s \in notice.queued
  /\ notice' = [notice EXCEPT !.queued = @ \ {s}]
  /\ UNCHANGED <<time, skew, classes, enrolled, history, joining, doomed, leaving, activeStudents>>

-----------------------------------------------------------------------------
TimePasses ==
  /\ time < MaxTime /\ time' = time + 1
  /\ UNCHANGED <<skew, classes, enrolled, history, joining, doomed, leaving, notice, activeStudents>>

DisableStudent(s) ==
  /\ activeStudents' = activeStudents \ {s} /\ s \in activeStudents
  /\ UNCHANGED <<time, skew, classes, enrolled, history, joining, doomed, leaving, notice>>

ClassNext ==
  \/ TimePasses \/ RemindUnconfirmed
  \/ \E c \in ClassIds : CreateClass(c) \/ DisbandDeletesEnrollments(c) \/ DisbandClass(c) \/ CreateNotice(c)
  \/ \E s \in Students :
       \/ JoinClass(s) \/ LookupClassByCode(s) \/ TakeTime(s) \/ LeaveClass(s) \/ EndLeaving(s)
       \/ \E again \in {"no", "found", "inserting"} : CreateEnrollment(s, again)
       \/ \E c \in ClassIds : RemoveStudent(c, s)
       \/ ConfirmNotice(s) \/ ReminderLeaves(s) \/ DisableStudent(s)

ClassSpec == ClassInit /\ [][ClassNext]_classVars

-----------------------------------------------------------------------------
ClassTypeOK ==
  /\ time \in 0..MaxTime /\ skew \in Skews /\ classes \subseteq ClassIds
  /\ enrolled \in [Students -> [class : ClassIds \cup {NoClass}, id : EnrollmentIds \cup {0}, joined : Int]]
  /\ \A h \in history : h \in [id : EnrollmentIds, class : ClassIds, student : Students, joined : Int, left : Int]
  /\ joining \in [Students -> [phase : {"idle", "free", "found", "inserting"},
                              class : ClassIds \cup {NoClass}, joined : Int]]
  /\ leaving \in [Students -> 0..MaxTime]
  /\ notice.confirmed \subseteq notice.recipients /\ notice.recipients \subseteq Students
  /\ activeStudents \subseteq Students

(* The class's page, and the roster of a past instant for the daily statistics.  *)
RosterAt(c, t) == {h.student : h \in {x \in history : x.class = c /\ x.joined <= t /\ x.left > t}}
ClassOf(s) == enrolled[s].class

(* A student is in at most one class, which exists, and the history says the      *)
(* same: one open row per enrollment and none besides, with intervals that run    *)
(* forward, although joins race, classes are disbanded under them and the two     *)
(* clocks differ.                                                              *)
RosterAgrees ==
  /\ \A s \in Students : StudentHasEnrollment(s) => ClassOf(s) \in classes
  /\ {h \in history : h.left = Open} =
       {[id |-> enrolled[s].id, class |-> ClassOf(s), student |-> s, joined |-> enrolled[s].joined,
         left |-> Open] : s \in {x \in Students : StudentHasEnrollment(x)}}
  /\ \A h \in history : h.joined <= h.left /\ h.class \in classes

(* What both clocks have passed is settled: while the class exists, only who      *)
(* takes part in a join or a leaving that took its time before such an instant,   *)
(* and was not committed then, is added to its roster or taken from it; and a     *)
(* notice keeps the recipients it was sent to, who alone have confirmed it.       *)
JoinsBefore(t) == {s \in Students : joining[s].phase = "inserting" /\ joining[s].joined <= t}
LeavesBefore(t) == {s \in Students : leaving[s] # 0 /\ leaving[s] <= t}
PastIsSettled ==
  [][/\ \A c \in classes \cap classes' : \A t \in 0..MaxTime :
          t < time /\ t < AppTime =>
            /\ RosterAt(c, t)' \subseteq RosterAt(c, t) \cup JoinsBefore(t)
            /\ RosterAt(c, t) \subseteq RosterAt(c, t)' \cup LeavesBefore(t)
     /\ notice.sent => notice'.recipients = notice.recipients
                         /\ notice.confirmed \subseteq notice'.confirmed]_classVars
=============================================================================
