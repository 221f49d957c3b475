---------------------------- MODULE SchoolProofs ----------------------------
(***************************************************************************)
(* What a student meets at school, for every value of the constants: the   *)
(* announcements, the channel to the teacher, the class and the question   *)
(* bank, each under its own specification, and at the end the invariants   *)
(* and the action properties of the system in which a behaviour plays one  *)
(* of them.                                                                *)
(*                                                                         *)
(* Each part has an inductive invariant (AnnouncementsHold, ChannelInv,    *)
(* ClassInv, BankInv) and one lemma, its Step, that says of every step both*)
(* that it keeps the invariant and that it does what the part's action     *)
(* property asks.                                                          *)
(***************************************************************************)
EXTENDS MCSchool, SequenceTheorems, TLAPS

-----------------------------------------------------------------------------
(* Announcements.                                                          *)

(* A dismissal is of a revision the announcement has had; a row that is not *)
(* there has neither revision nor dismissal.                                *)
DismissalsLag ==
  /\ \A a \in Announcements, u \in Readers : dismissed[u][a] <= announcements[a].revision
  /\ \A a \in Announcements : ~announcements[a].exists => announcements[a].revision = 0

AnnouncementsHold == AnnouncementTypeOK /\ OneForAnAudience /\ DismissalsLag

(* The body of EditsAreShown.                                              *)
EditsShown ==
  \A a \in Announcements, u \in Readers :
    announcements'[a] # announcements[a] /\ Reachable(a, u)' => Shows(a, u)'

(* The rows an announcement that replaces others leaves behind.            *)
LEMMA DeactivateKeeps ==
  ASSUME AnnouncementTypeOK, NEW audience, NEW but, NEW a \in Announcements
  PROVE  LET row == DeactivateAudience(audience, but)[a] IN
         /\ row \in [exists : BOOLEAN, active : BOOLEAN, audience : Audiences,
                     append : BOOLEAN, persistent : BOOLEAN, revision : 0..MaxEdits]
         /\ row.revision = announcements[a].revision /\ row.exists = announcements[a].exists
         /\ row.audience = announcements[a].audience /\ row.append = announcements[a].append
         /\ row.active => row = announcements[a]
         /\ row # announcements[a] => ~row.active
         /\ a # but /\ announcements[a].audience = audience => ~row.active
  BY DEF AnnouncementTypeOK, DeactivateAudience

(* What saving a row leaves of every announcement.                          *)
LEMMA SavedKeeps ==
  ASSUME AnnouncementTypeOK, NEW a \in Announcements,
         NEW row \in [exists : BOOLEAN, active : BOOLEAN, audience : Audiences,
                      append : BOOLEAN, persistent : BOOLEAN, revision : 0..MaxEdits],
         Saved(a, row)
  PROVE  /\ announcements' \in [Announcements -> [exists : BOOLEAN, active : BOOLEAN, audience : Audiences,
                                  append : BOOLEAN, persistent : BOOLEAN, revision : 0..MaxEdits]]
         /\ announcements'[a] = row
         /\ \A b \in Announcements \ {a} :
              /\ announcements'[b].revision = announcements[b].revision
              /\ announcements'[b].exists = announcements[b].exists
              /\ announcements'[b].active => announcements'[b] = announcements[b]
              /\ announcements'[b] # announcements[b] => ~announcements'[b].active
              /\ row.active /\ ~row.append /\ announcements[b].audience = row.audience
                   => ~announcements'[b].active
<1> DEFINE rest == IF row.active /\ ~row.append THEN DeactivateAudience(row.audience, a) ELSE announcements
<1>1. announcements' = [rest EXCEPT ![a] = row]
  BY DEF Saved
<1>2. rest \in [Announcements -> [exists : BOOLEAN, active : BOOLEAN, audience : Audiences,
                  append : BOOLEAN, persistent : BOOLEAN, revision : 0..MaxEdits]]
  <2>1. DOMAIN DeactivateAudience(row.audience, a) = Announcements
        /\ DeactivateAudience(row.audience, a) = [b \in Announcements |-> DeactivateAudience(row.audience, a)[b]]
    BY DEF DeactivateAudience
  <2>2. \A b \in Announcements : DeactivateAudience(row.audience, a)[b] \in
           [exists : BOOLEAN, active : BOOLEAN, audience : Audiences,
            append : BOOLEAN, persistent : BOOLEAN, revision : 0..MaxEdits]
    BY DeactivateKeeps
  <2> QED BY <2>1, <2>2 DEF AnnouncementTypeOK
<1>3. \A b \in Announcements \ {a} :
        /\ rest[b].revision = announcements[b].revision
        /\ rest[b].exists = announcements[b].exists
        /\ rest[b].active => rest[b] = announcements[b]
        /\ rest[b] # announcements[b] => ~rest[b].active
        /\ row.active /\ ~row.append /\ announcements[b].audience = row.audience
             => ~rest[b].active
  BY DeactivateKeeps
<1> HIDE DEF rest
<1>4. announcements'[a] = row /\ \A b \in Announcements \ {a} : announcements'[b] = rest[b]
  BY <1>1, <1>2
<1>5. announcements' \in [Announcements -> [exists : BOOLEAN, active : BOOLEAN, audience : Audiences,
                  append : BOOLEAN, persistent : BOOLEAN, revision : 0..MaxEdits]]
  BY <1>1, <1>2
<1> QED BY <1>3, <1>4, <1>5

(* Creating and editing: the row saved is a later revision than any that was *)
(* dismissed, and has none of its audience beside it.                        *)
LEMMA SavedHolds ==
  ASSUME AnnouncementsHold, NEW a \in Announcements,
         NEW row \in [exists : BOOLEAN, active : BOOLEAN, audience : Audiences,
                      append : BOOLEAN, persistent : BOOLEAN, revision : 0..MaxEdits],
         row.exists, row.revision > announcements[a].revision,
         Saved(a, row), UNCHANGED <<dismissed, listed, roleOf>>
  PROVE  AnnouncementsHold' /\ EditsShown
<1>0. AnnouncementTypeOK
  BY DEF AnnouncementsHold
<1>1. /\ announcements' \in [Announcements -> [exists : BOOLEAN, active : BOOLEAN, audience : Audiences,
                                append : BOOLEAN, persistent : BOOLEAN, revision : 0..MaxEdits]]
      /\ announcements'[a] = row
      /\ \A b \in Announcements \ {a} :
           /\ announcements'[b].revision = announcements[b].revision
           /\ announcements'[b].exists = announcements[b].exists
           /\ announcements'[b].active => announcements'[b] = announcements[b]
           /\ announcements'[b] # announcements[b] => ~announcements'[b].active
           /\ row.active /\ ~row.append /\ announcements[b].audience = row.audience
                => ~announcements'[b].active
  BY <1>0, SavedKeeps
<1>2. AnnouncementTypeOK'
  BY <1>0, <1>1 DEF AnnouncementTypeOK
<1>3. OneForAnAudience'
  BY <1>1 DEF AnnouncementsHold, OneForAnAudience, AnnouncementTypeOK
<1>4. \A u \in Readers : dismissed[u][a] \in Nat /\ announcements[a].revision \in Nat /\ dismissed[u][a] < row.revision
  BY AnnouncementAssumption, <1>0 DEF AnnouncementsHold, DismissalsLag, AnnouncementTypeOK
<1>5. DismissalsLag'
  <2>1. \A b \in Announcements, u \in Readers : dismissed'[u][b] <= announcements'[b].revision
    <3>1. \A b \in Announcements, u \in Readers : dismissed[u][b] <= announcements[b].revision
      BY DEF AnnouncementsHold, DismissalsLag
    <3>2. \A u \in Readers : dismissed[u][a] <= row.revision
      BY <1>4
    <3> QED BY <3>1, <3>2, <1>1
  <2>2. \A b \in Announcements : ~announcements'[b].exists => announcements'[b].revision = 0
    BY <1>1 DEF AnnouncementsHold, DismissalsLag
  <2> QED BY <2>1, <2>2 DEF DismissalsLag
<1>6. ASSUME NEW b \in Announcements, NEW u \in Readers,
             announcements'[b] # announcements[b], Reachable(b, u)'
      PROVE  Shows(b, u)'
  <2>1. b = a
    BY <1>1, <1>6 DEF Reachable
  <2>2. dismissed'[u][b] # announcements'[b].revision
    BY <2>1, <1>1, <1>4
  <2> QED BY <2>2, <1>6 DEF Shows
<1> QED BY <1>2, <1>3, <1>5, <1>6 DEF AnnouncementsHold, EditsShown

(* Every step keeps the invariant and shows what it changed.                *)
LEMMA AnnouncementStep ==
  ASSUME AnnouncementsHold, [AnnouncementNext]_announcementVars
  PROVE  AnnouncementsHold' /\ EditsShown
<1> USE AnnouncementAssumption DEF AnnouncementsHold, EditsShown
<1>1. CASE UNCHANGED announcementVars
  BY <1>1 DEF announcementVars, AnnouncementTypeOK, OneForAnAudience, DismissalsLag
<1>2. ASSUME NEW a \in Announcements, NEW audience \in Audiences, NEW append \in BOOLEAN,
             NEW persistent \in BOOLEAN, NEW active \in BOOLEAN,
             \/ CreateAnnouncement(a, audience, append, persistent, active)
             \/ UpdateAnnouncement(a, audience, append, persistent, active)
      PROVE  AnnouncementsHold' /\ EditsShown
  <2> DEFINE new == [exists |-> TRUE, active |-> active, audience |-> audience, append |-> append,
                     persistent |-> persistent, revision |-> 1]
             edited == [announcements[a] EXCEPT !.active = active, !.audience = audience, !.append = append,
                                       !.persistent = persistent, !.revision = @ + 1]
  <2>1. CASE CreateAnnouncement(a, audience, append, persistent, active)
    <3>1. /\ new \in [exists : BOOLEAN, active : BOOLEAN, audience : Audiences,
                      append : BOOLEAN, persistent : BOOLEAN, revision : 0..MaxEdits]
          /\ new.exists /\ new.revision = 1
      OBVIOUS
    <3>2. announcements[a].revision = 0 /\ Saved(a, new) /\ UNCHANGED <<dismissed, listed, roleOf>>
      BY <2>1 DEF CreateAnnouncement, NoAnnouncement
    <3> HIDE DEF new
    <3> QED BY <3>1, <3>2, SavedHolds
  <2>2. CASE UpdateAnnouncement(a, audience, append, persistent, active)
    <3>1. /\ edited \in [exists : BOOLEAN, active : BOOLEAN, audience : Audiences,
                      append : BOOLEAN, persistent : BOOLEAN, revision : 0..MaxEdits]
          /\ edited.exists /\ edited.revision > announcements[a].revision
      <4>1. /\ announcements[a] \in [exists : BOOLEAN, active : BOOLEAN, audience : Audiences,
                      append : BOOLEAN, persistent : BOOLEAN, revision : 0..MaxEdits]
            /\ announcements[a].exists /\ announcements[a].revision < MaxEdits
        BY <2>2 DEF UpdateAnnouncement, AnnouncementTypeOK
      <4>2. announcements[a].revision + 1 \in 0..MaxEdits
            /\ announcements[a].revision + 1 > announcements[a].revision
        BY <4>1
      <4>3. edited.exists = announcements[a].exists /\ edited.revision = announcements[a].revision + 1
        BY <4>1
      <4>4. edited \in [exists : BOOLEAN, active : BOOLEAN, audience : Audiences,
                      append : BOOLEAN, persistent : BOOLEAN, revision : 0..MaxEdits]
        BY <4>1, <4>2, Zenon
      <4> QED BY <4>1, <4>2, <4>3, <4>4
    <3>2. Saved(a, edited) /\ UNCHANGED <<dismissed, listed, roleOf>>
      BY <2>2 DEF UpdateAnnouncement
    <3> HIDE DEF edited
    <3> QED BY <3>1, <3>2, SavedHolds
  <2> QED BY <1>2, <2>1, <2>2
<1>3. ASSUME NEW a \in Announcements, DeleteAnnouncement(a)
      PROVE  AnnouncementsHold' /\ EditsShown
  <2>1. AnnouncementTypeOK'
    <3>1. NoAnnouncement \in [exists : BOOLEAN, active : BOOLEAN, audience : Audiences,
                     append : BOOLEAN, persistent : BOOLEAN, revision : 0..MaxEdits]
      BY DEF NoAnnouncement, Audiences
    <3> QED BY <1>3, <3>1 DEF DeleteAnnouncement, AnnouncementTypeOK
  <2>2. announcements'[a] = NoAnnouncement
        /\ \A b \in Announcements \ {a} : announcements'[b] = announcements[b]
    BY <1>3 DEF DeleteAnnouncement, AnnouncementTypeOK
  <2>3. \A u \in Readers : dismissed'[u][a] = 0 /\ \A b \in Announcements \ {a} : dismissed'[u][b] = dismissed[u][b]
    BY <1>3 DEF DeleteAnnouncement, AnnouncementTypeOK
  <2>4. OneForAnAudience'
    BY <2>2 DEF OneForAnAudience, NoAnnouncement
  <2>5. DismissalsLag'
    BY <2>2, <2>3 DEF DismissalsLag, NoAnnouncement
  <2>6. \A b \in Announcements, u \in Readers :
           announcements'[b] # announcements[b] => ~Reachable(b, u)'
    BY <2>2 DEF Reachable, NoAnnouncement
  <2> QED BY <2>1, <2>4, <2>5, <2>6
<1>4. ASSUME NEW u \in Readers, NEW a \in Announcements, DismissAnnouncement(u, a)
      PROVE  AnnouncementsHold' /\ announcements' = announcements
  <2>1. AnnouncementTypeOK'
    BY <1>4 DEF DismissAnnouncement, AnnouncementTypeOK
  <2>2. \A b \in Announcements, w \in Readers :
           dismissed'[w][b] \in {dismissed[w][b], announcements[b].revision}
    BY <1>4 DEF DismissAnnouncement, AnnouncementTypeOK
  <2>3. announcements' = announcements
    BY <1>4 DEF DismissAnnouncement
  <2>4. DismissalsLag'
    <3>1. \A b \in Announcements, w \in Readers : dismissed'[w][b] <= announcements[b].revision
      <4>1. \A b \in Announcements : announcements[b].revision <= announcements[b].revision
        BY DEF AnnouncementTypeOK
      <4>2. \A b \in Announcements, w \in Readers : dismissed[w][b] <= announcements[b].revision
        BY DEF DismissalsLag
      <4> QED BY <4>1, <4>2, <2>2
    <3> QED BY <3>1, <2>3 DEF DismissalsLag
  <2> QED BY <2>1, <2>3, <2>4 DEF OneForAnAudience
<1>5. ASSUME NEW u \in Readers, ListForUser(u)
      PROVE  AnnouncementsHold' /\ announcements' = announcements
  <2>1. AnnouncementTypeOK'
    BY <1>5 DEF ListForUser, AnnouncementTypeOK
  <2> QED BY <1>5, <2>1 DEF ListForUser, OneForAnAudience, DismissalsLag
<1> QED
  BY <1>1, <1>2, <1>3, <1>4, <1>5 DEF AnnouncementNext

\* No announcement, no dismissal.
LEMMA AnnouncementsBegin == AnnouncementInit => AnnouncementsHold
BY AnnouncementAssumption DEF AnnouncementInit, AnnouncementsHold, AnnouncementTypeOK, OneForAnAudience, DismissalsLag,
   NoAnnouncement, NoneYet, Audiences

\* An audience never has two announcements that replace each other, and no dismissal is of a
\* revision that is still to come (Saved, DismissAnnouncement).
THEOREM AnnouncementsStayWhole == AnnouncementSpec => [](OneForAnAudience /\ DismissalsLag)
<1>1. AnnouncementsHold /\ [AnnouncementNext]_announcementVars => AnnouncementsHold'
  BY AnnouncementStep
<1>2. AnnouncementsHold => OneForAnAudience /\ DismissalsLag
  BY DEF AnnouncementsHold
<1> QED BY <1>1, <1>2, AnnouncementsBegin, PTL DEF AnnouncementSpec

\* Whatever a reader dismissed, an edit brings the announcement back (UpdateAnnouncement).
THEOREM EditsStayShown == AnnouncementSpec => EditsAreShown
<1>1. AnnouncementsHold /\ [AnnouncementNext]_announcementVars => AnnouncementsHold' /\ [EditsShown]_announcementVars
  BY AnnouncementStep DEF EditsShown
<1>2. AnnouncementSpec => [][EditsShown]_announcementVars
  BY <1>1, AnnouncementsBegin, PTL DEF AnnouncementSpec
<1> QED BY <1>2 DEF EditsAreShown, EditsShown

-----------------------------------------------------------------------------
(* The channel between a student and a teacher.                            *)

Message == [from : Sides, at : Nat, read : BOOLEAN]
ChannelRow == [kind : {"none", "conversation", "thread"}, last : Nat, archived : SUBSET Sides,
               status : ThreadStatuses, judged : Nat]

(* What the status of a thread says of its newest message.                 *)
StatusOfNewest ==
  channel.kind = "thread" /\ channel.judged < Len(messages) =>
    channel.status = StatusAfter(messages[Len(messages)].from)

ChannelInv ==
  /\ MessageTypeOK
  /\ messages \in Seq(Message)
  /\ channel.kind = "none" => Len(messages) = 0 /\ channel.last = 0
  /\ handed \in [Sides -> SUBSET Nat] /\ shown \in [Sides -> Nat]
  /\ channel.judged <= Len(messages)
  /\ \A side \in Sides : \A cutoff \in handed[side] : cutoff <= shown[side]
  /\ TimeFollowsCommits /\ NothingNewerIsRead /\ ReadIsAPrefix /\ StatusOfNewest

(* What a step brings about for its reader: the body of NewMessageIsSeen.  *)
NewIsSeen ==
  Len(messages') > Len(messages) =>
    /\ Len(messages) + 1 \in reminders'
    /\ \E side \in Sides : messages'[Len(messages')].from = Other(side)
                           /\ Len(messages') \in UnreadBy(side)'
    /\ channel'.kind = "conversation" => ListedFor("student")' /\ ListedFor("teacher")'

(* The messages after a new one.                                           *)
LEMMA AppendedMessages ==
  ASSUME messages \in Seq(Message), NEW from \in Sides, NEW at \in Nat, Append1(from, at)
  PROVE  /\ messages' \in Seq(Message) /\ Len(messages) \in Nat
         /\ Len(messages') = Len(messages) + 1
         /\ \A i \in 1..Len(messages) : messages'[i] = messages[i]
         /\ messages'[Len(messages) + 1].from = from
         /\ messages'[Len(messages) + 1].at = at
         /\ messages'[Len(messages) + 1].read = FALSE
<1>1. [from |-> from, at |-> at, read |-> FALSE] \in Message
  BY DEF Message
<1> DEFINE row == [from |-> from, at |-> at, read |-> FALSE]
<1>2. row.from = from /\ row.at = at /\ row.read = FALSE
  OBVIOUS
<1>3. messages' = Append(messages, row)
  BY DEF Append1
<1> HIDE DEF row
<1>4. /\ messages' \in Seq(Message) /\ Len(messages) \in Nat
      /\ Len(messages') = Len(messages) + 1
      /\ \A i \in 1..Len(messages) : messages'[i] = messages[i]
      /\ messages'[Len(messages) + 1] = row
  <2>1. row \in Message
    BY <1>1 DEF row
  <2> QED BY <1>3, <2>1, AppendProperties
<1> QED BY <1>2, <1>4

(* A new message is later than every other and seen by nobody yet.         *)
LEMMA NewMessageHolds ==
  ASSUME ChannelInv, Room, NEW side \in Sides, NEW at \in Nat, at > channel.last, Append1(side, at), Announced,
         channel' \in ChannelRow, channel'.kind \in {"conversation", "thread"}, channel'.last = at,
         channel'.kind = "conversation" => channel'.archived = {},
         channel'.judged <= Len(messages),
         channel'.kind = "thread" => channel'.status = StatusAfter(side),
         UNCHANGED <<dbClock, handed, shown, outside>>
  PROVE  ChannelInv' /\ NewIsSeen
<1>1. /\ messages' \in Seq(Message) /\ Len(messages) \in Nat
      /\ Len(messages') = Len(messages) + 1
      /\ \A i \in 1..Len(messages) : messages'[i] = messages[i]
      /\ messages'[Len(messages) + 1].from = side
      /\ messages'[Len(messages) + 1].at = at
      /\ messages'[Len(messages) + 1].read = FALSE
  BY AppendedMessages DEF ChannelInv
<1>a. messages \in Seq(Message) /\ \A i \in 1..Len(messages) : messages[i] \in Message
  BY ElementOfSeq DEF ChannelInv
<1>2. MessageTypeOK'
  <2>1. Len(messages') <= MaxMessages
    BY <1>1, MessageAssumption DEF Room
  <2>2. channel' \in [kind : {"none", "conversation", "thread"}, last : Nat, archived : SUBSET Sides,
                  status : ThreadStatuses, judged : 0..MaxMessages]
    <3>1. channel'.judged \in 0..MaxMessages
      BY <1>1, MessageAssumption DEF Room, ChannelRow
    <3> QED BY <3>1 DEF ChannelRow
  <2>3. \A i \in 1..Len(messages') : messages'[i] \in [from : Sides, at : Nat, read : BOOLEAN]
    BY <1>1, ElementOfSeq DEF Message
  <2>4. \A x \in Sides : handed[x] \subseteq 1..Len(messages') /\ shown[x] \in 0..Len(messages')
    BY <1>1 DEF ChannelInv, MessageTypeOK
  <2> QED BY <2>1, <2>2, <2>3, <2>4 DEF ChannelInv, MessageTypeOK, outside
<1>3. TimeFollowsCommits'
  <2>1. channel.last \in Nat
    BY DEF ChannelInv, MessageTypeOK
  <2>2. \A i \in 1..Len(messages) : messages[i].at \in Nat /\ messages[i].at < at
    BY <2>1, <1>a DEF ChannelInv, TimeFollowsCommits, Message
  <2>3. \A i \in 1..Len(messages) : \A j \in 1..(i - 1) : messages[j].at < messages[i].at
    BY DEF ChannelInv, TimeFollowsCommits
  <2>4. \A i \in 1..Len(messages') : messages'[i].at <= channel'.last
    BY <2>2, <1>1
  <2>5. \A i \in 1..Len(messages') : \A j \in 1..(i - 1) : messages'[j].at < messages'[i].at
    BY <2>2, <2>3, <1>1
  <2> QED BY <2>4, <2>5 DEF TimeFollowsCommits
<1>4. NothingNewerIsRead'
  <2>1. \A i \in 1..Len(messages) : messages[i].read => i <= shown[Other(messages[i].from)]
    BY DEF ChannelInv, NothingNewerIsRead
  <2>2. \A i \in 1..Len(messages') : messages'[i].read => i \in 1..Len(messages)
    BY <1>1
  <2> QED BY <2>1, <2>2, <1>1 DEF NothingNewerIsRead
<1>p. ReadIsAPrefix'
  <2>1. \A i \in 1..Len(messages) : \A j \in 1..(i - 1) :
          messages[i].read /\ messages[j].from = messages[i].from => messages[j].read
    BY DEF ChannelInv, ReadIsAPrefix
  <2>2. \A i \in 1..Len(messages') : messages'[i].read => i \in 1..Len(messages)
    BY <1>1
  <2>3. \A i \in 1..Len(messages) : \A j \in 1..(i - 1) : j \in 1..Len(messages)
    BY <1>1
  <2> QED BY <2>1, <2>2, <2>3, <1>1 DEF ReadIsAPrefix
<1>5. StatusOfNewest'
  BY <1>1 DEF StatusOfNewest
<1>6. channel'.judged <= Len(messages') /\ channel'.kind # "none"
  BY <1>1 DEF ChannelRow
<1>7. NewIsSeen
  <2>1. Len(messages') \in UnreadBy(Other(side))' /\ Other(Other(side)) = side /\ Other(side) \in Sides
    BY <1>1 DEF UnreadBy, Other, Sides
  <2>2. Len(messages) + 1 \in reminders'
    BY DEF Announced
  <2>3. channel'.kind = "conversation" => ListedFor("student")' /\ ListedFor("teacher")'
    BY DEF ListedFor
  <2> QED BY <2>1, <2>2, <2>3, <1>1 DEF NewIsSeen
<1> QED BY <1>1, <1>2, <1>3, <1>4, <1>p, <1>5, <1>6, <1>7 DEF ChannelInv

(* Steps that leave the messages alone.                                    *)
LEMMA NoNewMessage ==
  ASSUME ChannelInv, UNCHANGED messages,
         dbClock' \in 0..MaxClock, usable' \subseteq Sides, taught' \in BOOLEAN,
         channel' \in ChannelRow, channel'.judged <= Len(messages),
         channel'.kind = "none" => channel' = channel,
         handed' \in [Sides -> SUBSET Nat], shown' \in [Sides -> Nat], channel'.last >= channel.last,
         channel'.kind = "thread" /\ channel'.judged < Len(messages) =>
           channel.kind = "thread" /\ channel.judged = channel'.judged /\ channel.status = channel'.status,
         \A side \in Sides : handed'[side] \subseteq 1..Len(messages) /\ shown'[side] \in 0..Len(messages),
         \A side \in Sides : \A cutoff \in handed'[side] : cutoff <= shown'[side],
         \A side \in Sides : shown'[side] >= shown[side]
  PROVE  ChannelInv' /\ NewIsSeen
<1>a. messages \in Seq(Message) /\ Len(messages) \in Nat /\ \A i \in 1..Len(messages) : messages[i] \in Message
  BY ElementOfSeq, LenProperties DEF ChannelInv
<1>0. channel'.judged \in 0..MaxMessages
  BY <1>a, MessageAssumption DEF ChannelInv, MessageTypeOK, ChannelRow
<1>1. MessageTypeOK'
  <2>1. channel' \in [kind : {"none", "conversation", "thread"}, last : Nat, archived : SUBSET Sides,
                  status : ThreadStatuses, judged : 0..MaxMessages]
    BY <1>0 DEF ChannelRow
  <2> QED BY <2>1 DEF ChannelInv, MessageTypeOK
<1>2. TimeFollowsCommits'
  <2>1. \A i \in 1..Len(messages) : messages[i].at <= channel'.last
    <3>1. \A i \in 1..Len(messages) : messages[i].at <= channel.last /\ messages[i].at \in Nat
      BY <1>a DEF ChannelInv, TimeFollowsCommits, Message
    <3>2. channel.last \in Nat /\ channel'.last \in Nat
      BY DEF ChannelInv, MessageTypeOK, ChannelRow
    <3> QED BY <3>1, <3>2
  <2> QED BY <2>1 DEF ChannelInv, TimeFollowsCommits
<1>3. NothingNewerIsRead'
  <2>1. ASSUME NEW i \in 1..Len(messages), messages[i].read
        PROVE  i <= shown'[Other(messages[i].from)]
    <3>1. Other(messages[i].from) \in Sides
      BY <1>a DEF Other, Sides, Message
    <3>2. i <= shown[Other(messages[i].from)]
      BY <2>1 DEF ChannelInv, NothingNewerIsRead
    <3>3. shown[Other(messages[i].from)] \in Nat /\ shown'[Other(messages[i].from)] \in Nat
      BY <3>1, <1>a DEF ChannelInv, MessageTypeOK
    <3> QED BY <3>1, <3>2, <3>3
  <2> QED BY <2>1 DEF NothingNewerIsRead
<1>p. ReadIsAPrefix'
  BY DEF ChannelInv, ReadIsAPrefix
<1>4. StatusOfNewest'
  BY DEF ChannelInv, StatusOfNewest
<1>5. NewIsSeen
  BY <1>a DEF NewIsSeen
<1> QED BY <1>1, <1>2, <1>3, <1>p, <1>4, <1>5 DEF ChannelInv

(* The clock of a new message.                                             *)
LEMMA LaterIsLater ==
  ASSUME ChannelInv, NEW t \in Nat
  PROVE  Later(t) \in Nat /\ Later(t) > t
BY MessageAssumption DEF ChannelInv, MessageTypeOK, Later

\* A message in the room, at the later of the two times, is seen by who had read all before.
LEMMA WithMessageHolds ==
  ASSUME ChannelInv, Room, NEW side \in Sides, NEW last \in Nat, last >= channel.last,
         channel.kind \in {"none", "conversation"}, WithMessage(side, last),
         UNCHANGED <<dbClock, handed, shown, outside>>
  PROVE  ChannelInv' /\ NewIsSeen
<1>1. Later(last) \in Nat /\ Later(last) > channel.last
  <2>1. Later(last) \in Nat /\ Later(last) > last
    BY LaterIsLater
  <2>2. channel.last \in Nat
    BY DEF ChannelInv, MessageTypeOK
  <2> QED BY <2>1, <2>2
<1>2. channel \in [kind : {"none", "conversation", "thread"}, last : Nat, archived : SUBSET Sides,
                  status : ThreadStatuses, judged : 0..MaxMessages] /\ channel.judged <= Len(messages)
  BY DEF ChannelInv, MessageTypeOK
<1>3. /\ channel' \in ChannelRow /\ channel'.kind = "conversation" /\ channel'.last = Later(last)
      /\ channel'.archived = {} /\ channel'.judged = channel.judged
  <2>1. channel' = [channel EXCEPT !.kind = "conversation", !.last = Later(last), !.archived = {}]
    BY DEF WithMessage
  <2>2. channel \in ChannelRow
    BY <1>2 DEF ChannelRow
  <2> DEFINE at == Later(last)
  <2>3. channel' = [channel EXCEPT !.kind = "conversation", !.last = at, !.archived = {}] /\ at \in Nat
    BY <2>1, <1>1
  <2> HIDE DEF at
  <2>4. channel' \in ChannelRow
    BY <2>2, <2>3 DEF ChannelRow
  <2>5. channel'.kind = "conversation" /\ channel'.last = at
        /\ channel'.archived = {} /\ channel'.judged = channel.judged
    BY <2>2, <2>3 DEF ChannelRow
  <2> QED BY <2>4, <2>5 DEF at
<1>4. Append1(side, Later(last)) /\ Announced
  BY DEF WithMessage
<1> QED BY <1>1, <1>2, <1>3, <1>4, NewMessageHolds

\* Every step of the channel.
LEMMA MessageStep ==
  ASSUME ChannelInv, [MessageNext]_messageVars
  PROVE  ChannelInv' /\ NewIsSeen
<1>0. /\ channel \in [kind : {"none", "conversation", "thread"}, last : Nat, archived : SUBSET Sides,
                  status : ThreadStatuses, judged : 0..MaxMessages]
      /\ channel.judged <= Len(messages) /\ dbClock \in 0..MaxClock
      /\ messages \in Seq(Message) /\ Len(messages) \in Nat /\ Len(messages) <= MaxMessages
      /\ \A side \in Sides : handed[side] \subseteq 1..Len(messages) /\ shown[side] \in 0..Len(messages)
      /\ \A side \in Sides : \A cutoff \in handed[side] : cutoff <= shown[side]
      /\ usable \subseteq Sides /\ taught \in BOOLEAN
      /\ channel.kind = "none" => Len(messages) = 0 /\ channel.last = 0
      /\ handed \in [Sides -> SUBSET Nat] /\ shown \in [Sides -> Nat]
  BY LenProperties DEF ChannelInv, MessageTypeOK
<1>r. channel \in ChannelRow
  BY <1>0 DEF ChannelRow
<1>s. \A side \in Sides : shown[side] <= shown[side]
  BY <1>0
<1>1. CASE UNCHANGED messageVars
  BY <1>1, <1>0, <1>r, <1>s, NoNewMessage DEF messageVars, ChannelRow
<1>2. ASSUME NEW side \in Sides, NEW withText \in BOOLEAN, CreateConversation(side, withText)
      PROVE  ChannelInv' /\ NewIsSeen
  <2>1. CASE withText
    <3>1. Room /\ UNCHANGED <<dbClock, handed, shown, outside>>
      BY <1>2, <2>1 DEF CreateConversation
    <3>2. CASE channel.kind = "none" /\ WithMessage(side, dbClock)
      <4>1. dbClock \in Nat /\ dbClock >= channel.last
        BY <3>2, <1>0, MessageAssumption
      <4> QED BY <3>1, <3>2, <4>1, WithMessageHolds
    <3>3. CASE Reopenable(side) /\ WithMessage(side, channel.last)
      <4>1. channel.last \in Nat /\ channel.last >= channel.last /\ channel.kind = "conversation"
        BY <3>3, <1>0 DEF Reopenable
      <4> QED BY <3>1, <3>3, <4>1, WithMessageHolds
    <3> QED BY <1>2, <2>1, <3>2, <3>3 DEF CreateConversation, StoreConversation
  <2>2. CASE ~withText
    <3>1. UNCHANGED <<messages, dbClock, handed, shown, usable, taught>>
      BY <1>2, <2>2 DEF CreateConversation, StoreConversation, WithoutMessage, outside
    <3>2. /\ channel' \in ChannelRow /\ channel'.kind = "conversation" /\ channel'.judged = channel.judged
          /\ channel'.last >= channel.last
      <4>1. CASE channel.kind = "none" /\ channel' = [channel EXCEPT !.kind = "conversation", !.last = dbClock]
        <5>1. dbClock \in Nat /\ dbClock >= channel.last
          BY <4>1, <1>0, MessageAssumption
        <5> QED BY <4>1, <5>1, <1>r DEF ChannelRow
      <4>2. CASE Reopenable(side) /\ channel' = [channel EXCEPT !.archived = channel.archived \ {side}]
        <5>1. channel.last >= channel.last
          BY <1>0
        <5> QED BY <4>2, <5>1, <1>r DEF ChannelRow, Reopenable
      <4> QED BY <1>2, <2>2, <4>1, <4>2 DEF CreateConversation, StoreConversation, WithoutMessage
    <3> QED BY <3>1, <3>2, <1>0, <1>s, NoNewMessage
  <2> QED BY <2>1, <2>2
<1>3. ASSUME NEW side \in Sides, SendMessage(side)
      PROVE  ChannelInv' /\ NewIsSeen
  <2>1. channel.last \in Nat /\ channel.last >= channel.last
    BY <1>0
  <2> QED BY <1>3, <2>1, WithMessageHolds DEF SendMessage
<1>4. ASSUME NEW side \in Sides, ArchiveConversation(side)
      PROVE  ChannelInv' /\ NewIsSeen
  <2>1. UNCHANGED <<messages, dbClock, handed, shown, usable, taught>>
    BY <1>4 DEF ArchiveConversation, outside
  <2>2. /\ channel' \in ChannelRow /\ channel'.kind = "conversation" /\ channel'.judged = channel.judged
        /\ channel'.last = channel.last
    BY <1>4, <1>r DEF ArchiveConversation, ChannelRow
  <2>3. channel'.last >= channel.last
    BY <2>2, <1>0
  <2> QED BY <2>1, <2>2, <2>3, <1>0, <1>s, NoNewMessage
<1>5. CASE CreateThread
  <2> DEFINE at == dbClock + 1
  <2>1. at \in Nat /\ Append1("student", at) /\ Announced /\ Room /\ channel.kind = "none"
    BY <1>5, <1>0, MessageAssumption DEF CreateThread, StoreThread
  <2>2. /\ channel' \in ChannelRow /\ channel'.kind = "thread" /\ channel'.last = at
        /\ channel'.judged = 0 /\ channel'.status = "waiting"
    BY <1>5, <2>1 DEF CreateThread, StoreThread, NoChannel, ChannelRow, ThreadStatuses
  <2>3. at > channel.last
    BY <2>1, <1>0, MessageAssumption
  <2>4. StatusAfter("student") = "waiting" /\ "student" \in Sides /\ 0 <= Len(messages)
    BY <1>0 DEF StatusAfter, Sides
  <2>5. UNCHANGED <<dbClock, handed, shown, outside>>
    BY <1>5 DEF CreateThread
  <2> HIDE DEF at
  <2> QED BY <2>1, <2>2, <2>3, <2>4, <2>5, NewMessageHolds
<1>6. ASSUME NEW side \in Sides, CreateThreadMessage(side)
      PROVE  ChannelInv' /\ NewIsSeen
  <2> DEFINE at == Later(channel.last)
  <2>1. at \in Nat /\ at > channel.last
    BY <1>0, LaterIsLater
  <2>2. Append1(side, at) /\ Announced /\ Room /\ UNCHANGED <<dbClock, handed, shown, outside>>
    BY <1>6 DEF CreateThreadMessage
  <2>3. channel' = [channel EXCEPT !.last = at, !.status = StatusAfter(side)] /\ channel.kind = "thread"
    BY <1>6 DEF CreateThreadMessage
  <2>4. StatusAfter(side) \in ThreadStatuses
    BY DEF StatusAfter, ThreadStatuses
  <2> HIDE DEF at
  <2>5. /\ channel' \in ChannelRow /\ channel'.kind = "thread" /\ channel'.last = at
        /\ channel'.judged = channel.judged /\ channel'.status = StatusAfter(side)
    BY <2>1, <2>3, <2>4, <1>r DEF ChannelRow
  <2> QED BY <2>1, <2>2, <2>5, <1>0, NewMessageHolds
<1>7. ASSUME NEW status \in ThreadStatuses, UpdateThreadStatus(status)
      PROVE  ChannelInv' /\ NewIsSeen
  <2>1. Later(channel.last) \in Nat /\ Later(channel.last) > channel.last
    BY <1>0, LaterIsLater
  <2>2. UNCHANGED <<messages, dbClock, handed, shown, usable, taught>>
    BY <1>7 DEF UpdateThreadStatus, outside
  <2>3. /\ channel' \in ChannelRow /\ channel'.kind = "thread" /\ channel'.judged = Len(messages)
        /\ channel'.last = Later(channel.last)
    BY <1>7, <1>r, <1>0, <2>1 DEF UpdateThreadStatus, ChannelRow
  <2>4. channel'.last >= channel.last /\ channel'.judged <= Len(messages)
        /\ ~(channel'.judged < Len(messages))
    BY <2>1, <2>3, <1>0
  <2> QED BY <2>2, <2>3, <2>4, <1>0, <1>s, NoNewMessage
<1>8. ASSUME NEW side \in Sides, NEW page \in 1..2, GetConversation(side, page)
      PROVE  ChannelInv' /\ NewIsSeen
  <2>1. UNCHANGED <<messages, dbClock, channel, usable, taught>>
    BY <1>8 DEF GetConversation, outside
  <2>2. Cutoff(page) \in 1..Len(messages)
    <3>1. page = 1 \/ page = 2
      OBVIOUS
    <3>2. Cutoff(page) > 0
      BY <1>8 DEF GetConversation
    <3> QED BY <3>1, <3>2, <1>0, MessageAssumption DEF Cutoff
  <2> DEFINE c == Cutoff(page)
  <2>3. /\ handed' = [handed EXCEPT ![side] = @ \cup {c}]
        /\ shown' = [shown EXCEPT ![side] = IF @ < c THEN c ELSE @]
    BY <1>8 DEF GetConversation
  <2> HIDE DEF c
  <2>4. /\ handed' \in [Sides -> SUBSET Nat] /\ shown' \in [Sides -> Nat]
        /\ handed'[side] = handed[side] \cup {c} /\ shown'[side] >= c /\ shown'[side] >= shown[side]
        /\ shown'[side] \in {c, shown[side]}
        /\ \A x \in Sides \ {side} : handed'[x] = handed[x] /\ shown'[x] = shown[x]
    <3>1. c \in Nat
      BY <2>2 DEF c
    <3> QED BY <2>3, <3>1, <1>0
  <2>5. \A x \in Sides : handed'[x] \subseteq 1..Len(messages) /\ shown'[x] \in 0..Len(messages)
    BY <2>4, <2>2, <1>0 DEF c
  <2>6. \A x \in Sides : \A cutoff \in handed'[x] : cutoff <= shown'[x]
    <3>1. \A cutoff \in handed[side] : cutoff <= shown'[side]
      BY <1>0, <2>4
    <3> QED BY <3>1, <2>4, <1>0
  <2>7. \A x \in Sides : shown'[x] >= shown[x]
    BY <2>4, <1>0, SMTT(30)
  <2>8. channel' \in ChannelRow /\ channel'.judged <= Len(messages) /\ channel'.last >= channel.last
    BY <2>1, <1>r, <1>0
  <2> QED BY <2>1, <2>4, <2>5, <2>6, <2>7, <2>8, <1>0, NoNewMessage
<1>9. ASSUME NEW side \in Sides, NEW cutoff \in handed[side], AcknowledgeRead(side, cutoff)
      PROVE  ChannelInv' /\ NewIsSeen
  <2> USE DEF Message
  <2>1. cutoff \in 1..Len(messages) /\ cutoff <= shown[side]
    BY <1>0
  <2> DEFINE flagged(i) == [messages[i] EXCEPT !.read =
                    @ \/ (i \in UpTo(cutoff) /\ messages[i].from = Other(side))]
  <2>2. messages' = [i \in 1..Len(messages) |-> flagged(i)]
    BY <1>9 DEF AcknowledgeRead, MarkRead
  <2>3. \A i \in 1..Len(messages) : messages[i] \in Message
    BY <1>0, ElementOfSeq
  <2>4. \A i \in 1..Len(messages) :
           /\ flagged(i) \in Message /\ flagged(i).at = messages[i].at /\ flagged(i).from = messages[i].from
           /\ flagged(i).read <=> messages[i].read \/ (i \in UpTo(cutoff) /\ messages[i].from = Other(side))
    BY <2>3
  <2> HIDE DEF flagged
  <2>5. messages' \in Seq(Message) /\ Len(messages') = Len(messages)
    <3>1. messages' \in [1..Len(messages) -> Message]
      BY <2>2, <2>4
    <3>2. messages' \in Seq(Message)
      <4>1. [1..Len(messages) -> Message] \in {[1..n -> Message] : n \in Nat}
        BY <1>0
      <4> QED BY <3>1, <4>1, SeqDef, Zenon
    <3> QED BY <3>1, <3>2, <1>0, LenProperties
  <2>6. \A i \in 1..Len(messages) :
           /\ messages'[i] \in Message
           /\ messages'[i].at = messages[i].at /\ messages'[i].from = messages[i].from
           /\ messages'[i].read <=> messages[i].read \/ (i \in UpTo(cutoff) /\ messages[i].from = Other(side))
    BY <2>2, <2>4
  <2>7. UNCHANGED <<dbClock, channel, shown, usable, taught>>
        /\ handed' \in {handed, [handed EXCEPT ![side] = @ \ {cutoff}]}
    BY <1>9 DEF AcknowledgeRead, outside
  <2>8. handed' \in [Sides -> SUBSET Nat] /\ \A x \in Sides : handed'[x] \subseteq handed[x]
    BY <2>7, <1>0
  <2>9. MessageTypeOK'
    <3>1. \A x \in Sides : handed'[x] \subseteq 1..Len(messages') /\ shown'[x] \in 0..Len(messages')
      BY <2>5, <2>7, <2>8, <1>0
    <3> QED BY <2>5, <2>6, <2>7, <3>1 DEF ChannelInv, MessageTypeOK
  <2>10. TimeFollowsCommits'
    <3>1. \A i \in 1..Len(messages) : messages'[i].at = messages[i].at
      BY <2>6
    <3>2. \A i \in 1..Len(messages) : messages[i].at <= channel.last
      BY DEF ChannelInv, TimeFollowsCommits
    <3>3. \A i \in 1..Len(messages) : \A j \in 1..(i - 1) :
             messages[j].at < messages[i].at /\ j \in 1..Len(messages)
      <4>1. \A i \in 1..Len(messages) : \A j \in 1..(i - 1) : messages[j].at < messages[i].at
        BY DEF ChannelInv, TimeFollowsCommits
      <4>2. Len(messages) \in Nat
        BY <1>0, LenProperties
      <4>3. \A i \in 1..Len(messages) : \A j \in 1..(i - 1) : j \in 1..Len(messages)
        BY <4>2
      <4> QED BY <4>1, <4>3
    <3>4. \A i \in 1..Len(messages) : messages'[i].at <= channel'.last
      BY <3>1, <3>2, <2>7
    <3>5. \A i \in 1..Len(messages) : \A j \in 1..(i - 1) : messages'[j].at < messages'[i].at
      BY <3>1, <3>3
    <3> QED BY <3>4, <3>5, <2>5 DEF TimeFollowsCommits
  <2>11. NothingNewerIsRead'
    <3>1. ASSUME NEW i \in 1..Len(messages), messages'[i].read
          PROVE  i <= shown[Other(messages[i].from)]
      <4>1. CASE messages[i].read
        BY <4>1 DEF ChannelInv, NothingNewerIsRead
      <4>2. CASE i \in UpTo(cutoff) /\ messages[i].from = Other(side)
        <5>1. Other(messages[i].from) = side
          BY <4>2 DEF Other, Sides
        <5>2. i <= cutoff
          <6>1. messages[i].at <= messages[cutoff].at /\ messages[i].at \in Nat /\ messages[cutoff].at \in Nat
            BY <4>2, <2>1, <2>3 DEF UpTo
          <6>2. cutoff < i => messages[cutoff].at < messages[i].at
            BY <2>1, SMTT(30) DEF ChannelInv, TimeFollowsCommits
          <6> QED BY <6>1, <6>2, <2>1
        <5> QED BY <5>1, <5>2, <2>1, <1>0
      <4> QED BY <3>1, <2>6, <4>1, <4>2
    <3> QED BY <3>1, <2>5, <2>6, <2>7 DEF NothingNewerIsRead
  <2>p. ReadIsAPrefix'
    <3>1. ASSUME NEW i \in 1..Len(messages), NEW j \in 1..(i - 1), messages'[i].read,
                 messages'[j].from = messages'[i].from
          PROVE  messages'[j].read
      <4>a. i \in 1..Len(messages) /\ j \in 1..Len(messages)
        BY <3>1, <1>0
      <4>0. i \in 1..Len(messages) /\ j \in 1..Len(messages) /\ messages[j].from = messages[i].from
        <5>1. messages'[j].from = messages[j].from /\ messages'[i].from = messages[i].from
          BY <4>a, <2>6
        <5> QED BY <5>1, <4>a, <3>1
      <4>1. CASE messages[i].read
        <5>1. messages[j].read
          BY <3>1, <4>0, <4>1 DEF ChannelInv, ReadIsAPrefix
        <5> QED BY <5>1, <4>0, <2>6
      <4>2. CASE i \in UpTo(cutoff) /\ messages[i].from = Other(side)
        <5>1. messages[j].at < messages[i].at /\ messages[i].at <= messages[cutoff].at
          BY <3>1, <4>0, <4>2 DEF ChannelInv, TimeFollowsCommits, UpTo
        <5>2. messages[j].at \in Nat /\ messages[i].at \in Nat /\ messages[cutoff].at \in Nat
          BY <4>0, <2>1, <2>3
        <5>3. j \in UpTo(cutoff)
          BY <5>1, <5>2, <4>0 DEF UpTo
        <5> QED BY <5>3, <4>0, <4>2, <2>6
      <4> QED BY <3>1, <2>6, <4>1, <4>2
    <3> QED BY <3>1, <2>5 DEF ReadIsAPrefix
  <2>12. StatusOfNewest'
    <3>1. Len(messages) > 0 => messages'[Len(messages)].from = messages[Len(messages)].from
      BY <2>6, <1>0
    <3>2. channel.judged \in Nat
      BY <1>0
    <3>3. channel.judged < Len(messages) => Len(messages) > 0
      BY <3>2, <1>0
    <3>4. channel.kind = "thread" /\ channel.judged < Len(messages) =>
            channel.status = StatusAfter(messages[Len(messages)].from)
      BY DEF ChannelInv, StatusOfNewest
    <3>5. channel' = channel /\ Len(messages') = Len(messages)
      BY <2>5, <2>7
    <3> SUFFICES ASSUME channel.kind = "thread", channel.judged < Len(messages)
                 PROVE  channel.status = StatusAfter(messages'[Len(messages)].from)
      BY <3>5 DEF StatusOfNewest
    <3> QED BY <3>1, <3>3, <3>4
  <2>13. NewIsSeen
    BY <2>5, <1>0 DEF NewIsSeen
  <2>14. /\ channel'.kind = "none" => Len(messages') = 0 /\ channel'.last = 0
         /\ channel'.judged <= Len(messages')
         /\ \A x \in Sides : \A c \in handed'[x] : c <= shown'[x]
    BY <2>5, <2>7, <2>8, <1>0
  <2> QED BY <2>5, <2>7, <2>8, <2>9, <2>10, <2>11, <2>p, <2>12, <2>13, <2>14, <1>0 DEF ChannelInv
<1>10. ASSUME ClockMoves \/ AccountsAndClasses
       PROVE  ChannelInv' /\ NewIsSeen
  <2>1. UNCHANGED <<messages, channel, handed, shown>>
        /\ dbClock' \in 0..MaxClock /\ usable' \subseteq Sides /\ taught' \in BOOLEAN
    BY <1>10, <1>0 DEF ClockMoves, AccountsAndClasses, outside
  <2>2. channel' \in ChannelRow /\ channel'.last >= channel.last
    BY <2>1, <1>r, <1>0
  <2> QED BY <2>1, <2>2, <1>0, <1>s, NoNewMessage
<1> QED
  BY <1>1, <1>2, <1>3, <1>4, <1>5, <1>6, <1>7, <1>8, <1>9, <1>10 DEF MessageNext

(* The channel agrees in every reachable state.                            *)
LEMMA MessagesBegin == MessageInit => ChannelInv
<1> SUFFICES ASSUME MessageInit PROVE ChannelInv
  OBVIOUS
<1>1. messages = <<>> /\ Len(messages) = 0 /\ messages \in Seq(Message)
  BY EmptySeq DEF MessageInit
<1>2. channel \in [kind : {"none", "conversation", "thread"}, last : Nat, archived : SUBSET Sides,
                  status : ThreadStatuses, judged : 0..MaxMessages]
      /\ channel.kind = "none" /\ channel.last = 0 /\ channel.judged = 0
  BY MessageAssumption DEF MessageInit, NoChannel, ThreadStatuses
<1>3. handed = [side \in Sides |-> {}] /\ shown = [side \in Sides |-> 0]
  BY DEF MessageInit
<1>4. MessageTypeOK
  BY <1>1, <1>2, <1>3, MessageAssumption DEF MessageInit, MessageTypeOK
<1> QED BY <1>1, <1>2, <1>3, <1>4 DEF ChannelInv, TimeFollowsCommits, NothingNewerIsRead, ReadIsAPrefix, StatusOfNewest

(* The latest message by time is the newest by commit, so the list says     *)
(* what the thread says.                                                    *)
LEMMA StatusIsTheNewest == ChannelInv => MessagesHold
<1> SUFFICES ASSUME ChannelInv PROVE StatusFollowsTheThread
  BY DEF ChannelInv, MessagesHold
<1>0. /\ channel.judged \in Nat /\ Len(messages) \in Nat
      /\ \A i \in 1..Len(messages) : messages[i] \in Message
  BY LenProperties, ElementOfSeq DEF ChannelInv, MessageTypeOK
<1> SUFFICES ASSUME channel.kind = "thread", channel.judged < Len(messages)
             PROVE  (NeedsTeacher <=> PendingReply) /\ (~NeedsTeacher => channel.status = "answered")
  BY DEF StatusFollowsTheThread
<1>1. Len(messages) \in 1..Len(messages)
  BY <1>0
<1>2. LatestByTime = {Len(messages)}
  <2>1. ASSUME NEW i \in 1..Len(messages), i # Len(messages)
        PROVE  messages[i].at < messages[Len(messages)].at
    BY <2>1, <1>0 DEF ChannelInv, TimeFollowsCommits
  <2>2. Len(messages) \in LatestByTime
    BY <1>0, <1>1, <2>1 DEF LatestByTime, Message
  <2>3. ASSUME NEW i \in LatestByTime PROVE i = Len(messages)
    BY <2>1, <1>0, <1>1 DEF LatestByTime, Message
  <2> QED BY <2>2, <2>3
<1>3. channel.status = StatusAfter(messages[Len(messages)].from)
  BY DEF ChannelInv, StatusOfNewest
<1>4. messages[Len(messages)].from \in Sides
  BY <1>0, <1>1 DEF Message
<1> QED BY <1>2, <1>3, <1>4 DEF NeedsTeacher, PendingReply, StatusAfter, Sides

\* Time follows the commits, nothing newer than what its reader was given is read and what is
\* unread is the newest, and a thread is listed as waiting
\* exactly while its newest message is the student's (WithMessage, MarkRead, StatusAfter).
THEOREM MessagesAgree == MessageSpec => [](MessageTypeOK /\ MessagesHold)
<1>1. ChannelInv /\ [MessageNext]_messageVars => ChannelInv'
  BY MessageStep
<1>2. ChannelInv => MessageTypeOK /\ MessagesHold
  BY StatusIsTheNewest DEF ChannelInv
<1> QED BY <1>1, <1>2, MessagesBegin, PTL DEF MessageSpec

\* A message that is stored is unread in its recipient's list and has its reminder
\* (SendMessage, StoreConversation, StoreThread).
THEOREM NewMessagesStaySeen == MessageSpec => NewMessageIsSeen
<1>1. ChannelInv /\ [MessageNext]_messageVars => ChannelInv' /\ [NewIsSeen]_messageVars
  BY MessageStep
<1>2. MessageSpec => [][NewIsSeen]_messageVars
  BY <1>1, MessagesBegin, PTL DEF MessageSpec
<1> QED BY <1>2 DEF NewMessageIsSeen, NewIsSeen

-----------------------------------------------------------------------------
(* Classes and notices.                                                    *)

EnrollmentRow == [class : ClassIds \cup {NoClass}, id : EnrollmentIds \cup {0}, joined : Int]
HistoryRow == [id : EnrollmentIds, class : ClassIds, student : Students, joined : Int, left : Int]
NoticeRow == [class : ClassIds \cup {NoClass}, sent : BOOLEAN, recipients : SUBSET Students,
              confirmed : SUBSET Students, queued : SUBSET Students]
OpenRow(s) == [id |-> enrolled[s].id, class |-> ClassOf(s), student |-> s, joined |-> enrolled[s].joined,
               left |-> Open]

JoinRow == [phase : {"idle", "free", "found", "inserting"}, class : ClassIds \cup {NoClass}, joined : Int]

(* A join took its time not long after the clock's end; a leaving came after  *)
(* the joining, and holds the enrollment until it ends.                       *)
JoinsFit == \A s \in Students : joining[s].phase = "inserting" => joining[s].joined <= Open
LeavesFit ==
  \A s \in Students : leaving[s] # 0 =>
    /\ StudentHasEnrollment(s) /\ \A c \in ClassIds : s \notin doomed[c]
    /\ enrolled[s].joined <= leaving[s]

(* What RosterAgrees rests on: an identifier names one row of the history,   *)
(* and a student whose enrollment an open transaction has deleted is still    *)
(* in that class, and in no other.                                           *)
ClassInv ==
  /\ ClassTypeOK /\ RosterAgrees
  /\ \A h, k \in history : h.id = k.id => h = k
  /\ doomed \in [ClassIds -> SUBSET Students]
  /\ \A c \in ClassIds : \A s \in doomed[c] : enrolled[s].class = c
  /\ notice \in NoticeRow
  /\ JoinsFit /\ LeavesFit

(* The body of PastIsSettled.                                              *)
PastStays ==
  /\ \A c \in classes \cap classes' : \A t \in 0..MaxTime :
       t < time /\ t < AppTime =>
         /\ RosterAt(c, t)' \subseteq RosterAt(c, t) \cup JoinsBefore(t)
         /\ RosterAt(c, t) \subseteq RosterAt(c, t)' \cup LeavesBefore(t)
  /\ notice.sent => notice'.recipients = notice.recipients
                      /\ notice.confirmed \subseteq notice'.confirmed

(* The open rows of the history, one by one.                               *)
LEMMA OpenRows ==
  ASSUME ClassInv
  PROVE  /\ \A s \in Students : StudentHasEnrollment(s) => OpenRow(s) \in history
         /\ \A h \in history : h.left = Open =>
              /\ h.student \in Students /\ StudentHasEnrollment(h.student) /\ h = OpenRow(h.student)
         /\ \A s \in Students : StudentHasEnrollment(s) =>
              enrolled[s].id \in EnrollmentIds /\ ClassOf(s) \in classes
<1>1. {h \in history : h.left = Open} = {OpenRow(s) : s \in {x \in Students : StudentHasEnrollment(x)}}
  BY DEF ClassInv, RosterAgrees, OpenRow
<1>2. \A s \in Students : OpenRow(s).student = s /\ OpenRow(s).id = enrolled[s].id /\ OpenRow(s).left = Open
  BY DEF OpenRow
<1>3. ASSUME NEW s \in Students, StudentHasEnrollment(s)
      PROVE  OpenRow(s) \in history
  BY <1>1, <1>3
<1>4. ASSUME NEW h \in history, h.left = Open
      PROVE  h.student \in Students /\ StudentHasEnrollment(h.student) /\ h = OpenRow(h.student)
  BY <1>1, <1>2, <1>4
<1>5. ASSUME NEW s \in Students, StudentHasEnrollment(s)
      PROVE  enrolled[s].id \in EnrollmentIds /\ ClassOf(s) \in classes
  <2>1. OpenRow(s) \in HistoryRow
    BY <1>3, <1>5 DEF ClassInv, ClassTypeOK, HistoryRow
  <2> QED BY <1>2, <1>5, <2>1 DEF HistoryRow, ClassInv, RosterAgrees
<1> QED BY <1>3, <1>4, <1>5

(* Steps that leave classes, enrollments and history alone.                *)
LEMMA SameRoster ==
  ASSUME ClassInv, UNCHANGED <<skew, enrolled, history>>,
         time' \in 0..MaxTime, classes \subseteq classes', classes' \subseteq ClassIds,
         joining' \in [Students -> JoinRow] /\ JoinsFit',
         activeStudents' \subseteq Students, leaving' \in [Students -> 0..MaxTime], LeavesFit',
         doomed' \in [ClassIds -> SUBSET Students],
         \A c \in ClassIds : \A s \in doomed'[c] : enrolled[s].class = c,
         notice'.confirmed \subseteq notice'.recipients, notice' \in NoticeRow,
         notice.sent => /\ notice'.recipients = notice.recipients
                        /\ notice.confirmed \subseteq notice'.confirmed
  PROVE  ClassInv' /\ PastStays
<1>1. ClassTypeOK'
  BY DEF ClassInv, ClassTypeOK, NoticeRow, JoinRow
<1>2. RosterAgrees'
  BY DEF ClassInv, RosterAgrees, StudentHasEnrollment, ClassOf
<1>3. PastStays
  BY DEF PastStays, RosterAt
<1> QED BY <1>1, <1>2, <1>3 DEF ClassInv

\* A join that begins, finds its class or ends.
LEMMA JoiningFits ==
  ASSUME joining \in [Students -> JoinRow], JoinsFit, NEW s \in Students,
         NEW phase \in {"idle", "free", "found"}, NEW c \in ClassIds \cup {NoClass}, Joining(s, phase, c)
  PROVE  joining' \in [Students -> JoinRow] /\ JoinsFit'
<1> DEFINE r == [phase |-> phase, class |-> c, joined |-> 0]
<1>1. r \in JoinRow /\ r.phase # "inserting"
  BY DEF JoinRow
<1>2. joining' = [joining EXCEPT ![s] = r]
  BY DEF Joining
<1> HIDE DEF r
<1> QED BY <1>1, <1>2 DEF JoinsFit, Open

\* The steps that end no enrolment.
LEMMA QuietClassStep ==
  ASSUME ClassInv,
         \/ UNCHANGED classVars
         \/ TimePasses \/ RemindUnconfirmed
         \/ \E c \in ClassIds : CreateClass(c) \/ DisbandDeletesEnrollments(c) \/ CreateNotice(c)
         \/ \E s \in Students : \/ JoinClass(s) \/ LookupClassByCode(s) \/ TakeTime(s)
                                \/ StudentHasEnrollment(s) /\ DeleteEnrollment(s)
                                \/ ConfirmNotice(s) \/ ReminderLeaves(s) \/ DisableStudent(s)
  PROVE  ClassInv' /\ PastStays
<1>0. /\ time \in 0..MaxTime /\ classes \subseteq ClassIds /\ activeStudents \subseteq Students
      /\ joining \in [Students -> JoinRow] /\ JoinsFit
      /\ doomed \in [ClassIds -> SUBSET Students]
      /\ \A c \in ClassIds : \A s \in doomed[c] : enrolled[s].class = c
      /\ notice.confirmed \subseteq notice.recipients /\ notice \in NoticeRow
      /\ leaving \in [Students -> 0..MaxTime] /\ LeavesFit
  BY DEF ClassInv, ClassTypeOK, JoinRow
<1>j. ASSUME UNCHANGED joining PROVE joining' \in [Students -> JoinRow] /\ JoinsFit'
  BY <1>0, <1>j DEF JoinsFit, Open
<1>l. ASSUME UNCHANGED <<leaving, enrolled, doomed>> PROVE leaving' \in [Students -> 0..MaxTime] /\ LeavesFit'
  BY <1>0, <1>l DEF LeavesFit, StudentHasEnrollment
<1>n. ASSUME UNCHANGED notice
      PROVE  /\ notice'.confirmed \subseteq notice'.recipients /\ notice' \in NoticeRow
             /\ notice.sent => /\ notice'.recipients = notice.recipients
                               /\ notice.confirmed \subseteq notice'.confirmed
  BY <1>0, <1>n
<1>1. CASE UNCHANGED classVars
  BY <1>1, <1>0, <1>n, <1>j, <1>l, SameRoster DEF classVars
<1>2. CASE TimePasses
  <2>1. time' \in 0..MaxTime
    BY <1>2, <1>0, ClassAssumption DEF TimePasses
  <2> QED BY <1>2, <2>1, <1>0, <1>n, <1>j, <1>l, SameRoster DEF TimePasses
<1>3. CASE RemindUnconfirmed
  <2>1. UNCHANGED <<time, skew, classes, enrolled, history, joining, doomed, leaving, activeStudents>>
        /\ notice'.confirmed = notice.confirmed /\ notice'.recipients = notice.recipients
        /\ notice' \in NoticeRow
    BY <1>3, <1>0 DEF RemindUnconfirmed, Unconfirmed, NoticeRow
  <2> QED BY <2>1, <1>0, <1>j, <1>l, SameRoster
<1>4. ASSUME NEW c \in ClassIds, CreateClass(c)
      PROVE  ClassInv' /\ PastStays
  BY <1>4, <1>0, <1>n, <1>j, <1>l, SameRoster DEF CreateClass
<1>5. ASSUME NEW c \in ClassIds, DisbandDeletesEnrollments(c)
      PROVE  ClassInv' /\ PastStays
  <2>1. /\ doomed' \in [ClassIds -> SUBSET Students]
        /\ \A d \in ClassIds : \A s \in doomed'[d] : enrolled[s].class = d
    BY <1>5, <1>0 DEF DisbandDeletesEnrollments, MembersOf
  <2>2. leaving' \in [Students -> 0..MaxTime] /\ LeavesFit'
    <3>1. UNCHANGED <<leaving, enrolled>> /\ \A s \in MembersOf(c) : leaving[s] = 0
      BY <1>5, <1>0 DEF DisbandDeletesEnrollments, Settled
    <3>6. doomed' = [doomed EXCEPT ![c] = MembersOf(c)]
      BY <1>5 DEF DisbandDeletesEnrollments
    <3>2. ASSUME NEW s \in Students, leaving[s] # 0, NEW d \in ClassIds PROVE s \notin doomed'[d]
      <4>1. s \notin doomed[d]
        BY <3>2, <1>0 DEF LeavesFit
      <4>2. s \notin MembersOf(c)
        BY <3>1, <3>2
      <4>3. doomed'[d] = doomed[d] \/ doomed'[d] = MembersOf(c)
        BY <3>6, <1>0
      <4> QED BY <4>1, <4>2, <4>3
    <3>3. \A s \in Students : leaving[s] # 0 => enrolled[s].class # NoClass /\ enrolled[s].joined <= leaving[s]
      BY <1>0 DEF LeavesFit, StudentHasEnrollment
    <3>4. leaving' = leaving /\ enrolled' = enrolled
      BY <3>1
    <3>5. ASSUME NEW s \in Students, leaving'[s] # 0
          PROVE  /\ StudentHasEnrollment(s)' /\ \A d \in ClassIds : s \notin doomed'[d]
                 /\ enrolled'[s].joined <= leaving'[s]
      BY <3>2, <3>3, <3>4, <3>5 DEF StudentHasEnrollment
    <3> QED BY <3>4, <3>5, <1>0 DEF LeavesFit
  <2> QED BY <2>1, <2>2, <1>5, <1>0, <1>n, <1>j, SameRoster DEF DisbandDeletesEnrollments
<1>6. ASSUME NEW c \in ClassIds, CreateNotice(c)
      PROVE  ClassInv' /\ PastStays
  <2>1. UNCHANGED <<time, skew, classes, enrolled, history, joining, doomed, leaving, activeStudents>>
        /\ notice'.confirmed = {} /\ notice'.recipients \subseteq Students
        /\ notice' \in NoticeRow /\ ~notice.sent
    BY <1>6 DEF CreateNotice, NoNotice, Recipients, MembersOf, NoticeRow
  <2> QED BY <2>1, <1>0, <1>j, <1>l, SameRoster
<1>7. ASSUME NEW s \in Students, JoinClass(s)
      PROVE  ClassInv' /\ PastStays
  <2>1. joining' \in [Students -> JoinRow] /\ JoinsFit'
    BY <1>7, <1>0, JoiningFits DEF JoinClass
  <2> QED BY <2>1, <1>7, <1>0, <1>n, <1>l, SameRoster DEF JoinClass
<1>8. ASSUME NEW s \in Students, LookupClassByCode(s)
      PROVE  ClassInv' /\ PastStays
  <2>1. joining' \in [Students -> JoinRow] /\ JoinsFit'
    BY <1>8, <1>0, JoiningFits DEF LookupClassByCode
  <2> QED BY <2>1, <1>8, <1>0, <1>n, <1>l, SameRoster DEF LookupClassByCode
<1>9. ASSUME NEW s \in Students, ConfirmNotice(s)
      PROVE  ClassInv' /\ PastStays
  <2>1. UNCHANGED <<time, skew, classes, enrolled, history, joining, doomed, leaving, activeStudents>>
        /\ notice'.confirmed \in {notice.confirmed, notice.confirmed \cup {s}}
        /\ notice.confirmed \subseteq notice'.confirmed
        /\ notice'.recipients = notice.recipients /\ s \in notice.recipients
        /\ notice' \in NoticeRow
    BY <1>9, <1>0 DEF ConfirmNotice, NoticeRow
  <2> QED BY <2>1, <1>0, <1>j, <1>l, SameRoster
<1>10. ASSUME NEW s \in Students, ReminderLeaves(s)
       PROVE  ClassInv' /\ PastStays
  <2>1. UNCHANGED <<time, skew, classes, enrolled, history, joining, doomed, leaving, activeStudents>>
        /\ notice'.confirmed = notice.confirmed /\ notice'.recipients = notice.recipients
        /\ notice' \in NoticeRow
    BY <1>10, <1>0 DEF ReminderLeaves, NoticeRow
  <2> QED BY <2>1, <1>0, <1>j, <1>l, SameRoster
<1>11. ASSUME NEW s \in Students, DisableStudent(s)
       PROVE  ClassInv' /\ PastStays
  BY <1>11, <1>0, <1>n, <1>j, <1>l, SameRoster DEF DisableStudent
<1>12. ASSUME NEW s \in Students, TakeTime(s)
       PROVE  ClassInv' /\ PastStays
  <2>1. AppTime \in Int /\ AppTime <= Open
    BY ClassAssumption DEF ClassInv, ClassTypeOK, AppTime, Open
  <2>2. joining' \in [Students -> JoinRow] /\ JoinsFit'
    <3>1. joining[s] \in JoinRow
      BY <1>0
    <3>2. [joining[s] EXCEPT !.phase = "inserting", !.joined = AppTime] \in JoinRow
          /\ [joining[s] EXCEPT !.phase = "inserting", !.joined = AppTime].joined = AppTime
      BY <2>1, <3>1 DEF JoinRow
    <3>3. PICK r \in JoinRow : joining' = [joining EXCEPT ![s] = r] /\ r.joined = AppTime
      BY <1>12, <1>0, <3>2 DEF TakeTime
    <3> QED BY <3>3, <2>1, <1>0 DEF JoinsFit, Open
  <2> QED BY <2>2, <1>12, <1>0, <1>n, <1>l, SameRoster DEF TakeTime
<1>13. ASSUME NEW s \in Students, StudentHasEnrollment(s), DeleteEnrollment(s)
       PROVE  ClassInv' /\ PastStays
  <2>1. UNCHANGED <<enrolled, doomed>> /\ leaving' = [leaving EXCEPT ![s] = time]
        /\ (\A c \in ClassIds : s \notin doomed[c]) /\ enrolled[s].joined <= time
    BY <1>13 DEF DeleteEnrollment, Untouched, Closable
  <2>2. leaving' \in [Students -> 0..MaxTime] /\ LeavesFit'
    BY <2>1, <1>0, <1>13 DEF LeavesFit, StudentHasEnrollment
  <2> QED BY <2>2, <1>13, <1>0, <1>n, <1>j, SameRoster DEF DeleteEnrollment
<1> QED BY <1>1, <1>2, <1>3, <1>4, <1>5, <1>6, <1>7, <1>8, <1>9, <1>10, <1>11, <1>12, <1>13

(* Joining: the new row is open and takes an identifier no other row has.  *)
LEMMA CreateEnrollmentHolds ==
  ASSUME ClassInv, NEW s \in Students, NEW again \in {"no", "found", "inserting"}, CreateEnrollment(s, again)
  PROVE  ClassInv' /\ PastStays
<1> DEFINE c == joining[s].class
           n == CHOOSE id \in FreeIds : TRUE
           row == [class |-> c, id |-> n, joined |-> joining[s].joined]
           new == [id |-> n, class |-> c, student |-> s, joined |-> row.joined, left |-> Open]
<1>0. /\ time \in 0..MaxTime /\ classes \subseteq ClassIds /\ skew \in Int /\ skew < 10
      /\ joining \in [Students -> JoinRow] /\ JoinsFit
      /\ enrolled \in [Students -> EnrollmentRow]
      /\ notice \in NoticeRow /\ leaving \in [Students -> 0..MaxTime] /\ LeavesFit
  BY ClassAssumption DEF ClassInv, ClassTypeOK, EnrollmentRow, JoinRow
<1>1. joining' \in [Students -> JoinRow] /\ JoinsFit'
  <2>1. joining[s].class \in ClassIds \cup {NoClass}
    BY <1>0 DEF JoinRow
  <2>2. \/ Joining(s, "idle", NoClass) \/ Joining(s, "found", joining[s].class) \/ UNCHANGED joining
    BY DEF CreateEnrollment
  <2> QED BY <2>1, <2>2, <1>0, JoiningFits DEF JoinsFit, Open
<1>2. CASE UNCHANGED <<enrolled, history>>
  <2>1. UNCHANGED <<time, skew, classes, doomed, leaving, notice, activeStudents>>
    BY DEF CreateEnrollment
  <2>2. LeavesFit'
    BY <2>1, <1>2, <1>0 DEF LeavesFit, StudentHasEnrollment
  <2> QED BY <2>1, <2>2, <1>0, <1>1, <1>2, SameRoster DEF ClassInv, ClassTypeOK
<1>3. CASE /\ Insertable(s, c) /\ FreeIds # {}
           /\ enrolled' = [enrolled EXCEPT ![s] = row] /\ history' = history \cup {new}
  <2>1. n \in EnrollmentIds /\ \A h \in history : h.id # n
    BY <1>3 DEF FreeIds
  <2>2. c \in classes /\ c \in ClassIds /\ c # NoClass
    BY <1>3, <1>0, ClassAssumption DEF Insertable
  <2>3. joining[s].joined \in Int /\ Open \in Int /\ joining[s].joined <= Open /\ joining[s].phase = "inserting"
    BY <1>0, ClassAssumption DEF JoinRow, JoinsFit, Open, CreateEnrollment
  <2>4. row \in EnrollmentRow /\ row.class = c /\ row.id = n /\ row.joined = joining[s].joined
    BY <2>1, <2>2, <2>3 DEF EnrollmentRow
  <2>5. new \in HistoryRow /\ new.student = s /\ new.id = n /\ new.class = c /\ new.left = Open
        /\ new.joined = joining[s].joined
    BY <2>1, <2>2, <2>3, <2>4 DEF HistoryRow
  <2>6. UNCHANGED <<time, skew, classes, doomed, leaving, notice, activeStudents>> /\ leaving[s] = 0
    BY DEF CreateEnrollment, Untouched
  <2>7. enrolled[s].class = NoClass
    BY <1>3 DEF Insertable, StudentHasEnrollment
  <2>8. new = [id |-> row.id, class |-> row.class, student |-> s, joined |-> row.joined, left |-> Open]
    OBVIOUS
  <2> HIDE DEF row, n, c
  <2>9. enrolled' \in [Students -> EnrollmentRow] /\ enrolled'[s] = row
        /\ \A x \in Students \ {s} : enrolled'[x] = enrolled[x]
    BY <1>0, <1>3, <2>4
  <2>10. new = OpenRow(s)' /\ StudentHasEnrollment(s)'
    BY <2>8, <2>9, <2>4, <2>2 DEF OpenRow, ClassOf, Open, StudentHasEnrollment
  <2>11. \A x \in Students \ {s} : OpenRow(x)' = OpenRow(x) /\ (StudentHasEnrollment(x)' <=> StudentHasEnrollment(x))
            /\ ClassOf(x)' = ClassOf(x)
    BY <2>9 DEF OpenRow, ClassOf, Open, StudentHasEnrollment
  <2> HIDE DEF new
  <2>12. ClassTypeOK'
    BY <1>1, <1>3, <2>5, <2>6, <2>9 DEF ClassInv, ClassTypeOK, EnrollmentRow, HistoryRow, JoinRow
  <2>13. RosterAgrees'
    <3>1. \A x \in Students : StudentHasEnrollment(x)' => OpenRow(x)' \in history'
      BY <2>10, <2>11, <1>3, OpenRows
    <3>2. \A h \in history : h.left = Open => h.student # s
      BY OpenRows, <2>7 DEF StudentHasEnrollment
    <3>3. \A h \in history' : h.left = Open' =>
              /\ h.student \in Students /\ StudentHasEnrollment(h.student)' /\ h = OpenRow(h.student)'
      BY <3>2, <2>5, <2>10, <2>11, <1>3, OpenRows DEF Open
    <3>4. \A x \in Students : StudentHasEnrollment(x)' => ClassOf(x)' \in classes'
      BY <2>2, <2>4, <2>6, <2>9, <2>11, OpenRows DEF ClassOf
    <3>5. \A h \in history' : h.joined <= h.left /\ h.class \in classes'
      BY <1>3, <2>2, <2>3, <2>5, <2>6 DEF ClassInv, RosterAgrees
    <3> QED
      <4>1. ASSUME NEW x \in Students, StudentHasEnrollment(x)'
            PROVE  OpenRow(x)' \in {h \in history' : h.left = Open'}
        BY <3>1, <4>1 DEF OpenRow
      <4>2. ASSUME NEW h \in history', h.left = Open'
            PROVE  h \in {OpenRow(x)' : x \in {y \in Students : StudentHasEnrollment(y)'}}
        BY <3>3, <4>2
      <4>3. {h \in history' : h.left = Open'} =
              {OpenRow(x)' : x \in {y \in Students : StudentHasEnrollment(y)'}}
        BY <4>1, <4>2
      <4> QED BY <4>3, <3>4, <3>5 DEF RosterAgrees, OpenRow
  <2>14. \A h, k \in history' : h.id = k.id => h = k
    BY <2>1, <2>5, <1>3 DEF ClassInv
  <2>15. \A d \in ClassIds : \A x \in doomed'[d] : enrolled'[x].class = d
    <3>1. ASSUME NEW d \in ClassIds, NEW x \in doomed[d]
          PROVE  enrolled'[x].class = d
      <4>1. enrolled[x].class = d /\ x \in Students
        BY DEF ClassInv
      <4>2. x # s
        BY <4>1, <2>7, ClassAssumption
      <4> QED BY <4>1, <4>2, <2>9
    <3> QED BY <3>1, <2>6
  <2>l. LeavesFit'
    BY <1>0, <2>6, <2>9 DEF LeavesFit, StudentHasEnrollment
  <2>16. PastStays
    <3>1. ASSUME NEW d \in classes, NEW t \in 0..MaxTime
          PROVE  /\ RosterAt(d, t)' \subseteq RosterAt(d, t) \cup JoinsBefore(t)
                 /\ RosterAt(d, t) \subseteq RosterAt(d, t)'
      <4> DEFINE in(x) == x.class = d /\ x.joined <= t /\ x.left > t
      <4>1. in(new) => s \in JoinsBefore(t)
        BY <2>5, <2>3 DEF JoinsBefore
      <4>2. RosterAt(d, t) = {x.student : x \in {y \in history : in(y)}}
        BY DEF RosterAt
      <4>3. RosterAt(d, t)' = {x.student : x \in {y \in history' : in(y)}}
        BY DEF RosterAt
      <4> HIDE DEF in
      <4> QED BY <4>1, <4>2, <4>3, <2>5, <1>3
    <3> QED BY <3>1, <2>6 DEF PastStays
  <2> QED BY <2>6, <1>1, <2>12, <2>13, <2>14, <2>15, <2>l, <2>16 DEF ClassInv
<1> QED BY <1>2, <1>3 DEF CreateEnrollment

(* Leaving: the open row is closed at the time that was taken.             *)
LEMMA UnenrollHolds ==
  ASSUME ClassInv, NEW s \in Students, leaving[s] # 0, leaving' = [leaving EXCEPT ![s] = 0], Unenroll(s),
         UNCHANGED <<time, skew, classes, joining, doomed, notice, activeStudents>>
  PROVE  ClassInv' /\ PastStays
<1>0. /\ time \in 0..MaxTime /\ classes \subseteq ClassIds
      /\ enrolled \in [Students -> EnrollmentRow] /\ enrolled[s].joined \in Int
      /\ \A h \in history : h \in HistoryRow
      /\ leaving \in [Students -> 0..MaxTime] /\ LeavesFit /\ JoinsFit
  BY DEF ClassInv, ClassTypeOK, EnrollmentRow, HistoryRow
<1> DEFINE end == leaving[s]
<1>e. end \in 0..MaxTime /\ StudentHasEnrollment(s) /\ enrolled[s].joined <= end /\ \A c \in ClassIds : s \notin doomed[c]
  BY <1>0 DEF LeavesFit
<1>1. end # Open /\ end < Open /\ Open \in Int /\ end \in Int
  BY <1>e, ClassAssumption DEF Open
<1>2. OpenRow(s) \in history /\ OpenRow(s).id = enrolled[s].id /\ OpenRow(s).left = Open
      /\ OpenRow(s).joined = enrolled[s].joined /\ OpenRow(s).class = ClassOf(s) /\ OpenRow(s).student = s
  BY <1>e, OpenRows DEF OpenRow
<1> DEFINE old == OpenRow(s)
           closed == [old EXCEPT !.left = end]
<1> HIDE DEF old
<1>3. closed \in HistoryRow /\ closed.id = old.id /\ closed.class = old.class /\ closed.student = old.student
      /\ closed.joined = old.joined /\ closed.left = end
  <2>1. old \in HistoryRow
    BY <1>0, <1>2 DEF old
  <2>2. end \in Int
    BY <1>1
  <2> QED BY <2>1, <2>2 DEF HistoryRow
<1>4. history' = (history \ {old}) \cup {closed}
  <2>1. \A h \in history : h.id = enrolled[s].id /\ h.left = Open <=> h = old
    BY <1>2 DEF ClassInv, old
  <2>2. history' = {IF h = old THEN closed ELSE h : h \in history}
    BY <2>1 DEF Unenroll, Closed
  <2>3. old \in history
    BY <1>2 DEF old
  <2> QED BY <2>2, <2>3
<1> HIDE DEF closed, end
<1>5. NotEnrolled \in EnrollmentRow /\ NotEnrolled.class = NoClass
  BY DEF NotEnrolled, EnrollmentRow
<1>6. enrolled' \in [Students -> EnrollmentRow] /\ enrolled'[s].class = NoClass
      /\ \A x \in Students \ {s} : enrolled'[x] = enrolled[x]
  BY <1>0, <1>5 DEF Unenroll
<1>7. \A x \in Students \ {s} : OpenRow(x)' = OpenRow(x) /\ (StudentHasEnrollment(x)' <=> StudentHasEnrollment(x))
            /\ ClassOf(x)' = ClassOf(x) /\ OpenRow(x).student = x
  BY <1>6 DEF OpenRow, ClassOf, Open, StudentHasEnrollment
<1>8. ~StudentHasEnrollment(s)' /\ old.student = s
  BY <1>2, <1>6 DEF StudentHasEnrollment, old
<1>f. leaving' \in [Students -> 0..MaxTime] /\ LeavesFit' /\ JoinsFit'
  <2>1. 0 \in 0..MaxTime
    BY ClassAssumption
  <2> QED BY <2>1, <1>0, <1>6 DEF LeavesFit, JoinsFit, StudentHasEnrollment, Open
<1>9. ClassTypeOK'
  <2>1. \A h \in history' : h \in HistoryRow
    BY <1>0, <1>3, <1>4
  <2> QED BY <2>1, <1>6, <1>f DEF ClassInv, ClassTypeOK, EnrollmentRow, HistoryRow
<1>10. RosterAgrees'
  <2>1. \A x \in Students : StudentHasEnrollment(x)' => OpenRow(x)' \in history'
    BY <1>4, <1>7, <1>8, OpenRows
  <2>2. \A h \in history' : h.left = Open' =>
              /\ h.student \in Students /\ StudentHasEnrollment(h.student)' /\ h = OpenRow(h.student)'
    <3>1. ASSUME NEW h \in history', h.left = Open
          PROVE  h.student \in Students /\ StudentHasEnrollment(h.student)' /\ h = OpenRow(h.student)'
      <4>1. h \in history /\ h # old
        BY <1>1, <1>3, <1>4, <3>1
      <4>2. h.student \in Students /\ StudentHasEnrollment(h.student) /\ h = OpenRow(h.student)
        BY <4>1, <3>1, OpenRows
      <4>3. h.student # s
        BY <4>1, <4>2 DEF old
      <4> QED BY <4>2, <4>3, <1>7
    <3> QED BY <3>1 DEF Open
  <2>3. \A x \in Students : StudentHasEnrollment(x)' => ClassOf(x)' \in classes'
    BY <1>7, <1>8, OpenRows
  <2>4. \A h \in history' : h.joined <= h.left /\ h.class \in classes'
    <3>1. closed.joined <= closed.left /\ closed.class \in classes
      BY <1>2, <1>3, <1>e, OpenRows DEF old
    <3> QED BY <3>1, <1>4 DEF ClassInv, RosterAgrees
  <2> QED
    <3>1. ASSUME NEW x \in Students, StudentHasEnrollment(x)'
          PROVE  OpenRow(x)' \in {h \in history' : h.left = Open'}
      BY <2>1, <3>1 DEF OpenRow
    <3>2. ASSUME NEW h \in history', h.left = Open'
          PROVE  h \in {OpenRow(x)' : x \in {y \in Students : StudentHasEnrollment(y)'}}
      BY <2>2, <3>2
    <3>3. {h \in history' : h.left = Open'} =
            {OpenRow(x)' : x \in {y \in Students : StudentHasEnrollment(y)'}}
      BY <3>1, <3>2
    <3> QED BY <3>3, <2>3, <2>4 DEF RosterAgrees, OpenRow
<1>11. \A h, k \in history' : h.id = k.id => h = k
  BY <1>2, <1>3, <1>4 DEF ClassInv, old
<1>12. \A d \in ClassIds : \A x \in doomed'[d] : enrolled'[x].class = d
  BY <1>6, <1>e DEF ClassInv
<1>13. PastStays
  <2>1. ASSUME NEW d \in classes, NEW t \in 0..MaxTime
        PROVE  /\ RosterAt(d, t)' \subseteq RosterAt(d, t)
               /\ RosterAt(d, t) \subseteq RosterAt(d, t)' \cup LeavesBefore(t)
    <3> DEFINE in(x) == x.class = d /\ x.joined <= t /\ x.left > t
    <3>1. (in(closed) => in(old)) /\ (in(old) => in(closed) \/ s \in LeavesBefore(t))
      <4>1. old.left > t /\ (closed.left > t \/ end <= t)
        BY <1>0, <1>1, <1>2, <1>3, <2>1, ClassAssumption DEF old, Open
      <4>2. end <= t => s \in LeavesBefore(t)
        BY DEF LeavesBefore, end
      <4> QED BY <4>1, <4>2, <1>3
    <3>2. RosterAt(d, t) = {x.student : x \in {y \in history : in(y)}}
      BY DEF RosterAt
    <3>3. RosterAt(d, t)' = {x.student : x \in {y \in history' : in(y)}}
      BY DEF RosterAt
    <3> HIDE DEF in
    <3>4. old \in history /\ old.student = s /\ closed.student = s
      BY <1>2, <1>3 DEF old
    <3> QED BY <3>1, <3>2, <3>3, <3>4, <1>4
  <2> QED BY <2>1 DEF PastStays
<1> QED BY <1>9, <1>10, <1>11, <1>12, <1>13, <1>f DEF ClassInv

(* Disbanding: the class goes with its enrollments and their history.      *)
LEMMA DisbandHolds ==
  ASSUME ClassInv, NEW c \in ClassIds, DisbandClass(c)
  PROVE  ClassInv' /\ PastStays
<1>0. /\ time \in 0..MaxTime /\ classes \subseteq ClassIds
      /\ enrolled \in [Students -> EnrollmentRow]
      /\ \A h \in history : h \in HistoryRow
      /\ doomed \in [ClassIds -> SUBSET Students] /\ notice \in NoticeRow
      /\ \A d \in ClassIds : \A s \in doomed[d] : enrolled[s].class = d
      /\ joining \in [Students -> JoinRow] /\ JoinsFit
      /\ leaving \in [Students -> 0..MaxTime] /\ LeavesFit
  BY DEF ClassInv, ClassTypeOK, EnrollmentRow, HistoryRow, JoinRow
<1>j. UNCHANGED <<joining, leaving>> /\ JoinsFit' /\ \A s \in MembersOf(c) : leaving[s] = 0
  BY <1>0 DEF DisbandClass, JoinsFit, Open, Settled
<1>1. /\ doomed' \in [ClassIds -> SUBSET Students] /\ doomed'[c] = {}
      /\ \A d \in ClassIds \ {c} : doomed'[d] = doomed[d]
  BY <1>0 DEF DisbandClass
<1>2. CASE ~(MembersOf(c) \subseteq doomed[c])
  <2>1. \A d \in ClassIds : \A s \in doomed'[d] : enrolled[s].class = d
    BY <1>0, <1>1
  <2>2. UNCHANGED <<time, skew, classes, enrolled, history, notice, activeStudents>>
    BY <1>2 DEF DisbandClass
  <2>3. LeavesFit'
    BY <2>2, <1>0, <1>1, <1>j DEF LeavesFit, StudentHasEnrollment
  <2> QED BY <2>1, <2>2, <2>3, <1>0, <1>1, <1>j, SameRoster DEF ClassInv, ClassTypeOK
<1>3. CASE MembersOf(c) \subseteq doomed[c]
  <2>1. /\ classes' = classes \ {c}
        /\ enrolled' = [s \in Students |-> IF s \in doomed[c] THEN NotEnrolled ELSE enrolled[s]]
        /\ history' = {h \in history : h.class # c}
        /\ notice' = IF notice.class = c THEN [notice EXCEPT !.class = NoClass] ELSE notice
        /\ UNCHANGED <<time, skew, joining, leaving, activeStudents>>
    BY <1>3 DEF DisbandClass
  <2>2. NotEnrolled \in EnrollmentRow /\ NotEnrolled.class = NoClass
    BY DEF NotEnrolled, EnrollmentRow
  <2>3. \A s \in Students : s \in doomed[c] <=> enrolled[s].class = c
    BY <1>0, <1>3 DEF MembersOf
  <2>4. enrolled' \in [Students -> EnrollmentRow]
        /\ \A s \in Students : enrolled'[s] = IF enrolled[s].class = c THEN NotEnrolled ELSE enrolled[s]
    BY <2>1, <2>2, <2>3, <1>0
  <2>5. notice' \in NoticeRow /\ notice'.recipients = notice.recipients
        /\ notice'.confirmed = notice.confirmed
    BY <2>1, <1>0 DEF NoticeRow
  <2>6. ClassTypeOK'
    BY <2>1, <2>4, <2>5 DEF ClassInv, ClassTypeOK, EnrollmentRow
  <2>7. \A s \in Students : StudentHasEnrollment(s)' <=> (StudentHasEnrollment(s) /\ ClassOf(s) # c)
    BY <2>4, <2>2 DEF StudentHasEnrollment, ClassOf
  <2>8. \A s \in Students : ClassOf(s) # c => OpenRow(s)' = OpenRow(s) /\ ClassOf(s)' = ClassOf(s)
    BY <2>4 DEF ClassOf, OpenRow, Open
  <2>9. \A s \in Students : OpenRow(s).class = ClassOf(s)
    BY DEF OpenRow
  <2>10. RosterAgrees'
    <3>1. \A x \in Students : StudentHasEnrollment(x)' => OpenRow(x)' \in history'
      BY <2>1, <2>7, <2>8, <2>9, OpenRows
    <3>2. \A h \in history' : h.left = Open' =>
              /\ h.student \in Students /\ StudentHasEnrollment(h.student)' /\ h = OpenRow(h.student)'
      BY <2>1, <2>7, <2>8, <2>9, OpenRows DEF Open
    <3>3. \A x \in Students : StudentHasEnrollment(x)' => ClassOf(x)' \in classes'
      BY <2>1, <2>7, <2>8, OpenRows
    <3>4. \A h \in history' : h.joined <= h.left /\ h.class \in classes'
      BY <2>1 DEF ClassInv, RosterAgrees
    <3> QED
      <4>1. ASSUME NEW x \in Students, StudentHasEnrollment(x)'
            PROVE  OpenRow(x)' \in {h \in history' : h.left = Open'}
        BY <3>1, <4>1 DEF OpenRow
      <4>2. ASSUME NEW h \in history', h.left = Open'
            PROVE  h \in {OpenRow(x)' : x \in {y \in Students : StudentHasEnrollment(y)'}}
        BY <3>2, <4>2
      <4>3. {h \in history' : h.left = Open'} =
              {OpenRow(x)' : x \in {y \in Students : StudentHasEnrollment(y)'}}
        BY <4>1, <4>2
      <4> QED BY <4>3, <3>3, <3>4 DEF RosterAgrees, OpenRow
  <2>11. \A h, k \in history' : h.id = k.id => h = k
    BY <2>1 DEF ClassInv
  <2>12. \A d \in ClassIds : \A x \in doomed'[d] : enrolled'[x].class = d
    BY <1>0, <1>1, <2>4
  <2>13. PastStays
    <3>1. ASSUME NEW d \in classes \cap classes', NEW t \in 0..MaxTime
          PROVE  RosterAt(d, t)' = RosterAt(d, t)
      <4>1. {x \in history' : x.class = d /\ x.joined <= t /\ x.left > t}
              = {x \in history : x.class = d /\ x.joined <= t /\ x.left > t}
        BY <2>1
      <4> QED BY <4>1 DEF RosterAt
    <3> QED BY <3>1, <2>5 DEF PastStays
  <2>14. LeavesFit'
    <3>1. ASSUME NEW s \in Students, leaving[s] # 0
          PROVE  enrolled'[s] = enrolled[s] /\ \A d \in ClassIds : s \notin doomed'[d]
      <4>1. enrolled[s].class # c
        BY <1>j, <3>1 DEF MembersOf
      <4>2. \A d \in ClassIds : s \notin doomed[d]
        BY <3>1, <1>0 DEF LeavesFit
      <4> QED BY <4>1, <4>2, <2>4, <1>1
    <3> QED BY <3>1, <1>0, <1>j DEF LeavesFit, StudentHasEnrollment
  <2> QED BY <1>1, <1>j, <2>5, <2>6, <2>10, <2>11, <2>12, <2>13, <2>14 DEF ClassInv
<1> QED BY <1>2, <1>3

\* Every step of the classes.
LEMMA ClassStep ==
  ASSUME ClassInv, [ClassNext]_classVars
  PROVE  ClassInv' /\ PastStays
<1>1. ASSUME NEW s \in Students, LeaveClass(s) PROVE ClassInv' /\ PastStays
  BY <1>1, QuietClassStep DEF LeaveClass
<1>2. ASSUME NEW s \in Students, NEW c \in ClassIds, RemoveStudent(c, s) PROVE ClassInv' /\ PastStays
  <2>1. StudentHasEnrollment(s) /\ DeleteEnrollment(s)
    BY <1>2, ClassAssumption DEF RemoveStudent, StudentHasEnrollment
  <2> QED BY <2>1, QuietClassStep
<1>3. ASSUME NEW s \in Students, EndLeaving(s) PROVE ClassInv' /\ PastStays
  <2>1. CASE Unenroll(s)
    BY <1>3, <2>1, UnenrollHolds DEF EndLeaving
  <2>2. CASE UNCHANGED <<enrolled, history>>
    <3>1. /\ leaving' = [leaving EXCEPT ![s] = 0]
          /\ UNCHANGED <<time, skew, classes, joining, doomed, notice, activeStudents>>
      BY <1>3 DEF EndLeaving
    <3>2. /\ leaving \in [Students -> 0..MaxTime] /\ LeavesFit /\ 0 \in 0..MaxTime
          /\ joining \in [Students -> JoinRow] /\ JoinsFit
      BY ClassAssumption DEF ClassInv, ClassTypeOK, JoinRow
    <3>3. leaving' \in [Students -> 0..MaxTime] /\ LeavesFit' /\ JoinsFit'
      BY <3>1, <3>2, <2>2 DEF LeavesFit, JoinsFit, StudentHasEnrollment, Open
    <3> QED BY <3>1, <3>2, <3>3, <2>2, SameRoster DEF ClassInv, ClassTypeOK
  <2> QED BY <1>3, <2>1, <2>2 DEF EndLeaving
<1> QED BY <1>1, <1>2, <1>3, QuietClassStep, CreateEnrollmentHolds, DisbandHolds DEF ClassNext

\* No class, no enrolment.
LEMMA ClassesBegin == ClassInit => ClassInv
<1> SUFFICES ASSUME ClassInit PROVE ClassInv
  OBVIOUS
<1>1. NotEnrolled \in EnrollmentRow /\ NotEnrolled.class = NoClass
  BY DEF NotEnrolled, EnrollmentRow
<1>2. enrolled \in [Students -> EnrollmentRow] /\ \A s \in Students : ~StudentHasEnrollment(s)
  BY <1>1 DEF ClassInit, StudentHasEnrollment
<1>3. notice \in NoticeRow /\ notice.confirmed = {} /\ notice.recipients = {}
  BY DEF ClassInit, NoNotice, NoticeRow
<1>4. ClassTypeOK
  BY <1>2, <1>3, ClassAssumption DEF ClassInit, ClassTypeOK, EnrollmentRow
<1>5. history = {}
  BY DEF ClassInit
<1>6. RosterAgrees
  BY <1>2, <1>5 DEF RosterAgrees
<1> QED BY <1>3, <1>4, <1>5, <1>6 DEF ClassInv, ClassInit, JoinsFit, LeavesFit

\* A student is in at most one class, and the history says the same (CreateEnrollment,
\* Unenroll, DisbandClass).
THEOREM RosterStays == ClassSpec => [](ClassTypeOK /\ RosterAgrees)
<1>1. ClassInv /\ [ClassNext]_classVars => ClassInv'
  BY ClassStep
<1>2. ClassInv => ClassTypeOK /\ RosterAgrees
  BY DEF ClassInv
<1> QED BY <1>1, <1>2, ClassesBegin, PTL DEF ClassSpec

\* The roster of an instant both clocks have passed changes only by a join or a leaving that
\* took its time before and was not committed then, and the recipients of a notice stay
\* (TakeTime, Closed, ConfirmNotice).
THEOREM PastStaysSettled == ClassSpec => PastIsSettled
<1>1. ClassInv /\ [ClassNext]_classVars => ClassInv' /\ [PastStays]_classVars
  BY ClassStep
<1>2. ClassSpec => [][PastStays]_classVars
  BY <1>1, ClassesBegin, PTL DEF ClassSpec
<1> QED BY <1>2 DEF PastIsSettled, PastStays

-----------------------------------------------------------------------------
(* The question bank.                                                      *)

ProblemRow == [status : States, options : SUBSET Options, answer : Options \cup {Unset},
               concepts : SUBSET Concepts]
ChangeRow == [status : States \cup {Unset}, options : (SUBSET Options) \cup {Unset},
              answer : Options \cup {Unset}, concepts : (SUBSET Concepts) \cup {Unset}]
Doings == {"nothing", "insert", "update", "delete", "plan", "check node", "remove node"}
CallRow == [doing : Doings, ids : SUBSET Problems, change : ChangeRow, node : Concepts \cup {Unset},
            holds : SUBSET Problems, view : ProblemRow]
NodeDoings == {"check node", "remove node"}

(* The questions of a table refer to a node.                               *)
UsedIn(n, rows) == \E q \in Problems : n \in rows[q].concepts

(* What an update writes of the choice was right for the question it read.  *)
ChoiceAsRead(call) ==
  TouchesChoice(call.change) =>
    /\ call.change.answer \in Options
    /\ call.change.answer \in IF call.change.options # Unset THEN call.change.options ELSE call.view.options

(* What a call has read or holds, as long as it is under way.              *)
CallFits(call) ==
  /\ call.holds \subseteq Live
  /\ call.doing = "update" => ChoiceAsRead(call)
  /\ call.doing = "insert" => call.view.status = "draft" /\ call.view.answer \in call.view.options
  /\ call.doing = "plan" => call.holds = call.ids
  /\ call.doing = "remove node" => ~KnowledgeNodeInUse(call.node)

CallsFit ==
  /\ calls \in [Calls -> CallRow]
  /\ \A e \in Calls : CallFits(calls[e])
  /\ \A e \in Calls : \A x \in Calls \ {e} :
       /\ calls[e].holds \cap calls[x].holds = {}
       /\ calls[e].doing \in NodeDoings => calls[x].doing \notin NodeDoings

BankInv == BankTypeOK /\ PlannedIsPublished /\ ChoiceUnlessOverlapped /\ CallsFit

(* The body of NodesInUseStay.                                             *)
UsedNodesStay == \A n \in nodes \ nodes' : ~KnowledgeNodeInUse(n)'

\* The rows that stand for nothing.
LEMMA Rows ==
  /\ Absent \in ProblemRow /\ NoChange \in ChangeRow /\ IdleCall \in CallRow
  /\ IdleCall.doing = "nothing" /\ IdleCall.holds = {} /\ Absent.status = "absent"
<1>1. Absent \in ProblemRow /\ Absent.status = "absent"
  BY DEF Absent, ProblemRow, States
<1>2. NoChange \in ChangeRow
  BY DEF NoChange, ChangeRow
<1>3. IdleCall \in CallRow /\ IdleCall.doing = "nothing" /\ IdleCall.holds = {}
  BY <1>1, <1>2 DEF IdleCall, CallRow, Doings
<1> QED BY <1>1, <1>2, <1>3

(* The types the steps need, in one place.                                 *)
LEMMA BankRows ==
  ASSUME BankInv
  PROVE  /\ day \in Nat /\ day \in PlanDays /\ candidates \subseteq Problems /\ overlapped \subseteq Problems
         /\ problems \in [Problems -> ProblemRow]
         /\ classPlan \in [PlanDays -> Problems \cup {Unset}] /\ nodes \subseteq Concepts
         /\ relations \subseteq Concepts \X Concepts
         /\ calls \in [Calls -> CallRow]
         /\ \A e \in Calls : calls[e] \in CallRow /\ CallFits(calls[e])
BY BankAssumption DEF BankInv, BankTypeOK, CallsFit, ProblemRow, PlanDays

(* Merging keeps the fields a change leaves out.                           *)
LEMMA MergedRow ==
  ASSUME NEW question \in ProblemRow, NEW change \in ChangeRow
  PROVE  /\ Merged(question, change) \in ProblemRow
         /\ Merged(question, change).status = (IF change.status # Unset THEN change.status ELSE question.status)
         /\ Merged(question, change).options = (IF change.options # Unset THEN change.options ELSE question.options)
         /\ Merged(question, change).answer = (IF change.answer # Unset THEN change.answer ELSE question.answer)
         /\ Merged(question, change).concepts = (IF change.concepts # Unset THEN change.concepts ELSE question.concepts)
<1>1. DOMAIN question = {"status", "options", "answer", "concepts"}
  BY DEF ProblemRow
<1> DEFINE m == [field \in {"status", "options", "answer", "concepts"} |->
                   IF change[field] # Unset THEN change[field] ELSE question[field]]
           r == [status |-> m["status"], options |-> m["options"], answer |-> m["answer"],
                 concepts |-> m["concepts"]]
<1>2. Merged(question, change) = m
  BY <1>1 DEF Merged
<1>3. /\ m["status"] = (IF change["status"] # Unset THEN change["status"] ELSE question["status"])
      /\ m["options"] = (IF change["options"] # Unset THEN change["options"] ELSE question["options"])
      /\ m["answer"] = (IF change["answer"] # Unset THEN change["answer"] ELSE question["answer"])
      /\ m["concepts"] = (IF change["concepts"] # Unset THEN change["concepts"] ELSE question["concepts"])
  OBVIOUS
<1>4. m = r
  OBVIOUS
<1>5. /\ m["status"] \in States /\ m["options"] \in SUBSET Options
      /\ m["answer"] \in Options \cup {Unset} /\ m["concepts"] \in SUBSET Concepts
  BY <1>3 DEF ProblemRow, ChangeRow
<1> QED BY <1>2, <1>3, <1>4, <1>5 DEF ProblemRow

(* One call moves on; the others still hold what they hold.                *)
LEMMA CallsKeep ==
  ASSUME CallsFit, NEW e \in Calls, NEW c \in CallRow, calls' = [calls EXCEPT ![e] = c], CallFits(c)',
         \A x \in Calls \ {e} : c.holds \cap calls[x].holds = {},
         c.doing \in NodeDoings => \A x \in Calls \ {e} : calls[x].doing \notin NodeDoings,
         \A x \in Calls \ {e} : calls[x].holds \subseteq Live',
         \A x \in Calls \ {e} : calls[x].doing = "remove node" => ~UsedIn(calls[x].node, problems')
  PROVE  CallsFit'
<1>1. calls' \in [Calls -> CallRow] /\ calls'[e] = c /\ \A x \in Calls \ {e} : calls'[x] = calls[x]
  BY DEF CallsFit
<1>2. ASSUME NEW x \in Calls PROVE CallFits(calls[x])'
  <2>1. CASE x = e
    BY <2>1, <1>1 DEF CallFits, ChoiceAsRead
  <2>2. CASE x # e
    <3>1. calls'[x] = calls[x] /\ CallFits(calls[x])
      BY <2>2, <1>1 DEF CallsFit
    <3>2. calls[x].holds \subseteq Live'
          /\ (calls[x].doing = "remove node" => ~UsedIn(calls[x].node, problems'))
      BY <2>2
    <3> QED BY <3>1, <3>2 DEF CallFits, ChoiceAsRead, UsedIn, KnowledgeNodeInUse
  <2> QED BY <2>1, <2>2
<1>3. ASSUME NEW x \in Calls, NEW y \in Calls \ {x}
      PROVE  /\ calls'[x].holds \cap calls'[y].holds = {}
             /\ calls'[x].doing \in NodeDoings => calls'[y].doing \notin NodeDoings
  <2>1. CASE x = e
    <3>1. calls'[x] = c /\ calls'[y] = calls[y] /\ y \in Calls \ {e}
      BY <2>1, <1>1
    <3> QED BY <3>1
  <2>2. CASE y = e
    <3>1. calls'[y] = c /\ calls'[x] = calls[x] /\ x \in Calls \ {e}
      BY <2>2, <1>1
    <3> QED BY <3>1
  <2>3. CASE x # e /\ y # e
    <3>1. calls'[y] = calls[y] /\ calls'[x] = calls[x]
      BY <2>3, <1>1
    <3> QED BY <3>1 DEF CallsFit
  <2> QED BY <2>1, <2>2, <2>3
<1> QED BY <1>1, <1>2, <1>3 DEF CallsFit

(* A call ends.                                                            *)
LEMMA CallsEnd ==
  ASSUME CallsFit, NEW e \in Calls, CallEnds(e),
         \A x \in Calls \ {e} : calls[x].holds \subseteq Live',
         \A x \in Calls \ {e} : calls[x].doing = "remove node" => ~UsedIn(calls[x].node, problems')
  PROVE  CallsFit'
<1>1. calls' = [calls EXCEPT ![e] = IdleCall]
  BY DEF CallEnds, CallBecomes
<1>2. CallFits(IdleCall)' /\ IdleCall.doing \notin NodeDoings
  BY Rows DEF CallFits, NodeDoings
<1> QED BY <1>1, <1>2, Rows, CallsKeep

(* No call moves on.                                                       *)
LEMMA CallsRest ==
  ASSUME CallsFit, UNCHANGED calls,
         \A x \in Calls : calls[x].holds \subseteq Live',
         \A x \in Calls : calls[x].doing = "remove node" => ~UsedIn(calls[x].node, problems')
  PROVE  CallsFit'
BY DEF CallsFit, CallFits, UsedIn, KnowledgeNodeInUse

(* Steps that leave the questions and the plan as they are.                *)
LEMMA SameQuestions ==
  ASSUME BankInv, UNCHANGED <<problems, classPlan, overlapped>>,
         day' \in PlanDays, day' >= day, candidates' \subseteq Problems, nodes' \subseteq Concepts,
         relations' \subseteq Concepts \X Concepts, CallsFit'
  PROVE  BankInv'
<1>1. BankTypeOK'
  <2>1. \A e \in Calls : calls'[e].holds \subseteq Problems
    BY DEF CallsFit, CallRow
  <2> QED BY <2>1 DEF BankInv, BankTypeOK
<1>2. PlannedIsPublished'
  <2>1. \A d \in PlanDays : d >= day' => d >= day
    BY BankAssumption, BankRows DEF PlanDays
  <2> QED BY <2>1 DEF BankInv, PlannedIsPublished
<1>3. ChoiceUnlessOverlapped'
  BY DEF BankInv, ChoiceUnlessOverlapped, Live
<1> QED BY <1>1, <1>2, <1>3 DEF BankInv

(* What the others hold, while the questions are as they are.              *)
LEMMA OthersKeep ==
  ASSUME BankInv, UNCHANGED problems
  PROVE  /\ Live' = Live
         /\ \A x \in Calls : calls[x].holds \subseteq Live'
         /\ \A x \in Calls : calls[x].doing = "remove node" => ~UsedIn(calls[x].node, problems')
<1>1. Live' = Live
  BY DEF Live
<1>2. \A x \in Calls : calls[x].doing = "remove node" => ~KnowledgeNodeInUse(calls[x].node)
  BY DEF BankInv, CallsFit, CallFits
<1>3. \A x \in Calls : calls[x].holds \subseteq Live
  BY DEF BankInv, CallsFit, CallFits
<1> QED BY <1>1, <1>2, <1>3 DEF KnowledgeNodeInUse, UsedIn

(* Steps of no call.                                                       *)
LEMMA AloneHolds ==
  ASSUME BankInv,
         \/ UNCHANGED bankVars \/ NextDay
         \/ \E n \in Concepts : CreateNode(n) \/ \E m \in Concepts : CreateRelation(n, m) \/ DeleteRelation(n, m)
         \/ \E q \in Problems : \E enabled \in BOOLEAN : SetDailyCandidate(q, enabled)
  PROVE  BankInv' /\ UsedNodesStay
<1>0. /\ day \in Nat /\ day \in PlanDays /\ candidates \subseteq Problems /\ nodes \subseteq Concepts
      /\ relations \subseteq Concepts \X Concepts
  BY BankRows
<1>1. /\ UNCHANGED <<problems, classPlan, overlapped, calls>> /\ nodes \subseteq nodes'
      /\ day' \in PlanDays /\ day' >= day /\ candidates' \subseteq Problems /\ nodes' \subseteq Concepts
      /\ relations' \subseteq Concepts \X Concepts
  <2>1. CASE UNCHANGED bankVars
    BY <2>1, <1>0 DEF bankVars
  <2>2. CASE NextDay
    BY <2>2, <1>0, BankAssumption DEF NextDay, PlanDays
  <2>3. CASE \E n \in Concepts : CreateNode(n)
    BY <2>3, <1>0 DEF CreateNode
  <2>4. CASE \E n \in Concepts, m \in Concepts : CreateRelation(n, m)
    BY <2>4, <1>0 DEF CreateRelation
  <2>5. CASE \E n \in Concepts, m \in Concepts : DeleteRelation(n, m)
    BY <2>5, <1>0 DEF DeleteRelation
  <2>6. CASE \E q \in Problems : \E enabled \in BOOLEAN : SetDailyCandidate(q, enabled)
    BY <2>6, <1>0 DEF SetDailyCandidate
  <2> QED BY <2>1, <2>2, <2>3, <2>4, <2>5, <2>6
<1>4. CallsFit'
  BY <1>1, OthersKeep, CallsRest DEF BankInv
<1> QED BY <1>1, <1>4, SameQuestions DEF UsedNodesStay

(* Reads of a call, before it writes.                                      *)
LEMMA ReadHolds ==
  ASSUME BankInv, NEW e \in Calls, NEW c \in CallRow, calls' = [calls EXCEPT ![e] = c],
         UNCHANGED <<day, problems, candidates, classPlan, nodes, relations, overlapped>>,
         CallFits(c), \A x \in Calls \ {e} : c.holds \cap calls[x].holds = {},
         c.doing \in NodeDoings => \A x \in Calls \ {e} : calls[x].doing \notin NodeDoings
  PROVE  BankInv' /\ UsedNodesStay
<1>1. CallFits(c)'
  <2>1. Live' = Live
    BY OthersKeep
  <2>2. ~KnowledgeNodeInUse(c.node) => ~KnowledgeNodeInUse(c.node)'
    BY DEF KnowledgeNodeInUse
  <2> QED BY <2>1, <2>2 DEF CallFits
<1>2. CallsFit'
  BY <1>1, OthersKeep, CallsKeep DEF BankInv
<1>3. day' \in PlanDays /\ day' >= day
  BY BankRows
<1> QED BY <1>2, <1>3, SameQuestions, BankRows DEF UsedNodesStay

\* A call reads, and writes nothing yet.
LEMMA ReadsHold ==
  ASSUME BankInv, NEW e \in Calls,
         \/ \E q \in Problems, k \in SUBSET Concepts : \E new \in NewQuestions(k) : CreateQuestion(e, q, new)
         \/ \E q \in Problems, k \in Changes : UpdateQuestion(e, q, k)
         \/ \E ids \in SUBSET Problems : DeleteQuestions(e, ids) \/ LoadUniformScheduleContents(e, ids)
         \/ LoadQuestionForUpdate(e)
         \/ \E n \in Concepts : DeleteNode(e, n)
         \/ CheckNode(e)
  PROVE  BankInv' /\ UsedNodesStay
<1>0. /\ calls[e] \in CallRow /\ CallFits(calls[e]) /\ problems \in [Problems -> ProblemRow]
      /\ nodes \subseteq Concepts
  BY BankRows
<1>i. IdleCall \in CallRow /\ IdleCall.doing = "nothing" /\ IdleCall.holds = {}
  BY Rows
<1>1. ASSUME NEW q \in Problems, NEW k \in SUBSET Concepts, NEW new \in NewQuestions(k), CreateQuestion(e, q, new)
      PROVE  BankInv' /\ UsedNodesStay
  <2> DEFINE c == [IdleCall EXCEPT !.doing = "insert", !.ids = {q}, !.view = new]
  <2>1. new \in ProblemRow /\ new.status = "draft" /\ new.answer \in new.options
    BY BankAssumption DEF NewQuestions, ProblemRow, States
  <2>2. c \in CallRow /\ c.doing = "insert" /\ c.holds = {} /\ c.view = new
    BY <1>i, <2>1 DEF CallRow, Doings
  <2>3. calls' = [calls EXCEPT ![e] = c]
        /\ UNCHANGED <<day, problems, candidates, classPlan, nodes, relations, overlapped>>
    BY <1>1 DEF CreateQuestion, CallBecomes
  <2> HIDE DEF c
  <2>4. CallFits(c)
    BY <2>1, <2>2 DEF CallFits
  <2> QED BY <2>2, <2>3, <2>4, ReadHolds DEF NodeDoings
<1>2. ASSUME NEW q \in Problems, NEW k \in Changes, UpdateQuestion(e, q, k)
      PROVE  BankInv' /\ UsedNodesStay
  <2> DEFINE n == NormalizedChoice(problems[q], k)
             c == [IdleCall EXCEPT !.doing = "update", !.ids = {q}, !.view = problems[q], !.change = n]
  <2>1. k \in ChangeRow
    BY Rows DEF Changes, ChangeRow, States
  <2>2. problems[q] \in ProblemRow /\ Merged(problems[q], k) \in ProblemRow
        /\ Merged(problems[q], k).options = (IF k.options # Unset THEN k.options ELSE problems[q].options)
    BY <1>0, <2>1, MergedRow
  <2>3. /\ n \in ChangeRow /\ n.options = k.options
        /\ TouchesChoice(k) => n.answer = Merged(problems[q], k).answer
        /\ ~TouchesChoice(k) => n = k
    BY <2>1, <2>2 DEF NormalizedChoice, ChangeRow, ProblemRow
  <2>4. TouchesChoice(k) => Merged(problems[q], k).answer \in Merged(problems[q], k).options
    BY <1>2 DEF UpdateQuestion, ValidChoice
  <2>5. calls' = [calls EXCEPT ![e] = c]
        /\ UNCHANGED <<day, problems, candidates, classPlan, nodes, relations, overlapped>>
    BY <1>2 DEF UpdateQuestion, CallBecomes
  <2> HIDE DEF n
  <2>6. c \in CallRow /\ c.doing = "update" /\ c.holds = {} /\ c.view = problems[q] /\ c.change = n
    BY <1>i, <2>2, <2>3 DEF CallRow, Doings
  <2> HIDE DEF c
  <2>7. ChoiceAsRead(c)
    <3>1. CASE TouchesChoice(k)
      BY <3>1, <2>2, <2>3, <2>4, <2>6 DEF ChoiceAsRead, ProblemRow
    <3>2. CASE ~TouchesChoice(k)
      BY <3>2, <2>3, <2>6 DEF ChoiceAsRead
    <3> QED BY <3>1, <3>2
  <2>8. CallFits(c)
    BY <2>6, <2>7 DEF CallFits
  <2> QED BY <2>5, <2>6, <2>8, ReadHolds DEF NodeDoings
<1>3. ASSUME NEW ids \in SUBSET Problems, DeleteQuestions(e, ids)
      PROVE  BankInv' /\ UsedNodesStay
  <2> DEFINE c == [IdleCall EXCEPT !.doing = "delete", !.ids = ids]
  <2>1. c \in CallRow /\ c.doing = "delete" /\ c.holds = {}
    BY <1>i DEF CallRow, Doings
  <2>2. calls' = [calls EXCEPT ![e] = c]
        /\ UNCHANGED <<day, problems, candidates, classPlan, nodes, relations, overlapped>>
    BY <1>3 DEF DeleteQuestions, CallBecomes
  <2> HIDE DEF c
  <2>3. CallFits(c)
    BY <2>1 DEF CallFits
  <2> QED BY <2>1, <2>2, <2>3, ReadHolds DEF NodeDoings
<1>4. ASSUME NEW ids \in SUBSET Problems, LoadUniformScheduleContents(e, ids)
      PROVE  BankInv' /\ UsedNodesStay
  <2> DEFINE c == [IdleCall EXCEPT !.doing = "plan", !.ids = ids, !.holds = ids]
  <2>1. c \in CallRow /\ c.doing = "plan" /\ c.holds = ids /\ c.ids = ids
    BY <1>i DEF CallRow, Doings
  <2>2. calls' = [calls EXCEPT ![e] = c]
        /\ UNCHANGED <<day, problems, candidates, classPlan, nodes, relations, overlapped>>
    BY <1>4 DEF LoadUniformScheduleContents, CallBecomes
  <2>3. ids \subseteq Live /\ \A x \in Calls : ids \cap calls[x].holds = {}
    BY <1>4 DEF LoadUniformScheduleContents, Live, Free
  <2> HIDE DEF c
  <2>4. CallFits(c)
    BY <2>1, <2>3 DEF CallFits
  <2> QED BY <2>1, <2>2, <2>3, <2>4, ReadHolds DEF NodeDoings
<1>5. CASE LoadQuestionForUpdate(e)
  <2>1. CASE calls[e].ids \cap Live = {}
    <3>1. calls' = [calls EXCEPT ![e] = IdleCall]
          /\ UNCHANGED <<day, problems, candidates, classPlan, nodes, relations, overlapped>>
      BY <1>5, <2>1 DEF LoadQuestionForUpdate, CallEnds, CallBecomes
    <3>2. CallFits(IdleCall)
      BY <1>i DEF CallFits
    <3> QED BY <1>i, <3>1, <3>2, ReadHolds DEF NodeDoings
  <2>2. CASE calls[e].ids \cap Live # {}
    <3> DEFINE c == [calls[e] EXCEPT !.holds = calls[e].ids \cap Live]
    <3>1. c \in CallRow /\ c.doing = calls[e].doing /\ c.doing \in {"update", "delete"}
          /\ c.holds = calls[e].ids \cap Live /\ c.change = calls[e].change /\ c.view = calls[e].view
      BY <1>5, <1>0 DEF LoadQuestionForUpdate, CallRow
    <3>2. calls' = [calls EXCEPT ![e] = c]
          /\ UNCHANGED <<day, problems, candidates, classPlan, nodes, relations, overlapped>>
      BY <1>5, <2>2 DEF LoadQuestionForUpdate
    <3>3. \A x \in Calls : c.holds \cap calls[x].holds = {}
      BY <1>5, <3>1 DEF LoadQuestionForUpdate, Free
    <3> HIDE DEF c
    <3>4. CallFits(c)
      BY <3>1, <1>0 DEF CallFits, ChoiceAsRead
    <3> QED BY <3>1, <3>2, <3>3, <3>4, ReadHolds DEF NodeDoings
  <2> QED BY <2>1, <2>2
<1>6. ASSUME NEW n \in Concepts, DeleteNode(e, n)
      PROVE  BankInv' /\ UsedNodesStay
  <2> DEFINE c == [IdleCall EXCEPT !.doing = "check node", !.node = n]
  <2>1. c \in CallRow /\ c.doing = "check node" /\ c.holds = {}
    BY <1>i DEF CallRow, Doings
  <2>2. calls' = [calls EXCEPT ![e] = c]
        /\ UNCHANGED <<day, problems, candidates, classPlan, nodes, relations, overlapped>>
    BY <1>6 DEF DeleteNode, CallBecomes
  <2>3. \A x \in Calls : calls[x].doing \notin NodeDoings
    BY <1>6 DEF DeleteNode, TablesLocked, NodeDoings
  <2> HIDE DEF c
  <2>4. CallFits(c)
    BY <2>1 DEF CallFits
  <2> QED BY <2>1, <2>2, <2>3, <2>4, ReadHolds
<1>7. CASE CheckNode(e)
  <2>1. CASE CallEnds(e)
    <3>1. calls' = [calls EXCEPT ![e] = IdleCall]
          /\ UNCHANGED <<day, problems, candidates, classPlan, nodes, relations, overlapped>>
      BY <1>7, <2>1 DEF CheckNode, CallEnds, CallBecomes
    <3>2. CallFits(IdleCall)
      BY <1>i DEF CallFits
    <3> QED BY <1>i, <3>1, <3>2, ReadHolds DEF NodeDoings
  <2>2. CASE ~KnowledgeNodeInUse(calls[e].node) /\ calls' = [calls EXCEPT ![e].doing = "remove node"]
    <3> DEFINE c == [calls[e] EXCEPT !.doing = "remove node"]
    <3>1. c \in CallRow /\ c.doing = "remove node" /\ c.holds = calls[e].holds /\ c.node = calls[e].node
      BY <1>0 DEF CallRow, Doings
    <3>2. calls' = [calls EXCEPT ![e] = c] /\ calls[e].doing = "check node"
          /\ UNCHANGED <<day, problems, candidates, classPlan, nodes, relations, overlapped>>
      BY <1>7, <2>2 DEF CheckNode, Now
    <3> HIDE DEF c
    <3>3. /\ \A x \in Calls \ {e} : c.holds \cap calls[x].holds = {}
          /\ \A x \in Calls \ {e} : calls[x].doing \notin NodeDoings
      BY <3>1, <3>2 DEF BankInv, CallsFit, NodeDoings
    <3>4. CallFits(c)
      BY <3>1, <1>0, <2>2 DEF CallFits
    <3> QED BY <3>1, <3>2, <3>3, <3>4, ReadHolds
  <2> QED BY <1>7, <2>1, <2>2 DEF CheckNode
<1> QED BY <1>1, <1>2, <1>3, <1>4, <1>5, <1>6, <1>7

(* A write of one call: the questions it touches are its own, or nobody's.  *)
LEMMA WriteKeeps ==
  ASSUME BankInv, NEW e \in Calls, CallEnds(e), ~TablesLocked, problems' \in [Problems -> ProblemRow],
         \A q \in Problems : problems'[q].status # problems[q].status =>
           (\A x \in Calls \ {e} : q \notin calls[x].holds)
  PROVE  CallsFit'
<1>1. \A x \in Calls : calls[x].doing # "remove node"
  BY DEF TablesLocked
<1>2. \A x \in Calls : calls[x].holds \subseteq Live
  BY DEF BankInv, CallsFit, CallFits
<1>3. \A x \in Calls \ {e} : calls[x].holds \subseteq Live'
  BY <1>2 DEF Live
<1>4. CallsFit
  BY DEF BankInv
<1> QED BY <1>1, <1>3, <1>4, CallsEnd

(* What a write must respect for the two invariants of the questions.       *)
LEMMA WriteHolds ==
  ASSUME BankInv, problems' \in [Problems -> ProblemRow], CallsFit',
         UNCHANGED <<day, candidates, nodes, relations>>,
         classPlan' \in [PlanDays -> Problems \cup {Unset}], overlapped' \subseteq Problems,
         \A d \in PlanDays : d >= day /\ classPlan'[d] # Unset => problems'[classPlan'[d]].status = "published",
         \A q \in Problems : q \in Live' \ overlapped' => problems'[q].answer \in problems'[q].options
  PROVE  BankInv' /\ UsedNodesStay
<1>1. BankTypeOK'
  <2>1. \A e \in Calls : calls'[e].holds \subseteq Problems
    BY DEF CallsFit, CallRow
  <2> QED BY <2>1 DEF BankInv, BankTypeOK, ProblemRow
<1>2. PlannedIsPublished'
  BY DEF PlannedIsPublished, PlanDays
<1>3. ChoiceUnlessOverlapped'
  BY DEF ChoiceUnlessOverlapped, Live
<1> QED BY <1>1, <1>2, <1>3 DEF BankInv, UsedNodesStay

\* A question is inserted as it was read.
LEMMA InsertHolds ==
  ASSUME BankInv, NEW e \in Calls, InsertQuestion(e)
  PROVE  BankInv' /\ UsedNodesStay
<1>0. /\ calls[e] \in CallRow /\ CallFits(calls[e]) /\ problems \in [Problems -> ProblemRow]
      /\ classPlan \in [PlanDays -> Problems \cup {Unset}] /\ overlapped \subseteq Problems
  BY BankRows
<1> DEFINE fresh == calls[e].view
<1>1. fresh \in ProblemRow /\ fresh.status = "draft" /\ fresh.answer \in fresh.options
  BY <1>0 DEF InsertQuestion, Now, CallFits, CallRow
<1>2. /\ problems' \in [Problems -> ProblemRow]
      /\ \A q \in Problems : problems'[q] = problems[q] \/ (problems[q] = Absent /\ problems'[q] = fresh)
      /\ UNCHANGED <<day, candidates, classPlan, nodes, relations, overlapped>> /\ CallEnds(e) /\ ~TablesLocked
  BY <1>0, <1>1 DEF InsertQuestion
<1>3. \A q \in Problems : problems[q] = Absent => \A x \in Calls : q \notin calls[x].holds
  BY Rows DEF BankInv, CallsFit, CallFits, Live
<1>4. CallsFit'
  <2>1. \A q \in Problems : problems'[q].status # problems[q].status =>
           (\A x \in Calls \ {e} : q \notin calls[x].holds)
    BY <1>2, <1>3
  <2> QED BY <1>2, <2>1, WriteKeeps
<1>5. \A d \in PlanDays : d >= day /\ classPlan'[d] # Unset => problems'[classPlan'[d]].status = "published"
  <2>1. \A d \in PlanDays : d >= day /\ classPlan[d] # Unset =>
           classPlan[d] \in Problems /\ problems[classPlan[d]].status = "published"
    BY <1>0 DEF BankInv, PlannedIsPublished
  <2> QED BY <1>2, <2>1, Rows
<1>6. \A q \in Problems : q \in Live' \ overlapped' => problems'[q].answer \in problems'[q].options
  BY <1>1, <1>2 DEF BankInv, ChoiceUnlessOverlapped, Live
<1> QED BY <1>0, <1>2, <1>4, <1>5, <1>6, WriteHolds

\* A copy has the faults of its original.
LEMMA DuplicateHolds ==
  ASSUME BankInv, NEW original \in Problems, NEW copy \in Problems, BatchDuplicate(original, copy)
  PROVE  BankInv' /\ UsedNodesStay
<1>0. /\ problems \in [Problems -> ProblemRow]
      /\ classPlan \in [PlanDays -> Problems \cup {Unset}] /\ overlapped \subseteq Problems
  BY BankRows
<1> DEFINE row == [problems[original] EXCEPT !.status = "draft"]
<1>1. row \in ProblemRow /\ row.status = "draft" /\ row.answer = problems[original].answer
      /\ row.options = problems[original].options
  BY <1>0 DEF ProblemRow, States
<1>2. /\ problems' = [problems EXCEPT ![copy] = row] /\ problems[copy] = Absent
      /\ original \in Live /\ copy # original
      /\ overlapped' = overlapped \cup (IF original \in overlapped THEN {copy} ELSE {})
      /\ UNCHANGED <<day, candidates, classPlan, nodes, relations, calls>> /\ ~TablesLocked
  BY Rows DEF BatchDuplicate, Live
<1> HIDE DEF row
<1>3. /\ problems' \in [Problems -> ProblemRow] /\ problems'[copy] = row
      /\ \A q \in Problems \ {copy} : problems'[q] = problems[q]
  BY <1>0, <1>1, <1>2
<1>4. CallsFit'
  <2>1. \A x \in Calls : calls[x].doing # "remove node"
    BY <1>2 DEF TablesLocked
  <2>2. \A x \in Calls : calls[x].holds \subseteq Live
    BY DEF BankInv, CallsFit, CallFits
  <2>3. Live \subseteq Live'
    BY <1>1, <1>2, <1>3 DEF Live
  <2> QED BY <1>2, <2>1, <2>2, <2>3, CallsRest DEF BankInv
<1>5. \A d \in PlanDays : d >= day /\ classPlan'[d] # Unset => problems'[classPlan'[d]].status = "published"
  <2>1. \A d \in PlanDays : d >= day /\ classPlan[d] # Unset =>
           classPlan[d] \in Problems /\ problems[classPlan[d]].status = "published"
    BY <1>0 DEF BankInv, PlannedIsPublished
  <2> QED BY <1>2, <1>3, <2>1, Rows
<1>6. \A q \in Problems : q \in Live' \ overlapped' => problems'[q].answer \in problems'[q].options
  BY <1>1, <1>2, <1>3 DEF BankInv, ChoiceUnlessOverlapped, Live
<1>7. overlapped' \subseteq Problems
  BY <1>0, <1>2
<1> QED BY <1>0, <1>2, <1>3, <1>4, <1>5, <1>6, <1>7, WriteHolds

\* A question is written over, with its choices as the call read them.
LEMMA UpdateHolds ==
  ASSUME BankInv, NEW e \in Calls, WriteUpdate(e)
  PROVE  BankInv' /\ UsedNodesStay
<1>0. /\ calls[e] \in CallRow /\ CallFits(calls[e]) /\ problems \in [Problems -> ProblemRow]
      /\ classPlan \in [PlanDays -> Problems \cup {Unset}] /\ overlapped \subseteq Problems
  BY BankRows
<1> DEFINE call == calls[e]
           q == CHOOSE x \in call.holds : TRUE
           merged == Merged(problems[q], call.change)
<1>1. q \in call.holds /\ q \in Live /\ q \in Problems
  BY <1>0 DEF WriteUpdate, Holding, CallFits, Live
<1>2. CallEnds(e) /\ ~TablesLocked /\ UNCHANGED <<day, candidates, classPlan, nodes, relations>>
      /\ call.doing = "update"
  BY DEF WriteUpdate, Holding, Now
<1>3. \A d \in PlanDays : d >= day /\ classPlan[d] # Unset =>
           classPlan[d] \in Problems /\ problems[classPlan[d]].status = "published"
  BY <1>0 DEF BankInv, PlannedIsPublished
<1>4. CASE Refused(call)
  <2>1. UNCHANGED <<problems, overlapped>>
    BY <1>4 DEF WriteUpdate
  <2>2. CallsFit'
    BY <2>1, <1>0, <1>2, WriteKeeps
  <2> QED BY <2>1, <2>2, <1>2, SameQuestions, BankRows DEF UsedNodesStay
<1>5. CASE ~Refused(call)
  <2>1. call.change \in ChangeRow /\ problems[q] \in ProblemRow /\ call.view \in ProblemRow
    BY <1>0, <1>1 DEF CallRow
  <2>2. /\ merged \in ProblemRow
        /\ merged.status = (IF call.change.status # Unset THEN call.change.status ELSE problems[q].status)
        /\ merged.options = (IF call.change.options # Unset THEN call.change.options ELSE problems[q].options)
        /\ merged.answer = (IF call.change.answer # Unset THEN call.change.answer ELSE problems[q].answer)
    BY <2>1, MergedRow
  <2>3. problems' = [problems EXCEPT ![q] = merged]
    BY <1>5 DEF WriteUpdate
  <2>4. overlapped' = IF ~TouchesChoice(call.change) THEN overlapped
                      ELSE IF problems[q].options = call.view.options /\ problems[q].answer = call.view.answer
                             THEN overlapped \ {q}
                      ELSE overlapped \cup {q}
    BY <1>5 DEF WriteUpdate
  <2>5. ChoiceAsRead(call)
    BY <1>0, <1>2 DEF CallFits
  <2>6. call.change.status \notin {Unset, "published"} => \A d \in PlanDays : d >= day => classPlan[d] # q
    BY <1>1, <1>5 DEF Refused, HasFutureUniformSchedule
  <2> HIDE DEF merged, q, call
  <2>7. /\ problems' \in [Problems -> ProblemRow] /\ problems'[q] = merged
        /\ \A x \in Problems \ {q} : problems'[x] = problems[x]
    BY <1>0, <1>1, <2>2, <2>3
  <2>8. CallsFit'
    <3>1. \A x \in Calls \ {e} : q \notin calls[x].holds
      BY <1>1 DEF BankInv, CallsFit, call
    <3> QED BY <3>1, <2>7, <1>2, WriteKeeps
  <2>9. \A d \in PlanDays : d >= day /\ classPlan'[d] # Unset => problems'[classPlan'[d]].status = "published"
    BY <1>2, <1>3, <2>2, <2>6, <2>7
  <2>10. q \notin overlapped' => merged.answer \in merged.options
    <3>1. CASE ~TouchesChoice(call.change)
      <4>1. merged.answer = problems[q].answer /\ merged.options = problems[q].options
        BY <3>1, <2>2 DEF TouchesChoice
      <4>2. overlapped' = overlapped
        BY <3>1, <2>4
      <4> QED BY <4>1, <4>2, <1>1 DEF BankInv, ChoiceUnlessOverlapped
    <3>2. CASE TouchesChoice(call.change)
      <4>1. ASSUME q \notin overlapped'
            PROVE  problems[q].options = call.view.options
        BY <4>1, <3>2, <2>4
      <4>2. call.change.answer # Unset
        BY <3>2, <2>5, BankAssumption DEF ChoiceAsRead
      <4> QED BY <3>2, <4>1, <4>2, <2>2, <2>5 DEF ChoiceAsRead
    <3> QED BY <3>1, <3>2
  <2>11. \A x \in Problems : x \in Live' \ overlapped' => problems'[x].answer \in problems'[x].options
    <3>1. ASSUME NEW x \in Problems \ {q}, x \in Live', x \notin overlapped'
          PROVE  problems'[x].answer \in problems'[x].options
      <4>1. x \in Live /\ x \notin overlapped
        BY <3>1, <2>4, <2>7 DEF Live
      <4> QED BY <4>1, <2>7 DEF BankInv, ChoiceUnlessOverlapped
    <3> QED BY <3>1, <2>7, <2>10
  <2>12. overlapped' \subseteq Problems
    BY <1>0, <1>1, <2>4
  <2> QED BY <1>0, <1>2, <2>7, <2>8, <2>9, <2>11, <2>12, WriteHolds
<1> QED BY <1>4, <1>5

\* Questions are deleted, unless a day to come has planned one.
LEMMA DeleteHolds ==
  ASSUME BankInv, NEW e \in Calls, WriteDelete(e)
  PROVE  BankInv' /\ UsedNodesStay
<1>0. /\ calls[e] \in CallRow /\ problems \in [Problems -> ProblemRow]
      /\ classPlan \in [PlanDays -> Problems \cup {Unset}] /\ overlapped \subseteq Problems
  BY BankRows
<1>1. CallEnds(e) /\ ~TablesLocked /\ UNCHANGED <<day, candidates, classPlan, nodes, relations, overlapped>>
      /\ calls[e].doing = "delete"
  BY DEF WriteDelete, Holding, Now
<1>2. \A q \in Problems : LET row == [problems[q] EXCEPT !.status = "deleted"] IN
         row \in ProblemRow /\ row.status = "deleted"
  BY <1>0 DEF ProblemRow, States
<1>3. /\ problems' \in [Problems -> ProblemRow]
      /\ \A q \in Problems : problems'[q] = problems[q] \/ problems'[q].status = "deleted"
      /\ \A q \in Problems : problems'[q] # problems[q] => q \in calls[e].holds /\ ~Refused(calls[e])
  BY <1>0, <1>2 DEF WriteDelete
<1>4. CallsFit'
  <2>1. \A q \in Problems : problems'[q].status # problems[q].status =>
           (\A x \in Calls \ {e} : q \notin calls[x].holds)
    BY <1>3 DEF BankInv, CallsFit
  <2> QED BY <1>1, <1>3, <2>1, WriteKeeps
<1>5. \A d \in PlanDays : d >= day /\ classPlan'[d] # Unset => problems'[classPlan'[d]].status = "published"
  <2>1. \A d \in PlanDays : d >= day /\ classPlan[d] # Unset =>
           classPlan[d] \in Problems /\ problems[classPlan[d]].status = "published"
    BY <1>0 DEF BankInv, PlannedIsPublished
  <2>2. \A d \in PlanDays : d >= day /\ classPlan[d] \in calls[e].holds => Refused(calls[e])
    BY <1>1 DEF Refused, HasFutureUniformSchedule
  <2> QED BY <1>1, <1>3, <2>1, <2>2
<1>6. \A q \in Problems : q \in Live' \ overlapped' => problems'[q].answer \in problems'[q].options
  BY <1>1, <1>3 DEF BankInv, ChoiceUnlessOverlapped, Live
<1> QED BY <1>0, <1>1, <1>3, <1>4, <1>5, <1>6, WriteHolds

(* Publishing moves live questions to one status.                          *)
LEMMA AllPublishedRows ==
  ASSUME BankInv, NEW ids, problems' = AllPublished(ids)
  PROVE  /\ problems' \in [Problems -> ProblemRow] /\ Live' = Live
         /\ \A q \in Problems : problems'[q] = problems[q] \/ problems'[q].status = "published"
         /\ \A q \in Problems : q \in ids /\ q \in Live => problems'[q].status = "published"
         /\ \A q \in Problems : q \in Live' \ overlapped => problems'[q].answer \in problems'[q].options
<1>0. problems \in [Problems -> ProblemRow]
  BY BankRows
<1>1. \A q \in Problems : LET row == [problems[q] EXCEPT !.status = "published"] IN
         /\ row \in ProblemRow /\ row.status = "published"
         /\ row.answer = problems[q].answer /\ row.options = problems[q].options
  BY <1>0 DEF ProblemRow, States
<1>2. /\ problems' \in [Problems -> ProblemRow]
      /\ \A q \in Problems : problems'[q] = problems[q] \/ (problems'[q].status = "published" /\ q \in Live)
      /\ \A q \in Problems : q \in ids /\ q \in Live => problems'[q].status = "published"
      /\ \A q \in Problems : problems'[q].answer = problems[q].answer /\ problems'[q].options = problems[q].options
  BY <1>0, <1>1 DEF AllPublished
<1>3. Live' = Live
  BY <1>2 DEF Live
<1> QED BY <1>2, <1>3 DEF BankInv, ChoiceUnlessOverlapped

\* Drafts are published.
LEMMA PublishHolds ==
  ASSUME BankInv, NEW ids \in SUBSET Problems, BatchPublish(ids)
  PROVE  BankInv' /\ UsedNodesStay
<1>1. problems' = AllPublished(ids) /\ ~TablesLocked
      /\ UNCHANGED <<day, candidates, classPlan, nodes, relations, calls, overlapped>>
  BY DEF BatchPublish
<1>2. /\ problems' \in [Problems -> ProblemRow] /\ Live' = Live
      /\ \A q \in Problems : problems'[q] = problems[q] \/ problems'[q].status = "published"
      /\ \A q \in Problems : q \in Live' \ overlapped => problems'[q].answer \in problems'[q].options
  BY <1>1, AllPublishedRows
<1>3. CallsFit'
  BY <1>1, <1>2, CallsRest DEF TablesLocked, BankInv, CallsFit, CallFits
<1>4. \A d \in PlanDays : d >= day /\ classPlan'[d] # Unset => problems'[classPlan'[d]].status = "published"
  BY <1>1, <1>2, BankRows DEF BankInv, PlannedIsPublished
<1> QED BY <1>1, <1>2, <1>3, <1>4, WriteHolds, BankRows

\* The plan of the class is replaced from a day on.
LEMMA ReplaceHolds ==
  ASSUME BankInv, NEW e \in Calls, NEW start \in PlanDays, NEW wanted,
         ReplaceClassUniformSchedule(e, wanted, start)
  PROVE  BankInv' /\ UsedNodesStay
<1>0. /\ calls[e] \in CallRow /\ CallFits(calls[e]) /\ day \in Nat
      /\ classPlan \in [PlanDays -> Problems \cup {Unset}] /\ overlapped \subseteq Problems
  BY BankRows
<1> DEFINE ids == calls[e].ids
<1>1. /\ problems' = AllPublished(ids) /\ ~TablesLocked /\ CallEnds(e)
      /\ UNCHANGED <<day, candidates, nodes, relations, overlapped>>
      /\ classPlan' = [d \in PlanDays |-> IF d < start THEN classPlan[d]
                                 ELSE IF d \in DOMAIN wanted THEN wanted[d] ELSE Unset]
      /\ \A d \in DOMAIN wanted : wanted[d] \in ids
      /\ ids = calls[e].holds /\ ids \subseteq Live /\ ids \subseteq Problems
  BY <1>0 DEF ReplaceClassUniformSchedule, Holding, Now, CallFits, CallRow
<1>2. /\ problems' \in [Problems -> ProblemRow] /\ Live' = Live
      /\ \A q \in Problems : problems'[q] = problems[q] \/ problems'[q].status = "published"
      /\ \A q \in Problems : q \in ids /\ q \in Live => problems'[q].status = "published"
      /\ \A q \in Problems : q \in Live' \ overlapped => problems'[q].answer \in problems'[q].options
  BY <1>1, AllPublishedRows
<1> HIDE DEF ids
<1>3. CallsFit'
  <2>1. \A x \in Calls : calls[x].doing # "remove node"
    BY <1>1 DEF TablesLocked
  <2>2. \A x \in Calls : calls[x].holds \subseteq Live'
    BY <1>2 DEF BankInv, CallsFit, CallFits
  <2> QED BY <1>1, <2>1, <2>2, CallsEnd DEF BankInv
<1>4. classPlan' \in [PlanDays -> Problems \cup {Unset}]
  BY <1>0, <1>1
<1>5. ASSUME NEW d \in PlanDays, d >= day, classPlan'[d] # Unset
      PROVE  problems'[classPlan'[d]].status = "published"
  <2>1. CASE d < start
    <3>1. classPlan'[d] = classPlan[d]
      BY <1>1, <2>1
    <3>2. classPlan[d] \in Problems /\ problems[classPlan[d]].status = "published"
      BY <3>1, <1>5, <1>0 DEF BankInv, PlannedIsPublished
    <3> QED BY <3>1, <3>2, <1>2
  <2>2. CASE ~(d < start)
    <3>1. classPlan'[d] \in ids
      BY <1>1, <1>5, <2>2
    <3> QED BY <3>1, <1>1, <1>2
  <2> QED BY <2>1, <2>2
<1> QED BY <1>0, <1>1, <1>2, <1>3, <1>4, <1>5, WriteHolds

\* A concept goes with its relations.
LEMMA RemoveNodeHolds ==
  ASSUME BankInv, NEW e \in Calls, RemoveNode(e)
  PROVE  BankInv' /\ UsedNodesStay
<1>1. /\ nodes' = nodes \ {calls[e].node} /\ CallEnds(e) /\ calls[e].doing = "remove node"
      /\ relations' \subseteq relations
      /\ UNCHANGED <<day, problems, candidates, classPlan, overlapped>>
  BY DEF RemoveNode, Now
<1>2. CallsFit'
  BY <1>1, OthersKeep, CallsEnd DEF BankInv
<1>3. UsedNodesStay
  <2>1. ~KnowledgeNodeInUse(calls[e].node)
    BY <1>1 DEF BankInv, CallsFit, CallFits
  <2>2. \A q \in Problems : calls[e].node \notin problems'[q].concepts
    BY <2>1, <1>1 DEF KnowledgeNodeInUse
  <2>3. \A n \in nodes \ nodes' : n = calls[e].node
    BY <1>1
  <2> QED BY <2>2, <2>3 DEF UsedNodesStay, KnowledgeNodeInUse
<1>4. day' \in PlanDays /\ day' >= day /\ nodes' \subseteq Concepts /\ candidates' \subseteq Problems
      /\ relations' \subseteq Concepts \X Concepts
  <2>1. /\ day \in Nat /\ day \in PlanDays /\ candidates \subseteq Problems /\ nodes \subseteq Concepts
        /\ relations \subseteq Concepts \X Concepts
    BY BankRows
  <2>2. relations' \subseteq Concepts \X Concepts
    BY <2>1, <1>1, Zenon
  <2>3. day' >= day
    <3>1. day' = day
      BY <1>1
    <3>2. day >= day
      BY <2>1
    <3> QED BY <3>1, <3>2
  <2>4. nodes' \subseteq Concepts /\ candidates' \subseteq Problems
    BY <2>1, <1>1
  <2> QED BY <2>1, <2>2, <2>3, <2>4, <1>1, Zenon
<1> QED BY <1>1, <1>2, <1>3, <1>4, SameQuestions

\* Every step of the bank.
LEMMA BankStep ==
  ASSUME BankInv, [BankNext]_bankVars
  PROVE  BankInv' /\ UsedNodesStay
<1>1. ASSUME NEW e \in Calls, \E start \in PlanDays : \E days \in SUBSET PlanDays :
               \E wanted \in [days -> Problems] : ReplaceClassUniformSchedule(e, wanted, start)
      PROVE  BankInv' /\ UsedNodesStay
  BY <1>1, ReplaceHolds
<1>2. ASSUME NEW e \in Calls,
             \/ InsertQuestion(e) \/ WriteUpdate(e) \/ WriteDelete(e) \/ RemoveNode(e)
      PROVE  BankInv' /\ UsedNodesStay
  BY <1>2, InsertHolds, UpdateHolds, DeleteHolds, RemoveNodeHolds
<1>3. CASE \/ \E q \in Problems, x \in Problems : BatchDuplicate(q, x)
           \/ \E ids \in SUBSET Problems : BatchPublish(ids)
  BY <1>3, DuplicateHolds, PublishHolds
<1> QED BY <1>1, <1>2, <1>3, AloneHolds, ReadsHold DEF BankNext

\* No question, no call.
LEMMA BankBegins == BankInit => BankInv
<1> SUFFICES ASSUME BankInit PROVE BankInv
  OBVIOUS
<1>1. problems \in [Problems -> ProblemRow] /\ \A q \in Problems : problems[q].status = "absent"
  BY Rows DEF BankInit
<1>2. calls \in [Calls -> CallRow]
      /\ \A e \in Calls : calls[e].holds = {} /\ calls[e].doing = "nothing"
  BY Rows DEF BankInit
<1>3. CallsFit
  BY <1>2 DEF CallsFit, CallFits, NodeDoings
<1>4. BankTypeOK
  BY <1>1, <1>2, BankAssumption DEF BankInit, BankTypeOK, ProblemRow, PlanDays
<1>5. PlannedIsPublished
  BY DEF BankInit, PlannedIsPublished
<1>6. ChoiceUnlessOverlapped
  BY <1>1 DEF ChoiceUnlessOverlapped, Live
<1> QED BY <1>3, <1>4, <1>5, <1>6 DEF BankInv

\* What is planned from today on is published, and a choice that does not fit its options was
\* written on an outdated read, or copied (hasFutureUniformSchedule, normalizeMultipleChoiceUpdate).
THEOREM PlanStaysPublished == BankSpec => [](BankTypeOK /\ PlannedIsPublished /\ ChoiceUnlessOverlapped)
<1>1. BankInv /\ [BankNext]_bankVars => BankInv'
  BY BankStep
<1>2. BankInv => BankTypeOK /\ PlannedIsPublished /\ ChoiceUnlessOverlapped
  BY DEF BankInv
<1> QED BY <1>1, <1>2, BankBegins, PTL DEF BankSpec

\* No node disappears under a question (DeleteNode).
THEOREM UsedNodesAreKept == BankSpec => NodesInUseStay
<1>1. BankInv /\ [BankNext]_bankVars => BankInv' /\ [UsedNodesStay]_bankVars
  BY BankStep
<1>2. BankSpec => [][UsedNodesStay]_bankVars
  BY <1>1, BankBegins, PTL DEF BankSpec
<1> QED BY <1>2 DEF NodesInUseStay, UsedNodesStay

-----------------------------------------------------------------------------
(* The school as a whole.                                                  *)

SchoolInv == AnnouncementsHold /\ ChannelInv /\ ClassInv /\ BankInv
SchoolVars == <<part, chatVars, messageVars, announcementVars, classVars, bankVars>>

(* Whatever part a behaviour plays, its step is one of every module's own.  *)
LEMMA SchoolStep ==
  ASSUME SchoolInv, [SchoolNext]_SchoolVars
  PROVE  /\ SchoolInv'
         /\ [NewIsSeen]_messageVars /\ [EditsShown]_announcementVars
         /\ [PastStays]_classVars /\ [UsedNodesStay]_bankVars
<1>1. [AnnouncementNext]_announcementVars
  BY DEF SchoolNext, SchoolVars
<1>2. [MessageNext]_messageVars
  BY DEF SchoolNext, SchoolVars
<1>3. [ClassNext]_classVars
  BY DEF SchoolNext, SchoolVars
<1>4. [BankNext]_bankVars
  BY DEF SchoolNext, SchoolVars
<1>5. AnnouncementsHold' /\ EditsShown
  BY <1>1, AnnouncementStep DEF SchoolInv
<1>6. ChannelInv' /\ NewIsSeen
  BY <1>2, MessageStep DEF SchoolInv
<1>7. ClassInv' /\ PastStays
  BY <1>3, ClassStep DEF SchoolInv
<1>8. BankInv' /\ UsedNodesStay
  BY <1>4, BankStep DEF SchoolInv
<1> QED BY <1>5, <1>6, <1>7, <1>8 DEF SchoolInv

\* Every part begins in its invariant.
LEMMA SchoolBegins == SchoolInit => SchoolInv
BY AnnouncementsBegin, MessagesBegin, ClassesBegin, BankBegins DEF SchoolInit, SchoolInv

\* The invariants of the school's parts hold together.
THEOREM SchoolInvariant == SchoolSpec => []SchoolInv
<1>1. SchoolInv /\ [SchoolNext]_SchoolVars => SchoolInv'
  BY SchoolStep
<1> QED BY <1>1, SchoolBegins, PTL DEF SchoolSpec, SchoolVars

\* Each variable of the school's parts has its type.
THEOREM SchoolTypeCorrect == SchoolSpec => []SchoolTypeOK
<1>1. SchoolInv => SchoolTypeOK
  BY DEF SchoolInv, SchoolTypeOK, AnnouncementsHold, ChannelInv, ClassInv, BankInv
<1> QED BY <1>1, SchoolInvariant, PTL

\* What counts as read is what came before the newest message its reader was given, and
\* announcements agree with what their readers are shown (AcknowledgeRead, ListForUser).
THEOREM NewsStayAgreed == SchoolSpec => []NewsAgree
<1>1. SchoolInv => NewsAgree
  BY StatusIsTheNewest DEF SchoolInv, NewsAgree, AnnouncementsHold
<1> QED BY <1>1, SchoolInvariant, PTL

\* Rosters agree with their history, plans with the bank, and answers with their options.
THEOREM ClassesStayAgreed == SchoolSpec => []ClassesAgree
<1>1. SchoolInv => ClassesAgree
  BY DEF SchoolInv, ClassesAgree, ClassInv, BankInv
<1> QED BY <1>1, SchoolInvariant, PTL

\* New messages and edited announcements reach their readers.
THEOREM NewsStaySeen == SchoolSpec => NewsIsSeen
<1>1. SchoolSpec => [][NewIsSeen]_messageVars /\ [][EditsShown]_announcementVars
  BY SchoolStep, SchoolInvariant, PTL DEF SchoolSpec, SchoolVars
<1> QED BY <1>1 DEF NewsIsSeen, NewMessageIsSeen, EditsAreShown, NewIsSeen, EditsShown

\* Past rosters, but for who was joining or leaving then, and the nodes in use stay.
THEOREM PastStaysPut == SchoolSpec => PastStands
<1>1. SchoolSpec => [][PastStays]_classVars /\ [][UsedNodesStay]_bankVars
  BY SchoolStep, SchoolInvariant, PTL DEF SchoolSpec, SchoolVars
<1> QED BY <1>1 DEF PastStands, PastIsSettled, NodesInUseStay, PastStays, UsedNodesStay
=============================================================================
