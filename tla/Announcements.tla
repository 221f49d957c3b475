---------------------------- MODULE Announcements ----------------------------
(* System announcements: internal/application/announcement and                 *)
(* adapter/postgres/announcement_repository.go. Creating and editing hold one  *)
(* advisory lock for the whole transaction, so each is one step; the list an   *)
(* account loaded and its "do not show again" are separate requests.          *)
EXTENDS Naturals

CONSTANTS Announcements, Readers, MaxEdits   \* MaxEdits: bound on revisions

ASSUME AnnouncementAssumption == MaxEdits \in Nat \ {0}

Audiences == {"student", "teacher", "all"}

VARIABLES
  announcements,  \* the rows of system_announcements
  dismissed,      \* dismissed_revision by reader and announcement, 0 when absent
  listed,         \* the revisions in the list each reader loaded last
  roleOf          \* the role of each reader, never changed

announcementVars == <<announcements, dismissed, listed, roleOf>>

NoAnnouncement == [exists |-> FALSE, active |-> FALSE, audience |-> "all", append |-> FALSE,
                   persistent |-> FALSE, revision |-> 0]
NoneYet == [a \in Announcements |-> 0]

AnnouncementInit ==
  /\ announcements = [a \in Announcements |-> NoAnnouncement]
  /\ dismissed = [u \in Readers |-> NoneYet] /\ listed = [u \in Readers |-> NoneYet]
  /\ roleOf \in [Readers -> {"student", "teacher"}]

Addressed(a, role) == announcements[a].audience \in {role, "all"}
Reachable(a, u) == announcements[a].active /\ Addressed(a, roleOf[u])

\* ListAnnouncementsForUser
Shows(a, u) ==
  Reachable(a, u) /\ (announcements[a].persistent \/ dismissed[u][a] # announcements[a].revision)

ListForUser(u) ==
  /\ listed' = [listed EXCEPT ![u] =
       [a \in Announcements |-> IF Shows(a, u) THEN announcements[a].revision ELSE 0]]
  /\ UNCHANGED <<announcements, dismissed, roleOf>>

(* An active announcement that is not appended replaces those of its audience.  *)
DeactivateAudience(audience, but) ==
  [a \in Announcements |->
     IF a # but /\ announcements[a].active /\ announcements[a].audience = audience
       THEN [announcements[a] EXCEPT !.active = FALSE] ELSE announcements[a]]

Saved(a, row) ==
  LET rest == IF row.active /\ ~row.append THEN DeactivateAudience(row.audience, a) ELSE announcements
  IN  announcements' = [rest EXCEPT ![a] = row]

CreateAnnouncement(a, audience, append, persistent, active) ==
  /\ announcements[a] = NoAnnouncement
  /\ Saved(a, [exists |-> TRUE, active |-> active, audience |-> audience, append |-> append,
               persistent |-> persistent, revision |-> 1])
  /\ UNCHANGED <<dismissed, listed, roleOf>>

\* mutant: an edit keeps the revision
UpdateInPlace(a, audience, append, persistent, active) ==
  /\ announcements[a].exists /\ announcements[a].revision < MaxEdits
  /\ Saved(a, [announcements[a] EXCEPT !.active = active, !.audience = audience, !.append = append,
                                       !.persistent = persistent])
  /\ UNCHANGED <<dismissed, listed, roleOf>>

(* An edit that leaves is_active out keeps the row's state.                      *)
UpdateAnnouncement(a, audience, append, persistent, active) ==
  /\ announcements[a].exists /\ announcements[a].revision < MaxEdits
  /\ Saved(a, [announcements[a] EXCEPT !.active = active, !.audience = audience, !.append = append,
                                       !.persistent = persistent, !.revision = @ + 1])
  /\ UNCHANGED <<dismissed, listed, roleOf>>

(* The dismissals go with the row.                                              *)
DeleteAnnouncement(a) ==
  /\ announcements[a].exists
  /\ announcements' = [announcements EXCEPT ![a] = NoAnnouncement]
  /\ dismissed' = [u \in Readers |-> [dismissed[u] EXCEPT ![a] = 0]]
  /\ listed' = [u \in Readers |-> [listed[u] EXCEPT ![a] = 0]]
  /\ UNCHANGED roleOf

(* The revision recorded is the one stored now: a reader whose list is older        *)
(* dismisses an edit without having seen it.                                    *)
DismissAnnouncement(u, a) ==
  /\ listed[u][a] > 0 /\ Reachable(a, u) /\ ~announcements[a].persistent
  /\ dismissed' = [dismissed EXCEPT ![u][a] = announcements[a].revision]
  /\ UNCHANGED <<announcements, listed, roleOf>>

AnnouncementNext ==
  \/ \E a \in Announcements :
       \/ DeleteAnnouncement(a)
       \/ \E audience \in Audiences, append \in BOOLEAN, persistent \in BOOLEAN, active \in BOOLEAN :
            CreateAnnouncement(a, audience, append, persistent, active) \/ UpdateAnnouncement(a, audience, append, persistent, active)
       \/ \E u \in Readers : DismissAnnouncement(u, a)
  \/ \E u \in Readers : ListForUser(u)

AnnouncementSpec == AnnouncementInit /\ [][AnnouncementNext]_announcementVars

-----------------------------------------------------------------------------
AnnouncementTypeOK ==
  /\ announcements \in [Announcements -> [exists : BOOLEAN, active : BOOLEAN, audience : Audiences,
       append : BOOLEAN, persistent : BOOLEAN, revision : 0..MaxEdits]]
  /\ dismissed \in [Readers -> [Announcements -> 0..MaxEdits]]
  /\ listed \in [Readers -> [Announcements -> 0..MaxEdits]]

(* An audience never has two active announcements that each replace the others.   *)
OneForAnAudience ==
  \A a, b \in Announcements :
    a # b /\ announcements[a].active /\ announcements[b].active
      /\ ~announcements[a].append /\ ~announcements[b].append
      => announcements[a].audience # announcements[b].audience

(* A change of an announcement brings it back to everyone it reaches, whatever     *)
(* they dismissed before.                                                      *)
EditsAreShown ==
  [][\A a \in Announcements, u \in Readers :
       announcements'[a] # announcements[a] /\ Reachable(a, u)' => Shows(a, u)']_announcementVars
=============================================================================
