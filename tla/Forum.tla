------------------------------- MODULE Forum -------------------------------
(* One post of the forum with its replies, likes, favourites, reports and     *)
(* notifications: internal/application/forum and                             *)
(* internal/adapter/postgres/forum_repository.go. Every mutation is one       *)
(* transaction that locks the post's row first, so an operation is one step.  *)
(* Boards, tags, attachments and the view counter are left out; text is       *)
(* reduced to "edited or not".                                                *)
EXTENDS Naturals, FiniteSets

CONSTANTS
  Members,        \* the accounts that use the forum
  Teachers,       \* those with the teacher's role
  Admins,         \* those with the administrator's role
  Author,         \* the student who writes the post
  Replies,        \* identifiers of replies
  Nobody          \* stands for NULL

ASSUME ForumAssumption ==
  /\ Teachers \subseteq Members /\ Admins \subseteq Members
  /\ Author \in Members \ (Teachers \cup Admins)
  /\ Nobody \notin Members \cup Replies

VARIABLES
  post,           \* the row of forum_posts
  replies,        \* the rows of forum_replies
  likes,          \* the accounts that like the post
  favorites,      \* the accounts that keep it as a favourite
  reports,        \* pending reports: <<reporter, target>>
  unread,         \* notifications without read_at
  seen,           \* notifications with read_at
  teaches,        \* the teachers who own a class the author is enrolled in
  retired         \* accounts an administrator has disabled

forumVars == <<post, replies, likes, favorites, reports, unread, seen, teaches, retired>>

Targets == {"post"} \cup Replies
PostStates == {"none", "open", "resolved", "hidden", "gone"}
News == [to : Members, by : Members, event : {"reply", "mention", "like", "accepted", "featured"},
         reply : Replies \cup {Nobody}]
NoReply == [state |-> "none", author |-> Nobody, parent |-> Nobody, edited |-> FALSE]
NoPost == [state |-> "none", accepted |-> Nobody, featuredBy |-> Nobody, edited |-> FALSE]

Public == post.state \in {"open", "resolved"}
MayModerate(u) == u \in Admins /\ post.state = "hidden"
Live(r) == replies[r].state = "active"
Works(u) == u \in Members \ retired

ForumInit ==
  /\ post = NoPost
  /\ replies = [r \in Replies |-> NoReply]
  /\ likes = {} /\ favorites = {} /\ reports = {} /\ unread = {} /\ seen = {}
  /\ teaches \in SUBSET Teachers
  /\ retired = {}

-----------------------------------------------------------------------------
(* insertNotification: nothing for oneself, nothing for a disabled account,    *)
(* and nothing when the recipient already has a row with the event's key.     *)
Delivered(rows) == {n \in rows : n.to # n.by /\ n.to \notin retired /\ n \notin unread \cup seen}
Told(rows) == unread' = unread \cup Delivered(rows)
Withdrawn(n) == [unread |-> unread \ n, seen |-> seen \ n]
Silenced(n) == unread' = unread \ n /\ seen' = seen \cup (unread \cap n)

Event(to, by, event, r) == [to |-> to, by |-> by, event |-> event, reply |-> r]
LikeOf(u) == Event(Author, u, "like", Nobody)
FeaturedNews == {n \in unread \cup seen : n.event = "featured"}
AcceptedNews(r) == {n \in unread \cup seen : n.event = "accepted" /\ n.reply = r}

CreatePost ==
  /\ post.state = "none" /\ Works(Author)
  /\ post' = [post EXCEPT !.state = "open"]
  /\ UNCHANGED <<replies, likes, favorites, reports, unread, seen, teaches, retired>>

UpdatePost ==
  /\ Public /\ Works(Author)
  /\ post' = [post EXCEPT !.edited = TRUE]
  /\ UNCHANGED <<replies, likes, favorites, reports, unread, seen, teaches, retired>>

(* The author, or an administrator, hides the post. An administrator also      *)
(* settles what was reported about it; its news is marked as read.            *)
DeletePost(u) ==
  /\ Works(u)
  /\ Public \/ MayModerate(u)
  /\ u = Author \/ u \in Admins
  /\ post' = [post EXCEPT !.state = "hidden", !.featuredBy = Nobody]
  /\ reports' = IF u \in Admins THEN {} ELSE reports
  /\ Silenced(unread)
  /\ UNCHANGED <<replies, likes, favorites, teaches, retired>>

\* mutant: a restored post is open, whatever was accepted
RestorePostOpen ==
  /\ post.state = "hidden"
  /\ post' = [post EXCEPT !.state = "open"]
  /\ UNCHANGED <<replies, likes, favorites, reports, unread, seen, teaches, retired>>

RestorePost ==
  /\ post.state = "hidden"
  /\ post' = [post EXCEPT !.state = IF post.accepted = Nobody THEN "open" ELSE "resolved"]
  /\ UNCHANGED <<replies, likes, favorites, reports, unread, seen, teaches, retired>>

(* The post's row and everything that refers to it disappear.                  *)
HardDeletePost ==
  /\ post.state \in {"open", "resolved", "hidden"}
  /\ post' = [NoPost EXCEPT !.state = "gone"]
  /\ replies' = [r \in Replies |-> [NoReply EXCEPT !.state =
                                     IF replies[r].state = "none" THEN "none" ELSE "gone"]]
  /\ likes' = {} /\ favorites' = {} /\ reports' = {} /\ unread' = {} /\ seen' = {}
  /\ UNCHANGED <<teaches, retired>>

-----------------------------------------------------------------------------
Participants == {Author} \cup {replies[r].author : r \in {x \in Replies : Live(x)}}
Mentionable == {u \in Participants : Works(u)}
ReplyNews(r, u, parent, mentioned) ==
  {Event(m, u, "mention", r) : m \in mentioned}
    \cup {Event(m, u, "reply", r) :
            m \in ({Author} \cup (IF parent = Nobody THEN {} ELSE {replies[parent].author}))
                    \ mentioned}

CreateReply(r, u, parent, mentioned) ==
  /\ replies[r].state = "none" /\ Public /\ Works(u)
  /\ parent # Nobody => Live(parent)
  /\ mentioned \subseteq Mentionable
  /\ replies' = [replies EXCEPT ![r] =
                   [state |-> "active", author |-> u, parent |-> parent, edited |-> FALSE]]
  /\ Told(ReplyNews(r, u, parent, mentioned))
  /\ UNCHANGED <<post, likes, favorites, reports, seen, teaches, retired>>

UpdateReply(r) ==
  /\ Public /\ Live(r) /\ Works(replies[r].author)
  /\ replies' = [replies EXCEPT ![r].edited = TRUE]
  /\ UNCHANGED <<post, likes, favorites, reports, unread, seen, teaches, retired>>

(* The answers to a deleted reply become top-level ones; an accepted reply      *)
(* stops being the accepted one, whatever the state of its post.              *)
DeleteReply(r, u) ==
  /\ Works(u)
  /\ Public \/ MayModerate(u)
  /\ Live(r)
  /\ u = replies[r].author \/ u \in Admins
  /\ replies' = [x \in Replies |->
                   IF x = r THEN [replies[r] EXCEPT !.state = "deleted"]
                   ELSE IF replies[x].parent = r THEN [replies[x] EXCEPT !.parent = Nobody]
                   ELSE replies[x]]
  /\ post' = IF post.accepted = r
               THEN [post EXCEPT !.accepted = Nobody,
                                 !.state = IF post.state = "hidden" THEN "hidden" ELSE "open"]
               ELSE post
  /\ reports' = IF u \in Admins THEN {x \in reports : x[2] # r} ELSE reports
  /\ Silenced({n \in unread : n.reply = r})
  /\ UNCHANGED <<likes, favorites, teaches, retired>>

-----------------------------------------------------------------------------
LikePost(u) ==
  /\ Public /\ Works(u) /\ u \notin likes
  /\ likes' = likes \cup {u}
  /\ Told({LikeOf(u)})
  /\ UNCHANGED <<post, replies, favorites, reports, seen, teaches, retired>>

UnlikePost(u) ==
  /\ Public /\ Works(u) /\ u \in likes
  /\ likes' = likes \ {u}
  /\ unread' = Withdrawn({LikeOf(u)}).unread /\ seen' = Withdrawn({LikeOf(u)}).seen
  /\ UNCHANGED <<post, replies, favorites, reports, teaches, retired>>

SetPostFavorite(u) ==
  /\ Public /\ Works(u)
  /\ favorites' \in {favorites \cup {u}, favorites \ {u}}
  /\ UNCHANGED <<post, replies, likes, reports, unread, seen, teaches, retired>>

(* The news of the previous acceptance goes away with it, so that accepting    *)
(* that answer again is told again.                                           *)
AcceptReply(r) ==
  /\ Public /\ Works(Author) /\ Live(r)
  /\ LET old == IF post.accepted \in {Nobody, r} THEN {} ELSE AcceptedNews(post.accepted)
         new == IF post.accepted = r THEN {}
                ELSE {Event(replies[r].author, Author, "accepted", r)}
     IN  /\ unread' = Withdrawn(old).unread \cup Delivered(new)
         /\ seen' = Withdrawn(old).seen
  /\ post' = [post EXCEPT !.accepted = r, !.state = "resolved"]
  /\ UNCHANGED <<replies, likes, favorites, reports, teaches, retired>>

(* A teacher selects a post of a current student, unless another teacher who   *)
(* still teaches the student has selected it.                                 *)
FeaturePost(t) ==
  /\ Public /\ Works(t) /\ t \in teaches
  /\ post.featuredBy \in {Nobody, t} \/ post.featuredBy \notin teaches
  /\ post' = [post EXCEPT !.featuredBy = t]
  /\ IF post.featuredBy = t
       THEN UNCHANGED <<unread, seen>>
       ELSE /\ LET new == Event(Author, t, "featured", Nobody)
               IN  unread' = Withdrawn(FeaturedNews).unread
                               \cup (IF Author \in retired THEN {} ELSE {new})
            /\ seen' = Withdrawn(FeaturedNews).seen
  /\ UNCHANGED <<replies, likes, favorites, reports, teaches, retired>>

UnfeaturePost(t) ==
  /\ Public /\ Works(t) /\ post.featuredBy = t
  /\ post' = [post EXCEPT !.featuredBy = Nobody]
  /\ unread' = Withdrawn(FeaturedNews).unread /\ seen' = Withdrawn(FeaturedNews).seen
  /\ UNCHANGED <<replies, likes, favorites, reports, teaches, retired>>

-----------------------------------------------------------------------------
(* lockReportTarget: a visible post or an active reply of a visible post, and   *)
(* not one's own.                                                             *)
Reportable(x, u) ==
  /\ Public
  /\ IF x = "post" THEN u # Author ELSE Live(x) /\ u # replies[x].author
CreateReport(u, x) ==
  /\ Works(u) /\ Reportable(x, u)
  /\ reports' = reports \cup {<<u, x>>}
  /\ UNCHANGED <<post, replies, likes, favorites, unread, seen, teaches, retired>>

ResolveReport ==
  /\ \E x \in reports : reports' = reports \ {x}
  /\ UNCHANGED <<post, replies, likes, favorites, unread, seen, teaches, retired>>

MarkNotificationRead ==
  /\ \E n \in unread : Silenced({n})
  /\ UNCHANGED <<post, replies, likes, favorites, reports, teaches, retired>>

MarkNotificationsRead(u) ==
  /\ \E n \in unread : n.to = u
  /\ Silenced({n \in unread : n.to = u})
  /\ UNCHANGED <<post, replies, likes, favorites, reports, teaches, retired>>

(* What the rest of the program does to the rows the forum reads.              *)
ClassChanges ==
  /\ \E t \in Teachers : teaches' \in {teaches \cup {t}, teaches \ {t}}
  /\ UNCHANGED <<post, replies, likes, favorites, reports, unread, seen, retired>>
AccountChanges ==
  /\ \E u \in Members \ Admins : retired' \in {retired \cup {u}, retired \ {u}}
  /\ UNCHANGED <<post, replies, likes, favorites, reports, unread, seen, teaches>>

ForumNext ==
  \/ CreatePost \/ UpdatePost \/ RestorePost \/ HardDeletePost
  \/ \E u \in Members : DeletePost(u)
  \/ \E r \in Replies, u \in Members, p \in Replies \cup {Nobody}, m \in SUBSET Mentionable :
       CreateReply(r, u, p, m)
  \/ \E r \in Replies : UpdateReply(r) \/ AcceptReply(r)
  \/ \E r \in Replies, u \in Members : DeleteReply(r, u)
  \/ \E u \in Members : LikePost(u) \/ UnlikePost(u) \/ SetPostFavorite(u)
  \/ \E t \in Teachers : FeaturePost(t) \/ UnfeaturePost(t)
  \/ \E u \in Members, x \in Targets : CreateReport(u, x)
  \/ ResolveReport \/ MarkNotificationRead
  \/ \E u \in Members : MarkNotificationsRead(u)
  \/ ClassChanges \/ AccountChanges
ForumSpec == ForumInit /\ [][ForumNext]_forumVars

-----------------------------------------------------------------------------
(* What ListNotifications counts as unread (forumNotificationTargetActiveSQL). *)
Counts(n) ==
  /\ Public
  /\ n.reply = Nobody \/ Live(n.reply)
  /\ n.event = "like" => n.by \in likes
  /\ n.event = "accepted" => post.accepted = n.reply
  /\ n.event = "featured" => post.featuredBy = n.by /\ n.by \in teaches

ForumTypeOK ==
  /\ post \in [state : PostStates, accepted : Replies \cup {Nobody},
               featuredBy : Teachers \cup {Nobody}, edited : BOOLEAN]
  /\ replies \in [Replies -> [state : {"none", "active", "deleted", "gone"},
                              author : Members \cup {Nobody},
                              parent : Replies \cup {Nobody}, edited : BOOLEAN]]
  /\ likes \subseteq Members /\ favorites \subseteq Members
  /\ reports \subseteq Members \X Targets
  /\ unread \subseteq News /\ seen \subseteq News
  /\ teaches \subseteq Teachers /\ retired \subseteq Members

(* The answer a post shows as accepted is one of its active replies, a visible  *)
(* post is resolved exactly while it has one, and no active reply hangs below   *)
(* one that was deleted - whatever the order in which replies are accepted and  *)
(* deleted, and the post hidden, moderated while hidden, and restored.         *)
ThreadIsWhole ==
  /\ post.accepted # Nobody => Live(post.accepted)
  /\ Public => (post.state = "resolved" <=> post.accepted # Nobody)
  /\ \A r \in Replies : Live(r) => replies[r].parent = Nobody \/ Live(replies[r].parent)

(* An unread notification is about something that still holds: the rows the     *)
(* program withdraws or marks as read are exactly those the counting query      *)
(* would have to hide, except when a class changes after a teacher's selection.*)
UnreadIsCurrent ==
  \A n \in unread : Counts(n) \/ (n.event = "featured" /\ n.by \notin teaches)

ForumAgrees == ThreadIsWhole /\ UnreadIsCurrent

(* A withdrawn like, acceptance or selection leaves no row behind, so that the  *)
(* next one reaches its recipient as something new.                           *)
NewFactsAreTold ==
  [][/\ \A u \in (likes' \ likes) \ ({Author} \cup retired) :
           Author \notin retired => LikeOf(u) \in unread'
     /\ post'.accepted \notin {post.accepted, Nobody} =>
           LET a == replies[post'.accepted].author
           IN  a \notin retired \cup {Author} =>
                 Event(a, Author, "accepted", post'.accepted) \in unread'
     /\ post'.featuredBy \notin {post.featuredBy, Nobody} /\ Author \notin retired =>
           Event(Author, post'.featuredBy, "featured", Nobody) \in unread']_forumVars
=============================================================================
