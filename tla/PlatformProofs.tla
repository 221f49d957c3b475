--------------------------- MODULE PlatformProofs ---------------------------
(***************************************************************************)
(* Proofs about the forum, the administration of models and the relay, for *)
(* any number of members, rows, administrators, channels and calls; and    *)
(* then, since a step of the platform is a step of each of its modules or  *)
(* leaves it alone, about what the platform keeps.                         *)
(***************************************************************************)
EXTENDS MCPlatform, AccessProofs

-----------------------------------------------------------------------------
(* The forum. The rows of forum_notifications are written by one handler   *)
(* and withdrawn, or marked as read, by others; the invariant says what a  *)
(* row stands for while it is unread, and what is left of it once read.    *)

\* Nothing is accepted before there is a post, and an active reply has an author.
PostBegins == post.state = "none" => post.accepted = Nobody
RepliesWritten == \A r \in Replies : Live(r) => replies[r].author \in Members

\* A row, read or not, of a like or of an acceptance: the like still stands, and the
\* accepted reply is accepted still or is not active any more.
NewsKnown ==
  \A n \in unread \cup seen :
    /\ n.event = "like" => n = LikeOf(n.by) /\ n.by \in likes
    /\ n.event = "accepted" => /\ n.reply \in Replies
                               /\ replies[n.reply].state \in {"active", "deleted"}
                               /\ Live(n.reply) => post.accepted = n.reply

\* An unread row is about a visible post, an active reply and the current selection.
NewsCurrent ==
  \A n \in unread :
    /\ Public
    /\ n.reply # Nobody => Live(n.reply)
    /\ n.event = "featured" => post.featuredBy = n.by

ForumIInv ==
  /\ ForumTypeOK /\ ThreadIsWhole /\ PostBegins /\ RepliesWritten /\ NewsKnown /\ NewsCurrent

\* The body of NewFactsAreTold.
TellsNewFacts ==
  /\ \A u \in (likes' \ likes) \ ({Author} \cup retired) :
        Author \notin retired => LikeOf(u) \in unread'
  /\ post'.accepted \notin {post.accepted, Nobody} =>
        LET a == replies[post'.accepted].author
        IN  a \notin retired \cup {Author} =>
              Event(a, Author, "accepted", post'.accepted) \in unread'
  /\ post'.featuredBy \notin {post.featuredBy, Nobody} /\ Author \notin retired =>
        Event(Author, post'.featuredBy, "featured", Nobody) \in unread'

------------------------------------------------------------------------------
(* The operators on notifications.                                         *)

\* The shape of an event.
LEMMA EventParts ==
  ASSUME NEW to, NEW by, NEW event, NEW r
  PROVE  LET n == Event(to, by, event, r)
         IN n.to = to /\ n.by = by /\ n.event = event /\ n.reply = r
  BY DEF Event

\* An event between members is a row of the table.
LEMMA EventType ==
  ASSUME NEW to \in Members, NEW by \in Members, NEW r \in Replies \cup {Nobody},
         NEW event \in {"reply", "mention", "like", "accepted", "featured"}
  PROVE  Event(to, by, event, r) \in News
  BY DEF Event, News

\* Marking as read loses no row and makes none.
LEMMA SilencedParts ==
  ASSUME NEW N, Silenced(N)
  PROVE  unread' \subseteq unread /\ seen' \subseteq unread \cup seen /\ unread' \cap N = {}
  BY DEF Silenced

\* Steps that leave the thread and the likes alone and add no row.
Quiet ==
  /\ post'.state = post.state /\ post'.accepted = post.accepted /\ post'.featuredBy = post.featuredBy
  /\ \A r \in Replies : /\ replies'[r].state = replies[r].state /\ replies'[r].parent = replies[r].parent
                        /\ replies'[r].author = replies[r].author
  /\ likes' = likes /\ unread' \subseteq unread /\ seen' \subseteq unread \cup seen

\* They disturb nothing.
LEMMA QuietKeeps ==
  ASSUME ForumIInv, ForumTypeOK', Quiet
  PROVE  ForumIInv' /\ TellsNewFacts
<1>1. ThreadIsWhole'
  BY DEF Quiet, ForumIInv, ForumTypeOK, ThreadIsWhole, Public, Live
<1>2. PostBegins' /\ RepliesWritten'
  BY DEF Quiet, ForumIInv, PostBegins, RepliesWritten, Live
<1>3. NewsKnown'
  BY DEF Quiet, ForumIInv, NewsKnown, Live, LikeOf
<1>4. NewsCurrent'
  BY ForumAssumption DEF Quiet, ForumIInv, ForumTypeOK, News, NewsCurrent, Live, Public
<1>5. TellsNewFacts
  BY DEF Quiet, TellsNewFacts
<1> QED BY <1>1, <1>2, <1>3, <1>4, <1>5 DEF ForumIInv

\* UpdatePost, UpdateReply, favourites, reports, reading, and what changes around the forum.
LEMMA QuietActions ==
  ASSUME ForumIInv,
         \/ UpdatePost \/ ResolveReport \/ MarkNotificationRead \/ ClassChanges \/ AccountChanges
         \/ \E r \in Replies : UpdateReply(r)
         \/ \E u \in Members : SetPostFavorite(u) \/ MarkNotificationsRead(u)
         \/ \E u \in Members, x \in Targets : CreateReport(u, x)
  PROVE  ForumTypeOK' /\ Quiet
<1>0. ForumTypeOK
  BY DEF ForumIInv
<1>1. CASE UpdatePost
  BY <1>0, <1>1 DEF UpdatePost, ForumTypeOK, Quiet
<1>2. CASE ResolveReport
  BY <1>0, <1>2 DEF ResolveReport, ForumTypeOK, Quiet
<1>3. CASE MarkNotificationRead
  BY <1>0, <1>3 DEF MarkNotificationRead, Silenced, ForumTypeOK, Quiet
<1>4. CASE ClassChanges
  BY <1>0, <1>4 DEF ClassChanges, ForumTypeOK, Quiet
<1>5. CASE AccountChanges
  BY <1>0, <1>5 DEF AccountChanges, ForumTypeOK, Quiet
<1>6. ASSUME NEW r \in Replies, UpdateReply(r) PROVE ForumTypeOK' /\ Quiet
  <2> DEFINE row == [replies[r] EXCEPT !.edited = TRUE]
  <2>1. replies' = [replies EXCEPT ![r] = row]
        /\ UNCHANGED <<post, likes, favorites, reports, unread, seen, teaches, retired>>
    BY <1>6 DEF UpdateReply
  <2>2. /\ row \in [state : {"none", "active", "deleted", "gone"}, author : Members \cup {Nobody},
                    parent : Replies \cup {Nobody}, edited : BOOLEAN]
        /\ row.state = replies[r].state /\ row.parent = replies[r].parent /\ row.author = replies[r].author
    BY <1>0 DEF ForumTypeOK
  <2> HIDE DEF row
  <2> QED BY <1>0, <2>1, <2>2 DEF ForumTypeOK, Quiet
<1>7. CASE \E u \in Members : SetPostFavorite(u)
  BY <1>0, <1>7 DEF SetPostFavorite, ForumTypeOK, Quiet
<1>8. CASE \E u \in Members : MarkNotificationsRead(u)
  BY <1>0, <1>8 DEF MarkNotificationsRead, Silenced, ForumTypeOK, Quiet
<1>9. ASSUME NEW u \in Members, NEW x \in Targets, CreateReport(u, x) PROVE ForumTypeOK' /\ Quiet
  BY <1>0, <1>9 DEF CreateReport, ForumTypeOK, Quiet
<1> QED BY <1>1, <1>2, <1>3, <1>4, <1>5, <1>6, <1>7, <1>8, <1>9

------------------------------------------------------------------------------
(* The post appears, is hidden, comes back and goes for good.              *)

\* CreatePost.
LEMMA CreatePostKeeps ==
  ASSUME ForumIInv, CreatePost
  PROVE  ForumIInv' /\ TellsNewFacts
<1>1. /\ post.state = "none" /\ post' = [post EXCEPT !.state = "open"]
      /\ UNCHANGED <<replies, likes, favorites, reports, unread, seen, teaches, retired>>
  BY DEF CreatePost
<1>2. ForumTypeOK' /\ post'.state = "open" /\ post'.accepted = post.accepted /\ post'.featuredBy = post.featuredBy
  BY <1>1 DEF ForumIInv, ForumTypeOK, PostStates
<1>3. unread = {} /\ post.accepted = Nobody
  BY <1>1 DEF ForumIInv, NewsCurrent, Public, PostBegins
<1>4. ThreadIsWhole' /\ PostBegins' /\ RepliesWritten'
  BY <1>1, <1>2, <1>3 DEF ForumIInv, ThreadIsWhole, PostBegins, RepliesWritten, Live, Public
<1>5. NewsKnown' /\ NewsCurrent'
  BY <1>1, <1>2, <1>3 DEF ForumIInv, NewsKnown, NewsCurrent, Live, LikeOf, Public
<1>6. TellsNewFacts
  BY <1>1, <1>2 DEF TellsNewFacts
<1> QED BY <1>2, <1>4, <1>5, <1>6 DEF ForumIInv

\* DeletePost: a hidden post has no unread row.
LEMMA DeletePostKeeps ==
  ASSUME ForumIInv, NEW u \in Members, DeletePost(u)
  PROVE  ForumIInv' /\ TellsNewFacts
<1>1. /\ post' = [post EXCEPT !.state = "hidden", !.featuredBy = Nobody]
      /\ unread' = {} /\ seen' \subseteq unread \cup seen /\ reports' \subseteq reports
      /\ UNCHANGED <<replies, likes, favorites, teaches, retired>>
  BY DEF DeletePost, Silenced
<1>2. ForumTypeOK' /\ post'.state = "hidden" /\ post'.accepted = post.accepted /\ post'.featuredBy = Nobody
  BY <1>1 DEF ForumIInv, ForumTypeOK, PostStates
<1>3. ThreadIsWhole' /\ PostBegins' /\ RepliesWritten'
  BY <1>1, <1>2 DEF ForumIInv, ThreadIsWhole, PostBegins, RepliesWritten, Live, Public
<1>4. NewsKnown' /\ NewsCurrent'
  BY <1>1, <1>2 DEF ForumIInv, NewsKnown, NewsCurrent, Live, LikeOf
<1>5. TellsNewFacts
  BY <1>1, <1>2 DEF TellsNewFacts
<1> QED BY <1>2, <1>3, <1>4, <1>5 DEF ForumIInv

\* RestorePost: the state it comes back with is what its accepted reply says.
LEMMA RestorePostKeeps ==
  ASSUME ForumIInv, RestorePost
  PROVE  ForumIInv' /\ TellsNewFacts
<1>1. /\ post.state = "hidden"
      /\ post' = [post EXCEPT !.state = IF post.accepted = Nobody THEN "open" ELSE "resolved"]
      /\ UNCHANGED <<replies, likes, favorites, reports, unread, seen, teaches, retired>>
  BY DEF RestorePost
<1>2. /\ ForumTypeOK' /\ post'.state = IF post.accepted = Nobody THEN "open" ELSE "resolved"
      /\ post'.accepted = post.accepted /\ post'.featuredBy = post.featuredBy
  BY <1>1 DEF ForumIInv, ForumTypeOK, PostStates
<1>3. unread = {}
  BY <1>1 DEF ForumIInv, NewsCurrent, Public
<1>4. ThreadIsWhole' /\ PostBegins' /\ RepliesWritten'
  BY <1>1, <1>2 DEF ForumIInv, ThreadIsWhole, PostBegins, RepliesWritten, Live, Public
<1>5. NewsKnown' /\ NewsCurrent'
  BY <1>1, <1>2, <1>3 DEF ForumIInv, NewsKnown, NewsCurrent, Live, LikeOf
<1>6. TellsNewFacts
  BY <1>1, <1>2 DEF TellsNewFacts
<1> QED BY <1>2, <1>4, <1>5, <1>6 DEF ForumIInv

\* HardDeletePost.
LEMMA HardDeletePostKeeps ==
  ASSUME ForumIInv, HardDeletePost
  PROVE  ForumIInv' /\ TellsNewFacts
<1>1. /\ post' = [state |-> "gone", accepted |-> Nobody, featuredBy |-> Nobody, edited |-> FALSE]
      /\ likes' = {} /\ favorites' = {} /\ reports' = {} /\ unread' = {} /\ seen' = {}
      /\ UNCHANGED <<teaches, retired>>
  BY DEF HardDeletePost, NoPost
<1>2. /\ replies' \in [Replies -> [state : {"none", "active", "deleted", "gone"}, author : Members \cup {Nobody},
                                   parent : Replies \cup {Nobody}, edited : BOOLEAN]]
      /\ \A r \in Replies : replies'[r].state # "active"
  <2>1. NoReply \in [state : {"none", "active", "deleted", "gone"}, author : Members \cup {Nobody},
                     parent : Replies \cup {Nobody}, edited : BOOLEAN]
    BY DEF NoReply
  <2>2. replies' = [r \in Replies |-> [NoReply EXCEPT !.state = IF replies[r].state = "none" THEN "none" ELSE "gone"]]
    BY DEF HardDeletePost
  <2> QED BY <2>1, <2>2
<1>3. ForumTypeOK'
  BY <1>1, <1>2 DEF ForumIInv, ForumTypeOK, PostStates
<1>4. ThreadIsWhole' /\ PostBegins' /\ RepliesWritten'
  BY <1>1, <1>2 DEF ThreadIsWhole, PostBegins, RepliesWritten, Live, Public
<1>5. NewsKnown' /\ NewsCurrent'
  BY <1>1 DEF NewsKnown, NewsCurrent
<1>6. TellsNewFacts
  BY <1>1 DEF TellsNewFacts
<1> QED BY <1>3, <1>4, <1>5, <1>6 DEF ForumIInv

------------------------------------------------------------------------------
(* Replies.                                                                *)

\* CreateReply: its rows are about a reply that is active by now.
LEMMA CreateReplyKeeps ==
  ASSUME ForumIInv, NEW r \in Replies, NEW u \in Members, NEW parent \in Replies \cup {Nobody},
         NEW mentioned \in SUBSET Mentionable, CreateReply(r, u, parent, mentioned)
  PROVE  ForumIInv' /\ TellsNewFacts
<1> DEFINE row == [state |-> "active", author |-> u, parent |-> parent, edited |-> FALSE]
           new == Delivered(ReplyNews(r, u, parent, mentioned))
<1>0. ForumTypeOK
  BY DEF ForumIInv
<1>1. /\ replies[r].state = "none" /\ Public /\ (parent # Nobody => Live(parent))
      /\ replies' = [replies EXCEPT ![r] = row] /\ unread' = unread \cup new
      /\ UNCHANGED <<post, likes, favorites, reports, seen, teaches, retired>>
  BY DEF CreateReply, Told
<1>2. \A n \in new : n \in News /\ n.event \in {"mention", "reply"} /\ n.reply = r
  <2>1. Mentionable \subseteq Members
    BY ForumAssumption DEF Mentionable, Participants, ForumIInv, RepliesWritten
  <2>2. Author \in Members /\ (parent # Nobody => replies[parent].author \in Members)
    BY <1>1, ForumAssumption DEF ForumIInv, RepliesWritten
  <2>3. \A n \in ReplyNews(r, u, parent, mentioned) :
          \E m \in Members : n = Event(m, u, "mention", r) \/ n = Event(m, u, "reply", r)
    BY <2>1, <2>2 DEF ReplyNews
  <2>4. \A m \in Members : /\ Event(m, u, "mention", r) \in News /\ Event(m, u, "reply", r) \in News
                           /\ Event(m, u, "mention", r).event = "mention" /\ Event(m, u, "mention", r).reply = r
                           /\ Event(m, u, "reply", r).event = "reply" /\ Event(m, u, "reply", r).reply = r
    BY EventType, EventParts
  <2>5. new \subseteq ReplyNews(r, u, parent, mentioned)
    BY DEF Delivered
  <2> HIDE DEF new
  <2> QED BY <2>3, <2>4, <2>5
<1> HIDE DEF new
<1>3. /\ \A x \in Replies : replies'[x] = IF x = r THEN row ELSE replies[x]
      /\ \A x \in Replies : Live(x)' <=> x = r \/ Live(x)
      /\ r # Nobody
  BY <1>0, <1>1, ForumAssumption DEF ForumTypeOK, Live
<1>4. ForumTypeOK'
  <2>1. row \in [state : {"none", "active", "deleted", "gone"}, author : Members \cup {Nobody},
                 parent : Replies \cup {Nobody}, edited : BOOLEAN]
    OBVIOUS
  <2> HIDE DEF row
  <2> QED BY <1>0, <1>1, <1>2, <2>1 DEF ForumTypeOK
<1>5. ThreadIsWhole'
  <2>1. \A x \in Replies : replies[x].state = "active" => replies'[x].state = "active"
    BY <1>3 DEF Live
  <2>2. post.accepted # Nobody => replies'[post.accepted].state = "active"
    BY <1>0, <2>1 DEF ForumIInv, ForumTypeOK, ThreadIsWhole, Live
  <2>3. \A x \in Replies : Live(x)' => replies'[x].parent = Nobody \/ replies'[replies'[x].parent].state = "active"
    <3> SUFFICES ASSUME NEW x \in Replies, Live(x)', replies'[x].parent # Nobody
                 PROVE  replies'[replies'[x].parent].state = "active"
      OBVIOUS
    <3>1. CASE x = r
      BY <1>1, <1>3, <2>1, <3>1 DEF Live
    <3>2. CASE x # r
      <4>1. replies'[x] = replies[x] /\ Live(x)
        BY <1>3, <3>2
      <4>2. replies[x].parent \in Replies /\ replies[replies[x].parent].state = "active"
        BY <1>0, <4>1 DEF ForumIInv, ForumTypeOK, ThreadIsWhole, Live
      <4> QED BY <2>1, <4>1, <4>2
    <3> QED BY <3>1, <3>2
  <2> QED BY <1>1, <2>2, <2>3 DEF ForumIInv, ThreadIsWhole, Public, Live
<1>6. PostBegins' /\ RepliesWritten'
  BY <1>1, <1>3 DEF ForumIInv, PostBegins, RepliesWritten
<1>7. NewsKnown'
  <2> SUFFICES ASSUME NEW n \in unread' \cup seen'
               PROVE  /\ n.event = "like" => n = LikeOf(n.by) /\ n.by \in likes
                      /\ n.event = "accepted" => /\ n.reply \in Replies
                                                 /\ replies'[n.reply].state \in {"active", "deleted"}
                                                 /\ Live(n.reply)' => post.accepted = n.reply
    BY <1>1 DEF NewsKnown, LikeOf, Event
  <2>1. CASE n \in new
    BY <1>2, <2>1
  <2>2. CASE n \in unread \cup seen
    BY <1>1, <1>3, <2>2 DEF ForumIInv, NewsKnown
  <2> QED BY <1>1, <2>1, <2>2
<1>8. NewsCurrent'
  <2> SUFFICES ASSUME NEW n \in unread'
               PROVE  /\ Public
                      /\ n.reply # Nobody => Live(n.reply)'
                      /\ n.event = "featured" => post.featuredBy = n.by
    BY <1>1 DEF NewsCurrent, Public
  <2>1. CASE n \in new
    BY <1>1, <1>2, <1>3, <2>1
  <2>2. CASE n \in unread
    BY <1>0, <1>3, <2>2 DEF ForumIInv, ForumTypeOK, News, NewsCurrent
  <2> QED BY <1>1, <2>1, <2>2
<1>9. TellsNewFacts
  BY <1>1 DEF TellsNewFacts
<1> QED BY <1>4, <1>5, <1>6, <1>7, <1>8, <1>9 DEF ForumIInv

\* DeleteReply: the rows about the reply are read by now, its answers hang below nothing.
LEMMA DeleteReplyKeeps ==
  ASSUME ForumIInv, NEW r \in Replies, NEW u \in Members, DeleteReply(r, u)
  PROVE  ForumIInv' /\ TellsNewFacts
<1> DEFINE Rows == [state : {"none", "active", "deleted", "gone"}, author : Members \cup {Nobody},
                    parent : Replies \cup {Nobody}, edited : BOOLEAN]
           row(x) == IF x = r THEN [replies[r] EXCEPT !.state = "deleted"]
                     ELSE IF replies[x].parent = r THEN [replies[x] EXCEPT !.parent = Nobody]
                     ELSE replies[x]
<1>0. ForumTypeOK /\ r # Nobody
  BY ForumAssumption DEF ForumIInv
<1>1. /\ Live(r) /\ replies' = [x \in Replies |-> row(x)]
      /\ unread' = unread \ {n \in unread : n.reply = r}
      /\ seen' \subseteq unread \cup seen /\ reports' \subseteq reports
      /\ UNCHANGED <<likes, favorites, teaches, retired>>
  BY DEF DeleteReply, Silenced
<1>2. /\ post'.state \in PostStates
      /\ post'.accepted = IF post.accepted = r THEN Nobody ELSE post.accepted
      /\ post'.featuredBy = post.featuredBy
      /\ post' \in [state : PostStates, accepted : Replies \cup {Nobody},
                    featuredBy : Teachers \cup {Nobody}, edited : BOOLEAN]
      /\ post.accepted # r => post'.state = post.state
      /\ post.accepted = r => post'.state = IF post.state = "hidden" THEN "hidden" ELSE "open"
  <2>1. post' = IF post.accepted = r
                  THEN [post EXCEPT !.accepted = Nobody,
                                    !.state = IF post.state = "hidden" THEN "hidden" ELSE "open"]
                  ELSE post
    BY DEF DeleteReply
  <2> QED BY <1>0, <2>1 DEF ForumTypeOK, PostStates
<1>3. post.state \in {"open", "resolved", "hidden"}
  BY DEF DeleteReply, Public, MayModerate
<1>4. \A x \in Replies : row(x) \in Rows
  BY <1>0 DEF ForumTypeOK
<1>5. \A x \in Replies : /\ row(x).state = IF x = r THEN "deleted" ELSE replies[x].state
                         /\ row(x).author = replies[x].author
                         /\ x # r => row(x).parent = IF replies[x].parent = r THEN Nobody ELSE replies[x].parent
  BY <1>0 DEF ForumTypeOK
<1> HIDE DEF row
<1>6. /\ replies' \in [Replies -> Rows]
      /\ \A x \in Replies : /\ replies'[x].state = IF x = r THEN "deleted" ELSE replies[x].state
                            /\ replies'[x].author = replies[x].author
                            /\ x # r => replies'[x].parent = IF replies[x].parent = r THEN Nobody ELSE replies[x].parent
  BY <1>1, <1>4, <1>5
<1>7. ForumTypeOK'
  BY <1>0, <1>1, <1>2, <1>6 DEF ForumTypeOK
<1>8. Public <=> Public'
  BY <1>2, <1>3 DEF Public, ForumIInv, ThreadIsWhole
<1>9. ThreadIsWhole'
  <2>1. post'.accepted # Nobody => replies'[post'.accepted].state = "active"
    BY <1>0, <1>2, <1>6 DEF ForumIInv, ForumTypeOK, ThreadIsWhole, Live
  <2>2. Public' => (post'.state = "resolved" <=> post'.accepted # Nobody)
    BY <1>0, <1>2, <1>8 DEF ForumIInv, ThreadIsWhole, Public
  <2>3. \A x \in Replies : replies'[x].state = "active" =>
          replies'[x].parent = Nobody \/ replies'[replies'[x].parent].state = "active"
    BY <1>0, <1>6 DEF ForumIInv, ForumTypeOK, ThreadIsWhole, Live
  <2> QED BY <2>1, <2>2, <2>3 DEF ThreadIsWhole, Public, Live
<1>10. PostBegins' /\ RepliesWritten'
  BY <1>0, <1>2, <1>3, <1>6 DEF ForumIInv, PostBegins, RepliesWritten, Live
<1>11. NewsKnown'
  <2> SUFFICES ASSUME NEW n \in unread' \cup seen'
               PROVE  /\ n.event = "like" => n = LikeOf(n.by) /\ n.by \in likes
                      /\ n.event = "accepted" => /\ n.reply \in Replies
                                                 /\ replies'[n.reply].state \in {"active", "deleted"}
                                                 /\ replies'[n.reply].state = "active" => post'.accepted = n.reply
    BY <1>1 DEF NewsKnown, LikeOf, Event, Live
  <2>1. n \in unread \cup seen
    BY <1>1
  <2> QED BY <1>2, <1>6, <2>1 DEF ForumIInv, NewsKnown, Live
<1>12. NewsCurrent'
  <2> SUFFICES ASSUME NEW n \in unread'
               PROVE  /\ Public'
                      /\ n.reply # Nobody => replies'[n.reply].state = "active"
                      /\ n.event = "featured" => post'.featuredBy = n.by
    BY DEF NewsCurrent, Live
  <2>1. n \in unread /\ n.reply # r /\ n.reply \in Replies \cup {Nobody}
    BY <1>0, <1>1 DEF ForumTypeOK, News
  <2> QED BY <1>2, <1>6, <1>8, <2>1 DEF ForumIInv, NewsCurrent, Live
<1>13. TellsNewFacts
  BY <1>1, <1>2 DEF TellsNewFacts
<1> QED BY <1>7, <1>9, <1>10, <1>11, <1>12, <1>13 DEF ForumIInv

------------------------------------------------------------------------------
(* Likes, acceptance and the teachers' selection.                          *)

\* LikePost: no row of an earlier like of the same account is left.
LEMMA LikePostKeeps ==
  ASSUME ForumIInv, NEW u \in Members, LikePost(u)
  PROVE  ForumIInv' /\ TellsNewFacts
<1>0. ForumTypeOK
  BY DEF ForumIInv
<1>1. /\ Public /\ u \notin likes /\ likes' = likes \cup {u}
      /\ unread' = unread \cup Delivered({LikeOf(u)})
      /\ UNCHANGED <<post, replies, favorites, reports, seen, teaches, retired>>
  BY DEF LikePost, Told
<1>2. /\ LikeOf(u) \in News /\ LikeOf(u).to = Author /\ LikeOf(u).by = u
      /\ LikeOf(u).event = "like" /\ LikeOf(u).reply = Nobody
  BY ForumAssumption, EventType, EventParts DEF LikeOf
<1>3. LikeOf(u) \notin unread \cup seen
  BY <1>1, <1>2 DEF ForumIInv, NewsKnown
<1>4. Delivered({LikeOf(u)}) = IF u # Author /\ Author \notin retired THEN {LikeOf(u)} ELSE {}
  BY <1>2, <1>3 DEF Delivered
<1>5. ForumTypeOK'
  BY <1>0, <1>1, <1>2, <1>4 DEF ForumTypeOK
<1>6. ThreadIsWhole' /\ PostBegins' /\ RepliesWritten'
  BY <1>1 DEF ForumIInv, ThreadIsWhole, PostBegins, RepliesWritten, Live, Public
<1>7. NewsKnown'
  <2> SUFFICES ASSUME NEW n \in unread' \cup seen'
               PROVE  /\ n.event = "like" => n = LikeOf(n.by) /\ n.by \in likes'
                      /\ n.event = "accepted" => /\ n.reply \in Replies
                                                 /\ replies[n.reply].state \in {"active", "deleted"}
                                                 /\ Live(n.reply) => post.accepted = n.reply
    BY <1>1 DEF NewsKnown, LikeOf, Event, Live
  <2>1. CASE n = LikeOf(u)
    BY <1>1, <1>2, <2>1
  <2>2. CASE n \in unread \cup seen
    BY <1>1, <2>2 DEF ForumIInv, NewsKnown
  <2> QED BY <1>1, <1>4, <2>1, <2>2
<1>8. NewsCurrent'
  <2> SUFFICES ASSUME NEW n \in unread'
               PROVE  /\ Public
                      /\ n.reply # Nobody => Live(n.reply)
                      /\ n.event = "featured" => post.featuredBy = n.by
    BY <1>1 DEF NewsCurrent, Public, Live
  <2> QED BY <1>1, <1>2, <1>4 DEF ForumIInv, NewsCurrent
<1>9. TellsNewFacts
  BY <1>1, <1>4 DEF TellsNewFacts
<1> QED BY <1>5, <1>6, <1>7, <1>8, <1>9 DEF ForumIInv

\* UnlikePost: the row of the like goes, read or not.
LEMMA UnlikePostKeeps ==
  ASSUME ForumIInv, NEW u \in Members, UnlikePost(u)
  PROVE  ForumIInv' /\ TellsNewFacts
<1>0. ForumTypeOK
  BY DEF ForumIInv
<1>1. /\ likes' = likes \ {u} /\ unread' = unread \ {LikeOf(u)} /\ seen' = seen \ {LikeOf(u)}
      /\ UNCHANGED <<post, replies, favorites, reports, teaches, retired>>
  BY DEF UnlikePost, Withdrawn
<1>2. ForumTypeOK' /\ ThreadIsWhole' /\ PostBegins' /\ RepliesWritten'
  BY <1>0, <1>1 DEF ForumIInv, ForumTypeOK, ThreadIsWhole, PostBegins, RepliesWritten, Live, Public
<1>3. NewsKnown'
  <2> SUFFICES ASSUME NEW n \in unread' \cup seen'
               PROVE  /\ n.event = "like" => n = LikeOf(n.by) /\ n.by \in likes'
                      /\ n.event = "accepted" => /\ n.reply \in Replies
                                                 /\ replies[n.reply].state \in {"active", "deleted"}
                                                 /\ Live(n.reply) => post.accepted = n.reply
    BY <1>1 DEF NewsKnown, LikeOf, Event, Live
  <2>1. n \in unread \cup seen /\ n # LikeOf(u)
    BY <1>1
  <2> QED BY <1>1, <2>1 DEF ForumIInv, NewsKnown
<1>4. NewsCurrent'
  BY <1>1 DEF ForumIInv, NewsCurrent, Public, Live
<1>5. TellsNewFacts
  BY <1>1 DEF TellsNewFacts
<1> QED BY <1>2, <1>3, <1>4, <1>5 DEF ForumIInv

\* AcceptReply: the rows of the acceptance it replaces go, and the new one has none yet.
LEMMA AcceptReplyKeeps ==
  ASSUME ForumIInv, NEW r \in Replies, AcceptReply(r)
  PROVE  ForumIInv' /\ TellsNewFacts
<1> DEFINE old == IF post.accepted \in {Nobody, r} THEN {} ELSE AcceptedNews(post.accepted)
           e == Event(replies[r].author, Author, "accepted", r)
           new == IF post.accepted = r THEN {} ELSE {e}
<1>0. ForumTypeOK /\ r # Nobody
  BY ForumAssumption DEF ForumIInv
<1>1. /\ Public /\ Live(r) /\ post' = [post EXCEPT !.accepted = r, !.state = "resolved"]
      /\ unread' = (unread \ old) \cup Delivered(new) /\ seen' = seen \ old
      /\ UNCHANGED <<replies, likes, favorites, reports, teaches, retired>>
  BY DEF AcceptReply, Withdrawn
<1>2. /\ post'.accepted = r /\ post'.state = "resolved" /\ post'.featuredBy = post.featuredBy
      /\ post' \in [state : PostStates, accepted : Replies \cup {Nobody},
                    featuredBy : Teachers \cup {Nobody}, edited : BOOLEAN]
  BY <1>0, <1>1 DEF ForumTypeOK, PostStates
<1>3. /\ e \in News /\ e.to = replies[r].author /\ e.by = Author /\ e.event = "accepted" /\ e.reply = r
  BY <1>1, ForumAssumption, EventType, EventParts DEF ForumIInv, RepliesWritten
<1> HIDE DEF e
<1>4. post.accepted # r => e \notin unread \cup seen
  BY <1>1, <1>3 DEF ForumIInv, NewsKnown
<1>5. /\ Delivered(new) \subseteq {e}
      /\ post.accepted # r /\ replies[r].author \notin retired \cup {Author} => e \in Delivered(new)
  BY <1>3, <1>4 DEF Delivered
<1>6. \A n \in unread \cup seen :
        n.event = "accepted" /\ post.accepted # Nobody /\ post.accepted # r => n \in old \/ n.reply # post.accepted
  BY DEF AcceptedNews
<1> HIDE DEF old, new
<1>7. ForumTypeOK'
  BY <1>0, <1>1, <1>2, <1>3, <1>5 DEF ForumTypeOK
<1>8. ThreadIsWhole' /\ PostBegins' /\ RepliesWritten'
  BY <1>0, <1>1, <1>2 DEF ForumIInv, ThreadIsWhole, PostBegins, RepliesWritten, Live, Public
<1>9. NewsKnown'
  <2> SUFFICES ASSUME NEW n \in unread' \cup seen'
               PROVE  /\ n.event = "like" => n = LikeOf(n.by) /\ n.by \in likes
                      /\ n.event = "accepted" => /\ n.reply \in Replies
                                                 /\ replies[n.reply].state \in {"active", "deleted"}
                                                 /\ Live(n.reply) => post'.accepted = n.reply
    BY <1>1 DEF NewsKnown, LikeOf, Event, Live
  <2>1. CASE n = e
    BY <1>1, <1>2, <1>3, <2>1 DEF Live
  <2>2. CASE n \in (unread \cup seen) \ old
    <3>1. /\ n.event = "like" => n = LikeOf(n.by) /\ n.by \in likes
          /\ n.event = "accepted" => /\ n.reply \in Replies
                                     /\ replies[n.reply].state \in {"active", "deleted"}
                                     /\ Live(n.reply) => post.accepted = n.reply
      BY <2>2 DEF ForumIInv, NewsKnown
    <3>2. n.event = "accepted" /\ Live(n.reply) => n.reply = r
      BY <1>0, <1>6, <2>2, <3>1, ForumAssumption
    <3> QED BY <1>2, <3>1, <3>2
  <2> QED BY <1>1, <1>5, <2>1, <2>2
<1>10. NewsCurrent'
  <2> SUFFICES ASSUME NEW n \in unread'
               PROVE  /\ Public'
                      /\ n.reply # Nobody => Live(n.reply)
                      /\ n.event = "featured" => post'.featuredBy = n.by
    BY <1>1 DEF NewsCurrent, Live
  <2>1. Public'
    BY <1>2 DEF Public
  <2>2. CASE n = e
    BY <1>1, <1>3, <2>1, <2>2
  <2>3. CASE n \in unread
    BY <1>2, <2>1, <2>3 DEF ForumIInv, NewsCurrent
  <2> QED BY <1>1, <1>5, <2>2, <2>3
<1>11. TellsNewFacts
  <2>1. replies[r].author \notin retired \cup {Author} /\ post.accepted # r =>
          Event(replies[r].author, Author, "accepted", r) \in unread'
    BY <1>1, <1>5 DEF e
  <2> QED BY <1>1, <1>2, <2>1 DEF TellsNewFacts
<1> QED BY <1>7, <1>8, <1>9, <1>10, <1>11 DEF ForumIInv

\* FeaturePost: another teacher's selection replaces the rows of the previous one.
LEMMA FeaturePostKeeps ==
  ASSUME ForumIInv, NEW t \in Teachers, FeaturePost(t)
  PROVE  ForumIInv' /\ TellsNewFacts
<1> DEFINE e == Event(Author, t, "featured", Nobody)
<1>0. ForumTypeOK /\ t \in Members /\ t # Nobody
  BY ForumAssumption DEF ForumIInv
<1>1. /\ Public /\ post' = [post EXCEPT !.featuredBy = t]
      /\ UNCHANGED <<replies, likes, favorites, reports, teaches, retired>>
  BY DEF FeaturePost
<1>2. /\ post'.accepted = post.accepted /\ post'.state = post.state /\ post'.featuredBy = t
      /\ post' \in [state : PostStates, accepted : Replies \cup {Nobody},
                    featuredBy : Teachers \cup {Nobody}, edited : BOOLEAN]
  BY <1>0, <1>1 DEF ForumTypeOK
<1>3. /\ e \in News /\ e.by = t /\ e.event = "featured" /\ e.reply = Nobody
  BY <1>0, ForumAssumption, EventType, EventParts
<1>4. /\ unread' \subseteq unread \cup {e} /\ seen' \subseteq seen
      /\ post.featuredBy # t =>
           /\ \A n \in unread' : n.event = "featured" => n = e
           /\ Author \notin retired => e \in unread'
  BY <1>3 DEF FeaturePost, Withdrawn, FeaturedNews
<1>5. ForumTypeOK' /\ ThreadIsWhole' /\ PostBegins' /\ RepliesWritten'
  BY <1>0, <1>1, <1>2, <1>3, <1>4
     DEF ForumIInv, ForumTypeOK, ThreadIsWhole, PostBegins, RepliesWritten, Live, Public
<1>6. TellsNewFacts
  BY <1>1, <1>2, <1>4 DEF TellsNewFacts
<1> HIDE DEF e
<1>7. NewsKnown'
  <2> SUFFICES ASSUME NEW n \in unread' \cup seen'
               PROVE  /\ n.event = "like" => n = LikeOf(n.by) /\ n.by \in likes
                      /\ n.event = "accepted" => /\ n.reply \in Replies
                                                 /\ replies[n.reply].state \in {"active", "deleted"}
                                                 /\ Live(n.reply) => post.accepted = n.reply
    BY <1>1, <1>2 DEF NewsKnown, LikeOf, Event, Live
  <2>1. CASE n = e
    BY <1>3, <2>1
  <2>2. CASE n \in unread \cup seen
    BY <2>2 DEF ForumIInv, NewsKnown
  <2> QED BY <1>4, <2>1, <2>2
<1>8. NewsCurrent'
  <2> SUFFICES ASSUME NEW n \in unread'
               PROVE  /\ Public
                      /\ n.reply # Nobody => Live(n.reply)
                      /\ n.event = "featured" => t = n.by
    BY <1>1, <1>2 DEF NewsCurrent, Public, Live
  <2>1. CASE n = e
    BY <1>1, <1>3, <2>1
  <2>2. CASE n \in unread /\ n # e
    BY <1>1, <1>4, <2>2 DEF ForumIInv, NewsCurrent
  <2> QED BY <1>4, <2>1, <2>2
<1> QED BY <1>5, <1>6, <1>7, <1>8 DEF ForumIInv

\* UnfeaturePost: the rows of the selection go.
LEMMA UnfeaturePostKeeps ==
  ASSUME ForumIInv, NEW t \in Teachers, UnfeaturePost(t)
  PROVE  ForumIInv' /\ TellsNewFacts
<1>0. ForumTypeOK
  BY DEF ForumIInv
<1>1. /\ post' = [post EXCEPT !.featuredBy = Nobody]
      /\ unread' \subseteq unread /\ seen' \subseteq seen /\ \A n \in unread' : n.event # "featured"
      /\ UNCHANGED <<replies, likes, favorites, reports, teaches, retired>>
  BY DEF UnfeaturePost, Withdrawn, FeaturedNews
<1>2. /\ post'.accepted = post.accepted /\ post'.state = post.state /\ post'.featuredBy = Nobody
      /\ post' \in [state : PostStates, accepted : Replies \cup {Nobody},
                    featuredBy : Teachers \cup {Nobody}, edited : BOOLEAN]
  BY <1>0, <1>1 DEF ForumTypeOK
<1>3. ForumTypeOK' /\ ThreadIsWhole' /\ PostBegins' /\ RepliesWritten'
  BY <1>0, <1>1, <1>2
     DEF ForumIInv, ForumTypeOK, ThreadIsWhole, PostBegins, RepliesWritten, Live, Public
<1>4. NewsKnown'
  <2> SUFFICES ASSUME NEW n \in unread \cup seen
               PROVE  /\ n.event = "like" => n = LikeOf(n.by) /\ n.by \in likes
                      /\ n.event = "accepted" => /\ n.reply \in Replies
                                                 /\ replies[n.reply].state \in {"active", "deleted"}
                                                 /\ Live(n.reply) => post.accepted = n.reply
    BY <1>1, <1>2 DEF NewsKnown, LikeOf, Event, Live
  <2> QED BY DEF ForumIInv, NewsKnown
<1>5. NewsCurrent'
  BY <1>1, <1>2 DEF ForumIInv, NewsCurrent, Public, Live
<1>6. TellsNewFacts
  BY <1>1, <1>2 DEF TellsNewFacts
<1> QED BY <1>3, <1>4, <1>5, <1>6 DEF ForumIInv

------------------------------------------------------------------------------
(* The invariant and what follows from it.                                 *)

\* The first state satisfies it.
LEMMA ForumBegins ==
  ASSUME ForumInit
  PROVE  ForumIInv
<1>1. post \in [state : PostStates, accepted : Replies \cup {Nobody},
                featuredBy : Teachers \cup {Nobody}, edited : BOOLEAN]
      /\ post.state = "none" /\ post.accepted = Nobody
  BY DEF ForumInit, NoPost, PostStates
<1>2. /\ replies \in [Replies -> [state : {"none", "active", "deleted", "gone"}, author : Members \cup {Nobody},
                                  parent : Replies \cup {Nobody}, edited : BOOLEAN]]
      /\ \A r \in Replies : ~Live(r)
  BY DEF ForumInit, NoReply, Live
<1>3. ForumTypeOK
  BY <1>1, <1>2 DEF ForumInit, ForumTypeOK
<1>4. ThreadIsWhole /\ PostBegins /\ RepliesWritten
  BY <1>1, <1>2 DEF ThreadIsWhole, PostBegins, RepliesWritten, Public
<1>5. NewsKnown /\ NewsCurrent
  BY DEF ForumInit, NewsKnown, NewsCurrent
<1> QED BY <1>3, <1>4, <1>5 DEF ForumIInv

\* Every step keeps it, and tells what it has to tell.
LEMMA ForumStep ==
  ASSUME ForumIInv, [ForumNext]_forumVars
  PROVE  ForumIInv' /\ [TellsNewFacts]_forumVars
<1>1. CASE CreatePost
  BY <1>1, CreatePostKeeps
<1>2. CASE \E u \in Members : DeletePost(u)
  BY <1>2, DeletePostKeeps
<1>3. CASE RestorePost \/ HardDeletePost
  BY <1>3, RestorePostKeeps, HardDeletePostKeeps
<1>4. CASE \E r \in Replies, u \in Members, p \in Replies \cup {Nobody}, m \in SUBSET Mentionable :
             CreateReply(r, u, p, m)
  BY <1>4, CreateReplyKeeps
<1>5. CASE \E r \in Replies : AcceptReply(r)
  BY <1>5, AcceptReplyKeeps
<1>6. CASE \E r \in Replies, u \in Members : DeleteReply(r, u)
  BY <1>6, DeleteReplyKeeps
<1>7. CASE \E u \in Members : LikePost(u) \/ UnlikePost(u)
  BY <1>7, LikePostKeeps, UnlikePostKeeps
<1>8. CASE \E t \in Teachers : FeaturePost(t) \/ UnfeaturePost(t)
  BY <1>8, FeaturePostKeeps, UnfeaturePostKeeps
<1>9. CASE \/ UpdatePost \/ ResolveReport \/ MarkNotificationRead \/ ClassChanges \/ AccountChanges
           \/ \E r \in Replies : UpdateReply(r)
           \/ \E u \in Members : SetPostFavorite(u) \/ MarkNotificationsRead(u)
           \/ \E u \in Members, x \in Targets : CreateReport(u, x)
  BY <1>9, QuietActions, QuietKeeps
<1>10. CASE UNCHANGED forumVars
  BY <1>10 DEF forumVars, ForumIInv, ForumTypeOK, ThreadIsWhole, PostBegins, RepliesWritten, NewsKnown,
               NewsCurrent, Public, Live, LikeOf
<1> QED BY <1>1, <1>2, <1>3, <1>4, <1>5, <1>6, <1>7, <1>8, <1>9, <1>10 DEF ForumNext

\* The inductive invariant of the forum.
THEOREM ForumInvariant == ForumSpec => []ForumIInv
<1>1. ForumInit => ForumIInv
  BY ForumBegins
<1>2. ForumIInv /\ [ForumNext]_forumVars => ForumIInv'
  BY ForumStep
<1> QED BY <1>1, <1>2, PTL DEF ForumSpec

\* The rows of the forum keep their types.
THEOREM ForumTypeCorrect == ForumSpec => []ForumTypeOK
<1>1. ForumIInv => ForumTypeOK
  BY DEF ForumIInv
<1> QED BY <1>1, ForumInvariant, PTL

\* What the invariant says of the thread and its news.
LEMMA ForumFacts == ForumIInv => ForumAgrees
<1> SUFFICES ASSUME ForumIInv PROVE ForumAgrees
  OBVIOUS
<1>1. UnreadIsCurrent
  <2> SUFFICES ASSUME NEW n \in unread
               PROVE  Counts(n) \/ (n.event = "featured" /\ n.by \notin teaches)
    BY DEF UnreadIsCurrent
  <2>1. Public /\ (n.reply # Nobody => Live(n.reply)) /\ (n.event = "featured" => post.featuredBy = n.by)
    BY DEF ForumIInv, NewsCurrent
  <2>2. /\ n.event = "like" => n.by \in likes
        /\ n.event = "accepted" => n.reply \in Replies /\ (Live(n.reply) => post.accepted = n.reply)
    BY DEF ForumIInv, NewsKnown
  <2>3. n.event = "accepted" => post.accepted = n.reply
    BY <2>1, <2>2, ForumAssumption
  <2> QED BY <2>1, <2>2, <2>3 DEF Counts
<1> QED BY <1>1 DEF ForumIInv, ForumAgrees

\* A thread stays whole and an unread notification is about something that still holds,
\* in whatever order replies are accepted and deleted, posts hidden, moderated and restored.
THEOREM ForumStaysWhole == ForumSpec => []ForumAgrees
BY ForumFacts, ForumInvariant, PTL

\* A like, an acceptance or a selection that was withdrawn and made again reaches its
\* recipient as something new.
THEOREM NewFactsStayTold == ForumSpec => NewFactsAreTold
<1>1. ForumIInv /\ [ForumNext]_forumVars => [TellsNewFacts]_forumVars
  BY ForumStep
<1>2. ForumSpec => [][TellsNewFacts]_forumVars
  BY <1>1, ForumInvariant, PTL DEF ForumSpec
<1> QED BY <1>2 DEF NewFactsAreTold, TellsNewFacts

-----------------------------------------------------------------------------
(* Providers, models and the model that embeds (AIChannels).               *)

Revisions == 0..MaxRevision
RowStates == {"none", "live", "gone"}
ProviderRow == [state : RowStates, active : BOOLEAN, rev : Revisions]
ModelRow == [state : RowStates, provider : Providers \cup {Nil}, key : Keys \cup {Nil},
             active : BOOLEAN, default : BOOLEAN, code : {0, 1}, rev : Revisions]
AgentRow == [set : BOOLEAN, key : Keys \cup {Nil}, model : Models \cup {Nil}]
SourceRow == [model : Models \cup Keys \cup {Nil}, code : {0, 1}, modelRev : Revisions, providerRev : Revisions]
Doings == {"nothing", "creating", "setting", "cleared", "mapping", "probing"}
OperatorRow == [doing : Doings, model : Models \cup {Nil}, flag : BOOLEAN, snapshot : SourceRow]
ChannelRows ==
  /\ providers \in [Providers -> ProviderRow] /\ models \in [Models -> ModelRow]
  /\ agentConfig \in AgentRow /\ embedding \in SourceRow /\ embedding.model \in Models \cup {Nil}
  /\ operators \in [Operators -> OperatorRow] /\ overlapped \in BOOLEAN

\* A model lives only while its provider does.
ModelsAreUp == \A m \in Models : models[m].state = "live" =>
                 models[m].provider \in Providers /\ ChannelUp(models[m].provider)

\* A request knows the model it is about; one that creates a model is alone with its row.
RequestsFit ==
  \A o \in Operators :
    /\ ~Free(o) => operators[o].model \in Models
    /\ Working(o, "probing") => operators[o].snapshot.model \in Models
    /\ Working(o, "mapping") => operators[o].snapshot.model \in Keys
    /\ Working(o, "creating") =>
         /\ models[operators[o].model].state = "none" /\ models[operators[o].model].provider \in Providers
         /\ \A x \in Operators \ {o} : operators[x].model # operators[o].model

\* Short of an overlap one request at most chooses a default, a provider has no second default,
\* and none at all once the request has cleared it.
IsDefault(m) == models[m].state = "live" /\ models[m].default = TRUE
OneChooser == \A o, x \in Operators : o \in Choosing /\ x \in Choosing => o = x
DefaultsAgree ==
  \A x, y \in Models : IsDefault(x) /\ IsDefault(y) /\ models[x].provider = models[y].provider => x = y
ClearedIsClear ==
  \A o \in Operators, x \in Models :
    Working(o, "cleared") /\ models[operators[o].model].state = "live" /\ IsDefault(x)
      => models[x].provider # models[operators[o].model].provider
ChoicesFit == overlapped = FALSE => OneChooser /\ DefaultsAgree /\ ClearedIsClear

ChannelInv == ChannelRows /\ ModelsAreUp /\ RequestsFit /\ EmbeddingKeepsItsSource /\ ChoicesFit

-----------------------------------------------------------------------------
(* What the rows are made of.                                               *)

\* Rows that stand for nothing.
LEMMA NullRows ==
  /\ NoModel \in ModelRow /\ NoModel.state = "none" /\ NoConfig \in AgentRow
  /\ NoEmbedding \in SourceRow /\ NoEmbedding.model = Nil
  /\ Rest \in OperatorRow /\ Rest.doing = "nothing" /\ Rest.model = Nil
<1>1. MaxRevision \in Nat /\ 0 \in Revisions
  BY ChannelAssumption DEF Revisions
<1>2. /\ NoModel \in ModelRow /\ NoModel.state = "none" /\ NoConfig \in AgentRow
      /\ NoEmbedding \in SourceRow /\ NoEmbedding.model = Nil
  BY <1>1 DEF NoModel, ModelRow, RowStates, NoConfig, AgentRow, NoEmbedding, SourceRow
<1>3. Rest \in OperatorRow /\ Rest.doing = "nothing" /\ Rest.model = Nil
  BY <1>2 DEF Rest, OperatorRow, Doings
<1> QED BY <1>2, <1>3

\* A model deleted, a model created.
LEMMA GoneRow ==
  [NoModel EXCEPT !.state = "gone"] \in ModelRow /\ [NoModel EXCEPT !.state = "gone"].state = "gone"
<1> DEFINE row == NoModel
<1>1. row \in ModelRow
  BY NullRows
<1> HIDE DEF row
<1>2. [row EXCEPT !.state = "gone"] \in ModelRow /\ [row EXCEPT !.state = "gone"].state = "gone"
  BY <1>1 DEF ModelRow, RowStates
<1> QED BY <1>2 DEF row
\* A model just created.
LEMMA CreatedRow ==
  ASSUME NEW p \in Providers, NEW k \in Keys, NEW on \in BOOLEAN, NEW d \in BOOLEAN
  PROVE  /\ NewModel(p, k, on, d) \in ModelRow /\ NewModel(p, k, on, d).state = "live"
         /\ NewModel(p, k, on, d).provider = p /\ NewModel(p, k, on, d).default = d
<1>1. 0 \in Revisions
  BY ChannelAssumption DEF Revisions
<1> QED BY <1>1 DEF NewModel, ModelRow, RowStates

\* An update raises the revision of the row and leaves the rest of it.
SameModel(row, old) == row.state = old.state /\ row.provider = old.provider /\ row.code = old.code
\* The same model, one revision on.
LEMMA BumpedModel ==
  ASSUME NEW row \in ModelRow
  PROVE  /\ Bumped(row) \in ModelRow /\ SameModel(Bumped(row), row) /\ Bumped(row).default = row.default
<1>1. row.rev \in Revisions /\ MaxRevision \in Nat
  BY ChannelAssumption DEF ModelRow
<1> DEFINE rev == IF row.rev < MaxRevision THEN row.rev + 1 ELSE row.rev
<1>2. rev \in Revisions
  BY <1>1 DEF Revisions
<1>3. Bumped(row) = [row EXCEPT !.rev = rev]
  BY DEF Bumped
<1> HIDE DEF rev
<1> QED BY <1>2, <1>3 DEF ModelRow, SameModel
\* The same provider, one revision on.
LEMMA BumpedProvider ==
  ASSUME NEW row \in ProviderRow
  PROVE  Bumped(row) \in ProviderRow /\ Bumped(row).state = row.state
<1>1. row.rev \in Revisions /\ MaxRevision \in Nat
  BY ChannelAssumption DEF ProviderRow
<1> DEFINE rev == IF row.rev < MaxRevision THEN row.rev + 1 ELSE row.rev
<1>2. rev \in Revisions
  BY <1>1 DEF Revisions
<1>3. Bumped(row) = [row EXCEPT !.rev = rev]
  BY DEF Bumped
<1> HIDE DEF rev
<1> QED BY <1>2, <1>3 DEF ProviderRow

\* A model put aside as the default.
Demoted(row) == Bumped([row EXCEPT !.default = FALSE])
\* The same model, no default any more.
LEMMA DemotedModel ==
  ASSUME NEW row \in ModelRow
  PROVE  Demoted(row) \in ModelRow /\ SameModel(Demoted(row), row) /\ Demoted(row).default = FALSE
<1> DEFINE new == [row EXCEPT !.default = FALSE]
<1>1. new \in ModelRow /\ SameModel(new, row) /\ new.default = FALSE
  BY Zenon DEF ModelRow, SameModel
<1> HIDE DEF new
<1>2. Bumped(new) \in ModelRow /\ SameModel(Bumped(new), new) /\ Bumped(new).default = new.default
  BY <1>1, BumpedModel
<1>3. Demoted(row) = Bumped(new)
  BY DEF Demoted, new
<1> QED BY <1>1, <1>2, <1>3 DEF SameModel

\* Some models go, the others stay.
LEMMA WithoutModelsRows ==
  ASSUME ChannelRows, NEW gone
  PROVE  /\ WithoutModels(gone) \in [Models -> ModelRow]
         /\ \A m \in Models : IF m \in gone THEN WithoutModels(gone)[m].state = "gone"
                              ELSE WithoutModels(gone)[m] = models[m]
<1> DEFINE row == [NoModel EXCEPT !.state = "gone"]
<1>1. row \in ModelRow /\ row.state = "gone"
  BY GoneRow
<1>2. WithoutModels(gone) = [m \in Models |-> IF m \in gone THEN row ELSE models[m]]
  BY DEF WithoutModels
<1> HIDE DEF row
<1> QED BY <1>1, <1>2 DEF ChannelRows

\* The agent's row, without a model that is gone.
LEMMA UnlinkedRow ==
  ASSUME ChannelRows, NEW gone PROVE Unlinked(gone) \in AgentRow
<1>1. [agentConfig EXCEPT !.model = Nil] \in AgentRow
  BY DEF ChannelRows, AgentRow
<1> QED BY <1>1 DEF Unlinked, ChannelRows

-----------------------------------------------------------------------------
(* What the parts of the invariant do not notice.                           *)

\* The rows of the models under creation stay.
LEMMA RequestsStay ==
  ASSUME RequestsFit, operators' = operators,
         \A m \in Models : models[m].state = "none" /\ (\E o \in Operators : operators[o].model = m)
                             => models'[m] = models[m]
  PROVE  RequestsFit'
<1> SUFFICES ASSUME NEW o \in Operators, Working(o, "creating")
             PROVE  /\ models'[operators[o].model].state = "none"
                    /\ models'[operators[o].model].provider \in Providers
  BY DEF RequestsFit, Free, Working
<1>1. operators[o].model \in Models /\ models[operators[o].model].state = "none"
      /\ models[operators[o].model].provider \in Providers
  BY DEF RequestsFit, Free, Working
<1> QED BY <1>1

\* A request moves on; it does not begin to create a model.
LEMMA RequestMoves ==
  ASSUME ChannelRows, RequestsFit, NEW o \in Operators, NEW row \in OperatorRow,
         operators' = [operators EXCEPT ![o] = row],
         row.doing # "creating", row.doing # "nothing" => row.model \in Models,
         row.doing = "probing" => row.snapshot.model \in Models,
         row.doing = "mapping" => row.snapshot.model \in Keys,
         row.model \in {Nil, operators[o].model} \/ models[row.model].state = "live",
         \A m \in Models : models[m].state = "none" /\ (\E x \in Operators \ {o} : operators[x].model = m)
                             => models'[m] = models[m]
  PROVE  RequestsFit'
<1>1. /\ operators' \in [Operators -> OperatorRow] /\ operators'[o] = row
      /\ \A x \in Operators \ {o} : operators'[x] = operators[x]
  BY DEF ChannelRows
<1>2. ASSUME NEW x \in Operators, x # o, Working(x, "creating")
      PROVE  /\ models'[operators[x].model].state = "none"
             /\ models'[operators[x].model].provider \in Providers
             /\ \A y \in Operators \ {x} : operators'[y].model # operators[x].model
  <2>1. /\ operators[x].model \in Models /\ models[operators[x].model].state = "none"
        /\ models[operators[x].model].provider \in Providers
        /\ \A y \in Operators \ {x} : operators[y].model # operators[x].model
    BY <1>2 DEF RequestsFit, Free, Working
  <2>2. models'[operators[x].model] = models[operators[x].model]
    BY <1>2, <2>1
  <2>3. row.model # operators[x].model
    BY <1>2, <2>1, ChannelAssumption
  <2> QED BY <1>1, <2>1, <2>2, <2>3
<1>3. ASSUME NEW x \in Operators, x # o
      PROVE  /\ operators'[x].doing # "nothing" => operators'[x].model \in Models
             /\ operators'[x].doing = "probing" => operators'[x].snapshot.model \in Models
             /\ operators'[x].doing = "mapping" => operators'[x].snapshot.model \in Keys
  BY <1>1, <1>3 DEF RequestsFit, Free, Working
<1> QED BY <1>1, <1>2, <1>3 DEF RequestsFit, Free, Working

\* No default is added, and nobody begins to choose or has just cleared one.
NoNewDefault ==
  \A m \in Models : IsDefault(m)' => IsDefault(m) /\ models'[m].provider = models[m].provider
NoNewChoice ==
  \A o \in Operators :
    /\ o \in Choosing' => o \in Choosing
    /\ operators'[o].doing = "cleared" =>
         /\ operators[o].doing = "cleared" /\ operators'[o].model = operators[o].model
         /\ models'[operators[o].model].state = "live" =>
              /\ models[operators[o].model].state = "live"
              /\ models'[operators[o].model].provider = models[operators[o].model].provider
\* What is chosen stays.
LEMMA ChoicesStay ==
  ASSUME ChoicesFit, overlapped' = overlapped, NoNewDefault, NoNewChoice
  PROVE  ChoicesFit'
<1> SUFFICES ASSUME overlapped' = FALSE PROVE OneChooser' /\ DefaultsAgree' /\ ClearedIsClear'
  BY Zenon DEF ChoicesFit
<1>1. OneChooser /\ DefaultsAgree /\ ClearedIsClear
  BY DEF ChoicesFit
<1>2. OneChooser'
  BY <1>1 DEF OneChooser, NoNewChoice
<1>3. DefaultsAgree'
  BY <1>1 DEF DefaultsAgree, NoNewDefault
<1>4. ClearedIsClear'
  BY <1>1 DEF ClearedIsClear, NoNewDefault, NoNewChoice, Working
<1> QED BY <1>2, <1>3, <1>4

\* Who begins to choose while nobody does has no overlap to fear, and no default is cleared yet.
LEMMA ChoiceBegins ==
  ASSUME ChannelRows, ChoicesFit, BeginChoosing, NEW o,
         \A x \in Operators : x # o => operators'[x] = operators[x],
         o \in Operators => operators'[o].doing # "cleared",
         overlapped = FALSE /\ DefaultsAgree /\ Choosing = {} => DefaultsAgree'
  PROVE  ChoicesFit'
<1> SUFFICES ASSUME overlapped' = FALSE PROVE OneChooser' /\ DefaultsAgree' /\ ClearedIsClear'
  BY Zenon DEF ChoicesFit
<1>1. overlapped \in BOOLEAN /\ overlapped' = (overlapped \/ Choosing # {})
  BY DEF ChannelRows, BeginChoosing
<1>2. overlapped = FALSE /\ Choosing = {}
  BY <1>1, Zenon
<1>3. DefaultsAgree'
  BY <1>2 DEF ChoicesFit
<1>4. \A x \in Operators : x # o => operators'[x].doing \notin {"creating", "setting", "cleared"}
  BY <1>2 DEF Choosing
<1>5. OneChooser'
  BY <1>4 DEF OneChooser, Choosing
<1>6. ClearedIsClear'
  BY <1>4 DEF ClearedIsClear, Working
<1> QED BY <1>3, <1>5, <1>6

\* The model that embeds keeps its row.
LEMMA EmbeddingStays ==
  ASSUME ChannelRows, EmbeddingKeepsItsSource, ModelsAreUp', embedding' = embedding,
         \A m \in Models : m = embedding.model => SameModel(models'[m], models[m])
  PROVE  EmbeddingKeepsItsSource'
<1> SUFFICES ASSUME embedding.model # Nil
             PROVE  /\ models'[embedding.model].state = "live"
                    /\ models'[embedding.model].code = embedding.code
                    /\ providers'[models'[embedding.model].provider].state = "live"
  BY DEF EmbeddingKeepsItsSource, ChannelUp
<1>1. embedding.model \in Models /\ models[embedding.model].state = "live"
      /\ models[embedding.model].code = embedding.code
  BY DEF ChannelRows, EmbeddingKeepsItsSource
<1>2. SameModel(models'[embedding.model], models[embedding.model])
  BY <1>1
<1> QED BY <1>1, <1>2 DEF SameModel, ModelsAreUp, ChannelUp

\* The rows of the models alone are written: each stays the same model, and none becomes a default.
ModelsStay == \A m \in Models : SameModel(models'[m], models[m])
\* A model that lives stays with its provider.
LEMMA ModelsUpStay ==
  ASSUME ModelsAreUp, providers' = providers, ModelsStay
  PROVE  ModelsAreUp'
BY DEF ModelsAreUp, ModelsStay, SameModel, ChannelUp

\* A step of another module.
LEMMA ChannelQuiet == ASSUME ChannelInv, UNCHANGED channelVars PROVE ChannelInv'
<1>1. UNCHANGED <<providers, models, agentConfig, embedding, operators, overlapped>>
  BY DEF channelVars
<1>2. ChannelRows' /\ ModelsAreUp' /\ RequestsFit' /\ EmbeddingKeepsItsSource'
  BY <1>1 DEF ChannelInv, ChannelRows, ModelsAreUp, RequestsFit, EmbeddingKeepsItsSource,
             ChannelUp, Free, Working
<1>3. ChoicesFit'
  <2>1. Choosing' = Choosing
    BY <1>1 DEF Choosing
  <2> QED BY <1>1, <2>1 DEF ChannelInv, ChoicesFit, OneChooser, DefaultsAgree, ClearedIsClear, IsDefault, Working
<1> QED BY <1>2, <1>3 DEF ChannelInv

-----------------------------------------------------------------------------
(* The providers.                                                           *)

\* A provider is created or edited; those that are up stay up.
LEMMA ProviderHolds ==
  ASSUME ChannelInv, NEW p \in Providers, CreateProvider(p) \/ UpdateProvider(p)
  PROVE  ChannelInv'
<1>0. ChannelRows /\ ModelsAreUp
  BY DEF ChannelInv
<1>1. UNCHANGED <<models, agentConfig, embedding, operators, overlapped>>
  BY DEF CreateProvider, UpdateProvider
<1>2. PICK row \in ProviderRow : row.state = "live" /\ providers' = [providers EXCEPT ![p] = row]
  <2>1. CASE CreateProvider(p)
    <3>1. PICK on \in BOOLEAN : providers' = [providers EXCEPT ![p] = [state |-> "live", active |-> on, rev |-> 0]]
      BY <2>1, Zenon DEF CreateProvider
    <3>2. [state |-> "live", active |-> on, rev |-> 0] \in ProviderRow
      BY <3>1, ChannelAssumption DEF ProviderRow, RowStates, Revisions
    <3> QED BY <3>1, <3>2, Zenon
  <2>2. CASE UpdateProvider(p)
    <3>1. providers[p] \in ProviderRow /\ providers[p].state = "live"
      BY <1>0, <2>2 DEF ChannelRows, UpdateProvider, ChannelUp
    <3>2. PICK on \in BOOLEAN :
            providers' = [providers EXCEPT ![p] = Bumped([providers[p] EXCEPT !.active = on])]
      BY <1>0, <2>2, Zenon DEF UpdateProvider, ChannelRows
    <3> DEFINE new == [providers[p] EXCEPT !.active = on]
    <3>3. new \in ProviderRow /\ new.state = "live"
      BY <3>1, <3>2 DEF ProviderRow
    <3>4. Bumped(new) \in ProviderRow /\ Bumped(new).state = "live"
      BY <3>3, BumpedProvider, Zenon
    <3> QED BY <3>2, <3>4, Zenon
  <2> QED BY <2>1, <2>2
<1>3. ChannelRows'
  BY <1>0, <1>1, <1>2 DEF ChannelRows
<1>4. ModelsAreUp'
  BY <1>0, <1>1, <1>2 DEF ModelsAreUp, ChannelUp, ChannelRows
<1>5. EmbeddingKeepsItsSource'
  BY <1>0, <1>1, <1>4, EmbeddingStays DEF ChannelInv, SameModel
<1>6. RequestsFit'
  BY <1>1, RequestsStay DEF ChannelInv
<1>7. ChoicesFit'
  <2>1. Choosing' = Choosing
    BY <1>1 DEF Choosing
  <2> QED BY <1>1, <2>1, ChoicesStay, Zenon DEF ChannelInv, NoNewDefault, NoNewChoice, IsDefault
<1> QED BY <1>3, <1>4, <1>5, <1>6, <1>7 DEF ChannelInv

\* A provider goes with its models, unless one of them embeds.
LEMMA DeleteProviderHolds ==
  ASSUME ChannelInv, NEW p \in Providers, DeleteProvider(p)
  PROVE  ChannelInv'
<1>0. ChannelRows /\ ModelsAreUp /\ ~ProviderInUse(p)
  BY DEF ChannelInv, DeleteProvider
<1>1. UNCHANGED <<embedding, operators, overlapped>> /\ models' = WithoutModels(ModelsOf(p))
  BY DEF DeleteProvider
<1>2. /\ models' \in [Models -> ModelRow]
      /\ \A m \in Models : IF m \in ModelsOf(p) THEN models'[m].state = "gone" ELSE models'[m] = models[m]
  BY <1>0, <1>1, WithoutModelsRows
<1>3. ChannelRows'
  <2>1. agentConfig' \in AgentRow
    BY <1>0, UnlinkedRow DEF DeleteProvider
  <2>2. providers' \in [Providers -> ProviderRow]
    <3>1. [state |-> "gone", active |-> FALSE, rev |-> 0] \in ProviderRow
      BY ChannelAssumption DEF ProviderRow, RowStates, Revisions
    <3> QED BY <1>0, <3>1 DEF DeleteProvider, ChannelRows
  <2> QED BY <1>0, <1>1, <1>2, <2>1, <2>2 DEF ChannelRows
<1>4. \A m \in Models : models'[m].state = "live" =>
        models'[m] = models[m] /\ models[m].state = "live" /\ models[m].provider # p
  BY <1>2 DEF ModelsOf
<1>5. ModelsAreUp'
  <2>1. \A q \in Providers : q # p => providers'[q] = providers[q]
    BY <1>0 DEF DeleteProvider, ChannelRows
  <2> QED BY <1>0, <1>4, <2>1 DEF ModelsAreUp, ChannelUp
<1>6. EmbeddingKeepsItsSource'
  <2>1. \A m \in Models : m = embedding.model => models'[m] = models[m]
    BY <1>0, <1>2 DEF ProviderInUse, EmbeddingUses
  <2> QED BY <1>0, <1>1, <1>5, <2>1, EmbeddingStays DEF ChannelInv, SameModel
<1>7. RequestsFit'
  <2>1. \A m \in Models : models[m].state = "none" => models'[m] = models[m]
    BY <1>2 DEF ModelsOf
  <2> QED BY <1>1, <2>1, RequestsStay DEF ChannelInv
<1>8. ChoicesFit'
  <2>1. Choosing' = Choosing
    BY <1>1 DEF Choosing
  <2>2. NoNewDefault
    BY <1>4 DEF NoNewDefault, IsDefault
  <2>3. NoNewChoice
    <3>1. ASSUME NEW o \in Operators, operators[o].doing = "cleared" PROVE operators[o].model \in Models
      BY <3>1 DEF ChannelInv, RequestsFit, Free
    <3> QED BY <1>1, <1>4, <2>1, <3>1 DEF NoNewChoice
  <2> QED BY <1>1, <2>2, <2>3, ChoicesStay DEF ChannelInv
<1> QED BY <1>3, <1>5, <1>6, <1>7, <1>8 DEF ChannelInv

-----------------------------------------------------------------------------
(* A model is created.                                                      *)

\* The models of the provider are counted.
LEMMA CountsHolds ==
  ASSUME ChannelInv, NEW o \in Operators, NEW m \in Models, NEW p \in Providers, CreateModelCounts(o, m, p)
  PROVE  ChannelInv'
<1>0. /\ ChannelRows /\ ModelsAreUp /\ RequestsFit
      /\ Free(o) /\ models[m].state = "none" /\ \A x \in Operators : operators[x].model # m
  BY DEF ChannelInv, CreateModelCounts
<1>1. UNCHANGED <<providers, agentConfig, embedding>> /\ BeginChoosing
      /\ models' = [models EXCEPT ![m].provider = p]
  BY DEF CreateModelCounts
<1>2. PICK row \in OperatorRow : /\ row.doing = "creating" /\ row.model = m
                                 /\ operators' = [operators EXCEPT ![o] = row]
  <2>1. PICK flag : flag \in BOOLEAN /\ Becomes(o, [Rest EXCEPT !.doing = "creating", !.model = m, !.flag = flag])
    BY Zenon DEF CreateModelCounts
  <2> DEFINE rest == Rest
  <2>2. rest \in OperatorRow
    BY NullRows
  <2> HIDE DEF rest
  <2> DEFINE new == [rest EXCEPT !.doing = "creating", !.model = m, !.flag = flag]
  <2>3. new \in OperatorRow /\ new.doing = "creating" /\ new.model = m
    BY <2>1, <2>2, Zenon DEF OperatorRow, Doings
  <2>4. operators' = [operators EXCEPT ![o] = new]
    BY <2>1 DEF Becomes, rest
  <2> QED BY <2>3, <2>4, Zenon
<1>3. PICK born \in ModelRow : /\ born.state = "none" /\ born.provider = p /\ born.code = models[m].code
                               /\ models' = [models EXCEPT ![m] = born]
  <2>1. models[m] \in ModelRow
    BY <1>0 DEF ChannelRows
  <2> DEFINE new == [models[m] EXCEPT !.provider = p]
  <2>2. new \in ModelRow /\ new.state = "none" /\ new.provider = p /\ new.code = models[m].code
    BY <1>0, <2>1 DEF ModelRow
  <2>3. models' = [models EXCEPT ![m] = new]
    BY <1>0, <1>1 DEF ChannelRows
  <2> QED BY <2>2, <2>3, Zenon
<1>4. /\ operators' \in [Operators -> OperatorRow] /\ operators'[o] = row
      /\ \A x \in Operators \ {o} : operators'[x] = operators[x]
  BY <1>0, <1>2 DEF ChannelRows
<1>5. /\ models' \in [Models -> ModelRow] /\ models'[m] = born
      /\ \A x \in Models \ {m} : models'[x] = models[x]
  BY <1>0, <1>3 DEF ChannelRows
<1>6. ChannelRows'
  <2>1. overlapped' \in BOOLEAN
    BY <1>1, Zenon DEF BeginChoosing
  <2> QED BY <1>0, <1>1, <1>4, <1>5, <2>1 DEF ChannelRows
<1>7. ModelsAreUp'
  BY <1>0, <1>1, <1>3, <1>5 DEF ModelsAreUp, ChannelUp
<1>8. EmbeddingKeepsItsSource'
  <2>1. \A x \in Models : x = embedding.model => x # m
    BY <1>0, ChannelAssumption DEF ChannelInv, EmbeddingKeepsItsSource
  <2> QED BY <1>0, <1>1, <1>5, <1>7, <2>1, EmbeddingStays DEF ChannelInv, SameModel
<1>9. RequestsFit'
  <2>1. ASSUME NEW x \in Operators, x # o, Working(x, "creating")
        PROVE  /\ models'[operators[x].model].state = "none" /\ models'[operators[x].model].provider \in Providers
               /\ \A y \in Operators \ {x} : operators'[y].model # operators[x].model
    <3>1. /\ operators[x].model \in Models /\ models[operators[x].model].state = "none"
          /\ models[operators[x].model].provider \in Providers /\ operators[x].model # m
          /\ \A y \in Operators \ {x} : operators[y].model # operators[x].model
      BY <1>0, <2>1 DEF RequestsFit, Free, Working
    <3>2. models'[operators[x].model] = models[operators[x].model]
      BY <1>5, <3>1
    <3> QED BY <1>2, <1>4, <3>1, <3>2
  <2>2. ASSUME NEW x \in Operators, x # o
        PROVE  /\ operators'[x].doing # "nothing" => operators'[x].model \in Models
               /\ operators'[x].doing = "probing" => operators'[x].snapshot.model \in Models
               /\ operators'[x].doing = "mapping" => operators'[x].snapshot.model \in Keys
    BY <1>0, <1>4, <2>2 DEF RequestsFit, Free, Working
  <2>3. /\ operators'[o].doing = "creating" /\ operators'[o].model = m
        /\ models'[m].state = "none" /\ models'[m].provider \in Providers
        /\ \A y \in Operators \ {o} : operators'[y].model # m
    BY <1>0, <1>2, <1>3, <1>4, <1>5
  <2> QED BY <1>4, <2>1, <2>2, <2>3 DEF RequestsFit, Free, Working
<1>10. ChoicesFit'
  <2>1. \A x \in Models : IsDefault(x)' => IsDefault(x) /\ models'[x] = models[x]
    BY <1>3, <1>5 DEF IsDefault
  <2>2. DefaultsAgree => DefaultsAgree'
    BY <2>1 DEF DefaultsAgree
  <2>3. operators'[o].doing # "cleared"
    BY <1>2, <1>4
  <2> QED BY <1>0, <1>1, <1>4, <2>2, <2>3, ChoiceBegins, Zenon DEF ChannelInv
<1> QED BY <1>6, <1>7, <1>8, <1>9, <1>10 DEF ChannelInv

\* It is inserted while its provider is there; the others are put aside if it is to be the default.
LEMMA InsertsHolds ==
  ASSUME ChannelInv, NEW o \in Operators, CreateModelInserts(o)
  PROVE  ChannelInv'
<1>0. ChannelRows /\ ModelsAreUp /\ RequestsFit /\ Working(o, "creating")
  BY DEF ChannelInv, CreateModelInserts
<1>1. UNCHANGED <<providers, agentConfig, embedding, overlapped>> /\ operators' = [operators EXCEPT ![o] = Rest]
  BY DEF CreateModelInserts, Becomes
<1>2. PICK m \in Models : m = operators[o].model
  BY <1>0 DEF RequestsFit, Free, Working
<1>3. PICK p \in Providers : p = models[m].provider
  BY <1>0, <1>2 DEF RequestsFit, Working
<1>4. models[m].state = "none" /\ \A x \in Operators \ {o} : operators[x].model # m
  BY <1>0, <1>2 DEF RequestsFit, Working
<1>5. /\ operators' \in [Operators -> OperatorRow] /\ operators'[o] = Rest
      /\ \A x \in Operators \ {o} : operators'[x] = operators[x]
  BY <1>0, <1>1, NullRows DEF ChannelRows
<1>6. /\ models' \in [Models -> ModelRow]
      /\ \A x \in Models \ {m} : SameModel(models'[x], models[x])
      /\ \A x \in Models : models[x].state # "live" /\ x # m => models'[x] = models[x]
      /\ models'[m].state = "live" => models'[m].provider = p /\ ChannelUp(p)
      /\ \A x \in Models \ {m} : IsDefault(x)' => IsDefault(x)
      /\ \A x \in Models \ {m} : IsDefault(x)' /\ IsDefault(m)' => models[x].provider # p
  <2> DEFINE m0 == operators[o].model
             p0 == models[m0].provider
             demoted == [x \in Models |-> IF operators[o].flag /\ x \in ModelsOf(p0)
                                           THEN Demoted(models[x]) ELSE models[x]]
  <2>1. PICK k \in Keys, on \in BOOLEAN :
          models' = IF ChannelUp(p0) THEN [demoted EXCEPT ![m0] = NewModel(p0, k, on, operators[o].flag)]
                    ELSE [models EXCEPT ![m0] = NoModel]
    BY DEF CreateModelInserts, Demoted
  <2>a. \A x \in Models : demoted[x] = IF operators[o].flag /\ x \in ModelsOf(p0)
                                         THEN Demoted(models[x]) ELSE models[x]
    OBVIOUS
  <2>b. DOMAIN demoted = Models /\ demoted = [x \in Models |-> demoted[x]]
    OBVIOUS
  <2>c. m0 = m /\ p0 = p
    BY <1>2, <1>3
  <2> HIDE DEF m0, p0, demoted
  <2>2. CASE ~ChannelUp(p)
    <3>1. models' = [models EXCEPT ![m] = NoModel]
      BY <2>1, <2>2, <2>c
    <3>2. models' \in [Models -> ModelRow] /\ models'[m] = NoModel /\ \A x \in Models \ {m} : models'[x] = models[x]
      BY <1>0, <3>1, NullRows DEF ChannelRows
    <3> QED BY <3>2, NullRows DEF SameModel, IsDefault
  <2>3. CASE ChannelUp(p)
    <3>1. operators[o].flag \in BOOLEAN
      BY <1>0 DEF ChannelRows, OperatorRow
    <3>2. PICK flag \in BOOLEAN : flag = operators[o].flag
      BY <3>1
    <3> DEFINE born == NewModel(p, k, on, flag)
    <3>3. born \in ModelRow /\ born.state = "live" /\ born.provider = p /\ born.default = flag
      BY <3>2, <2>1, CreatedRow
    <3>4. models' = [demoted EXCEPT ![m] = born]
      BY <2>1, <2>3, <2>c, <3>2
    <3>5. \A x \in Models : Demoted(models[x]) \in ModelRow /\ SameModel(Demoted(models[x]), models[x])
                            /\ Demoted(models[x]).default = FALSE
      BY <1>0, DemotedModel DEF ChannelRows
    <3>7. \A x \in Models : demoted[x] = IF flag /\ x \in ModelsOf(p) THEN Demoted(models[x]) ELSE models[x]
      BY <2>a, <2>c, <3>2
    <3>6. demoted \in [Models -> ModelRow]
      <4>1. \A x \in Models : demoted[x] \in ModelRow
        BY <1>0, <3>5, <3>7 DEF ChannelRows
      <4> QED BY <2>b, <4>1
    <3> HIDE DEF born
    <3>8. /\ models' \in [Models -> ModelRow] /\ models'[m] = born
          /\ \A x \in Models \ {m} : models'[x] = demoted[x]
      BY <3>3, <3>4, <3>6
    <3>9. \A x \in Models \ {m} : models'[x] = models[x] \/ (models'[x] = Demoted(models[x]) /\ x \in ModelsOf(p))
      BY <3>7, <3>8
    <3>10. \A x \in Models \ {m} : flag = TRUE /\ x \in ModelsOf(p) => models'[x] = Demoted(models[x])
      BY <3>7, <3>8
    <3>11. \A x \in Models \ {m} : SameModel(models'[x], models[x])
      BY <3>5, <3>9 DEF SameModel
    <3>12. \A x \in Models : models[x].state # "live" /\ x # m => models'[x] = models[x]
      BY <3>9 DEF ModelsOf
    <3>13. \A x \in Models \ {m} : IsDefault(x)' => IsDefault(x)
      BY <3>5, <3>9, <3>11 DEF IsDefault, SameModel
    <3>14. ASSUME NEW x \in Models \ {m}, IsDefault(x)', IsDefault(m)', models[x].provider = p PROVE FALSE
      <4>1. x \in ModelsOf(p)
        BY <3>14, <3>13 DEF IsDefault, ModelsOf
      <4>2. flag = TRUE
        BY <3>3, <3>8, <3>14 DEF IsDefault
      <4>3. models'[x].default = FALSE
        BY <3>5, <3>10, <4>1, <4>2
      <4> QED BY <3>14, <4>3 DEF IsDefault
    <3> QED BY <2>3, <3>3, <3>8, <3>11, <3>12, <3>13, <3>14
  <2> QED BY <2>2, <2>3
<1>7. ChannelRows'
  BY <1>0, <1>1, <1>5, <1>6 DEF ChannelRows
<1>8. ModelsAreUp'
  BY <1>0, <1>1, <1>6 DEF ModelsAreUp, ChannelUp, SameModel
<1>9. EmbeddingKeepsItsSource'
  <2>1. \A x \in Models : x = embedding.model => x # m
    BY <1>4, ChannelAssumption DEF ChannelInv, EmbeddingKeepsItsSource
  <2> QED BY <1>0, <1>1, <1>6, <1>8, <2>1, EmbeddingStays DEF ChannelInv
<1>10. RequestsFit'
  <2>1. \A x \in Models : models[x].state = "none" /\ (\E y \in Operators \ {o} : operators[y].model = x)
                            => models'[x] = models[x]
    BY <1>4, <1>6
  <2> QED BY <1>0, <1>1, <2>1, NullRows, RequestMoves, Zenon
<1>11. ChoicesFit'
  <2> SUFFICES ASSUME overlapped = FALSE PROVE OneChooser' /\ DefaultsAgree' /\ ClearedIsClear'
    BY <1>1, Zenon DEF ChoicesFit
  <2>1. \A x \in Operators \ {o} : operators'[x].doing \notin {"creating", "setting", "cleared"}
    BY <1>0, <1>5 DEF ChannelInv, ChoicesFit, OneChooser, Choosing, Working
  <2>2. operators'[o].doing = "nothing"
    BY <1>5, NullRows
  <2>3. OneChooser' /\ ClearedIsClear'
    BY <2>1, <2>2 DEF OneChooser, Choosing, ClearedIsClear, Working
  <2>4. DefaultsAgree
    BY DEF ChannelInv, ChoicesFit
  <2>5. ASSUME NEW x \in Models, NEW y \in Models, IsDefault(x)', IsDefault(y)',
               models'[x].provider = models'[y].provider
        PROVE  x = y
    <3>1. \A z \in Models \ {m} : models'[z].provider = models[z].provider
      BY <1>6 DEF SameModel
    <3>2. CASE x # m /\ y # m
      BY <1>6, <2>4, <2>5, <3>1, <3>2 DEF DefaultsAgree
    <3>3. CASE x = m /\ y # m
      BY <1>6, <2>5, <3>1, <3>3 DEF IsDefault
    <3>4. CASE x # m /\ y = m
      BY <1>6, <2>5, <3>1, <3>4 DEF IsDefault
    <3> QED BY <3>2, <3>3, <3>4
  <2>6. DefaultsAgree'
    BY <2>5 DEF DefaultsAgree
  <2> QED BY <2>3, <2>6
<1> QED BY <1>7, <1>8, <1>9, <1>10, <1>11 DEF ChannelInv

-----------------------------------------------------------------------------
(* A model is edited or deleted.                                            *)

\* A model is edited; one that embeds keeps its name.
LEMMA UpdateModelHolds ==
  ASSUME ChannelInv, NEW m \in Models, UpdateModel(m)
  PROVE  ChannelInv'
<1>0. ChannelRows /\ ModelsAreUp /\ RequestsFit /\ models[m] \in ModelRow /\ models[m].state = "live"
  BY DEF ChannelInv, UpdateModel, ChannelRows
<1>1. UNCHANGED <<providers, agentConfig, embedding, operators, overlapped>>
  BY DEF UpdateModel
<1>2. PICK row \in ModelRow :
        /\ row.state = "live" /\ row.provider = models[m].provider /\ row.default = models[m].default
        /\ row.code # models[m].code => embedding.model # m
        /\ models' = [models EXCEPT ![m] = row]
  <2>1. PICK k \in Keys, on \in BOOLEAN, c \in {0, 1} :
          /\ c # models[m].code => ~ EmbeddingUses(m)
          /\ models' = [models EXCEPT ![m] = Bumped([models[m] EXCEPT !.key = k, !.active = on, !.code = c])]
    BY <1>0, Zenon DEF UpdateModel, ChannelRows
  <2> DEFINE new == [models[m] EXCEPT !.key = k, !.active = on, !.code = c]
  <2>2. /\ new \in ModelRow /\ new.state = "live" /\ new.provider = models[m].provider
        /\ new.default = models[m].default /\ new.code = c
    BY <1>0, <2>1, Zenon DEF ModelRow
  <2>3. models' = [models EXCEPT ![m] = Bumped(new)]
    BY <2>1
  <2> HIDE DEF new
  <2>4. Bumped(new) \in ModelRow /\ SameModel(Bumped(new), new) /\ Bumped(new).default = new.default
    BY <2>2, BumpedModel
  <2> QED BY <2>1, <2>2, <2>3, <2>4, Zenon DEF SameModel, EmbeddingUses
<1>3. /\ models' \in [Models -> ModelRow] /\ models'[m] = row
      /\ \A x \in Models \ {m} : models'[x] = models[x]
  BY <1>0, <1>2 DEF ChannelRows
<1>4. ChannelRows'
  BY <1>0, <1>1, <1>3 DEF ChannelRows
<1>5. \A x \in Models : models'[x].state = models[x].state /\ models'[x].provider = models[x].provider
                        /\ models'[x].default = models[x].default
  BY <1>0, <1>2, <1>3
<1>6. ModelsAreUp'
  BY <1>0, <1>1, <1>5 DEF ModelsAreUp, ChannelUp
<1>7. EmbeddingKeepsItsSource'
  <2>1. \A x \in Models : x = embedding.model => SameModel(models'[x], models[x])
    BY <1>0, <1>2, <1>3 DEF SameModel
  <2> QED BY <1>0, <1>1, <1>6, <2>1, EmbeddingStays DEF ChannelInv
<1>8. RequestsFit'
  BY <1>0, <1>1, <1>3, RequestsStay
<1>9. ChoicesFit'
  <2>1. Choosing' = Choosing
    BY <1>1 DEF Choosing
  <2>2. NoNewDefault
    BY <1>5 DEF NoNewDefault, IsDefault
  <2>3. NoNewChoice
    <3>1. ASSUME NEW x \in Operators, operators[x].doing = "cleared" PROVE operators[x].model \in Models
      BY <1>0, <3>1 DEF RequestsFit, Free
    <3> QED BY <1>1, <1>5, <2>1, <3>1 DEF NoNewChoice
  <2> QED BY <1>1, <2>2, <2>3, ChoicesStay DEF ChannelInv
<1> QED BY <1>4, <1>6, <1>7, <1>8, <1>9 DEF ChannelInv

\* A deleted default leaves the place to one heir at most.
LEMMA DeleteModelHolds ==
  ASSUME ChannelInv, NEW m \in Models, DeleteModel(m)
  PROVE  ChannelInv'
<1>0. ChannelRows /\ ModelsAreUp /\ RequestsFit /\ models[m].state = "live" /\ embedding.model # m
  BY DEF ChannelInv, DeleteModel, EmbeddingUses
<1>1. UNCHANGED <<providers, embedding, operators>> /\ BeginChoosing
  BY DEF DeleteModel
<1>2. PICK p \in Providers : p = models[m].provider
  BY <1>0 DEF ModelsAreUp
<1> DEFINE kept == WithoutModels({m})
<1>3. kept \in [Models -> ModelRow] /\ kept[m].state = "gone" /\ \A x \in Models \ {m} : kept[x] = models[x]
  BY <1>0, WithoutModelsRows
<1> HIDE DEF kept
\* the heir, if there is one
<1>4. \/ models' = kept
      \/ /\ IsDefault(m)
         /\ \E h \in ModelsOf(p) \ {m} : \E row \in ModelRow :
              SameModel(row, models[h]) /\ models' = [kept EXCEPT ![h] = row]
  <2> DEFINE heirs == {x \in ModelsOf(p) \ {m} : models[x].active}
  <2>1. \/ models' = kept
        \/ /\ models[m].default
           /\ \E h \in heirs : models' = [kept EXCEPT ![h] = Bumped([kept[h] EXCEPT !.default = TRUE])]
    BY <1>2, <1>3, Zenon DEF DeleteModel, kept
  <2>2. models[m].default => models[m].default = TRUE
    BY <1>0, Zenon DEF ChannelRows, ModelRow
  <2>3. ASSUME NEW h \in heirs, models' = [kept EXCEPT ![h] = Bumped([kept[h] EXCEPT !.default = TRUE])]
        PROVE  h \in ModelsOf(p) \ {m} /\ \E row \in ModelRow : SameModel(row, models[h]) /\ models' = [kept EXCEPT ![h] = row]
    <3>1. h \in ModelsOf(p) \ {m} /\ h \in Models /\ kept[h] = models[h]
      BY <1>3 DEF ModelsOf
    <3> DEFINE new == [models[h] EXCEPT !.default = TRUE]
    <3>2. models[h] \in ModelRow
      BY <1>0, <3>1 DEF ChannelRows
    <3>3. new \in ModelRow /\ SameModel(new, models[h])
      BY <3>2, Zenon DEF ModelRow, SameModel
    <3>4. models' = [kept EXCEPT ![h] = Bumped(new)]
      BY <2>3, <3>1
    <3> HIDE DEF new
    <3>5. Bumped(new) \in ModelRow /\ SameModel(Bumped(new), models[h])
      BY <3>3, BumpedModel DEF SameModel
    <3> QED BY <3>1, <3>4, <3>5, Zenon
  <2>4. CASE models' = kept
    BY <2>4
  <2>5. CASE models' # kept
    <3>1. models[m].default = TRUE
      BY <2>1, <2>2, <2>5
    <3>2. PICK h \in heirs : models' = [kept EXCEPT ![h] = Bumped([kept[h] EXCEPT !.default = TRUE])]
      BY <2>1, <2>5
    <3> QED BY <1>0, <2>3, <3>1, <3>2, Zenon DEF IsDefault
  <2> QED BY <2>4, <2>5
<1>5. /\ models' \in [Models -> ModelRow] /\ models'[m].state = "gone"
      /\ \A x \in Models \ {m} : SameModel(models'[x], models[x])
      /\ \A x \in Models : models[x].state = "none" => models'[x] = models[x]
      /\ DefaultsAgree => DefaultsAgree'
  <2>1. CASE models' = kept
    <3>1. \A x \in Models : IsDefault(x)' => IsDefault(x) /\ models'[x] = models[x]
      BY <1>3, <2>1 DEF IsDefault
    <3>2. DefaultsAgree => DefaultsAgree'
      BY <3>1 DEF DefaultsAgree
    <3> QED BY <1>0, <1>3, <2>1, <3>2 DEF SameModel
  <2>2. CASE models' # kept
    <3>1. IsDefault(m)
      BY <1>4, <2>2
    <3>2. PICK h \in ModelsOf(p) \ {m} : \E row \in ModelRow : SameModel(row, models[h]) /\ models' = [kept EXCEPT ![h] = row]
      BY <1>4, <2>2
    <3>3. PICK row \in ModelRow : SameModel(row, models[h]) /\ models' = [kept EXCEPT ![h] = row]
      BY <3>2, Zenon
    <3>4. h \in Models /\ h # m /\ models[h].state = "live" /\ models[h].provider = p
      BY DEF ModelsOf
    <3>5. /\ models' \in [Models -> ModelRow] /\ models'[h] = row /\ models'[m].state = "gone"
          /\ \A x \in Models \ {m, h} : models'[x] = models[x]
      BY <1>3, <3>3, <3>4
    <3>6. \A x \in Models \ {m} : SameModel(models'[x], models[x])
      BY <3>3, <3>5 DEF SameModel
    <3>7. \A x \in Models : models[x].state = "none" => models'[x] = models[x]
      BY <1>0, <3>4, <3>5
    <3>8. ASSUME DefaultsAgree, NEW x \in Models, NEW y \in Models, IsDefault(x)', IsDefault(y)',
                 models'[x].provider = models'[y].provider
          PROVE  x = y
      <4>1. \A z \in Models : IsDefault(z)' => z = h \/ (z \notin {m, h} /\ IsDefault(z))
        BY <3>5 DEF IsDefault
      <4>2. \A z \in Models : z \notin {m, h} /\ IsDefault(z) => models[z].provider # p
        BY <1>2, <3>1, <3>8 DEF DefaultsAgree
      <4>3. models'[x].provider = models[x].provider /\ models'[y].provider = models[y].provider
        BY <3>5, <3>6, <3>8 DEF IsDefault, SameModel
      <4> QED BY <3>4, <3>8, <4>1, <4>2, <4>3, Zenon DEF DefaultsAgree
    <3>9. DefaultsAgree => DefaultsAgree'
      BY <3>8 DEF DefaultsAgree
    <3> QED BY <3>5, <3>6, <3>7, <3>9
  <2> QED BY <2>1, <2>2
<1>6. ChannelRows'
  <2>1. overlapped' \in BOOLEAN
    BY <1>1, Zenon DEF BeginChoosing
  <2>2. agentConfig' \in AgentRow
    BY <1>0, UnlinkedRow DEF DeleteModel
  <2> QED BY <1>0, <1>1, <1>5, <2>1, <2>2 DEF ChannelRows
<1>7. ModelsAreUp'
  BY <1>0, <1>1, <1>5 DEF ModelsAreUp, ChannelUp, SameModel
<1>8. EmbeddingKeepsItsSource'
  <2>1. \A x \in Models : x = embedding.model => SameModel(models'[x], models[x])
    BY <1>0, <1>5
  <2> QED BY <1>0, <1>1, <1>7, <2>1, EmbeddingStays DEF ChannelInv
<1>9. RequestsFit'
  BY <1>0, <1>1, <1>5, RequestsStay
<1>10. ChoicesFit'
  <2>1. CASE overlapped' = TRUE
    BY <2>1 DEF ChoicesFit
  <2>2. CASE overlapped' = FALSE
    <3>1. overlapped = FALSE /\ Choosing = {}
      <4>1. overlapped \in BOOLEAN /\ overlapped' = (overlapped \/ Choosing # {})
        BY <1>0, <1>1 DEF ChannelRows, BeginChoosing
      <4> QED BY <2>2, <4>1, Zenon
    <3>2. DefaultsAgree'
      BY <1>5, <3>1 DEF ChannelInv, ChoicesFit
    <3>3. \A x \in Operators : operators'[x].doing \notin {"creating", "setting", "cleared"}
      BY <1>1, <3>1 DEF Choosing
    <3> QED BY <3>2, <3>3 DEF ChoicesFit, OneChooser, Choosing, ClearedIsClear, Working
  <2> QED BY <1>6, <2>1, <2>2, Zenon DEF ChannelRows
<1> QED BY <1>6, <1>7, <1>8, <1>9, <1>10 DEF ChannelInv

-----------------------------------------------------------------------------
(* The default is set in three statements.                                  *)

\* The model that is to be the default is read.
LEMMA SetReadsHolds ==
  ASSUME ChannelInv, NEW o \in Operators, NEW m \in Models, SetDefaultReads(o, m)
  PROVE  ChannelInv'
<1>0. ChannelRows /\ ModelsAreUp /\ RequestsFit /\ models[m].state = "live"
  BY DEF ChannelInv, SetDefaultReads
<1>1. UNCHANGED <<providers, models, agentConfig, embedding>> /\ BeginChoosing
  BY DEF SetDefaultReads
<1>2. PICK row \in OperatorRow : /\ row.doing = "setting" /\ row.model = m
                                 /\ operators' = [operators EXCEPT ![o] = row]
  <2> DEFINE rest == Rest
  <2>1. rest \in OperatorRow
    BY NullRows
  <2>2. operators' = [operators EXCEPT ![o] = [rest EXCEPT !.doing = "setting", !.model = m]]
    BY DEF SetDefaultReads, Becomes
  <2> HIDE DEF rest
  <2> DEFINE new == [rest EXCEPT !.doing = "setting", !.model = m]
  <2>3. new \in OperatorRow /\ new.doing = "setting" /\ new.model = m
    BY <2>1, Zenon DEF OperatorRow, Doings
  <2> QED BY <2>2, <2>3, Zenon
<1>3. /\ operators' \in [Operators -> OperatorRow] /\ operators'[o] = row
      /\ \A x \in Operators \ {o} : operators'[x] = operators[x]
  BY <1>0, <1>2 DEF ChannelRows
<1>4. ChannelRows'
  <2>1. overlapped' \in BOOLEAN
    BY <1>1, Zenon DEF BeginChoosing
  <2> QED BY <1>0, <1>1, <1>3, <2>1 DEF ChannelRows
<1>5. ModelsAreUp' /\ EmbeddingKeepsItsSource'
  BY <1>0, <1>1 DEF ChannelInv, ModelsAreUp, EmbeddingKeepsItsSource, ChannelUp
<1>6. RequestsFit'
  <2>1. \A x \in Models : models'[x] = models[x]
    BY <1>1
  <2> QED BY <1>0, <1>2, <2>1, RequestMoves, Zenon
<1>7. ChoicesFit'
  <2>1. DefaultsAgree => DefaultsAgree'
    BY <1>1 DEF DefaultsAgree, IsDefault
  <2>2. operators'[o].doing # "cleared"
    BY <1>2, <1>3
  <2> QED BY <1>0, <1>1, <1>3, <2>1, <2>2, ChoiceBegins, Zenon DEF ChannelInv
<1> QED BY <1>4, <1>5, <1>6, <1>7 DEF ChannelInv

\* No model of the provider is its default after the second statement.
LEMMA SetClearsHolds ==
  ASSUME ChannelInv, NEW o \in Operators, SetDefaultClears(o)
  PROVE  ChannelInv'
<1>0. ChannelRows /\ ModelsAreUp /\ RequestsFit /\ Working(o, "setting")
  BY DEF ChannelInv, SetDefaultClears
<1>1. UNCHANGED <<providers, agentConfig, embedding, overlapped>>
  BY DEF SetDefaultClears
<1>2. PICK m \in Models : m = operators[o].model
  BY <1>0 DEF RequestsFit, Free, Working
<1> DEFINE p == models[m].provider
<1>3. models' = [x \in Models |-> IF x \in ModelsOf(p) THEN Demoted(models[x]) ELSE models[x]]
  BY <1>2 DEF SetDefaultClears, Demoted
<1> HIDE DEF p
<1>4. /\ models' \in [Models -> ModelRow]
      /\ \A x \in Models : models'[x] = models[x] \/ (x \in ModelsOf(p) /\ models'[x] = Demoted(models[x]))
      /\ \A x \in Models : x \in ModelsOf(p) => models'[x] = Demoted(models[x])
  <2>1. \A x \in Models : models[x] \in ModelRow /\ Demoted(models[x]) \in ModelRow
    BY <1>0, DemotedModel, Zenon DEF ChannelRows
  <2> QED BY <1>3, <2>1
<1>5. ModelsStay /\ \A x \in Models : IsDefault(x)' => IsDefault(x) /\ x \notin ModelsOf(p)
  <2>1. \A x \in Models : /\ SameModel(Demoted(models[x]), models[x])
                          /\ Demoted(models[x]).default = FALSE
    BY <1>0, DemotedModel, Zenon DEF ChannelRows
  <2>2. ModelsStay
    BY <1>4, <2>1 DEF ModelsStay, SameModel
  <2>3. \A x \in Models : IsDefault(x)' => x \notin ModelsOf(p)
    BY <1>4, <2>1 DEF IsDefault
  <2>4. \A x \in Models : IsDefault(x)' => IsDefault(x)
    BY <1>4, <2>3 DEF IsDefault
  <2> QED BY <2>2, <2>3, <2>4
<1>6. PICK row \in OperatorRow : /\ row.doing = "cleared" /\ row.model = m
                                 /\ operators' = [operators EXCEPT ![o] = row]
  <2>1. operators[o] \in OperatorRow
    BY <1>0 DEF ChannelRows
  <2> DEFINE new == [operators[o] EXCEPT !.doing = "cleared"]
  <2>2. new \in OperatorRow /\ new.doing = "cleared" /\ new.model = m
    BY <1>2, <2>1 DEF OperatorRow, Doings
  <2>3. operators' = [operators EXCEPT ![o] = new]
    BY DEF SetDefaultClears, Becomes
  <2> QED BY <2>2, <2>3, Zenon
<1>7. /\ operators' \in [Operators -> OperatorRow] /\ operators'[o] = row
      /\ \A x \in Operators \ {o} : operators'[x] = operators[x]
  BY <1>0, <1>6 DEF ChannelRows
<1>8. ChannelRows'
  BY <1>0, <1>1, <1>4, <1>7 DEF ChannelRows
<1>9. ModelsAreUp'
  BY <1>0, <1>1, <1>5, ModelsUpStay
<1>10. EmbeddingKeepsItsSource'
  BY <1>0, <1>1, <1>5, <1>9, EmbeddingStays DEF ChannelInv, ModelsStay
<1>11. RequestsFit'
  <2>1. \A x \in Models : models[x].state = "none" => models'[x] = models[x]
    BY <1>4 DEF ModelsOf
  <2> QED BY <1>0, <1>2, <1>6, <2>1, RequestMoves, Zenon
<1>12. ChoicesFit'
  <2> SUFFICES ASSUME overlapped = FALSE PROVE OneChooser' /\ DefaultsAgree' /\ ClearedIsClear'
    BY <1>1, Zenon DEF ChoicesFit
  <2>1. \A x \in Operators \ {o} : operators'[x].doing \notin {"creating", "setting", "cleared"}
    BY <1>0, <1>7 DEF ChannelInv, ChoicesFit, OneChooser, Choosing, Working
  <2>2. OneChooser'
    BY <2>1 DEF OneChooser, Choosing
  <2>3. \A x \in Models : models'[x].provider = models[x].provider /\ models'[x].state = models[x].state
    BY <1>5 DEF ModelsStay, SameModel
  <2>4. DefaultsAgree'
    BY <1>5, <2>3 DEF ChannelInv, ChoicesFit, DefaultsAgree
  <2>5. \A x \in Models : IsDefault(x)' => models[x].provider # p
    BY <1>5 DEF IsDefault, ModelsOf
  <2>6. ASSUME NEW y \in Operators, NEW x \in Models, operators'[y].doing = "cleared", IsDefault(x)'
        PROVE  models'[x].provider # models'[operators'[y].model].provider
    <3>1. y = o /\ operators'[y].model = m
      BY <1>6, <1>7, <2>1, <2>6
    <3> QED BY <2>3, <2>5, <2>6, <3>1 DEF p
  <2>7. ClearedIsClear'
    BY <2>6 DEF ClearedIsClear, Working
  <2> QED BY <2>2, <2>4, <2>7
<1> QED BY <1>8, <1>9, <1>10, <1>11, <1>12 DEF ChannelInv

\* The default is set, if the model lives still.
LEMMA SetSetsHolds ==
  ASSUME ChannelInv, NEW o \in Operators, SetDefaultSets(o)
  PROVE  ChannelInv'
<1>0. ChannelRows /\ ModelsAreUp /\ RequestsFit /\ Working(o, "cleared")
  BY DEF ChannelInv, SetDefaultSets
<1>1. UNCHANGED <<providers, agentConfig, embedding, overlapped>> /\ operators' = [operators EXCEPT ![o] = Rest]
  BY DEF SetDefaultSets, Becomes
<1>2. PICK m \in Models : m = operators[o].model
  BY <1>0 DEF RequestsFit, Free, Working
<1>3. /\ operators' \in [Operators -> OperatorRow] /\ operators'[o] = Rest
      /\ \A x \in Operators \ {o} : operators'[x] = operators[x]
  BY <1>0, <1>1, NullRows DEF ChannelRows
<1>4. /\ models' \in [Models -> ModelRow] /\ ModelsStay
      /\ \A x \in Models : models[x].state # "live" => models'[x] = models[x]
      /\ \A x \in Models \ {m} : models'[x] = models[x]
  <2>1. CASE models[m].state # "live"
    <3>1. models' = models
      BY <1>2, <2>1 DEF SetDefaultSets
    <3> QED BY <1>0, <3>1 DEF ChannelRows, ModelsStay, SameModel
  <2>2. CASE models[m].state = "live"
    <3>1. models[m] \in ModelRow
      BY <1>0 DEF ChannelRows
    <3> DEFINE new == [models[m] EXCEPT !.default = TRUE, !.active = TRUE]
    <3>2. new \in ModelRow /\ SameModel(new, models[m])
      BY <3>1, Zenon DEF ModelRow, SameModel
    <3>3. models' = [models EXCEPT ![m] = Bumped(new)]
      BY <1>0, <1>2, <2>2 DEF SetDefaultSets, ChannelRows
    <3> HIDE DEF new
    <3>4. Bumped(new) \in ModelRow /\ SameModel(Bumped(new), models[m])
      BY <3>2, BumpedModel DEF SameModel
    <3>5. /\ models' \in [Models -> ModelRow] /\ models'[m] = Bumped(new)
          /\ \A x \in Models \ {m} : models'[x] = models[x]
      BY <1>0, <3>3, <3>4 DEF ChannelRows
    <3>6. ModelsStay
      BY <3>4, <3>5 DEF ModelsStay, SameModel
    <3> QED BY <2>2, <3>5, <3>6
  <2> QED BY <2>1, <2>2
<1>5. ChannelRows'
  BY <1>0, <1>1, <1>3, <1>4 DEF ChannelRows
<1>6. ModelsAreUp'
  BY <1>0, <1>1, <1>4, ModelsUpStay
<1>7. EmbeddingKeepsItsSource'
  BY <1>0, <1>1, <1>4, <1>6, EmbeddingStays DEF ChannelInv, ModelsStay
<1>8. RequestsFit'
  <2>1. \A x \in Models : models[x].state = "none" => models'[x] = models[x]
    BY <1>4
  <2> QED BY <1>0, <1>1, <2>1, NullRows, RequestMoves, Zenon
<1>9. ChoicesFit'
  <2> SUFFICES ASSUME overlapped = FALSE PROVE OneChooser' /\ DefaultsAgree' /\ ClearedIsClear'
    BY <1>1, Zenon DEF ChoicesFit
  <2>1. \A x \in Operators \ {o} : operators'[x].doing \notin {"creating", "setting", "cleared"}
    BY <1>0, <1>3 DEF ChannelInv, ChoicesFit, OneChooser, Choosing, Working
  <2>2. operators'[o].doing = "nothing"
    BY <1>3, NullRows
  <2>3. OneChooser' /\ ClearedIsClear'
    BY <2>1, <2>2 DEF OneChooser, Choosing, ClearedIsClear, Working
  <2>4. ASSUME NEW x \in Models \ {m}, IsDefault(x)', IsDefault(m)' PROVE models'[x].provider # models'[m].provider
    <3>1. models'[x] = models[x] /\ models'[m].provider = models[m].provider /\ models[m].state = "live"
      BY <1>4, <2>4 DEF ModelsStay, SameModel, IsDefault
    <3>2. IsDefault(x)
      BY <2>4, <3>1 DEF IsDefault
    <3> QED BY <1>0, <1>2, <3>1, <3>2 DEF ChannelInv, ChoicesFit, ClearedIsClear
  <2>5. ASSUME NEW x \in Models \ {m}, NEW y \in Models \ {m}, IsDefault(x)', IsDefault(y)',
               models'[x].provider = models'[y].provider
        PROVE  x = y
    BY <1>4, <2>5 DEF ChannelInv, ChoicesFit, DefaultsAgree, IsDefault
  <2>6. DefaultsAgree'
    <3> SUFFICES ASSUME NEW x \in Models, NEW y \in Models, IsDefault(x)', IsDefault(y)',
                        models'[x].provider = models'[y].provider
                 PROVE  x = y
      BY DEF DefaultsAgree
    <3>1. CASE x # m /\ y # m
      BY <2>5, <3>1
    <3>2. CASE x = m /\ y # m
      BY <2>4, <3>2
    <3>3. CASE x # m /\ y = m
      BY <2>4, <3>3
    <3> QED BY <3>1, <3>2, <3>3
  <2> QED BY <2>3, <2>6
<1> QED BY <1>5, <1>6, <1>7, <1>8, <1>9 DEF ChannelInv

\* A list is saved: what is in it stays or is created, with one default at most.
LEMMA ReplaceHolds ==
  ASSUME ChannelInv, NEW p \in Providers, NEW list \in SUBSET Models, NEW k \in Keys,
         ReplaceProviderModels(p, list, k)
  PROVE  ChannelInv'
<1>0. ChannelRows /\ ModelsAreUp /\ RequestsFit /\ ChannelUp(p)
  BY Zenon DEF ChannelInv, ReplaceProviderModels
<1>1. UNCHANGED <<providers, embedding, operators>> /\ BeginChoosing
  BY Zenon DEF ReplaceProviderModels
<1>2. /\ \A m \in list : m \in ModelsOf(p) \/ (/\ models[m].state = "none"
                                                /\ \A o \in Operators : operators[o].model # m)
      /\ \A m \in ModelsOf(p) \ list : embedding.model # m
  BY Zenon DEF ReplaceProviderModels, EmbeddingUses
<1> DEFINE kept == WithoutModels(ModelsOf(p))
<1>3. /\ kept \in [Models -> ModelRow]
      /\ \A m \in Models : IF m \in ModelsOf(p) THEN kept[m].state = "gone" ELSE kept[m] = models[m]
  BY <1>0, WithoutModelsRows
<1> HIDE DEF kept
<1>4. PICK d : models' = [m \in Models |->
                 IF m \in list
                   THEN IF m \in ModelsOf(p)
                          THEN Bumped([models[m] EXCEPT !.active = TRUE, !.default = (m = d), !.key = k])
                          ELSE NewModel(p, k, TRUE, m = d)
                   ELSE kept[m]]
  BY Zenon DEF ReplaceProviderModels, kept
<1>5. ASSUME NEW m \in list
      PROVE  /\ models'[m] \in ModelRow /\ models'[m].state = "live" /\ models'[m].provider = p
             /\ models'[m].default = TRUE => m = d
             /\ m \in ModelsOf(p) => SameModel(models'[m], models[m])
  <2>1. PICK chosen \in BOOLEAN : chosen = (m = d)
    BY Zenon
  <2>2. CASE m \in ModelsOf(p)
    <3> DEFINE new == [models[m] EXCEPT !.active = TRUE, !.default = chosen, !.key = k]
    <3>1. models[m] \in ModelRow /\ models[m].state = "live" /\ models[m].provider = p
      BY <1>0, <2>2 DEF ChannelRows, ModelsOf
    <3>2. new \in ModelRow /\ SameModel(new, models[m]) /\ new.default = chosen
      BY <2>1, <3>1, Zenon DEF ModelRow, SameModel
    <3>3. models'[m] = Bumped(new)
      BY <1>4, <2>1, <2>2, Zenon
    <3> HIDE DEF new
    <3>4. Bumped(new) \in ModelRow /\ SameModel(Bumped(new), models[m]) /\ Bumped(new).default = chosen
      BY <3>2, BumpedModel DEF SameModel
    <3> QED BY <2>1, <3>1, <3>3, <3>4, Zenon DEF SameModel
  <2>3. CASE m \notin ModelsOf(p)
    <3>1. models'[m] = NewModel(p, k, TRUE, chosen)
      BY <1>4, <2>1, <2>3, Zenon
    <3>2. NewModel(p, k, TRUE, chosen) \in ModelRow /\ NewModel(p, k, TRUE, chosen).state = "live"
          /\ NewModel(p, k, TRUE, chosen).provider = p /\ NewModel(p, k, TRUE, chosen).default = chosen
      BY <2>1, CreatedRow, Zenon
    <3> QED BY <2>1, <2>3, <3>1, <3>2, Zenon
  <2> QED BY <2>2, <2>3, Zenon
<1>6. \A m \in Models : m \notin list => models'[m] = kept[m]
  BY <1>4, Zenon
<1>7. models' \in [Models -> ModelRow]
  BY <1>3, <1>4, <1>5, <1>6, Zenon
<1>8. ASSUME NEW m \in Models, m \notin list, models'[m].state = "live"
      PROVE  models'[m] = models[m] /\ models[m].provider # p
  BY <1>3, <1>6, <1>8 DEF ModelsOf
<1>9. ChannelRows'
  <2>1. overlapped' \in BOOLEAN
    BY <1>1, Zenon DEF BeginChoosing
  <2>2. agentConfig' \in AgentRow
    BY <1>0, UnlinkedRow, Zenon DEF ReplaceProviderModels
  <2> QED BY <1>0, <1>1, <1>7, <2>1, <2>2 DEF ChannelRows
<1>10. ModelsAreUp'
  BY <1>0, <1>1, <1>5, <1>8, Zenon DEF ModelsAreUp, ChannelUp
<1>11. EmbeddingKeepsItsSource'
  <2>1. ASSUME NEW m \in Models, m = embedding.model PROVE SameModel(models'[m], models[m])
    <3>1. models[m].state = "live"
      BY <2>1, ChannelAssumption DEF ChannelInv, EmbeddingKeepsItsSource
    <3>2. CASE m \in list
      BY <1>2, <1>5, <3>1, <3>2, Zenon
    <3>3. CASE m \notin list
      BY <1>2, <1>3, <1>6, <2>1, <3>3 DEF SameModel
    <3> QED BY <3>2, <3>3
  <2> QED BY <1>0, <1>1, <1>10, <2>1, EmbeddingStays DEF ChannelInv
<1>12. RequestsFit'
  <2>1. ASSUME NEW m \in Models, models[m].state = "none", \E o \in Operators : operators[o].model = m
        PROVE  models'[m] = models[m]
    <3>1. m \notin list /\ m \notin ModelsOf(p)
      BY <1>2, <2>1 DEF ModelsOf
    <3> QED BY <1>3, <1>6, <3>1
  <2> QED BY <1>0, <1>1, <2>1, RequestsStay
<1>13. ChoicesFit'
  <2>1. CASE overlapped' = TRUE
    BY <2>1 DEF ChoicesFit
  <2>2. CASE overlapped' = FALSE
    <3>1. overlapped = FALSE /\ Choosing = {}
      <4>1. overlapped \in BOOLEAN /\ overlapped' = (overlapped \/ Choosing # {})
        BY <1>0, <1>1 DEF ChannelRows, BeginChoosing
      <4> QED BY <2>2, <4>1, Zenon
    <3>2. DefaultsAgree
      BY <3>1 DEF ChannelInv, ChoicesFit
    <3>3. DefaultsAgree'
      <4> SUFFICES ASSUME NEW x \in Models, NEW y \in Models, IsDefault(x)', IsDefault(y)',
                          models'[x].provider = models'[y].provider
                   PROVE  x = y
        BY DEF DefaultsAgree
      <4>1. CASE x \in list /\ y \in list
        BY <1>5, <4>1, Zenon DEF IsDefault
      <4>2. CASE x \notin list /\ y \notin list
        BY <1>8, <3>2, <4>2 DEF IsDefault, DefaultsAgree
      <4>3. CASE x \in list /\ y \notin list
        BY <1>5, <1>8, <4>3, Zenon DEF IsDefault
      <4>4. CASE x \notin list /\ y \in list
        BY <1>5, <1>8, <4>4, Zenon DEF IsDefault
      <4> QED BY <4>1, <4>2, <4>3, <4>4
    <3>4. \A x \in Operators : operators'[x].doing \notin {"creating", "setting", "cleared"}
      BY <1>1, <3>1 DEF Choosing
    <3> QED BY <3>3, <3>4 DEF ChoicesFit, OneChooser, Choosing, ClearedIsClear, Working
  <2> QED BY <1>9, <2>1, <2>2, Zenon DEF ChannelRows
<1> QED BY <1>9, <1>10, <1>11, <1>12, <1>13 DEF ChannelInv

-----------------------------------------------------------------------------
(* The agents and the model that embeds.                                    *)

\* A request that chooses no default is begun or ends; the rows of models and providers stay.
LEMMA RequestHolds ==
  ASSUME ChannelInv, NEW o \in Operators, NEW row \in OperatorRow,
         operators' = [operators EXCEPT ![o] = row], row.doing \in {"nothing", "mapping", "probing"},
         row.doing # "nothing" => row.model \in Models /\ models[row.model].state = "live",
         row.doing = "nothing" => row.model = Nil,
         row.doing = "probing" => row.snapshot.model \in Models,
         row.doing = "mapping" => row.snapshot.model \in Keys,
         agentConfig' \in AgentRow, UNCHANGED <<providers, models, overlapped>>
  PROVE  /\ RequestsFit' /\ ModelsAreUp' /\ ChoicesFit'
         /\ operators' \in [Operators -> OperatorRow]
<1>0. ChannelRows /\ RequestsFit /\ ModelsAreUp
  BY DEF ChannelInv
<1>1. /\ operators' \in [Operators -> OperatorRow] /\ operators'[o] = row
      /\ \A x \in Operators \ {o} : operators'[x] = operators[x]
  BY <1>0 DEF ChannelRows
<1>2. RequestsFit'
  <2>1. \A m \in Models : models'[m] = models[m]
    OBVIOUS
  <2> QED BY <1>0, <2>1, RequestMoves, Zenon
<1>3. ModelsAreUp'
  BY <1>0 DEF ModelsAreUp, ChannelUp
<1>4. ChoicesFit'
  <2>1. NoNewDefault
    BY DEF NoNewDefault, IsDefault
  <2>2. NoNewChoice
    BY <1>1 DEF NoNewChoice, Choosing
  <2> QED BY <2>1, <2>2, ChoicesStay DEF ChannelInv
<1> QED BY <1>1, <1>2, <1>3, <1>4

\* An agent is given a model by its name.
LEMMA AgentHolds ==
  ASSUME ChannelInv, NEW o \in Operators,
         (\E k \in Keys : AgentConfigReads(o, k)) \/ AgentConfigWrites(o)
  PROVE  ChannelInv'
<1>0. ChannelRows /\ RequestsFit /\ EmbeddingKeepsItsSource /\ ModelsAreUp
  BY DEF ChannelInv
<1>1. UNCHANGED <<providers, models, embedding, overlapped>>
  BY Zenon DEF AgentConfigReads, AgentConfigWrites
<1>2. agentConfig' \in AgentRow
  <2>1. CASE \E k \in Keys : AgentConfigReads(o, k)
    BY <1>0, <2>1, Zenon DEF AgentConfigReads, ChannelRows
  <2>2. CASE AgentConfigWrites(o)
    <3>1. operators[o].snapshot.model \in Keys /\ operators[o].model \in Models
      BY <1>0, <2>2 DEF AgentConfigWrites, RequestsFit, Free, Working
    <3>2. [set |-> TRUE, key |-> operators[o].snapshot.model, model |-> operators[o].model] \in AgentRow
      BY <3>1 DEF AgentRow
    <3> QED BY <1>0, <2>2, <3>2 DEF AgentConfigWrites, ChannelRows
  <2> QED BY <2>1, <2>2
<1>3. PICK row \in OperatorRow :
        /\ operators' = [operators EXCEPT ![o] = row] /\ row.doing \in {"nothing", "mapping"}
        /\ row.doing = "nothing" => row.model = Nil
        /\ row.doing = "mapping" => /\ row.model \in Models /\ models[row.model].state = "live"
                                    /\ row.snapshot.model \in Keys
  <2>1. CASE \E k \in Keys : AgentConfigReads(o, k)
    <3>1. PICK k \in Keys : AgentConfigReads(o, k)
      BY <2>1
    <3> DEFINE rest == Rest
               none == NoEmbedding
    <3>2. PICK m \in RuntimeCandidates(k) :
            operators' = [operators EXCEPT ![o] = [rest EXCEPT !.doing = "mapping", !.model = m,
                                                     !.snapshot = [none EXCEPT !.model = k]]]
      BY <3>1, Zenon DEF AgentConfigReads, Becomes
    <3>3. m \in Models /\ models[m].state = "live" /\ rest \in OperatorRow /\ none \in SourceRow
      BY NullRows DEF RuntimeCandidates
    <3> HIDE DEF rest, none
    <3> DEFINE seen0 == [none EXCEPT !.model = k]
    <3>4. seen0 \in SourceRow /\ seen0.model = k
      BY <3>3 DEF SourceRow
    <3>5. operators' = [operators EXCEPT ![o] = [rest EXCEPT !.doing = "mapping", !.model = m, !.snapshot = seen0]]
      BY <3>2
    <3> HIDE DEF seen0
    <3> DEFINE new == [rest EXCEPT !.doing = "mapping", !.model = m, !.snapshot = seen0]
    <3>6. new \in OperatorRow /\ new.doing = "mapping" /\ new.model = m /\ new.snapshot = seen0
      BY <3>3, <3>4, Zenon DEF OperatorRow, Doings
    <3> QED BY <3>3, <3>4, <3>5, <3>6, Zenon
  <2>2. CASE AgentConfigWrites(o)
    BY <2>2, NullRows, Zenon DEF AgentConfigWrites, Becomes
  <2> QED BY <2>1, <2>2
<1>4. RequestsFit' /\ ModelsAreUp' /\ ChoicesFit' /\ operators' \in [Operators -> OperatorRow]
  <2>1. row.doing \in {"nothing", "mapping", "probing"} /\ row.doing # "probing"
    BY <1>3
  <2> QED BY <1>1, <1>2, <1>3, <2>1, RequestHolds, Zenon
<1>5. ChannelRows'
  BY <1>0, <1>1, <1>2, <1>4 DEF ChannelRows
<1>6. EmbeddingKeepsItsSource'
  BY <1>0, <1>1 DEF EmbeddingKeepsItsSource, ChannelUp
<1> QED BY <1>4, <1>5, <1>6 DEF ChannelInv

\* The agent's row is deleted.
LEMMA NoConfigHolds == ASSUME ChannelInv, DeleteAgentConfig PROVE ChannelInv'
<1>1. UNCHANGED <<providers, models, embedding, operators, overlapped>> /\ agentConfig' = NoConfig
  BY DEF DeleteAgentConfig
<1>2. ChannelRows'
  BY <1>1, NullRows DEF ChannelInv, ChannelRows
<1>3. ModelsAreUp' /\ RequestsFit' /\ EmbeddingKeepsItsSource'
  BY <1>1 DEF ChannelInv, ModelsAreUp, RequestsFit, EmbeddingKeepsItsSource, ChannelUp, Free, Working
<1>4. ChoicesFit'
  <2>1. Choosing' = Choosing
    BY <1>1 DEF Choosing
  <2> QED BY <1>1, <2>1 DEF ChannelInv, ChoicesFit, OneChooser, DefaultsAgree, ClearedIsClear, IsDefault, Working
<1> QED BY <1>2, <1>3, <1>4 DEF ChannelInv

\* A model is tried out.
LEMMA ProbeHolds ==
  ASSUME ChannelInv, NEW o \in Operators, NEW m \in Models, ProbeEmbedding(o, m)
  PROVE  ChannelInv'
<1>0. ChannelRows /\ RequestsFit /\ EmbeddingKeepsItsSource /\ ModelsAreUp /\ models[m].state = "live"
  BY DEF ChannelInv, ProbeEmbedding, Usable
<1>1. UNCHANGED <<providers, models, agentConfig, embedding, overlapped>>
  BY DEF ProbeEmbedding
<1>2. PICK row \in OperatorRow :
        /\ operators' = [operators EXCEPT ![o] = row] /\ row.doing = "probing"
        /\ row.model = m /\ row.snapshot.model = m
  <2> DEFINE rest == Rest
             tried == Source(m)
  <2>1. operators' = [operators EXCEPT ![o] = [rest EXCEPT !.doing = "probing", !.model = m, !.snapshot = tried]]
    BY DEF ProbeEmbedding, Becomes
  <2>2. rest \in OperatorRow
    BY NullRows
  <2>3. tried \in SourceRow /\ tried.model = m
    <3>1. models[m] \in ModelRow /\ providers[models[m].provider] \in ProviderRow
      BY <1>0 DEF ChannelRows, ModelsAreUp
    <3> QED BY <3>1 DEF Source, SourceRow, ModelRow, ProviderRow
  <2> HIDE DEF rest, tried
  <2> DEFINE new == [rest EXCEPT !.doing = "probing", !.model = m, !.snapshot = tried]
  <2>4. new \in OperatorRow /\ new.doing = "probing" /\ new.model = m /\ new.snapshot = tried
    BY <2>2, <2>3, Zenon DEF OperatorRow, Doings
  <2> QED BY <2>1, <2>3, <2>4, Zenon
<1>3. RequestsFit' /\ ModelsAreUp' /\ ChoicesFit' /\ operators' \in [Operators -> OperatorRow]
  <2>1. agentConfig' \in AgentRow
    BY <1>0, <1>1 DEF ChannelRows
  <2>2. row.doing \in {"nothing", "mapping", "probing"} /\ row.doing \notin {"nothing", "mapping"}
    BY <1>2
  <2> QED BY <1>0, <1>1, <1>2, <2>1, <2>2, RequestHolds, Zenon
<1>4. ChannelRows'
  BY <1>0, <1>1, <1>3 DEF ChannelRows
<1>5. EmbeddingKeepsItsSource'
  BY <1>0, <1>1 DEF EmbeddingKeepsItsSource, ChannelUp
<1> QED BY <1>3, <1>4, <1>5 DEF ChannelInv

\* What an activation writes is what the rows say when it does.
Activated ==
  embedding' # embedding => Usable(embedding'.model) /\ Source(embedding'.model) = embedding'
\* It becomes the one that embeds, if nothing changed since.
LEMMA ActivateHolds ==
  ASSUME ChannelInv, NEW o \in Operators, ActivateEmbedding(o)
  PROVE  ChannelInv' /\ Activated
<1>0. ChannelRows /\ RequestsFit /\ EmbeddingKeepsItsSource /\ ModelsAreUp /\ Working(o, "probing")
  BY DEF ChannelInv, ActivateEmbedding
<1>1. UNCHANGED <<providers, models, agentConfig, overlapped>> /\ operators' = [operators EXCEPT ![o] = Rest]
  BY DEF ActivateEmbedding, Becomes
<1>2. PICK s \in SourceRow : s = operators[o].snapshot
  BY <1>0 DEF ChannelRows, OperatorRow
<1>3. s.model \in Models
  BY <1>0, <1>2 DEF RequestsFit
<1>4. embedding' = IF SourceUnchanged(s) THEN s ELSE embedding
  BY <1>2 DEF ActivateEmbedding
<1>5. RequestsFit' /\ ModelsAreUp' /\ ChoicesFit' /\ operators' \in [Operators -> OperatorRow]
  <2>1. agentConfig' \in AgentRow
    BY <1>0, <1>1 DEF ChannelRows
  <2> QED BY <1>0, <1>1, <2>1, NullRows, RequestHolds, Zenon
<1>6. ChannelRows'
  BY <1>0, <1>1, <1>2, <1>3, <1>4, <1>5 DEF ChannelRows
<1>7. EmbeddingKeepsItsSource'
  <2>1. CASE SourceUnchanged(s)
    <3>1. embedding' = s
      BY <1>4, <2>1
    <3>2. models[s.model].state = "live" /\ models[s.model].code = s.code
      <4>1. Source(s.model) = s /\ models[s.model].state = "live"
        BY <2>1 DEF SourceUnchanged, Usable
      <4>2. Source(s.model).code = models[s.model].code
        BY DEF Source
      <4> QED BY <4>1, <4>2
    <3>3. providers[models[s.model].provider].state = "live"
      BY <1>0, <1>3, <3>2 DEF ModelsAreUp, ChannelUp
    <3> QED BY <1>1, <3>1, <3>2, <3>3 DEF EmbeddingKeepsItsSource, ChannelUp
  <2>2. CASE ~SourceUnchanged(s)
    BY <1>0, <1>1, <1>4, <2>2 DEF EmbeddingKeepsItsSource, ChannelUp
  <2> QED BY <2>1, <2>2
<1>8. Activated
  BY <1>4 DEF Activated, SourceUnchanged
<1> QED BY <1>5, <1>6, <1>7, <1>8 DEF ChannelInv

\* A request fails; no model is created.
LEMMA GiveUpHolds ==
  ASSUME ChannelInv, NEW o \in Operators, GiveUpRequest(o)
  PROVE  ChannelInv'
<1>0. ChannelRows /\ RequestsFit /\ EmbeddingKeepsItsSource /\ ModelsAreUp /\ ~Free(o)
  BY DEF ChannelInv, GiveUpRequest
<1>1. UNCHANGED <<providers, agentConfig, embedding, overlapped>> /\ operators' = [operators EXCEPT ![o] = Rest]
  BY DEF GiveUpRequest, Becomes
<1>2. PICK m \in Models : m = operators[o].model
  BY <1>0 DEF RequestsFit
<1>3. /\ operators' \in [Operators -> OperatorRow] /\ operators'[o] = Rest
      /\ \A x \in Operators \ {o} : operators'[x] = operators[x]
  BY <1>0, <1>1, NullRows DEF ChannelRows
<1>4. /\ models' \in [Models -> ModelRow]
      /\ \A x \in Models : models'[x].state = models[x].state
      /\ \A x \in Models : models[x].state # "none" => models'[x] = models[x]
      /\ \A x \in Models : models'[x] = models[x] \/ (x = m /\ Working(o, "creating"))
  <2>1. CASE Working(o, "creating")
    <3>1. models' = [models EXCEPT ![m] = NoModel]
      BY <1>2, <2>1 DEF GiveUpRequest
    <3>2. models[m].state = "none"
      BY <1>0, <1>2, <2>1 DEF RequestsFit
    <3>3. models' \in [Models -> ModelRow] /\ models'[m] = NoModel /\ \A x \in Models \ {m} : models'[x] = models[x]
      BY <1>0, <3>1, NullRows DEF ChannelRows
    <3> QED BY <2>1, <3>2, <3>3, NullRows
  <2>2. CASE ~Working(o, "creating")
    BY <1>0, <2>2 DEF GiveUpRequest, ChannelRows
  <2> QED BY <2>1, <2>2
<1>5. ChannelRows'
  BY <1>0, <1>1, <1>3, <1>4 DEF ChannelRows
<1>6. ModelsAreUp'
  BY <1>0, <1>1, <1>4 DEF ModelsAreUp, ChannelUp
<1>7. EmbeddingKeepsItsSource'
  <2>1. ASSUME NEW x \in Models, x = embedding.model PROVE models'[x] = models[x]
    <3>1. models[x].state = "live"
      BY <1>0, <2>1, ChannelAssumption DEF EmbeddingKeepsItsSource
    <3> QED BY <1>4, <3>1
  <2> QED BY <1>0, <1>1, <1>6, <2>1, EmbeddingStays DEF SameModel
<1>8. RequestsFit'
  <2>1. ASSUME NEW x \in Models, \E y \in Operators \ {o} : operators[y].model = x PROVE models'[x] = models[x]
    BY <1>0, <1>2, <1>4, <2>1 DEF RequestsFit
  <2> QED BY <1>0, <1>1, <2>1, NullRows, RequestMoves, Zenon
<1>9. ChoicesFit'
  <2>1. NoNewDefault
    BY <1>4 DEF NoNewDefault, IsDefault
  <2>2. NoNewChoice
    <3>1. ASSUME NEW x \in Operators PROVE x \in Choosing' => x \in Choosing
      BY <1>3, NullRows DEF Choosing
    <3>2. ASSUME NEW x \in Operators, operators'[x].doing = "cleared"
          PROVE  operators'[x] = operators[x] /\ operators[x].model \in Models
      BY <1>0, <1>3, <3>2, NullRows DEF RequestsFit, Free
    <3> QED BY <1>4, <3>1, <3>2 DEF NoNewChoice
  <2> QED BY <1>1, <2>1, <2>2, ChoicesStay DEF ChannelInv
<1> QED BY <1>5, <1>6, <1>7, <1>8, <1>9 DEF ChannelInv

-----------------------------------------------------------------------------
(* The whole.                                                               *)

\* No rows.
LEMMA ChannelBegins == ASSUME ChannelInit PROVE ChannelInv
<1>1. ChannelRows
  <2>1. [state |-> "none", active |-> FALSE, rev |-> 0] \in ProviderRow
    BY ChannelAssumption DEF ProviderRow, RowStates, Revisions
  <2> QED BY <2>1, NullRows, Zenon DEF ChannelInit, ChannelRows
<1>2. \A m \in Models : models[m].state = "none"
  BY NullRows DEF ChannelInit
<1>3. \A o \in Operators : operators[o].doing = "nothing"
  BY NullRows DEF ChannelInit
<1>4. embedding.model = Nil
  BY NullRows DEF ChannelInit
<1>5. ModelsAreUp /\ RequestsFit /\ EmbeddingKeepsItsSource
  BY <1>2, <1>3, <1>4 DEF ModelsAreUp, RequestsFit, EmbeddingKeepsItsSource, Free, Working
<1>6. ChoicesFit
  BY <1>2, <1>3 DEF ChoicesFit, OneChooser, DefaultsAgree, ClearedIsClear, Choosing, IsDefault, Working
<1> QED BY <1>1, <1>5, <1>6 DEF ChannelInv

\* Every step of the administrators.
LEMMA ChannelStep ==
  ASSUME ChannelInv, [ChannelNext]_channelVars
  PROVE  ChannelInv' /\ Activated
<1>1. CASE UNCHANGED channelVars
  BY <1>1, ChannelQuiet DEF channelVars, Activated
<1>2. ASSUME NEW p \in Providers, CreateProvider(p) \/ UpdateProvider(p) PROVE ChannelInv' /\ Activated
  BY <1>2, ProviderHolds, Zenon DEF CreateProvider, UpdateProvider, Activated
<1>3. ASSUME NEW p \in Providers, DeleteProvider(p) PROVE ChannelInv' /\ Activated
  BY <1>3, DeleteProviderHolds, Zenon DEF DeleteProvider, Activated
<1>4. ASSUME NEW o \in Operators, NEW m \in Models, NEW p \in Providers, CreateModelCounts(o, m, p)
      PROVE  ChannelInv' /\ Activated
  BY <1>4, CountsHolds, Zenon DEF CreateModelCounts, Activated
<1>5. ASSUME NEW m \in Models, UpdateModel(m) PROVE ChannelInv' /\ Activated
  BY <1>5, UpdateModelHolds, Zenon DEF UpdateModel, Activated
<1>6. ASSUME NEW m \in Models, DeleteModel(m) PROVE ChannelInv' /\ Activated
  BY <1>6, DeleteModelHolds, Zenon DEF DeleteModel, Activated
<1>7. ASSUME NEW p \in Providers, NEW list \in SUBSET Models, NEW k \in Keys, ReplaceProviderModels(p, list, k)
      PROVE  ChannelInv' /\ Activated
  BY <1>7, ReplaceHolds, Zenon DEF ReplaceProviderModels, Activated
<1>8. ASSUME NEW o \in Operators, NEW m \in Models, SetDefaultReads(o, m) PROVE ChannelInv' /\ Activated
  BY <1>8, SetReadsHolds, Zenon DEF SetDefaultReads, Activated
<1>9. ASSUME NEW o \in Operators, NEW m \in Models, ProbeEmbedding(o, m) PROVE ChannelInv' /\ Activated
  BY <1>9, ProbeHolds, Zenon DEF ProbeEmbedding, Activated
<1>10. ASSUME NEW o \in Operators, (\E k \in Keys : AgentConfigReads(o, k)) \/ AgentConfigWrites(o)
       PROVE  ChannelInv' /\ Activated
  BY <1>10, AgentHolds, Zenon DEF AgentConfigReads, AgentConfigWrites, Activated
<1>11. ASSUME NEW o \in Operators, CreateModelInserts(o) PROVE ChannelInv' /\ Activated
  BY <1>11, InsertsHolds, Zenon DEF CreateModelInserts, Activated
<1>12. ASSUME NEW o \in Operators, SetDefaultClears(o) PROVE ChannelInv' /\ Activated
  BY <1>12, SetClearsHolds DEF SetDefaultClears, Activated
<1>13. ASSUME NEW o \in Operators, SetDefaultSets(o) PROVE ChannelInv' /\ Activated
  BY <1>13, SetSetsHolds, Zenon DEF SetDefaultSets, Activated
<1>14. ASSUME NEW o \in Operators, ActivateEmbedding(o) PROVE ChannelInv' /\ Activated
  BY <1>14, ActivateHolds
<1>15. ASSUME NEW o \in Operators, GiveUpRequest(o) PROVE ChannelInv' /\ Activated
  BY <1>15, GiveUpHolds DEF GiveUpRequest, Activated
<1>16. CASE DeleteAgentConfig
  BY <1>16, NoConfigHolds DEF DeleteAgentConfig, Activated
<1> QED BY <1>1, <1>2, <1>3, <1>4, <1>5, <1>6, <1>7, <1>8, <1>9, <1>10, <1>11, <1>12, <1>13, <1>14, <1>15, <1>16
        DEF ChannelNext

\* The defaults of a provider, counted.
LEMMA ChannelsAgree == ChannelInv => ChannelTypeOK /\ ChannelsHold
<1> SUFFICES ASSUME ChannelInv PROVE ChannelTypeOK /\ ChannelsHold
  OBVIOUS
<1>1. ChannelTypeOK
  BY DEF ChannelInv, ChannelRows, ProviderRow, ModelRow, RowStates, Revisions, AgentRow, ChannelTypeOK
<1>2. ASSUME overlapped = FALSE, NEW p \in Providers PROVE Cardinality(DefaultsOf(p)) <= 1
  <2>1. \A x, y \in DefaultsOf(p) : x = y
    <3>1. \A x \in DefaultsOf(p) : x \in Models /\ models[x].provider = p /\ IsDefault(x)
      <4> SUFFICES ASSUME NEW x \in DefaultsOf(p) PROVE x \in Models /\ models[x].provider = p /\ IsDefault(x)
        OBVIOUS
      <4>1. x \in Models /\ models[x].state = "live" /\ models[x].provider = p /\ models[x].default
        BY DEF DefaultsOf, ModelsOf
      <4>2. models[x].default \in BOOLEAN
        BY <4>1 DEF ChannelInv, ChannelRows, ModelRow
      <4>3. models[x].default = TRUE
        BY <4>1, <4>2, Zenon
      <4> QED BY <4>1, <4>3 DEF IsDefault
    <3> QED BY <1>2, <3>1 DEF ChannelInv, ChoicesFit, DefaultsAgree
  <2>2. CASE DefaultsOf(p) = {}
    BY <2>2, FS_EmptySet
  <2>3. ASSUME NEW x \in DefaultsOf(p) PROVE Cardinality(DefaultsOf(p)) <= 1
    <3>1. DefaultsOf(p) = {x}
      BY <2>1
    <3> QED BY <3>1, FS_Singleton
  <2> QED BY <2>2, <2>3
<1>3. OneDefaultModel
  <2>1. overlapped \in BOOLEAN
    BY DEF ChannelInv, ChannelRows
  <2>2. ~overlapped => overlapped = FALSE
    BY <2>1, Zenon
  <2> QED BY <1>2, <2>2, Zenon DEF OneDefaultModel
<1> QED BY <1>1, <1>3 DEF ChannelsHold, ChannelInv

\* The model that embeds keeps its row, its provider and its name, and a provider has at most one
\* default short of an overlap, for any number of rows and of administrators
\* (admin_ai_config_repository.go, admin_embedding_repository.go).
THEOREM ChannelsStay == ChannelSpec => [](ChannelTypeOK /\ ChannelsHold)
<1>1. ChannelInit => ChannelInv
  BY ChannelBegins
<1>2. ChannelInv /\ [ChannelNext]_channelVars => ChannelInv'
  BY ChannelStep
<1> QED BY <1>1, <1>2, ChannelsAgree, PTL DEF ChannelSpec

\* An activation never takes effect for a source that changed after it was tried, however many
\* administrators are at work (ActivateEmbedding, admin_embedding_repository.go).
THEOREM ActivationsAreProbed == ChannelSpec => ActivatedAsProbed
<1>1. ChannelInit => ChannelInv
  BY ChannelBegins
<1>2. ChannelInv /\ [ChannelNext]_channelVars => ChannelInv' /\ [Activated]_channelVars
  BY ChannelStep
<1>3. ChannelSpec => [][Activated]_channelVars
  BY <1>1, <1>2, PTL DEF ChannelSpec
<1>4. Activated <=>
        (embedding' # embedding => Usable(embedding'.model) /\ Source(embedding'.model) = embedding')
  BY DEF Activated
<1> QED BY <1>3, <1>4, PTL DEF ActivatedAsProbed

-----------------------------------------------------------------------------
(* The relay (AIRelay).                                                    *)

\* A plan goes down the priorities: what is not among the first channels of a plan is preferred
\* to none of them. With no channel it is the environment's.
Downwards(course) ==
  \A n \in DOMAIN course : \A i \in 1..n, j \in DOMAIN course :
     (\A k \in 1..n : course[k] # course[j]) => Priority[course[i]] >= Priority[course[j]]
OfChannels(course) == course \in Seq(Channels) /\ Len(course) = Attempts /\ Downwards(course)
WellPlanned(course) == course = <<EnvChannel>> \/ OfChannels(course)

Voices == Nat \X {"none", "responses", "chat"}
CallRow == [kind : {"none", "agent", "endpoint"}, phase : {"idle", "choosing", "trying"} \cup Ended,
            plan : Seq(Channels \cup {EnvChannel}), at : Nat, via : {"none", "responses", "chat"},
            heard : SUBSET Voices, fatal : BOOLEAN, refused : BOOLEAN]
CallFits(call) ==
  /\ call.phase \notin {"idle", "missing"} => WellPlanned(call.plan) /\ call.at \in 1..Len(call.plan)
  /\ call.phase \in {"idle", "missing"} => call.at = 0 /\ call.plan = <<>>
  /\ call.phase \in {"choosing", "trying"} => call.kind # "none" /\ (call.kind = "endpoint" => OfChannels(call.plan))
  /\ call.phase = "choosing" => call.heard = {} /\ ~call.refused
  /\ call.phase = "trying" => call.heard \subseteq {<<call.at, call.via>>}
  /\ call.phase = "trying" /\ call.refused => call.plan[call.at] \notin SpeaksResponses
  /\ \E voice \in Voices : call.heard \subseteq {voice}
  /\ call.phase = "failed" /\ ~call.fatal /\ call.heard = {} => call.at = Len(call.plan)

RelayInv ==
  /\ enabled \subseteq Channels
  /\ protocol \in [Channels -> {"unknown", "responses", "chat"}]
  /\ calls \in [Calls -> CallRow]
  /\ \A q \in Calls : CallFits(calls[q])
  /\ ProtocolIsKnown

-----------------------------------------------------------------------------
(* The plans.                                                               *)

\* A function on the first numbers is a sequence.
LEMMA Ordered ==
  ASSUME NEW S, NEW n \in Nat, NEW f \in [1..n -> S]
  PROVE  f \in Seq(S) /\ Len(f) = n /\ DOMAIN f = 1..n
<1>1. f \in Seq(S)
  BY SeqDef, Zenon
<1>2. Len(f) \in Nat /\ DOMAIN f = 1..Len(f)
  BY <1>1, LenProperties
<1>3. DOMAIN f = 1..n
  OBVIOUS
<1>4. \A k \in Int : k \in 1..Len(f) <=> k \in 1..n
  BY <1>2, <1>3
<1>5. Len(f) = n
  BY <1>2, <1>4
<1> QED BY <1>1, <1>3, <1>5

\* Going round: which place of the order an attempt asks.
Place1(i, n) == ((i - 1) % n) + 1
\* The place of an attempt in the order of the channels.
LEMMA GoesRound ==
  ASSUME NEW n \in Nat \ {0}, NEW i \in Nat \ {0}
  PROVE  Place1(i, n) \in 1..n /\ (i <= n => Place1(i, n) = i)
BY DEF Place1

\* Every order of the candidates goes down the priorities, however often it goes round.
LEMMA AttemptsAreOrdered ==
  ASSUME NEW S \in SUBSET Channels, S # {}, NEW course \in Plans(S)
  PROVE  OfChannels(course)
<1>1. PICK f \in Orders(S) : course = RoundRobin(f)
  BY DEF Plans
<1>2. IsFiniteSet(S) /\ Attempts \in Nat \ {0} /\ \A c \in Channels : Priority[c] \in Nat
  BY RelayAssumption, FS_Subset DEF Attempts
<1>3. PICK n \in Nat \ {0} : n = Cardinality(S)
  BY <1>2, FS_CardinalityType, FS_EmptySet
<1>4. f \in [1..n -> S] /\ \A i \in 1..n, j \in 1..n : i < j => Priority[f[i]] >= Priority[f[j]]
  BY <1>3 DEF Orders
<1>5. Len(f) = n
  BY <1>4, Ordered
<1>6. course = [i \in 1..Attempts |-> f[Place1(i, n)]]
  BY <1>1, <1>5 DEF RoundRobin, Place1
<1>7. \A i \in 1..Attempts : Place1(i, n) \in 1..n
  BY <1>2, GoesRound
<1>8. course \in [1..Attempts -> Channels] /\ \A i \in 1..Attempts : course[i] = f[Place1(i, n)]
  BY <1>4, <1>6, <1>7
<1>9. course \in Seq(Channels) /\ Len(course) = Attempts /\ DOMAIN course = 1..Attempts
  BY <1>2, <1>8, Ordered
<1>10. ASSUME NEW m \in 1..Attempts, NEW i \in 1..m, NEW j \in 1..Attempts,
              \A k \in 1..m : course[k] # course[j]
       PROVE  Priority[course[i]] >= Priority[course[j]]
  <2>1. PICK b \in 1..n : b = Place1(j, n)
    BY <1>7
  <2>2. b > m
    <3> SUFFICES ASSUME b <= m PROVE FALSE
      BY <1>2, <2>1
    <3>1. b \in 1..m /\ b \in 1..Attempts /\ b \in Nat \ {0}
      BY <1>2, <2>1
    <3>2. Place1(b, n) = b
      BY <3>1, <2>1, GoesRound
    <3>3. course[b] = f[b] /\ course[j] = f[b]
      BY <1>8, <2>1, <3>1, <3>2
    <3> QED BY <1>10, <3>1, <3>3
  <2>3. i \in 1..Attempts /\ i \in Nat \ {0} /\ i < b /\ i <= n
    BY <1>2, <2>1, <2>2
  <2>4. course[i] = f[i] /\ course[j] = f[b] /\ i \in 1..n
    <3>1. Place1(i, n) = i
      BY <2>3, GoesRound
    <3> QED BY <1>8, <2>1, <2>3, <3>1
  <2> QED BY <1>4, <2>1, <2>3, <2>4
<1> QED BY <1>9, <1>10 DEF OfChannels, Downwards

-----------------------------------------------------------------------------
(* The requests.                                                            *)

\* One call changes its row.
LEMMA RowBecomes ==
  ASSUME RelayInv, NEW q \in Calls, NEW call \in CallRow, CallFits(call), Becoming(q, call),
         enabled' = enabled, protocol' \in [Channels -> {"unknown", "responses", "chat"}], ProtocolIsKnown'
  PROVE  RelayInv'
<1>1. calls' \in [Calls -> CallRow] /\ calls'[q] = call /\ \A x \in Calls \ {q} : calls'[x] = calls[x]
  BY DEF RelayInv, Becoming
<1>2. \A x \in Calls : CallFits(calls'[x])
  BY <1>1 DEF RelayInv
<1> QED BY <1>1, <1>2 DEF RelayInv

\* The same, when what the dispatcher remembers stays.
LEMMA RowBecomesQuietly ==
  ASSUME RelayInv, NEW q \in Calls, NEW call \in CallRow, CallFits(call), Becoming(q, call),
         UNCHANGED <<enabled, protocol>>
  PROVE  RelayInv'
<1>1. protocol' \in [Channels -> {"unknown", "responses", "chat"}] /\ ProtocolIsKnown'
  BY DEF RelayInv, ProtocolIsKnown
<1> QED BY <1>1, RowBecomes

\* A call at rest.
LEMMA NewCallIsARow ==
  /\ NewCall \in CallRow /\ NewCall.phase = "idle" /\ NewCall.plan = <<>> /\ NewCall.at = 0
  /\ NewCall.heard = {} /\ NewCall.refused = FALSE /\ NewCall.fatal = FALSE
BY DEF NewCall, CallRow

\* Nobody was heard yet.
LEMMA SilentFits ==
  ASSUME NEW call \in CallRow, call.heard = {}
  PROVE  \E voice \in Voices : call.heard \subseteq {voice}
<1>1. <<0, "none">> \in Voices
  BY DEF Voices
<1> QED BY <1>1

\* The candidates are loaded.
LEMMA LoadHolds ==
  ASSUME RelayInv, NEW q \in Calls, NEW kind \in {"agent", "endpoint"}, LoadCandidates(q, kind)
  PROVE  RelayInv'
<1> DEFINE none == NewCall
<1>0. /\ none \in CallRow /\ none.plan = <<>> /\ none.at = 0 /\ none.heard = {} /\ none.refused = FALSE
      /\ none.fatal = FALSE
  BY NewCallIsARow
<1>1. UNCHANGED <<enabled, protocol>>
  BY Zenon DEF LoadCandidates
<1>2. CASE enabled = {} /\ kind = "agent"
  <2> DEFINE own == <<EnvChannel>>
             new == [none EXCEPT !.kind = kind, !.phase = "trying", !.at = 1, !.plan = own, !.via = "responses"]
  <2>1. own \in Seq(Channels \cup {EnvChannel}) /\ Len(own) = 1
    OBVIOUS
  <2>2. Becoming(q, new)
    BY <1>2 DEF LoadCandidates
  <2>3. WellPlanned(own)
    BY DEF WellPlanned
  <2> HIDE DEF none, own
  <2>4. /\ new \in CallRow /\ new.kind = "agent" /\ new.phase = "trying" /\ new.at = 1 /\ new.plan = own
        /\ new.heard = {} /\ new.refused = FALSE
    BY <1>0, <1>2, <2>1, Zenon DEF CallRow, Ended
  <2> HIDE DEF new
  <2>5. CallFits(new)
    <3>1. 1 \in 1..Len(own) /\ \E voice \in Voices : new.heard \subseteq {voice}
      BY <2>1, <2>4, SilentFits
    <3> QED BY <2>3, <2>4, <3>1 DEF CallFits
  <2> QED BY <1>1, <2>2, <2>4, <2>5, RowBecomesQuietly
<1>3. CASE enabled = {} /\ kind = "endpoint"
  <2> DEFINE new == [none EXCEPT !.kind = kind, !.phase = "missing"]
  <2>1. Becoming(q, new)
    BY <1>3 DEF LoadCandidates
  <2> HIDE DEF none
  <2>2. /\ new \in CallRow /\ new.phase = "missing" /\ new.at = 0 /\ new.plan = <<>> /\ new.heard = {}
    BY <1>0, <1>3, Zenon DEF CallRow, Ended
  <2> HIDE DEF new
  <2>3. CallFits(new)
    BY <2>2, SilentFits DEF CallFits
  <2> QED BY <1>1, <2>1, <2>2, <2>3, RowBecomesQuietly
<1>4. CASE enabled # {}
  <2>1. PICK course \in Plans(enabled) :
          Becoming(q, [none EXCEPT !.kind = kind, !.phase = "choosing", !.plan = course, !.at = 1])
    BY <1>4, Zenon DEF LoadCandidates
  <2> DEFINE new == [none EXCEPT !.kind = kind, !.phase = "choosing", !.plan = course, !.at = 1]
  <2>2. Becoming(q, new)
    BY <2>1
  <2>3. OfChannels(course) /\ Attempts \in Nat \ {0}
    BY <1>4, AttemptsAreOrdered, RelayAssumption DEF RelayInv, Attempts
  <2>4. course \in Seq(Channels \cup {EnvChannel}) /\ 1 \in 1..Len(course)
    BY <2>3 DEF OfChannels
  <2> HIDE DEF none
  <2>5. /\ new \in CallRow /\ new.phase = "choosing" /\ new.at = 1 /\ new.plan = course /\ new.heard = {}
        /\ new.refused = FALSE /\ new.kind = kind
    BY <1>0, <2>4, Zenon DEF CallRow, Ended
  <2> HIDE DEF new
  <2>6. CallFits(new)
    <3>1. \E voice \in Voices : new.heard \subseteq {voice}
      BY <2>5, SilentFits
    <3> QED BY <2>3, <2>4, <2>5, <3>1 DEF CallFits, WellPlanned
  <2> QED BY <1>1, <2>2, <2>5, <2>6, RowBecomesQuietly
<1> QED BY <1>2, <1>3, <1>4

\* What the invariant says of a request in progress.
LEMMA CallNow ==
  ASSUME RelayInv, NEW q \in Calls
  PROVE  /\ calls[q] \in CallRow /\ CallFits(calls[q])
         /\ calls[q].phase \in {"choosing", "trying"} =>
              calls[q].at \in 1..Len(calls[q].plan) /\ WellPlanned(calls[q].plan)
         /\ \A voice : voice = Piece(q) => voice \in Voices
<1>1. calls[q] \in CallRow /\ CallFits(calls[q])
  BY DEF RelayInv
<1>2. calls[q].at \in Nat /\ calls[q].via \in {"none", "responses", "chat"}
  BY <1>1 DEF CallRow
<1>3. Piece(q) \in Voices
  BY <1>2 DEF Piece, Voices
<1> QED BY <1>1, <1>3 DEF CallFits

\* The order of the candidates is chosen.
LEMMA ChooseHolds ==
  ASSUME RelayInv, NEW q \in Calls, ChooseProtocol(q)
  PROVE  RelayInv'
<1> DEFINE via == IF calls[q].kind = "endpoint" /\ protocol[ChannelOf(q)] = "chat" THEN "chat" ELSE "responses"
           new == [calls[q] EXCEPT !.phase = "trying", !.via = via]
<1>1. calls[q].phase = "choosing" /\ Becoming(q, new) /\ UNCHANGED <<enabled, protocol>>
  BY DEF ChooseProtocol, In
<1>2. via \in {"responses", "chat"}
  OBVIOUS
<1> HIDE DEF via
<1>3. /\ new \in CallRow /\ new.phase = "trying" /\ new.at = calls[q].at /\ new.plan = calls[q].plan
      /\ new.heard = calls[q].heard /\ new.refused = calls[q].refused /\ new.kind = calls[q].kind
  BY <1>2, CallNow, Zenon DEF CallRow
<1> HIDE DEF new
<1>4. CallFits(new)
  BY <1>1, <1>3, CallNow DEF CallFits
<1> QED BY <1>1, <1>3, <1>4, RowBecomesQuietly

\* A channel that does not speak the protocol is asked in the other one.
LEMMA FallBackHolds ==
  ASSUME RelayInv, NEW q \in Calls, FallBackToChat(q)
  PROVE  RelayInv'
<1> DEFINE new == [calls[q] EXCEPT !.via = "chat", !.refused = TRUE]
<1>1. /\ calls[q].phase = "trying" /\ Becoming(q, new) /\ UNCHANGED <<enabled, protocol>>
      /\ calls[q].plan[calls[q].at] \notin SpeaksResponses /\ calls[q].heard = {}
  BY DEF FallBackToChat, In, ChannelOf
<1>2. /\ new \in CallRow /\ new.phase = "trying" /\ new.at = calls[q].at /\ new.plan = calls[q].plan
      /\ new.heard = {} /\ new.kind = calls[q].kind
  BY <1>1, CallNow, Zenon DEF CallRow
<1> HIDE DEF new
<1>3. CallFits(new)
  BY <1>1, <1>2, CallNow, SilentFits DEF CallFits
<1> QED BY <1>1, <1>2, <1>3, RowBecomesQuietly

\* Whoever was heard in the attempt is heard on.
LEMMA SameVoice ==
  ASSUME RelayInv, NEW q \in Calls, calls[q].phase = "trying"
  PROVE  calls[q].heard \cup {Piece(q)} = {Piece(q)} /\ Piece(q) \in Voices
BY CallNow DEF CallFits, Piece

\* A piece is delivered.
LEMMA DeliverHolds ==
  ASSUME RelayInv, NEW q \in Calls, DeliverPiece(q)
  PROVE  RelayInv'
<1> DEFINE heard == calls[q].heard \cup {Piece(q)}
           new == [calls[q] EXCEPT !.heard = heard]
<1>1. calls[q].phase = "trying" /\ Becoming(q, new) /\ UNCHANGED <<enabled, protocol>>
  BY DEF DeliverPiece, In
<1>2. heard = {Piece(q)} /\ Piece(q) \in Voices /\ heard \in SUBSET Voices
  BY <1>1, SameVoice
<1> HIDE DEF heard
<1>3. /\ new \in CallRow /\ new.phase = "trying" /\ new.at = calls[q].at /\ new.plan = calls[q].plan
      /\ new.heard = heard /\ new.kind = calls[q].kind /\ new.via = calls[q].via
      /\ new.refused = calls[q].refused
  BY <1>1, <1>2, CallNow DEF CallRow
<1> HIDE DEF new
<1>4. CallFits(new)
  BY <1>1, <1>2, <1>3, CallNow DEF CallFits, Piece
<1> QED BY <1>1, <1>3, <1>4, RowBecomesQuietly

\* The answer ends.
LEMMA AnswerHolds ==
  ASSUME RelayInv, NEW q \in Calls, Answer(q)
  PROVE  RelayInv'
<1> DEFINE heard == calls[q].heard \cup {Piece(q)}
           new == [calls[q] EXCEPT !.phase = "answered", !.heard = heard]
           c == ChannelOf(q)
<1>1. calls[q].phase = "trying" /\ Becoming(q, new) /\ enabled' = enabled /\ CanAnswer(q)
  BY DEF Answer, In
<1>2. heard = {Piece(q)} /\ Piece(q) \in Voices /\ heard \in SUBSET Voices
  BY <1>1, SameVoice
<1>3. /\ protocol' \in [Channels -> {"unknown", "responses", "chat"}] /\ ProtocolIsKnown'
  <2>0. protocol \in [Channels -> {"unknown", "responses", "chat"}] /\ ProtocolIsKnown
    BY DEF RelayInv
  <2>1. CASE protocol' = protocol
    BY <2>0, <2>1 DEF ProtocolIsKnown
  <2>2. CASE calls[q].kind # "agent" /\ protocol' # protocol
    <3>1. calls[q].kind = "endpoint"
      <4>1. calls[q].kind \in {"none", "agent", "endpoint"} /\ calls[q].kind # "none"
        BY <1>1, CallNow DEF CallFits, CallRow
      <4> QED BY <2>2, <4>1
    <3>2. calls[q].plan \in Seq(Channels) /\ calls[q].at \in 1..Len(calls[q].plan)
      BY <1>1, <3>1, CallNow DEF CallFits, OfChannels
    <3>3. c \in Channels
      BY <3>2 DEF ChannelOf
    <3>4. CASE calls[q].via = "responses" /\ protocol' = [protocol EXCEPT ![c] = "responses"]
      <4>1. c \in SpeaksResponses
        BY <1>1, <3>1, <3>4 DEF CanAnswer
      <4> QED BY <2>0, <3>3, <3>4, <4>1 DEF ProtocolIsKnown
    <3>5. CASE calls[q].refused /\ protocol' = [protocol EXCEPT ![c] = "chat"]
      <4>1. c \notin SpeaksResponses
        BY <1>1, <3>5, CallNow DEF CallFits, ChannelOf
      <4> QED BY <2>0, <3>3, <3>5, <4>1 DEF ProtocolIsKnown
    <3> QED BY <2>2, <3>4, <3>5 DEF Answer
  <2> QED BY <2>1, <2>2 DEF Answer
<1> HIDE DEF heard
<1>4. /\ new \in CallRow /\ new.phase = "answered" /\ new.at = calls[q].at /\ new.plan = calls[q].plan
      /\ new.heard = heard
  BY <1>1, <1>2, CallNow, Zenon DEF CallRow, Ended
<1> HIDE DEF new
<1>5. CallFits(new)
  BY <1>1, <1>2, <1>4, CallNow DEF CallFits
<1> QED BY <1>1, <1>3, <1>4, <1>5, RowBecomes

\* An attempt fails; the next channel is tried, or the call ends.
LEMMA FailHolds ==
  ASSUME RelayInv, NEW q \in Calls, NEW repairable \in BOOLEAN, FailAttempt(q, repairable)
  PROVE  RelayInv'
<1>0. calls[q].phase = "trying" /\ UNCHANGED <<enabled, protocol>> /\ calls[q] \in CallRow
      /\ CallFits(calls[q]) /\ calls[q].at \in Nat
  BY CallNow DEF FailAttempt, In, CallRow
<1>1. CASE ShouldTryNext(q, repairable)
  <2> DEFINE next == calls[q].at + 1
             new == [calls[q] EXCEPT !.phase = "choosing", !.at = next, !.refused = FALSE, !.via = "none"]
  <2>1. Becoming(q, new)
    BY <1>1 DEF FailAttempt
  <2>2. next \in Nat /\ next \in 1..Len(calls[q].plan) /\ calls[q].heard = {}
    <3>1. Len(calls[q].plan) \in Nat
      BY <1>0 DEF CallRow
    <3> QED BY <1>0, <1>1, <3>1, CallNow DEF ShouldTryNext
  <2> HIDE DEF next
  <2>3. /\ new \in CallRow /\ new.phase = "choosing" /\ new.at = next /\ new.plan = calls[q].plan
        /\ new.heard = {} /\ new.kind = calls[q].kind /\ new.refused = FALSE
    BY <1>0, <2>2, Zenon DEF CallRow
  <2> HIDE DEF new
  <2>4. CallFits(new)
    BY <1>0, <2>2, <2>3, SilentFits DEF CallFits
  <2> QED BY <1>0, <2>1, <2>3, <2>4, RowBecomesQuietly
<1>2. CASE ~ShouldTryNext(q, repairable)
  <2> DEFINE fatal == ~repairable
             new == [calls[q] EXCEPT !.phase = "failed", !.fatal = fatal]
  <2>1. Becoming(q, new)
    BY <1>2 DEF FailAttempt
  <2>2. fatal \in BOOLEAN
    OBVIOUS
  <2>3. ~fatal /\ calls[q].heard = {} => calls[q].at = Len(calls[q].plan)
    <3>1. Len(calls[q].plan) \in Nat /\ calls[q].at \in 1..Len(calls[q].plan)
      BY <1>0, CallNow DEF CallRow
    <3> QED BY <1>0, <1>2, <3>1 DEF ShouldTryNext
  <2> HIDE DEF fatal
  <2>4. /\ new \in CallRow /\ new.phase = "failed" /\ new.at = calls[q].at /\ new.plan = calls[q].plan
        /\ new.heard = calls[q].heard /\ new.fatal = fatal
    BY <1>0, <2>2, Zenon DEF CallRow, Ended
  <2> HIDE DEF new
  <2>5. CallFits(new)
    BY <1>0, <2>3, <2>4 DEF CallFits
  <2> QED BY <1>0, <2>1, <2>4, <2>5, RowBecomesQuietly
<1> QED BY <1>1, <1>2

\* The caller is served.
LEMMA LeaveHolds ==
  ASSUME RelayInv, NEW q \in Calls, ReaderLeaves(q)
  PROVE  RelayInv'
<1> DEFINE new == [calls[q] EXCEPT !.phase = "left"]
<1>1. calls[q].phase \in {"choosing", "trying"} /\ Becoming(q, new) /\ UNCHANGED <<enabled, protocol>>
  BY DEF ReaderLeaves
<1>2. /\ new \in CallRow /\ new.phase = "left" /\ new.at = calls[q].at /\ new.plan = calls[q].plan
      /\ new.heard = calls[q].heard
  BY <1>1, CallNow DEF CallRow, Ended
<1> HIDE DEF new
<1>3. CallFits(new)
  BY <1>1, <1>2, CallNow DEF CallFits
<1> QED BY <1>1, <1>2, <1>3, RowBecomesQuietly

\* No call.
LEMMA RelayBegins == RelayInit => RelayInv
<1> SUFFICES ASSUME RelayInit PROVE RelayInv
  OBVIOUS
<1>1. CallFits(NewCall)
  BY NewCallIsARow, SilentFits DEF CallFits
<1>2. calls \in [Calls -> CallRow] /\ \A q \in Calls : calls[q] = NewCall
  BY NewCallIsARow DEF RelayInit
<1>3. protocol \in [Channels -> {"unknown", "responses", "chat"}] /\ ProtocolIsKnown /\ enabled \subseteq Channels
  BY DEF RelayInit, ProtocolIsKnown
<1> QED BY <1>1, <1>2, <1>3 DEF RelayInv

\* Every step of the relay.
LEMMA RelayStep ==
  ASSUME RelayInv, [RelayNext]_relayVars
  PROVE  RelayInv'
<1>1. CASE UNCHANGED relayVars
  BY <1>1 DEF RelayInv, relayVars, ProtocolIsKnown
<1>2. CASE ChannelsChange
  <2>1. enabled' \subseteq Channels
    BY <1>2 DEF ChannelsChange, RelayInv
  <2> QED BY <1>2, <2>1 DEF ChannelsChange, RelayInv, ProtocolIsKnown
<1>3. ASSUME NEW q \in Calls, NEW kind \in {"agent", "endpoint"}, LoadCandidates(q, kind) PROVE RelayInv'
  BY <1>3, LoadHolds
<1>4. ASSUME NEW q \in Calls,
             ChooseProtocol(q) \/ FallBackToChat(q) \/ DeliverPiece(q) \/ Answer(q) \/ ReaderLeaves(q)
      PROVE  RelayInv'
  BY <1>4, ChooseHolds, FallBackHolds, DeliverHolds, AnswerHolds, LeaveHolds
<1>5. ASSUME NEW q \in Calls, NEW repairable \in BOOLEAN, FailAttempt(q, repairable) PROVE RelayInv'
  BY <1>5, FailHolds
<1> QED BY <1>1, <1>2, <1>3, <1>4, <1>5 DEF RelayNext

\* What the invariant says to whoever waits for an answer.
LEMMA RelayAgrees == RelayInv => RelayTypeOK /\ RelayHolds
<1> SUFFICES ASSUME RelayInv PROVE RelayTypeOK /\ RelayHolds
  OBVIOUS
<1>0. Attempts \in Nat \ {0}
  BY RelayAssumption DEF Attempts
<1>1. ASSUME NEW q \in Calls
      PROVE  /\ calls[q].phase \in {"idle", "choosing", "trying"} \cup Ended
             /\ calls[q].plan \in Seq(Channels \cup {EnvChannel})
             /\ calls[q].at \in 0..Attempts
  <2>1. calls[q] \in CallRow /\ CallFits(calls[q])
    BY CallNow
  <2>2. CASE calls[q].phase \in {"idle", "missing"}
    BY <1>0, <2>1, <2>2 DEF CallFits, CallRow
  <2>3. CASE calls[q].phase \notin {"idle", "missing"}
    <3>1. WellPlanned(calls[q].plan) /\ calls[q].at \in 1..Len(calls[q].plan)
      BY <2>1, <2>3 DEF CallFits
    <3>2. Len(calls[q].plan) \in 1..Attempts
      <4>1. CASE calls[q].plan = <<EnvChannel>>
        <5>1. Len(calls[q].plan) = 1
          BY <4>1
        <5> QED BY <1>0, <5>1
      <4>2. CASE OfChannels(calls[q].plan)
        BY <1>0, <4>2 DEF OfChannels
      <4> QED BY <3>1, <4>1, <4>2 DEF WellPlanned
    <3>3. calls[q].at \in 0..Attempts
      BY <1>0, <3>1, <3>2
    <3> QED BY <2>1, <3>3 DEF CallRow
  <2> QED BY <2>2, <2>3
<1>2. RelayTypeOK
  BY <1>1 DEF RelayInv, RelayTypeOK
<1>3. OneVoice
  <2>1. ASSUME NEW q \in Calls PROVE Cardinality(calls[q].heard) <= 1
    <3>1. PICK voice \in Voices : calls[q].heard \subseteq {voice}
      BY CallNow DEF CallFits
    <3>2. calls[q].heard = {} \/ calls[q].heard = {voice}
      BY <3>1
    <3>3. Cardinality({}) = 0 /\ Cardinality({voice}) = 1
      BY FS_EmptySet, FS_Singleton, Zenon
    <3> QED BY <3>2, <3>3
  <2> QED BY <2>1 DEF OneVoice
<1>4. FailureIsTheLastResort
  <2> SUFFICES ASSUME NEW q \in Calls, calls[q].phase = "failed"
               PROVE LET tried == {calls[q].plan[i] : i \in 1..calls[q].at}
                         planned == {calls[q].plan[i] : i \in DOMAIN calls[q].plan}
                     IN  /\ ~ calls[q].fatal /\ calls[q].heard = {} =>
                              /\ tried = planned
                              /\ EnvChannel \in tried \/ calls[q].at = Attempts
                         /\ EnvChannel \notin planned =>
                              \A c \in planned \ tried, d \in tried : Priority[d] >= Priority[c]
    BY Zenon DEF FailureIsTheLastResort, In
  <2> DEFINE course == calls[q].plan
             tried == {course[i] : i \in 1..calls[q].at}
             planned == {course[i] : i \in DOMAIN course}
  <2>1. WellPlanned(course) /\ calls[q].at \in 1..Len(course)
        /\ (~calls[q].fatal /\ calls[q].heard = {} => calls[q].at = Len(course))
    BY CallNow DEF CallFits
  <2>2. DOMAIN course = 1..Len(course) /\ Len(course) \in Nat
    BY CallNow DEF CallRow
  <2> HIDE DEF course
  <2>3. ASSUME ~calls[q].fatal, calls[q].heard = {}
        PROVE  tried = planned /\ (EnvChannel \in tried \/ calls[q].at = Attempts)
    <3>1. calls[q].at = Len(course)
      BY <2>1, <2>3
    <3>2. CASE course = <<EnvChannel>>
      <4>1. course[1] = EnvChannel /\ 1 \in 1..calls[q].at
        BY <2>1, <3>2
      <4> QED BY <2>2, <3>1, <4>1
    <3>3. CASE OfChannels(course)
      BY <2>2, <3>1, <3>3 DEF OfChannels
    <3> QED BY <2>1, <3>2, <3>3, Zenon DEF WellPlanned
  <2>4. ASSUME EnvChannel \notin planned, NEW c \in planned \ tried, NEW d \in tried
        PROVE  Priority[d] >= Priority[c]
    <3>1. OfChannels(course)
      <4>1. course # <<EnvChannel>>
        <5> SUFFICES ASSUME course = <<EnvChannel>> PROVE FALSE
          OBVIOUS
        <5>1. course[1] = EnvChannel /\ 1 \in DOMAIN course
          OBVIOUS
        <5> QED BY <2>4, <5>1
      <4> QED BY <2>1, <4>1 DEF WellPlanned
    <3>2. PICK j \in DOMAIN course : c = course[j]
      BY <2>4
    <3>3. PICK i \in 1..calls[q].at : d = course[i]
      BY <2>4
    <3>4. \A k \in 1..calls[q].at : course[k] # course[j]
      BY <2>4, <3>2
    <3>5. calls[q].at \in DOMAIN course
      BY <2>1, <2>2
    <3> QED BY <3>1, <3>2, <3>3, <3>4, <3>5, Zenon DEF OfChannels, Downwards
  <2> QED BY <2>3, <2>4, Zenon DEF course
<1> QED BY <1>2, <1>3, <1>4 DEF RelayHolds, RelayInv

\* A reader never hears two attempts; a request that fails has asked the channels in their order;
\* and the dispatcher remembers chat completions of those channels only that refused the other
\* protocol: for any number of channels, requests and retries (agent.go, responses_dispatcher.go).
THEOREM RelayStays == RelaySpec => [](RelayTypeOK /\ RelayHolds)
<1>1. RelayInit => RelayInv
  BY RelayBegins
<1>2. RelayInv /\ [RelayNext]_relayVars => RelayInv'
  BY RelayStep
<1> QED BY <1>1, <1>2, RelayAgrees, PTL DEF RelaySpec

-----------------------------------------------------------------------------
(* The platform as a whole.                                                *)

PlatformInv ==
  AccountInv /\ GateInv /\ BindingInv /\ ReminderInv /\ StorageInv
  /\ ForumIInv /\ ChannelInv /\ RelayInv
PlatformVars == <<part, accountVars, gateVars, bindingVars, forumVars, channelVars, relayVars, bridgeVars,
                  reminderVars, searchVars, exchangeVars, storageVars>>

(* Whatever part a behaviour plays, its step is one of every module's own.  *)
LEMMA PlatformStep ==
  ASSUME PlatformInv, [PlatformNext]_PlatformVars
  PROVE  /\ PlatformInv'
         /\ [LogoutStays]_accountVars /\ [TellsNewFacts]_forumVars /\ [Activated]_channelVars
<1>1. [AccountNext]_accountVars /\ [GateNext]_gateVars
  BY DEF PlatformNext, PlatformVars
<1>2. [BindingNext]_bindingVars /\ [StorageNext]_storageVars
  BY DEF PlatformNext, PlatformVars
<1>10. [RemindersNext]_reminderVars
  BY DEF PlatformNext, PlatformVars
<1>3. [ForumNext]_forumVars
  BY DEF PlatformNext, PlatformVars
<1>4. [ChannelNext]_channelVars /\ [RelayNext]_relayVars
  BY DEF PlatformNext, PlatformVars
<1>5. AccountInv' /\ LogoutStays
  BY <1>1, AccountStep DEF PlatformInv
<1>6. GateInv' /\ BindingInv' /\ StorageInv'
  BY <1>1, <1>2, GateStep, BindingStep, StorageStep DEF PlatformInv
<1>11. ReminderInv'
  BY <1>10, ReminderStep DEF PlatformInv
<1>7. ForumIInv' /\ [TellsNewFacts]_forumVars
  BY <1>3, ForumStep DEF PlatformInv
<1>8. ChannelInv' /\ Activated
  BY <1>4, ChannelStep DEF PlatformInv
<1>9. RelayInv'
  BY <1>4, RelayStep DEF PlatformInv
<1> QED BY <1>5, <1>6, <1>7, <1>8, <1>9, <1>11 DEF PlatformInv

\* Every part begins where its module does.
LEMMA PlatformBegins == PlatformInit => PlatformInv
<1> SUFFICES ASSUME PlatformInit PROVE PlatformInv
  OBVIOUS
<1>1. AccountInit /\ GateInit /\ BindingInit /\ ForumInit /\ ChannelInit /\ RelayInit /\ StorageInit
      /\ RemindersInit
  BY DEF PlatformInit
<1> QED BY <1>1, AccountBegins, GateBegins, BindingBegins, ForumBegins, ChannelBegins, RelayBegins,
           StorageBegins, RemindersBegin DEF PlatformInv

\* The invariants of the platform's parts hold together.
THEOREM PlatformInvariant == PlatformSpec => []PlatformInv
<1>1. PlatformInv /\ [PlatformNext]_PlatformVars => PlatformInv'
  BY PlatformStep
<1> QED BY <1>1, PlatformBegins, PTL DEF PlatformSpec, PlatformVars

\* Whatever part it plays, the platform keeps its rows in shape.
THEOREM PlatformTypeCorrect == PlatformSpec => []PlatformTypeOK
<1>1. PlatformInv => PlatformTypeOK
  BY AccountsAgree, GatesAgree, BindingsAgree, ChannelsAgree, RelayAgrees
     DEF PlatformInv, ForumIInv, PlatformTypeOK
<1> QED BY <1>1, PlatformInvariant, PTL

\* Sessions end with the account's version, the gates let through who passed them, a follower is
\* bound to one account, a student is reminded once, and objects lie where they are looked for
\* (auth/service.go, captcha.go, limiter.go, wechat/service.go, reminder_worker.go,
\* runtime_manager.go).
THEOREM AccessStays == PlatformSpec => []AccessHolds
<1>1. PlatformInv => AccessHolds
  BY AccountsAgree, GatesAgree, BindingsAgree, RemindersAgree, StorageAgrees DEF PlatformInv, AccessHolds
<1> QED BY <1>1, PlatformInvariant, PTL

\* A thread and the news of it agree, a provider has one default model, and a relayed answer
\* comes from one channel (forum_repository.go, admin_ai_config_repository.go,
\* einoagent/agent.go, responses_dispatcher.go).
THEOREM ServicesStay == PlatformSpec => []ServicesHold
<1>1. ForumIInv => ForumAgrees
  BY ForumFacts
<1>2. PlatformInv => ServicesHold
  BY <1>1, ChannelsAgree, RelayAgrees DEF PlatformInv, ServicesHold
<1> QED BY <1>2, PlatformInvariant, PTL

\* A logout is final, a new fact of the forum is told, and what embeds was probed, in every
\* behaviour of the platform.
THEOREM PlatformFactsStand == PlatformSpec => FactsStand
<1>1. /\ PlatformInv /\ [PlatformNext]_PlatformVars => [LogoutStays]_accountVars
      /\ PlatformInv /\ [PlatformNext]_PlatformVars => [TellsNewFacts]_forumVars
      /\ PlatformInv /\ [PlatformNext]_PlatformVars => [Activated]_channelVars
  BY PlatformStep
<1>2. PlatformSpec => [][LogoutStays]_accountVars
  BY <1>1, PlatformInvariant, PTL DEF PlatformSpec, PlatformVars
<1>3. PlatformSpec => [][TellsNewFacts]_forumVars
  BY <1>1, PlatformInvariant, PTL DEF PlatformSpec, PlatformVars
<1>4. PlatformSpec => [][Activated]_channelVars
  BY <1>1, PlatformInvariant, PTL DEF PlatformSpec, PlatformVars
<1>5. PlatformSpec => LogoutIsFinal
  BY <1>2 DEF LogoutIsFinal, LogoutStays
<1>6. PlatformSpec => NewFactsAreTold
  BY <1>3 DEF NewFactsAreTold, TellsNewFacts
<1>7. Activated <=>
        (embedding' # embedding => Usable(embedding'.model) /\ Source(embedding'.model) = embedding')
  BY DEF Activated
<1>8. PlatformSpec => ActivatedAsProbed
  BY <1>4, <1>7, PTL DEF ActivatedAsProbed
<1> QED BY <1>5, <1>6, <1>8 DEF FactsStand
=============================================================================
