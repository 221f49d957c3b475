----------------------------- MODULE MCPlatform -----------------------------
(***************************************************************************)
(* The modules around the learning core, for TLC.  In the model they share *)
(* no state: a behaviour plays one part of one module and leaves the       *)
(* others at rest.                                                         *)
(***************************************************************************)
EXTENDS AccountSessions, LoginGates, WechatBinding, Forum, AIChannels, AIRelay, ResponsesBridge,
        DailyReminders, ResourceSearch, DataExchange, StorageSwitch,
        TLC

CONSTANTS p1, o1, ch3  \* members of the constants of the modules

VARIABLE part   \* chosen by the initial state, never changed

Plays(parts) == part \in parts
Interchangeable == Permutations(Operators) \cup Permutations(Replies)
RelayPriority == [c \in Channels |-> IF c = ch3 THEN 1 ELSE 2]

-----------------------------------------------------------------------------
(* The parts.                                                              *)

\* Rotation and logout over two processes and a failing Redis; changes of the account
\* around requests of one process.
Sessions == {"tokens", "account"}
SessionScene ==
  /\ part = "tokens" =>
       /\ account' = account /\ resets' = resets
       /\ \A q \in AuthRequests : authRequests'[q].phase \notin {"store", "reset"}
  /\ part = "account" =>
       /\ redisFaults' = 0 /\ revoked' = {} /\ strict'
       /\ resets' # <<>> => Len(tokens') <= 1
       /\ \A q \in AuthRequests : authRequests'[q] # NoAuthRequest => authRequests'[q].process = p1

\* Puzzles are issued in their order. A client short of its limit, with a failing Redis; one
\* far from it, who guesses passwords.
Gates == {"captcha", "guesses"}
GateScene ==
  /\ \A i \in Puzzles, j \in Puzzles : i < j /\ puzzles'[j] # "new" => puzzles'[i] # "new"
  /\ part = "captcha" => puzzles'[4] = "new" /\ guesses' <= 1
  /\ part = "guesses" => outages' <= 1

\* One follower subscribes, leaves, and binds once; two followers send one ticket.
Bindings == {"subscriptions", "tickets"}
BindingScene ==
  /\ \A m \in callbacks' : IF part = "subscriptions" THEN m.from = o1 ELSE m.kind = "text"
  /\ part = "subscriptions" =>
       /\ Cardinality({m \in callbacks' : m.kind = "text"}) <= 1
       /\ \A u \in Users : ticket'[u].status # "expired"

\* Replies, accepted, deleted, moderated and restored; likes, favourites and selections.
Forums == {"thread", "news"}
ForumScene ==
  /\ part = "thread" =>
       /\ likes' = {} /\ favorites' = {} /\ retired' = {} /\ teaches' = {}
       /\ Cardinality(reports') <= 1 /\ (reports' # {} => unread' = {} /\ seen' \subseteq seen)
       /\ \A x \in reports' : x[1] \notin Teachers
       /\ \A r \in Replies : replies'[r].author \notin Teachers
       /\ post'.edited => \A r \in Replies : replies'[r].state = "none"
       /\ (\E r \in Replies : replies'[r].edited) =>
             post'.accepted = Nobody /\ unread' = {} /\ reports' = {}
  /\ part = "news" =>
       /\ \A r \in Replies : replies'[r].state = "none"
       /\ reports' = {} /\ ~post'.edited /\ Cardinality(retired') <= 1
       /\ favorites' # {} => likes' = {} /\ unread' = {} /\ seen' = {}
       /\ Cardinality(likes') <= 2 /\ Cardinality(favorites') <= 1

\* Two administrators choose the default model of a provider that stays as it is; one of
\* them probes and activates an embedding, or configures the agent, while the other
\* changes the rows.
Channeling == {"defaults", "embedding", "agent"}
ChannelScene ==
  /\ part # "agent" => agentConfig' = agentConfig
  /\ part # "embedding" => embedding' = NoEmbedding
  /\ \A o \in Operators :
       /\ part = "defaults" => operators'[o].doing \notin {"probing", "mapping"}
       /\ part = "embedding" => operators'[o].doing \in {"nothing", "probing"}
       /\ part = "agent" => operators'[o].doing \in {"nothing", "mapping"}
  /\ part # "defaults" => \E o \in Operators : operators'[o].doing = "nothing"
  /\ part # "agent" => \A p \in Providers : providers'[p].rev <= IF part = "defaults" THEN 0 ELSE 1

\* One request over three channels; two requests over two.
Relays == {"relay", "relays"}
RelayScene ==
  /\ part = "relay" => \E q \in Calls : calls'[q].phase = "idle"
  /\ part = "relays" => ch3 \notin enabled' /\ enabled' = enabled

\* Reminders by hand and by the worker; the alert, for a plan that changes, with one
\* student; the day's figures.
Reminding == {"reminding", "stock", "statistics"}
Tasks(kind) == \E p \in Busy : kind \in {todo'[p][i] : i \in DOMAIN todo'[p]}
ReminderScene ==
  /\ part = "reminding" =>
       /\ settings'.strategy = "personalized" /\ members' = Learners /\ plan' = plan
       /\ withdrawn' = {}
       /\ (~ \A p \in Busy : todo[p] # <<"low">>) => todo' # todo
       /\ \A k \in DOMAIN jobs' : events'[k[1]].kind = "manual" => jobs'[k] = "pending"
       /\ day' = LastDay => settings' = settings /\ \A s \in Learners : duty'[s].status # "completed"
       /\ \A s \in Learners : duty'[s].status # "unavailable" /\ duty'[s].first # "incorrect"
  /\ part = "stock" =>
       /\ ~settings'.auto /\ members' = Learners /\ ~Tasks("manual")
       /\ \A s \in Learners : duty'[s].status \in {"none", "ready"}
       /\ ~ \A s \in Learners : duty'[s].status = "ready"
  /\ part = "statistics" => events' = <<>> /\ todo' = todo /\ plan' = plan /\ withdrawn' = {}

\* A text of three chunks, two of them alike, a second version of it, and a video.
ChunkOf(version, ordinal, parent, text, title) ==
  [version |-> version, ordinal |-> ordinal, parent |-> parent, text |-> text, title |-> title,
   video |-> version[1] = "B"]
TheCorpus ==
  << ChunkOf(<<"A", 1>>, 1, 0, {"x"}, {}), ChunkOf(<<"A", 1>>, 2, 0, {"x"}, {}),
     ChunkOf(<<"A", 1>>, 3, 1, {"x", "y"}, {}), ChunkOf(<<"A", 2>>, 1, 0, {"y"}, {}),
     ChunkOf(<<"B", 1>>, 1, 0, {"x", "y"}, {"z"}) >>
Asks(kind, words, topK, budget) ==
  [kind |-> kind, words |-> words, video |-> FALSE, topK |-> topK, budget |-> budget,
   chunk |-> 1, generation |-> 1]
TheRequests ==
  { Asks("search", {"x", "y"}, 3, 8), Asks("chat", {"y", "z"}, 0, 6),
    [Asks("chat", {"x"}, 1, 0) EXCEPT !.video = TRUE], Asks("search", {}, 1, 0),
    Asks("search", {"x"}, 4, 9), [Asks("citation", {"c"}, 1, 9) EXCEPT !.chunk = 3],
    [Asks("citation", {"c"}, 1, 9) EXCEPT !.chunk = 4, !.generation = 2] }

\* Forms, with a credential or with the one stored before; each bucket has its own.
Form(backend, bucket, private, credential) ==
  [backend |-> backend, bucket |-> bucket, private |-> private, credential |-> credential]
TheForms ==
  { Form("local", "b1", TRUE, ""), Form("s3", "b1", TRUE, "c1"), Form("s3", "b1", FALSE, ""),
    Form("s3", "b2", TRUE, "c2"), Form("s3", "b2", TRUE, "") }
TheBucketKeys == {<<"b1", "c1">>, <<"b2", "c2">>}

-----------------------------------------------------------------------------
\* The library and the two databases are there in their own parts only.
PlatformInit ==
  /\ part \in Sessions \cup Gates \cup Bindings \cup Forums \cup Channeling \cup Relays
             \cup Reminding \cup {"protocols", "search", "exchange", "storage"}
  /\ AccountInit /\ (part = "tokens" \/ strict)
  /\ GateInit /\ (part = "captcha" \/ strictGates)
  /\ issues = IF part = "captcha" THEN [redis |-> 2, local |-> 2] ELSE [redis |-> 0, local |-> 0]
  /\ BindingInit
  /\ ForumInit /\ (part = "news" \/ teaches = {})
  /\ ChannelInit
  /\ RelayInit /\ (Plays(Relays) \/ enabled = {}) /\ (part = "relays" => ch3 \notin enabled)
  /\ BridgeInit
  /\ IF part = "search" THEN SearchInit ELSE library = <<>> /\ search = NoSearch
  /\ IF part = "exchange" THEN ExchangeInit
     ELSE source = {} /\ target = {} /\ exchange = NewExchange
  /\ StorageInit
  /\ RemindersInit /\ (part = "statistics" \/ roster = Learners)

PlatformNext ==
  /\ UNCHANGED part
  /\ IF Plays(Sessions) THEN AccountNext /\ SessionScene ELSE UNCHANGED accountVars
  /\ IF Plays(Gates) THEN GateNext /\ GateScene ELSE UNCHANGED gateVars
  /\ IF Plays(Bindings) THEN BindingNext /\ BindingScene ELSE UNCHANGED bindingVars
  /\ IF Plays(Forums) THEN ForumNext /\ ForumScene ELSE UNCHANGED forumVars
  /\ IF Plays(Channeling) THEN ChannelNext /\ ChannelScene ELSE UNCHANGED channelVars
  /\ IF Plays(Relays) THEN RelayNext /\ RelayScene ELSE UNCHANGED relayVars
  /\ IF part = "protocols" THEN BridgeNext ELSE UNCHANGED bridgeVars
  /\ IF part = "search" THEN SearchNext ELSE UNCHANGED searchVars
  /\ IF part = "exchange" THEN ExchangeNext ELSE UNCHANGED exchangeVars
  /\ IF part = "storage" THEN StorageNext ELSE UNCHANGED storageVars
  /\ IF Plays(Reminding) THEN RemindersNext /\ ReminderScene ELSE UNCHANGED reminderVars

PlatformSpec ==
  PlatformInit /\ [][PlatformNext]_<<part, accountVars, gateVars, bindingVars, forumVars,
                                     channelVars, relayVars, bridgeVars, reminderVars,
                                     searchVars, exchangeVars, storageVars>>

PlatformTypeOK ==
  AccountTypeOK /\ GateTypeOK /\ BindingTypeOK /\ ForumTypeOK /\ ChannelTypeOK /\ RelayTypeOK

\* The invariants of the modules, by concern: who may do what and is told what; the forum and
\* the models, which their users share; what is computed out of what was read. And what
\* their steps never undo.
AccessHolds == AccountsHold /\ GatesHold /\ BindingsHold /\ RemindersHold /\ StorageHolds
ServicesHold == ForumAgrees /\ ChannelsHold /\ RelayHolds
ResultsHold == SearchHolds /\ ExchangeHolds /\ ProtocolsAgree
FactsStand == LogoutIsFinal /\ NewFactsAreTold /\ ActivatedAsProbed
=============================================================================
