------------------------------ MODULE AIRelay ------------------------------
(* One logical model served by several channels: how a request is tried on one *)
(* channel after the other. internal/adapter/llm/einoagent/agent.go (the       *)
(* program's own agents), internal/adapter/llm/openaicompat/                   *)
(* responses_dispatcher.go (the OpenAI-compatible endpoint, which also chooses *)
(* between a channel's two protocols), internal/application/llmrouting. What a *)
(* provider answers is external: any outcome at any step.                      *)
EXTENDS Naturals, FiniteSets, Sequences

CONSTANTS
  Channels,        \* the providers that carry the model
  Priority,        \* their priority
  Retries,         \* retries configured for the model or the agent
  SpeaksResponses, \* channels whose endpoint knows the Responses protocol
  Calls,           \* requests in progress
  EnvChannel       \* the channel of the environment's configuration

ASSUME RelayAssumption ==
  /\ IsFiniteSet(Channels) /\ Priority \in [Channels -> Nat] /\ Retries \in Nat
  /\ SpeaksResponses \subseteq Channels /\ EnvChannel \notin Channels

VARIABLES
  enabled,     \* the channels that are active in the database
  protocol,    \* the dispatcher's cache: channel -> protocol that worked
  calls        \* the requests

relayVars == <<enabled, protocol, calls>>

Ended == {"answered", "failed", "missing", "left"}
NewCall == [kind |-> "none", phase |-> "idle", plan |-> <<>>, at |-> 0, via |-> "none",
            heard |-> {}, fatal |-> FALSE, refused |-> FALSE]

RelayInit ==
  /\ enabled \in SUBSET Channels
  /\ protocol = [c \in Channels |-> "unknown"]
  /\ calls = [q \in Calls |-> NewCall]

Becoming(q, x) == calls' = [calls EXCEPT ![q] = x]
In(q, phase) == calls[q].phase = phase
ChannelOf(q) == calls[q].plan[calls[q].at]

(* Order: by descending priority, in any order within one priority; the attempts *)
(* of runtimeConfigsFromCandidates go round the order.                           *)
Orders(S) == {f \in [1..Cardinality(S) -> S] :
                /\ \A i, j \in DOMAIN f : i # j => f[i] # f[j]
                /\ \A i, j \in DOMAIN f : i < j => Priority[f[i]] >= Priority[f[j]]}
Attempts == Retries + 1
RoundRobin(f) == [i \in 1..Attempts |-> f[((i - 1) % Len(f)) + 1]]
Plans(S) == {RoundRobin(f) : f \in Orders(S)}

(* With no channel an agent falls back on the environment's configuration, and    *)
(* the endpoint answers that the model does not exist.                           *)
LoadCandidates(q, kind) ==
  /\ In(q, "idle")
  /\ IF enabled = {}
       THEN Becoming(q, IF kind = "agent"
                          THEN [NewCall EXCEPT !.kind = kind, !.phase = "trying", !.at = 1,
                                               !.plan = <<EnvChannel>>, !.via = "responses"]
                          ELSE [NewCall EXCEPT !.kind = kind, !.phase = "missing"])
       ELSE \E plan \in Plans(enabled) :
              Becoming(q, [NewCall EXCEPT !.kind = kind, !.phase = "choosing", !.plan = plan, !.at = 1])
  /\ UNCHANGED <<enabled, protocol>>

(* relayCandidate: the native protocol, unless the cache says that only chat      *)
(* completions worked here. An agent's client hides this choice.                  *)
ChooseProtocol(q) ==
  /\ In(q, "choosing")
  /\ Becoming(q, [calls[q] EXCEPT !.phase = "trying",
                    !.via = IF calls[q].kind = "endpoint" /\ protocol[ChannelOf(q)] = "chat"
                              THEN "chat" ELSE "responses"])
  /\ UNCHANGED <<enabled, protocol>>

(* The endpoint of the channel does not know the protocol: chat completions.       *)
FallBackToChat(q) ==
  /\ In(q, "trying") /\ calls[q].kind = "endpoint" /\ calls[q].via = "responses"
  /\ ChannelOf(q) \notin SpeaksResponses /\ calls[q].heard = {}
  /\ Becoming(q, [calls[q] EXCEPT !.via = "chat", !.refused = TRUE])
  /\ UNCHANGED <<enabled, protocol>>

CanAnswer(q) == calls[q].kind = "endpoint" /\ calls[q].via = "responses"
                  => ChannelOf(q) \in SpeaksResponses
Piece(q) == <<calls[q].at, calls[q].via>>
(* A piece of the answer reaches the reader.                                      *)
DeliverPiece(q) ==
  /\ In(q, "trying") /\ CanAnswer(q)
  /\ Becoming(q, [calls[q] EXCEPT !.heard = @ \cup {Piece(q)}])
  /\ UNCHANGED <<enabled, protocol>>

Answer(q) ==
  /\ In(q, "trying") /\ CanAnswer(q)
  /\ Becoming(q, [calls[q] EXCEPT !.phase = "answered", !.heard = @ \cup {Piece(q)}])
  /\ protocol' = IF calls[q].kind = "agent" THEN protocol
                 ELSE IF calls[q].via = "responses" THEN [protocol EXCEPT ![ChannelOf(q)] = "responses"]
                 ELSE IF calls[q].refused THEN [protocol EXCEPT ![ChannelOf(q)] = "chat"]
                 ELSE protocol
  /\ UNCHANGED enabled

(* An error ends the request when a piece was delivered, when it is no error that  *)
(* another channel could repair, or when no attempt is left.                      *)
ShouldTryNext(q, repairable) == repairable /\ calls[q].heard = {} /\ calls[q].at < Len(calls[q].plan)
FailAttempt(q, repairable) ==
  /\ In(q, "trying")
  /\ Becoming(q, IF ShouldTryNext(q, repairable)
                   THEN [calls[q] EXCEPT !.phase = "choosing", !.at = @ + 1, !.refused = FALSE, !.via = "none"]
                   ELSE [calls[q] EXCEPT !.phase = "failed", !.fatal = ~ repairable])
  /\ UNCHANGED <<enabled, protocol>>

(* The reader goes away: before the next attempt, or as an error of the callback.  *)
ReaderLeaves(q) ==
  /\ calls[q].phase \in {"choosing", "trying"}
  /\ Becoming(q, [calls[q] EXCEPT !.phase = "left"])
  /\ UNCHANGED <<enabled, protocol>>

ChannelsChange ==
  /\ \E c \in Channels : enabled' \in {enabled \cup {c}, enabled \ {c}}
  /\ UNCHANGED <<protocol, calls>>

RelayNext ==
  \/ \E q \in Calls, kind \in {"agent", "endpoint"} : LoadCandidates(q, kind)
  \/ \E q \in Calls : \/ ChooseProtocol(q) \/ FallBackToChat(q) \/ DeliverPiece(q) \/ Answer(q)
                      \/ \E repairable \in BOOLEAN : FailAttempt(q, repairable)
                      \/ ReaderLeaves(q)
  \/ ChannelsChange
RelaySpec == RelayInit /\ [][RelayNext]_relayVars

-----------------------------------------------------------------------------
RelayTypeOK ==
  /\ enabled \subseteq Channels
  /\ protocol \in [Channels -> {"unknown", "responses", "chat"}]
  /\ \A q \in Calls : /\ calls[q].phase \in {"idle", "choosing", "trying"} \cup Ended
                      /\ calls[q].plan \in Seq(Channels \cup {EnvChannel})
                      /\ calls[q].at \in 0..Attempts

(* A reader never gets an answer put together from two attempts, or from both      *)
(* protocols of one attempt: once a piece was delivered nothing else is tried.    *)
OneVoice == \A q \in Calls : Cardinality(calls[q].heard) <= 1

(* A request that fails although no error was final and no piece was delivered has *)
(* used up its attempts, in the order of the priorities: as many channels as the   *)
(* retries allow were asked, and none while a better one had not been asked.       *)
FailureIsTheLastResort ==
  \A q \in Calls :
    LET tried == {calls[q].plan[i] : i \in 1..calls[q].at}
        planned == {calls[q].plan[i] : i \in DOMAIN calls[q].plan}
    IN  In(q, "failed") =>
          /\ ~ calls[q].fatal /\ calls[q].heard = {} =>
                /\ tried = planned
                /\ EnvChannel \in tried \/ calls[q].at = Attempts
          /\ EnvChannel \notin planned =>
                \A c \in planned \ tried, d \in tried : Priority[d] >= Priority[c]

(* The dispatcher remembers chat completions only for a channel that refused the   *)
(* other protocol, and the other way round, however requests interleave.          *)
ProtocolIsKnown ==
  \A c \in Channels : /\ protocol[c] = "responses" => c \in SpeaksResponses
                      /\ protocol[c] = "chat" => c \notin SpeaksResponses
RelayHolds == OneVoice /\ FailureIsTheLastResort /\ ProtocolIsKnown
=============================================================================
