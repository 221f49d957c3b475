--------------------------- MODULE ResponsesBridge ---------------------------
(* The two protocols of a language model and the translations between them,    *)
(* internal/adapter/llm/openaicompat: responses_stream.go (a Chat stream       *)
(* relayed as a Responses stream, a native Responses stream relayed as it is), *)
(* stream_codec.go (a Responses stream read as a Chat stream), codec.go and    *)
(* responses_codec.go (requests and whole answers, both ways). A text is the   *)
(* sequence of the pieces it arrived in; identifiers are drawn from small      *)
(* sets. Sequence numbers, usage, the created time and the size limits are     *)
(* left out. What a provider sends is external: any pieces in any order.       *)
EXTENDS Naturals, Sequences, FiniteSets, SequencesExt

CONSTANTS MaxPieces, MaxEvents, MaxTalk   \* bounds: a Chat stream, a Responses stream, a request

VARIABLES
  bridge,  \* streamChatAsResponses: the state of the translation and the events sent
  reader,  \* responsesStreamToChat, reading the bridge's events or a provider's
  relay,   \* streamNativeResponses, given the same provider's events
  pieces,  \* how many pieces or events were read
  talk     \* the messages of a request

bridgeVars == <<bridge, reader, relay, pieces, talk>>

Kinds == {"output_text", "refusal"}
Blank == " "
IsBlank(s) == \A i \in DOMAIN s : s[i] = Blank
EmptyArguments == <<"{}">>
Wrote(s) == IF IsBlank(s) THEN EmptyArguments ELSE s

-----------------------------------------------------------------------------
(* Items and events of the Responses protocol.                                *)
MessageItem(id, content) ==
  [kind |-> "message", id |-> id, call |-> "", name |-> "", args |-> <<>>, content |-> content]
CallItem(id, call, name, args) ==
  [kind |-> "function_call", id |-> id, call |-> call, name |-> name, args |-> args, content |-> <<>>]
OtherItem == [MessageItem("o", <<>>) EXCEPT !.kind = "reasoning"]
Part(kind, text) == [kind |-> kind, text |-> text]

StreamEvent(type, out) == [type |-> type, out |-> out, part |-> 0, text |-> <<>>, item |-> OtherItem,
                     meta |-> "r1", status |-> "", reason |-> "", output |-> <<>>]
ItemEvent(type, out, item) == [StreamEvent(type, out) EXCEPT !.item = item]
Delta(type, out, part, item, word) ==
  [StreamEvent(type, out) EXCEPT !.part = part, !.item = item, !.text = <<word>>]
Terminal(status, reason, output) ==
  [StreamEvent(status, 0) EXCEPT !.status = status, !.reason = reason, !.output = output]
Final == {"completed", "incomplete"}
Failed == {"failed", "cancelled", "error"}

-----------------------------------------------------------------------------
(* From Chat to Responses. Item 0 is the message; tool i is item i.            *)
MessageRef == 0
MessageId == "msg"
GeneratedId == <<"call1", "call2">>
NewBridge == [phase |-> "open", started |-> FALSE, finish |-> "none", next |-> 0, order |-> <<>>,
              parts |-> <<>>, said |-> [k \in Kinds |-> <<>>],
              outs |-> [i \in 0..2 |-> 0], tools |-> [i \in 1..2 |-> CallItem("", "", "", <<>>)],
              sent |-> <<>>]

Emit(b, event) == [b EXCEPT !.sent = Append(@, event)]
Has(b, i) == i \in ToSet(b.order)
AddItem(b, i, item) ==
  Emit([b EXCEPT !.outs[i] = b.next, !.next = @ + 1, !.order = Append(@, i)],
       ItemEvent("added", b.next, item))

EnsureStarted(b) == IF b.started THEN b ELSE Emit([b EXCEPT !.started = TRUE], StreamEvent("created", 0))
EnsureMessage(b) == IF Has(b, MessageRef) THEN b ELSE AddItem(b, MessageRef, MessageItem(MessageId, <<>>))
EnsurePart(b, kind) ==
  IF kind \in ToSet(b.parts) THEN b ELSE [b EXCEPT !.parts = Append(@, kind)]
PartIndex(b, kind) == CHOOSE i \in DOMAIN b.parts : b.parts[i] = kind

\* appendText, appendRefusal.
AppendText(b, kind, word) ==
  LET c == EnsurePart(EnsureMessage(b), kind)
  IN Emit([c EXCEPT !.said[kind] = Append(@, word)],
          Delta(kind, c.outs[MessageRef], PartIndex(c, kind), MessageItem(MessageId, <<>>), word))

AddTool(b, i, id, name) ==
  LET call == IF id = "" THEN GeneratedId[i] ELSE id
      item == CallItem(call, call, name, <<>>)
  IN AddItem([b EXCEPT !.tools[i] = item], i, item)

ToolChanged(b, i, id, name) ==
  /\ Has(b, i)
  /\ \/ id # "" /\ id # b.tools[i].call
     \/ name # "" /\ b.tools[i].name # "" /\ name # b.tools[i].name

AppendTool(b, i, id, name, args) ==
  LET c == IF Has(b, i) THEN b ELSE AddTool(b, i, id, name)
      d == [c EXCEPT !.tools[i].name = IF name # "" THEN name ELSE @]
  IN IF args = <<>> THEN d
     ELSE Emit([d EXCEPT !.tools[i].args = @ \o args],
               Delta("arguments", d.outs[i], 0, d.tools[i], args[1]))

\* finalizeMessage, finalizeTool and finalOutput make the same items.
FinalItem(b, i) ==
  IF i = MessageRef
    THEN MessageItem(MessageId, [p \in DOMAIN b.parts |-> Part(b.parts[p], b.said[b.parts[p]])])
    ELSE [b.tools[i] EXCEPT !.args = Wrote(@)]
FinalOutput(b) == [k \in DOMAIN b.order |-> FinalItem(b, b.order[k])]

StatusOf(finish) == IF finish \in {"length", "content_filter"} THEN "incomplete" ELSE "completed"
Finalize(b) ==
  LET Done(c, i) == Emit(c, ItemEvent("done", c.outs[i], FinalItem(c, i)))
      items == FoldLeft(Done, b, b.order)
  IN [Emit(items, Terminal(StatusOf(b.finish), b.finish, FinalOutput(b))) EXCEPT !.phase = "done"]

ValidFinal(b) == b.finish # "none" /\ \A i \in 1..2 : Has(b, i) => b.tools[i].name # ""

\* chatResponseToResponses: the answer with the same content, received at once.
WholeOutput(b) ==
  LET content == SelectSeq(<<Part("output_text", b.said["output_text"]), Part("refusal", b.said["refusal"])>>,
                           LAMBDA p : p.text # <<>>)
      calls == SelectSeq(<<1, 2>>, LAMBDA i : Has(b, i))
      message == IF content # <<>> \/ calls = <<>> THEN <<MessageItem(MessageId, content)>> ELSE <<>>
  IN message \o [k \in DOMAIN calls |-> [b.tools[calls[k]] EXCEPT !.args = Wrote(@)]]

-----------------------------------------------------------------------------
(* From Responses to Chat. `said` holds each piece of text with the item and   *)
(* the part it came from, `calls` the function calls in the order announced.   *)
NewReader == [phase |-> "open", meta |-> "", items |-> <<>>, said |-> <<>>, calls |-> <<>>,
              finish |-> "none"]
NewEntry(id, kind) == [id |-> id, kind |-> kind, call |-> "", name |-> "", tool |-> 0,
                       parts |-> <<>>, args |-> <<>>]
Broken(r) == [NewReader EXCEPT !.phase = "broken", !.said = r.said, !.calls = r.calls]
Insert(f, x, y) == [z \in DOMAIN f \cup {x} |-> IF z = x THEN y ELSE f[z]]

SetResponse(r, meta) ==
  IF meta = "" \/ (r.meta # "" /\ r.meta # meta) THEN Broken(r) ELSE [r EXCEPT !.meta = meta]

Known(r, out, id, kind) ==
  IF id = "" THEN Broken(r)
  ELSE IF out \notin DOMAIN r.items THEN [r EXCEPT !.items = Insert(@, out, NewEntry(id, kind))]
  ELSE IF r.items[out].id # id \/ r.items[out].kind # kind THEN Broken(r)
  ELSE r

\* append: a snapshot must extend what was streamed; the rest of it is new.
Extends(old, text, snapshot) == snapshot => IsPrefix(old, text)
Unread(old, text, snapshot) == IF snapshot THEN SubSeq(text, Len(old) + 1, Len(text)) ELSE text

ReadText(r, out, p, kind, text, snapshot) ==
  LET parts == r.items[out].parts
      part == IF p \in DOMAIN parts THEN parts[p] ELSE Part(kind, <<>>)
      new == Unread(part.text, text, snapshot)
      kept == [r EXCEPT !.items[out].parts = Insert(parts, p, Part(kind, part.text \o new))]
  IN IF r.phase # "open" THEN r
     ELSE IF part.kind # kind \/ ~Extends(part.text, text, snapshot) THEN Broken(r)
     ELSE IF new = <<>> THEN kept
     ELSE IF r.meta = "" THEN Broken(r)
     ELSE [kept EXCEPT !.said = @ \o [i \in DOMAIN new |-> <<out, p, kind, new[i]>>]]

ReadArguments(r, out, args, snapshot) ==
  LET entry == r.items[out]
      new == Unread(entry.args, args, snapshot)
  IN IF r.phase # "open" THEN r
     ELSE IF entry.call = "" \/ ~Extends(entry.args, args, snapshot) THEN Broken(r)
     ELSE IF new = <<>> THEN r
     ELSE [r EXCEPT !.items[out].args = @ \o new, !.calls[entry.tool].args = @ \o new]

Announce(r, out, item) ==
  LET n == Len(r.calls) + 1
  IN IF r.items[out].call # ""
       THEN IF r.items[out].call = item.call /\ r.items[out].name = item.name THEN r ELSE Broken(r)
     ELSE IF r.meta = "" THEN Broken(r)
     ELSE [r EXCEPT !.items[out] = [@ EXCEPT !.call = item.call, !.name = item.name, !.tool = n],
                    !.calls = Append(@, [id |-> item.call, name |-> item.name, args |-> <<>>])]

OutputItem(r, out, item) ==
  LET k == Known(r, out, item.id, item.kind)
      Read(c, p) == IF item.content[p].kind \notin Kinds THEN c
                    ELSE ReadText(c, out, p, item.content[p].kind, item.content[p].text, TRUE)
  IN IF item.kind \notin {"message", "function_call"} \/ r.phase # "open" THEN r
     ELSE IF k.phase # "open" THEN k
     ELSE IF item.kind = "message" THEN FoldLeft(Read, k, [p \in DOMAIN item.content |-> p])
     ELSE IF item.call = "" \/ item.name = "" THEN Broken(r)
     ELSE LET a == Announce(k, out, item)
          IN IF a.phase # "open" THEN a ELSE ReadArguments(a, out, item.args, TRUE)

\* responsesResponse.finishReason
FinishReason(r, status, reason) ==
  CASE r.calls # <<>> -> "tool_calls"
    [] r.calls = <<>> /\ reason = "content_filter" -> "content_filter"
    [] r.calls = <<>> /\ reason # "content_filter" -> IF status = "incomplete" THEN "length" ELSE "stop"

NothingMissing(r, output) ==
  /\ \A out \in DOMAIN r.items : out + 1 \in DOMAIN output /\ output[out + 1].kind = r.items[out].kind
  /\ \A out \in DOMAIN r.items : \A p \in DOMAIN r.items[out].parts :
       p \in DOMAIN output[out + 1].content

ReadFinal(r, event) ==
  LET Read(c, k) == OutputItem(c, k - 1, event.output[k])
      known == SetResponse(r, event.meta)
      read == FoldLeft(Read, known, [k \in DOMAIN event.output |-> k])
  IN IF event.status # event.type \/ read.phase # "open" THEN Broken(read)
     ELSE IF ~NothingMissing(read, event.output) \/ (read.said = <<>> /\ read.calls = <<>>)
       THEN Broken(read)
     ELSE [read EXCEPT !.phase = "done", !.finish = FinishReason(read, event.status, event.reason)]

Consume(r, event) ==
  LET kind == IF event.type = "arguments" THEN "function_call" ELSE "message"
      k == Known(r, event.out, event.item.id, kind)
  IN CASE r.phase # "open" -> r
       [] r.phase = "open" /\ event.type = "created" -> SetResponse(r, event.meta)
       [] r.phase = "open" /\ event.type \in {"added", "done"} -> OutputItem(r, event.out, event.item)
       [] r.phase = "open" /\ event.type \in Kinds ->
            IF k.phase # "open" THEN k
            ELSE ReadText(k, event.out, event.part, event.type, event.text, FALSE)
       [] r.phase = "open" /\ event.type = "arguments" ->
            IF k.phase # "open" THEN k ELSE ReadArguments(k, event.out, event.text, FALSE)
       [] r.phase = "open" /\ event.type \in Final -> ReadFinal(r, event)
       [] r.phase = "open" /\ event.type \in Failed \cup {"end"} -> Broken(r)

-----------------------------------------------------------------------------
(* Relayed as it is: nothing is read but the terminal event.                    *)
NewRelay == [phase |-> "open", delivered |-> FALSE, status |-> "none", response |-> <<>>]
RelayEvent(v, event) ==
  CASE v.phase # "open" -> v
    [] v.phase = "open" /\ event.type = "end" -> [v EXCEPT !.phase = "broken"]
    [] v.phase = "open" /\ event.type \in Final \cup {"failed", "cancelled"} ->
         IF event.meta = "" \/ event.status # event.type THEN [v EXCEPT !.phase = "broken"]
         ELSE [phase |-> "done", delivered |-> TRUE, status |-> event.type, response |-> event.output]
    [] v.phase = "open" /\ event.type = "error" ->
         [phase |-> "done", delivered |-> TRUE, status |-> "failed", response |-> <<>>]
    [] v.phase = "open" /\ event.type \notin Final \cup Failed \cup {"end"} -> [v EXCEPT !.delivered = TRUE]

\* chatCompletion: the whole response as one Chat answer.
Joined(output, kind) ==
  FlattenSeq([k \in DOMAIN output |->
    FlattenSeq([p \in DOMAIN output[k].content |->
      IF output[k].content[p].kind = kind THEN output[k].content[p].text ELSE <<>>])])
WholeCalls(output) ==
  LET calls == SelectSeq(output, LAMBDA item : item.kind = "function_call")
  IN [k \in DOMAIN calls |-> [id |-> IF calls[k].call = "" THEN calls[k].id ELSE calls[k].call,
                              name |-> calls[k].name, args |-> calls[k].args]]

-----------------------------------------------------------------------------
(* Requests. A message: role, content, the calls it makes, the call it answers. *)
Message(role, content, calls, answers) ==
  [role |-> role, content |-> content, calls |-> calls, answers |-> answers]
Input(type, role, content, id) == [type |-> type, role |-> role, content |-> content, id |-> id]

\* responsesInput
InputOf(messages) ==
  LET Items(m) ==
        IF m.role = "tool" THEN <<Input("function_call_output", "", m.content, m.answers)>>
        ELSE (IF m.content = <<>> THEN <<>> ELSE <<Input("message", m.role, m.content, "")>>)
             \o [i \in DOMAIN m.calls |-> Input("function_call", "", <<>>, m.calls[i])]
  IN FlattenSeq([i \in DOMAIN messages |-> Items(messages[i])])
Sendable(messages) ==
  /\ \A i \in DOMAIN messages : messages[i].role = "tool" => messages[i].answers # ""
  /\ InputOf(messages) # <<>>

\* responsesInputToChatMessages: calls in a row are one message.
MessagesOf(input) ==
  LET Flush(a) == IF a.pending = <<>> THEN a.out
                  ELSE Append(a.out, Message("assistant", <<>>, a.pending, ""))
      Read(a, item) ==
        IF item.type = "function_call" THEN [a EXCEPT !.pending = Append(@, item.id)]
        ELSE [pending |-> <<>>,
              out |-> Append(Flush(a), IF item.type = "message"
                                         THEN Message(item.role, item.content, <<>>, "")
                                         ELSE Message("tool", item.content, <<>>, item.id))]
  IN Flush(FoldLeft(Read, [pending |-> <<>>, out |-> <<>>], input))
Representable(input) == \A i \in DOMAIN input : input[i].type = "function_call" => input[i].id # ""

-----------------------------------------------------------------------------
(* Steps.                                                                       *)
BridgeInit ==
  /\ bridge = NewBridge /\ reader = NewReader /\ relay = NewRelay /\ pieces = 0 /\ talk = <<>>

\* One frame of a Chat stream; its events are read as they are sent.
Translated(b) ==
  /\ bridge' = b
  /\ reader' = FoldLeft(Consume, reader, SubSeq(b.sent, Len(bridge.sent) + 1, Len(b.sent)))
  /\ pieces' = pieces + 1
  /\ UNCHANGED <<relay, talk>>
BridgeBreaks ==
  /\ bridge' = [bridge EXCEPT !.phase = "broken"] /\ reader' = Consume(reader, StreamEvent("end", 0))
  /\ UNCHANGED <<relay, pieces, talk>>
Chatting == bridge.phase = "open" /\ relay = NewRelay /\ talk = <<>> /\ (pieces > 0 => bridge # NewBridge)
MorePieces == Chatting /\ pieces < MaxPieces

TextArrives(kind) == MorePieces /\ Translated(AppendText(EnsureStarted(bridge), kind, "a"))
ToolArrives(i, id, name, args) ==
  /\ MorePieces
  /\ IF ToolChanged(bridge, i, id, name) THEN BridgeBreaks
     ELSE Translated(AppendTool(EnsureStarted(bridge), i, id, name, args))
FinishArrives(reason) ==
  /\ MorePieces
  /\ IF reason = "unknown" THEN BridgeBreaks
     ELSE Translated([EnsureStarted(bridge) EXCEPT !.finish = reason])
DoneArrives ==
  /\ Chatting /\ bridge.started
  /\ IF ValidFinal(bridge) THEN Translated(Finalize(bridge)) ELSE BridgeBreaks
ChatEnds == Chatting /\ bridge.started /\ BridgeBreaks

\* One event of a provider's Responses stream.
Native(event) ==
  /\ bridge = NewBridge /\ talk = <<>> /\ pieces < MaxEvents
  /\ reader.phase = "open" \/ relay.phase = "open"
  /\ reader' = Consume(reader, event) /\ relay' = RelayEvent(relay, event)
  /\ pieces' = pieces + 1 /\ UNCHANGED <<bridge, talk>>

Contents == {<<>>, <<Part("output_text", <<"a">>)>>, <<Part("output_text", <<"a", "a">>)>>,
             <<Part("output_text", <<"b", "a">>)>>, <<Part("refusal", <<"a">>)>>, <<Part("summary", <<"a">>)>>,
             <<Part("output_text", <<"a">>), Part("refusal", <<"a">>)>>}
SomeItems == {MessageItem("m", c) : c \in Contents} \cup {OtherItem}
             \cup {CallItem("c", "k", "f", a) : a \in {<<>>, <<"x">>, <<"x", "x">>}}
             \cup {CallItem("c", "", "f", <<>>), CallItem("c", "k", "", <<>>)}
Outputs == {<<>>} \cup {<<i>> : i \in SomeItems} \cup {<<i, j>> : i \in SomeItems, j \in SomeItems}
Outs == {0, 1}

ItemArrives == \E type \in {"added", "done"}, out \in Outs, item \in SomeItems : Native(ItemEvent(type, out, item))
DeltaArrives ==
  \E out \in Outs :
    \/ \E kind \in Kinds, p \in {1, 2} : Native(Delta(kind, out, p, MessageItem("m", <<>>), "a"))
    \/ Native(Delta("arguments", out, 0, CallItem("c", "k", "f", <<>>), "x"))
TerminalArrives ==
  \E status \in Final, output \in Outputs : Native(Terminal(status, "content_filter", output))
OddEventArrives ==
  \/ \E meta \in {"r1", "r2", ""} : Native([StreamEvent("created", 0) EXCEPT !.meta = meta])
  \/ \E type \in Failed : Native([StreamEvent(type, 0) EXCEPT !.status = type])
  \/ \E status \in {"completed", "failed"}, meta \in {"r1", "r2", ""}, out \in {<<>>, <<CallItem("c", "k", "f", <<>>)>>} :
       Native([Terminal(status, "", out) EXCEPT !.type = "completed", !.meta = meta])
  \/ Native(StreamEvent("end", 0))

Say(message) ==
  /\ bridge = NewBridge /\ pieces = 0 /\ Len(talk) < MaxTalk
  /\ talk' = Append(talk, message) /\ UNCHANGED <<bridge, reader, relay, pieces>>
SomeMessages ==
  {Message(role, c, <<>>, "") : role \in {"system", "user"}, c \in {<<>>, <<"a">>}}
  \cup {Message("assistant", c, calls, "") : c \in {<<>>, <<"a">>},
                                             calls \in {<<>>, <<"k1">>, <<"k1", "k2">>, <<"">>}}
  \cup {Message("tool", <<"a">>, <<>>, id) : id \in {"", "k1", "k2"}}

BridgeNext ==
  \/ \E kind \in Kinds : TextArrives(kind)
  \/ \E i \in {1, 2}, id \in {"", "k"}, name \in {"", "f", "g"}, args \in {<<>>, <<"x">>, <<Blank>>} :
       ToolArrives(i, id, name, args)
  \/ \E reason \in {"stop", "tool_calls", "length", "content_filter", "unknown"} : FinishArrives(reason)
  \/ DoneArrives \/ ChatEnds
  \/ ItemArrives \/ DeltaArrives \/ TerminalArrives \/ OddEventArrives
  \/ \E message \in SomeMessages : Say(message)

BridgeSpec == BridgeInit /\ [][BridgeNext]_bridgeVars

-----------------------------------------------------------------------------
(* Properties.                                                                  *)

Deltas(sent, out, p, types) ==
  FlattenSeq([i \in DOMAIN sent |->
    IF sent[i].out = out /\ sent[i].part = p /\ sent[i].type \in types THEN sent[i].text ELSE <<>>])

\* Every item of the final output was added once, in its place, and a client that put
\* the deltas together has the same text and, unless they were blank, the same arguments.
DeltasMakeTheOutput ==
  bridge.phase = "done" =>
    LET sent == bridge.sent
        output == Last(sent).output
    IN \A k \in DOMAIN output :
         /\ \E i \in DOMAIN sent :
              /\ sent[i].type = "added" /\ sent[i].out = k - 1
              /\ sent[i].item.id = output[k].id /\ sent[i].item.kind = output[k].kind
              /\ \A j \in DOMAIN sent : sent[j].out = k - 1 =>
                   CASE sent[j].type = "added" -> i = j
                     [] sent[j].type \in Kinds \cup {"arguments"} -> i < j
                     [] OTHER -> TRUE
         /\ \A p \in DOMAIN output[k].content :
              output[k].content[p].text = Deltas(sent, k - 1, p, Kinds)
         /\ output[k].kind = "function_call" =>
              output[k].args = Wrote(Deltas(sent, k - 1, 0, {"arguments"}))

\* An answer means the same whether it was streamed or received at once.
Meaning(output) ==
  {[name |-> output[k].name, args |-> output[k].args, content |-> ToSet(output[k].content)] :
     k \in DOMAIN output}
StreamedOrWhole ==
  bridge.phase = "done" /\ bridge.order # <<>> =>
    Meaning(Last(bridge.sent).output) = Meaning(WholeOutput(bridge))

\* The events this program writes are events it can read, and reading them back gives the
\* Chat answer they were made of. The exceptions: an empty answer, a function that is named
\* after its first piece, arguments that are streamed but blank.
EarlyNames == \A i \in DOMAIN bridge.sent :
  bridge.sent[i].type = "added" /\ bridge.sent[i].item.kind = "function_call" => bridge.sent[i].item.name # ""
BlankArguments == \E i \in 1..2 : bridge.tools[i].args # <<>> /\ IsBlank(bridge.tools[i].args)
ReadBack ==
  bridge.phase = "done" /\ bridge.order # <<>> /\ EarlyNames /\ ~BlankArguments =>
    /\ reader.phase = "done"
    /\ \A kind \in Kinds :
         LET said == SelectSeq(reader.said, LAMBDA s : s[3] = kind)
         IN [i \in DOMAIN said |-> said[i][4]] = bridge.said[kind]
    /\ LET tools == SelectSeq(bridge.order, LAMBDA i : i # MessageRef)
       IN reader.calls = [k \in DOMAIN tools |->
            [id |-> bridge.tools[tools[k]].call, name |-> bridge.tools[tools[k]].name,
             args |-> Wrote(bridge.tools[tools[k]].args)]]
    /\ reader.calls = <<>> =>
         reader.finish = IF bridge.finish \in {"length", "content_filter"} THEN bridge.finish ELSE "stop"

\* A stream that is cut off before its terminal event never looks complete.
CutOffIsNoticed == bridge.phase = "broken" => reader.phase = "broken"

\* What the student has read when the stream is complete is the final answer: of each
\* text of it, what came of it; the calls, with their arguments. The relay, given the
\* same events, hands on an answer that converts to the same Chat message.
FinalText(output, out, p) ==
  IF out + 1 \in DOMAIN output /\ p \in DOMAIN output[out + 1].content
    THEN output[out + 1].content[p] ELSE Part("none", <<>>)
FinalAsRead ==
  reader.phase = "done" /\ bridge = NewBridge =>
    LET output == relay.response
        From(out, p) == SelectSeq(reader.said, LAMBDA s : s[1] = out /\ s[2] = p)
    IN /\ relay.phase = "done" /\ relay.status \in Final
       /\ \A out \in Outs, p \in {1, 2} :
            LET part == FinalText(output, out, p) IN
            part.kind \in Kinds \cup {"none"} =>
              /\ part.text = [i \in DOMAIN From(out, p) |-> From(out, p)[i][4]]
              /\ \A i \in DOMAIN From(out, p) : From(out, p)[i][3] = part.kind
       /\ ToSet(reader.calls) = ToSet(WholeCalls(output)) /\ Len(reader.calls) = Len(WholeCalls(output))

\* A request that is translated to the other protocol and back keeps its messages, calls
\* and answers of calls, in their order.
Flat(messages) ==
  FlattenSeq([i \in DOMAIN messages |->
    (IF messages[i].content = <<>> THEN <<>>
     ELSE <<<<messages[i].role, messages[i].answers>>>>)
    \o [k \in DOMAIN messages[i].calls |-> <<"call", messages[i].calls[k]>>]])
RequestSurvives ==
  Sendable(talk) /\ Representable(InputOf(talk)) =>
    /\ Flat(MessagesOf(InputOf(talk))) = Flat(talk)
    /\ \A i \in DOMAIN MessagesOf(InputOf(talk)) :
         MessagesOf(InputOf(talk))[i].calls # <<>> => MessagesOf(InputOf(talk))[i].role = "assistant"

ProtocolsAgree ==
  /\ DeltasMakeTheOutput /\ StreamedOrWhole /\ ReadBack /\ CutOffIsNoticed
  /\ FinalAsRead /\ RequestSurvives
=============================================================================
