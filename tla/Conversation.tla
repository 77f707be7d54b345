------------------------------ MODULE Conversation ------------------------------
(***************************************************************************)
(* What a turn of a conversation becomes on its way through the server, as *)
(* operators: the tool calls found in a reply (server/tool_calls.py), the  *)
(* translation of /v1/responses to and from chat                           *)
(* (server/responses_adapter.py), the thinking switch (server/protocol.py) *)
(* and the part of a prompt that later turns repeat                        *)
(* (server/prefix_cache_flow.py, server/prefix_cache_manager.py).          *)
(*                                                                         *)
(* JSON is a record tagged by `is`; a text is the sequence of its words.   *)
(* What may raise is a set: empty if it raises.                            *)
(***************************************************************************)
EXTENDS Integers, Sequences, SequencesExt

CONSTANTS Turn,          \* turns of conversations, with the reply of the model
          Template,      \* tokenizers: their vocabulary and what opens a reply
          Prompt(_, _)   \* the chat template of a tokenizer

Nothing == "null"       \* a field that is absent or null
Null == [is |-> "null"]
Text(words) == [is |-> "text", words |-> words]
List(items) == [is |-> "list", items |-> items]

\* f of every item, in order; {} if it raises for one of them.
Each(f(_), items) ==
  IF \E i \in DOMAIN items : f(items[i]) = {} THEN {}
  ELSE {[i \in DOMAIN items |-> CHOOSE x \in f(items[i]) : TRUE]}

-----------------------------------------------------------------------------
(* Tool calls. *)

\* How a parser may end: with calls, with a ToolCallParseError, with a
\* ValueError, or with an exception of another kind.
Calls(calls) == [how |-> "calls", calls |-> calls]
Refused == [how |-> "refused"]
Malformed == [how |-> "malformed"]
Escaped == [how |-> "escaped"]

\* _normalize_one, _json_object and _validate_declared_tool
CallFrom(value, declared) ==
  CASE value.is # "object" -> Refused
    [] value.is = "object" /\ value.name = Nothing -> Refused
    [] value.is = "object" /\ value.name # Nothing /\ value.arguments = "broken" -> Malformed
    [] value.is = "object" /\ value.name # Nothing /\ value.arguments = "scalar" -> Refused
    [] value.is = "object" /\ value.name # Nothing /\ value.arguments \notin {"broken", "scalar"} ->
         IF value.name \in declared
         THEN Calls(<<[id |-> value.id, name |-> value.name, arguments |-> value.arguments]>>)
         ELSE Refused

\* _normalize_parsed_calls: the first value that is not a call decides.
NormalizedCalls(value, declared) ==
  LET values == IF value.is = "list" THEN value.items ELSE <<value>>
      each == [i \in DOMAIN values |-> CallFrom(values[i], declared)]
      bad == {i \in DOMAIN values : each[i].how # "calls"}
  IN IF values = << >> THEN Refused
     ELSE IF bad = {} THEN Calls(FlattenSeq([i \in DOMAIN values |-> each[i].calls]))
     ELSE each[CHOOSE i \in bad : \A j \in bad : i <= j]

\* parse_tool_call_span: what mlx_lm's parser makes of the span, and JSON only
\* if that was a ValueError.
ParseToolCall(span, declared) ==
  LET first == IF span.parsed.is = "value" THEN NormalizedCalls(span.parsed.value, declared)
               ELSE [how |-> span.parsed.is]
      second == IF span.json = {} THEN Malformed
                ELSE NormalizedCalls(CHOOSE v \in span.json : TRUE, declared)
  IN IF span.blank THEN Refused
     ELSE IF first.how # "malformed" THEN first
     ELSE IF second.how = "malformed" THEN Refused ELSE second

\* apply_tool_choice: the tools the model gets, {} if it raises.
ToolsFor(choice, tools) ==
  CASE choice \in {Nothing, "auto"} -> {tools}
    [] choice = "none" -> {{}}
    [] OTHER -> {}

\* normalize_parallel_tool_calls, and the check before a completion.
ParallelAccepted(parallel) == parallel \in {Nothing, TRUE}

-----------------------------------------------------------------------------
(* /v1/responses. *)

\* _content_item_to_text
PartText(part) ==
  CASE part.is = "text" -> {part.words}
    [] part.is = "part" -> IF part.type \in {"input_text", "output_text", "text", Nothing}
                           THEN {part.words} ELSE {}
    [] OTHER -> {}

\* _content_to_text
ContentText(content) ==
  CASE content.is = "null" -> {<< >>}
    [] content.is = "list" -> {FlattenSeq(parts) : parts \in Each(PartText, content.items)}
    [] OTHER -> PartText(content)

Message(role, text, calls, answers) ==
  [role |-> role, text |-> text, calls |-> calls, answers |-> answers]

\* Mutant: the identity of the item stands for that of the call.
ChatMessage_ItemId(item) ==
  CASE item.is = "text" -> {Message("user", item.words, << >>, Nothing)}
    [] item.is = "function_call" ->
         IF item.name = Nothing \/ item.id = Nothing THEN {}
         ELSE {Message("assistant", << >>,
                 <<[id |-> item.id, name |-> item.name, arguments |-> item.arguments]>>, Nothing)}
    [] item.is = "function_call_output" ->
         IF item.call_id = Nothing THEN {}
         ELSE {Message("tool", text, << >>, item.call_id) : text \in ContentText(item.output)}
    [] item.is = "message" ->
         {Message(item.role, text, << >>, Nothing) : text \in ContentText(item.content)}
    [] OTHER -> {}

\* One item of the input: _input_to_messages and what it calls.
ChatMessage(item) ==
  CASE item.is = "text" -> {Message("user", item.words, << >>, Nothing)}
    [] item.is = "function_call" ->
         LET id == IF item.call_id # Nothing THEN item.call_id ELSE item.id IN
         IF item.name = Nothing \/ id = Nothing THEN {}
         ELSE {Message("assistant", << >>,
                 <<[id |-> id, name |-> item.name, arguments |-> item.arguments]>>, Nothing)}
    [] item.is = "function_call_output" ->
         IF item.call_id = Nothing THEN {}
         ELSE {Message("tool", text, << >>, item.call_id) : text \in ContentText(item.output)}
    [] item.is = "message" ->
         {Message(item.role, text, << >>, Nothing) : text \in ContentText(item.content)}
    [] OTHER -> {}

ChatMessages(input) ==
  CASE input.is = "text" -> {<<Message("user", input.words, << >>, Nothing)>>}
    [] input.is = "list" -> IF input.items = << >> THEN {} ELSE Each(ChatMessage, input.items)
    [] OTHER -> {}

\* _tools_to_chat_tools keeps the names of function tools in its own schema.
ChatTool(tool) ==
  IF tool.type = "function" /\ ~tool.nested /\ tool.name # Nothing THEN {tool.name} ELSE {}

\* responses_to_chat_body: what later steps look at.
ChatBody(body) ==
  LET refused == body.stream \/ body.tool_choice # Nothing \/ body.parallel # Nothing
                 \/ body.unsupported # {}
      system == IF body.instructions = << >> THEN << >>
                ELSE <<Message("system", body.instructions, << >>, Nothing)>>
  IN IF refused THEN {}
     ELSE {[messages |-> system \o messages, tools |-> ToSet(tools)] :
             messages \in ChatMessages(body.input), tools \in Each(ChatTool, body.tools)}

\* chat_response_to_responses: the items of the output.  A call without an
\* identity gets a fresh one, and every item one of its own.
OutputItems(message, fresh) ==
  (IF message.text = << >> THEN << >>
   ELSE <<[is |-> "message", role |-> "assistant",
           content |-> List(<<[is |-> "part", type |-> "output_text", words |-> message.text]>>)]>>)
  \o [i \in DOMAIN message.calls |->
        LET call == message.calls[i] IN
        [is |-> "function_call", id |-> fresh.item[i],
         call_id |-> IF call.id # Nothing THEN call.id ELSE fresh.call[i],
         name |-> call.name, arguments |-> call.arguments]]

-----------------------------------------------------------------------------
(* The part of a prompt that the next turn repeats. *)

\* chat_template_stable_marker: the tokens that open the reply, and how much of
\* them is stable; none if the tokenizer has neither pair.
StableMarker(vocabulary, rolePrefix) ==
  LET Pair(start, role, offset) == {[start |-> start, role |-> role, offset |-> offset]}
      turn == <<"<|turn>", "model">>
  IN IF {"<|im_start|>", "assistant"} \subseteq vocabulary
     THEN Pair("<|im_start|>", "assistant", 0)
     ELSE IF "<|im_start|>" \notin vocabulary /\ ToSet(turn) \subseteq vocabulary
     THEN Pair(turn[1], turn[2], IF IsPrefix(turn, rolePrefix) THEN Len(rolePrefix) ELSE 2)
     ELSE {}

\* compute_request_stable_prefix_len: up to the last opening of a reply, or all
\* of it if the turn does not ask for one.
StablePrefixLen(tokens, marker, lastRole) ==
  LET Opens(m) == {i \in 1 .. Len(tokens) - 1 : tokens[i] = m.start /\ tokens[i + 1] = m.role}
      After(m) == LET i == CHOOSE i \in Opens(m) : \A j \in Opens(m) : j <= i
                  IN IF i - 1 + m.offset < Len(tokens) THEN i - 1 + m.offset ELSE Len(tokens)
  IN IF lastRole \notin {Nothing, "user", "tool"} \/ \A m \in marker : Opens(m) = {}
     THEN Len(tokens)
     ELSE After(CHOOSE m \in marker : TRUE)

-----------------------------------------------------------------------------
\* Whether the next turn goes on where this one was: see TurnsContinue of Server.
Continues(turn, template) ==
  LET chat == CHOOSE chat \in ChatBody(turn.body) : TRUE
      parsed == ParseToolCall(turn.span, chat.tools)
      said == Message("assistant", turn.words, parsed.calls, Nothing)
      items == OutputItems(said, turn.fresh)
      called == SelectSeq(items, LAMBDA item : item.is = "function_call")
      results == [i \in DOMAIN called |->
                    [is |-> "function_call_output", call_id |-> called[i].call_id,
                     output |-> Text(<<"found">>)]]
      next == ChatBody([turn.body EXCEPT !.input = List(@.items \o items \o results)])
      prompt == Prompt(template, chat.messages)
      stable == StablePrefixLen(prompt, StableMarker(template.vocabulary, template.opens),
                                Last(chat.messages).role)
  IN parsed.how = "calls" =>
       \E after \in next :
         LET new == SubSeq(after.messages, Len(chat.messages) + 1, Len(after.messages))
             again == FlattenSeq([i \in DOMAIN new |-> new[i].calls])
             Plain(call) == <<call.name, call.arguments>>
         IN /\ IsPrefix(chat.messages, after.messages)
            /\ FlattenSeq([i \in DOMAIN new |->
                             IF new[i].role = "assistant" THEN new[i].text ELSE << >>]) = turn.words
            /\ [i \in DOMAIN again |-> Plain(again[i])]
                 = [i \in DOMAIN parsed.calls |-> Plain(parsed.calls[i])]
            /\ \A i \in DOMAIN again :
                 /\ again[i].name \in chat.tools
                 /\ parsed.calls[i].id # Nothing => again[i].id = parsed.calls[i].id
            /\ \A i \in DOMAIN new : new[i].role = "tool" =>
                 \E j \in DOMAIN again : again[j].id = new[i].answers
            /\ IsPrefix(SubSeq(prompt, 1, stable), Prompt(template, after.messages))

==============================================================================
