------------------------------- MODULE MCServer -------------------------------
(* Instance of Server for TLC: two connections, two models and two requests:   *)
(* a stream with a tool call that cannot be read, replies of both endpoints,   *)
(* one whose parser fails in its own way, and ones refused at each step.       *)
EXTENDS Server

Object(id, name, arguments) ==
  [is |-> "object", id |-> id, name |-> name, arguments |-> arguments]
Span(parsed, json) == [blank |-> FALSE, parsed |-> parsed, json |-> json]
Value(v) == [is |-> "value", value |-> v]
Raises == [is |-> "malformed"]

Good == Span(Value(List(<<Object("id1", "find", "obj"), Object(Nothing, "echo", "none")>>)), {})
Fallback == Span(Raises, {Object("id2", "find", "obj")})
Undeclared == Span(Value(Object(Nothing, "rm", "obj")), {Object(Nothing, "find", "obj")})
Half == Span(Value(Object(Nothing, "find", "broken")), {})
Odd == Span([is |-> "escaped"], {})

Response(input, instructions, tools) ==
  [stream |-> FALSE, tool_choice |-> Nothing, parallel |-> Nothing, unsupported |-> {},
   input |-> input, instructions |-> instructions, tools |-> tools]
Function(name) == [type |-> "function", nested |-> FALSE, name |-> name]
Part(type, words) == [is |-> "part", type |-> type, words |-> words]
Question == [is |-> "message", role |-> "user",
          content |-> List(<<Part("input_text", <<"where">>), Part(Nothing, <<"is">>)>>)]
Image == [is |-> "message", role |-> "user", content |-> List(<<Part("input_image", <<"x">>)>>)]
Plain == Response(List(<<Text(<<"hello">>), Question>>), <<"be", "brief">>, <<Function("find"), Function("echo")>>)

Asks(endpoint, stream, model, span, reason, choice) ==
  [endpoint |-> endpoint, stream |-> stream, model |-> model, span |-> span, reason |-> reason,
   items |-> IF stream THEN 2 ELSE 1, legible |-> TRUE, valid |-> TRUE, tool_choice |-> choice,
   parallel |-> Nothing, tools |-> {"find", "echo"}, response |-> Plain]

MCAsk == [
  half |-> Asks("chat", TRUE, "a", <<Half>>, "length", "auto"),
  undeclared |-> Asks("chat", FALSE, "b", <<Undeclared>>, "stop", Nothing),
  good |-> Asks("responses", FALSE, "a", <<Good>>, "stop", Nothing),
  odd |-> Asks("text", FALSE, "a", <<Odd>>, "stop", Nothing),
  required |-> Asks("chat", FALSE, "a", << >>, "stop", "required"),
  image |-> [Asks("responses", FALSE, "a", << >>, "stop", Nothing) EXCEPT !.response.input = List(<<Image>>)]]

MCTurn == {
  [body |-> Plain, span |-> span, words |-> words,
   fresh |-> [item |-> <<"fc_1", "fc_2">>, call |-> <<"call_1", "call_2">>]] :
    span \in {Good, Fallback, Undeclared}, words \in {<< >>, <<"here">>}}

MCTemplate == {
  [vocabulary |-> {"<|im_start|>", "assistant"}, opens |-> <<"<|im_start|>", "assistant">>,
   assistant |-> "assistant"],
  [vocabulary |-> {"<|turn>", "model", "assistant"}, opens |-> <<"<|turn>", "model", "nl">>,
   assistant |-> "model"]}

\* What the reasoning of a reply was is not in the prompt of later turns.
MCPrompt(template, messages) ==
  LET Role(m) == IF m.role = "assistant" THEN Tail(template.opens) ELSE <<m.role>>
      Rendered(m) == <<template.opens[1]>> \o Role(m) \o m.text
                       \o [i \in DOMAIN m.calls |-> m.calls[i].name] \o <<"end">>
  IN FlattenSeq([i \in DOMAIN messages |-> Rendered(messages[i])]) \o template.opens \o <<"think">>
==============================================================================
