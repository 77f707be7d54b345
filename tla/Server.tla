-------------------------------- MODULE Server --------------------------------
(***************************************************************************)
(* The process around the request loop (serve.py, server/runtime.py,       *)
(* server/model_provider.py): the main thread that waits for the first     *)
(* model and serves until it is interrupted, the handler threads, one to a *)
(* connection, and the generation thread, which loads the model of each    *)
(* request and puts what it generates on the queue of the request.  How it *)
(* generates is RequestLoop; here it is a number of items, the last with a *)
(* finish reason.                                                          *)
(*                                                                         *)
(*   main        where the main thread is, whether it has told the         *)
(*               generation thread to stop, and what it saw of the provider*)
(*   handler     where each handler is, its request and the attributes it  *)
(*               keeps from one request of its connection to the next      *)
(*   asked       the requests made so far                                  *)
(*   tracked     last_finish_reason of the response generator              *)
(*   waiting     the queue of the generation thread                        *)
(*   worker      where it is, and the items it has put                     *)
(*   provider    the model its fields are of: the components, what is      *)
(*               known of them, and model_key                              *)
(*   rqueue      the queue of each request                                 *)
(*   reply       of each request: the status lines set in the buffer of    *)
(*               headers, the ones sent, how the reply was closed, what has*)
(*               become of it, and what the engine raised after it began   *)
(***************************************************************************)
EXTENDS Conversation

CONSTANTS Handler, Model, DefaultModel, MaxRequests,
          Ask          \* what clients may ask for, by name

VARIABLES main, handler, asked, tracked, waiting, worker, provider, rqueue, reply

vars == <<main, handler, asked, tracked, waiting, worker, provider, rqueue, reply>>

None == "none"
ASSUME ModelAssumption == DefaultModel \in Model /\ None \notin Model
ASSUME AskAssumption ==
  \A name \in DOMAIN Ask : /\ Ask[name].model \in Model
                           /\ Ask[name].items \in Nat \ {0}
                           /\ Ask[name].reason \in {"stop", "length"}
                           /\ Ask[name].endpoint = "responses" => ~Ask[name].stream
ASSUME BoundAssumption == MaxRequests \in Nat

Request == 1 .. MaxRequests

\* A handler as its connection opens.
Fresh == [pc |-> "idle", request |-> 0, responses |-> FALSE, started |-> FALSE,
          reason |-> None]

Unsent == [buffer |-> << >>, status |-> << >>, final |-> {}, fate |-> "open", fault |-> None]

BodyOf(h) == Ask[asked[handler[h].request]]
HandlerAt(h, pc) == handler' = [handler EXCEPT ![h].pc = pc]
WorkerAt(pc) == worker' = [worker EXCEPT !.pc = pc]
Put(m) == rqueue' = [rqueue EXCEPT ![worker.request] = Append(@, m)]

Ctx == [is |-> "ctx"]
End == [is |-> "end"]
Error(kind) == [is |-> "error", kind |-> kind]
Item(reason) == [is |-> "item", reason |-> reason]

-----------------------------------------------------------------------------
(* The main thread. *)

\* _runtime_components_ready, and configure_live_metrics once it is.
Ready ==
  /\ main.pc = "waiting"
  /\ provider.core # None /\ provider.key # None
  /\ main' = [main EXCEPT !.pc = "serving", !.saw = provider]
  /\ UNCHANGED <<handler, asked, tracked, waiting, worker, provider, rqueue, reply>>

\* The wait times out, or the server is interrupted: stop_and_join tells the
\* generation thread to stop and waits for it.
StopGenerator ==
  /\ main.pc \in {"waiting", "serving"}
  /\ main' = [main EXCEPT !.pc = "joining", !.told = TRUE]
  /\ UNCHANGED <<handler, asked, tracked, waiting, worker, provider, rqueue, reply>>

\* The caches are shut down in any case: when the thread has stopped, and when
\* stop_and_join raises, before it has told the thread or while it waits.
ShutdownCaches ==
  /\ main.pc # "down"
  /\ main' = [main EXCEPT !.pc = "down"]
  /\ UNCHANGED <<handler, asked, tracked, waiting, worker, provider, rqueue, reply>>

-----------------------------------------------------------------------------
(* The handler threads. *)

\* What is answered with an error before anything is generated.
Rejected == {name \in DOMAIN Ask :
  LET b == Ask[name] IN
  \/ ~b.legible \/ ~b.valid
  \/ b.endpoint = "responses" /\ ChatBody(b.response) = {}
  \/ b.endpoint = "chat" /\ (ToolsFor(b.tool_choice, b.tools) = {} \/ ~ParallelAccepted(b.parallel))}

Tools(b) ==
  CASE b.endpoint = "text" -> {}
    [] b.endpoint = "chat" -> CHOOSE tools \in ToolsFor(b.tool_choice, b.tools) : TRUE
    [] b.endpoint = "responses" -> (CHOOSE chat \in ChatBody(b.response) : TRUE).tools

\* The attributes of the handler when a completion begins.
Accept(h, r, b) ==
  [handler[h] EXCEPT !.pc = "generate", !.request = r, !.reason = None, !.started = FALSE,
                     !.responses = @ \/ b.endpoint = "responses"]

\* do_POST, handle_responses_request and handle_completion up to generate().
Receive(h) ==
  /\ main.pc = "serving" /\ handler[h].pc = "idle" /\ Len(asked) < MaxRequests
  /\ \E name \in DOMAIN Ask :
       LET r == Len(asked) + 1 IN
       /\ asked' = Append(asked, name)
       /\ IF name \in Rejected
          THEN /\ reply' = [reply EXCEPT ![r] = [Unsent EXCEPT !.status = <<400>>, !.fate = "done"]]
               /\ UNCHANGED handler
          ELSE /\ handler' = [handler EXCEPT ![h] = Accept(h, r, Ask[name])]
               /\ UNCHANGED reply
  /\ UNCHANGED <<main, tracked, waiting, worker, provider, rqueue>>

\* DFlashResponseGenerator.generate: forget the last reply, then queue.
Forget(h) ==
  /\ handler[h].pc = "generate"
  /\ tracked' = None
  /\ HandlerAt(h, "queue")
  /\ UNCHANGED <<main, asked, waiting, worker, provider, rqueue, reply>>

Queue(h) ==
  /\ handler[h].pc = "queue"
  /\ waiting' = Append(waiting, handler[h].request)
  /\ HandlerAt(h, "await")
  /\ UNCHANGED <<main, asked, tracked, worker, provider, rqueue, reply>>

\* The connection is free for another request, or another one has its place;
\* _serve_responses_as_chat leaves the handler as it found it, whatever happened.
\* A client cannot read on behind a reply that left its status in the buffer.
Finish(h, sent, fate) ==
  /\ reply' = [reply EXCEPT ![handler[h].request] = [sent EXCEPT !.fate = fate]]
  /\ handler' = [handler EXCEPT ![h].pc = "idle", ![h].responses = FALSE]

Sent(h) == reply[handler[h].request]

\* send_response adds a line to the buffer, end_headers sends what is in it.
Buffered(h, code) == [Sent(h) EXCEPT !.buffer = Append(@, code)]
Flushed(h) == [Sent(h) EXCEPT !.status = @ \o Sent(h).buffer, !.buffer = << >>]
Status(h, code) == [Flushed(h) EXCEPT !.status = Append(@, code)]

\* Mutant: only _set_completion_headers sets the flag.
Started_NotStreams(h, code) == handler[h].started \/ (code = 200 /\ ~BodyOf(h).stream)

\* Headers of a success set the flag of the handler, those of an error do not.
Started(h, code) == handler[h].started \/ code = 200

\* mlx_lm answers an exception before the context.  Behind the context it sets
\* the headers, and sends those of a stream; any other waits for its body.
Await(h) ==
  /\ handler[h].pc = "await" /\ rqueue[handler[h].request] # << >>
  /\ rqueue' = [rqueue EXCEPT ![handler[h].request] = Tail(@)]
  /\ IF Head(rqueue[handler[h].request]).is = "error"
     THEN Finish(h, Status(h, 404), "done")
     ELSE /\ handler' = [handler EXCEPT ![h].pc = "read", ![h].started = Started(h, 200)]
          /\ reply' = [reply EXCEPT ![handler[h].request] =
                         IF BodyOf(h).stream THEN Status(h, 200) ELSE Buffered(h, 200)]
  /\ UNCHANGED <<main, asked, tracked, waiting, worker, provider>>

\* The engine raised although the reply had begun: _serve_responses_as_chat
\* answers a ValueError, any other exception ends the thread of the connection.
Fail(h, kind) ==
  IF handler[h].responses /\ kind = "ValueError"
  THEN Finish(h, [Status(h, 400) EXCEPT !.fault = kind], "done")
  ELSE Finish(h, [Sent(h) EXCEPT !.fault = kind], "dropped")

\* _track notes each item as it passes it on.
Read(h) ==
  /\ handler[h].pc = "read" /\ rqueue[handler[h].request] # << >>
  /\ rqueue' = [rqueue EXCEPT ![handler[h].request] = Tail(@)]
  /\ LET m == Head(rqueue[handler[h].request]) IN
     CASE m = End -> /\ HandlerAt(h, "complete")
                     /\ UNCHANGED <<tracked, reply>>
       [] m.is = "error" -> /\ Fail(h, m.kind)
                            /\ UNCHANGED tracked
       [] m.is = "item" ->
            /\ tracked' = IF m.reason # None THEN m.reason ELSE tracked
            /\ handler' = [handler EXCEPT ![h].pc = "pass",
                             ![h].reason = IF m.reason # None THEN m.reason ELSE @]
            /\ UNCHANGED reply
  /\ UNCHANGED <<main, asked, waiting, worker, provider>>

\* A write finds the connection broken.
Broken(h) ==
  /\ \/ handler[h].pc = "pass" /\ BodyOf(h).stream
     \/ handler[h].pc \in {"complete", "salvage"}
  /\ Finish(h, Sent(h), "closed")
  /\ UNCHANGED <<main, asked, tracked, waiting, worker, provider, rqueue>>

\* What the parser makes of the tool call a reply holds, if it holds one.
Parses == [name \in DOMAIN Ask \ Rejected |->
  LET b == Ask[name] IN
  IF b.span = << >> THEN Calls(<< >>) ELSE ParseToolCall(b.span[1], Tools(b))]
Parsed(h) == Parses[asked[handler[h].request]]

\* A stream parses a call once its span has closed, with any item from then on;
\* every other reply when all of it is there.
Pass(h) ==
  /\ handler[h].pc = "pass"
  /\ HandlerAt(h, "read")
  /\ UNCHANGED <<main, asked, tracked, waiting, worker, provider, rqueue, reply>>

Parsing(h) ==
  \/ handler[h].pc = "pass" /\ BodyOf(h).stream
  \/ handler[h].pc = "complete"

\* The except clause of handle_completion.  As mlx_lm parses behind the headers,
\* the reply has always begun.
ParseError(h) ==
  /\ Parsing(h) /\ Parsed(h) = Refused
  /\ IF handler[h].started
     THEN HandlerAt(h, "salvage") /\ UNCHANGED reply
     ELSE Finish(h, Status(h, 400), "done")
  /\ UNCHANGED <<main, asked, tracked, waiting, worker, provider, rqueue>>

\* An exception of another kind ends the thread of the connection.
ParserEscapes(h) ==
  /\ Parsing(h) /\ Parsed(h) = Escaped
  /\ Finish(h, Sent(h), "dropped")
  /\ UNCHANGED <<main, asked, tracked, waiting, worker, provider, rqueue>>

\* generate_response labels a reply with the model that is loaded now.
Final(h, reason) ==
  [reason |-> reason, read |-> handler[h].reason,
   label |-> IF provider.key # None THEN provider.key ELSE BodyOf(h).model,
   responses |-> handler[h].responses]

Complete(h) ==
  /\ handler[h].pc = "complete" /\ Parsed(h).how = "calls"
  /\ Finish(h, [Flushed(h) EXCEPT !.final = {Final(h, handler[h].reason)}], "done")
  /\ UNCHANGED <<main, asked, tracked, waiting, worker, provider, rqueue>>

\* _finalize_completion_after_tool_parse_error writes the body alone: headers
\* that were only set stay in the buffer.
Salvage(h) ==
  /\ handler[h].pc = "salvage"
  /\ LET reason == IF tracked # None THEN tracked ELSE "length" IN
     Finish(h, [Sent(h) EXCEPT !.final = {Final(h, reason)}], "done")
  /\ UNCHANGED <<main, asked, tracked, waiting, worker, provider, rqueue>>

Handle(h) ==
  \/ Receive(h) \/ Forget(h) \/ Queue(h) \/ Await(h) \/ Read(h) \/ Pass(h)
  \/ Broken(h) \/ ParseError(h) \/ ParserEscapes(h) \/ Complete(h) \/ Salvage(h)

-----------------------------------------------------------------------------
(* The generation thread. *)

Unloaded == [core |-> None, meta |-> None, key |-> None]

\* The model of the request, or at the start the one of the command line.
Wanted == IF worker.request = 0 THEN DefaultModel ELSE Ask[asked[worker.request]].model

\* mlx_lm.server ends the thread when it is told to and no request is served.
Stop ==
  /\ worker.pc = "idle" /\ main.told
  /\ WorkerAt("stopped")
  /\ UNCHANGED <<main, handler, asked, tracked, waiting, provider, rqueue, reply>>

Take ==
  /\ worker.pc = "idle" /\ waiting # << >> /\ ~main.told
  /\ worker' = [pc |-> "load", request |-> Head(waiting), put |-> 0]
  /\ waiting' = Tail(waiting)
  /\ UNCHANGED <<main, handler, asked, tracked, provider, rqueue, reply>>

\* DFlashModelProvider.load: nothing to do, or every field is emptied first.
Loaded == provider.key = Wanted /\ provider.core # None
Serving == IF worker.request = 0 THEN "idle" ELSE "serve"

Load ==
  /\ worker.pc = "load"
  /\ IF Loaded THEN WorkerAt(Serving) /\ UNCHANGED provider
     ELSE WorkerAt("core") /\ provider' = Unloaded
  /\ UNCHANGED <<main, handler, asked, tracked, waiting, rqueue, reply>>

\* Mutant: the thread goes on and tells nobody.
LoadRaises_Silent ==
  /\ worker.pc \in {"load", "core"}
  /\ WorkerAt(IF worker.request = 0 THEN "stopped" ELSE "idle")
  /\ UNCHANGED <<main, handler, asked, tracked, waiting, provider, rqueue, reply>>

\* No model is named or its draft not found, and the provider keeps what it has;
\* or the bundle cannot be loaded or its weights not be read, and it stays empty.
\* The request fails, and without a first model the thread ends.
LoadRaises ==
  /\ worker.pc \in {"load", "core"}
  /\ IF worker.request = 0 THEN WorkerAt("stopped") /\ UNCHANGED rqueue
     ELSE Put(Error("other")) /\ WorkerAt("idle")
  /\ UNCHANGED <<main, handler, asked, tracked, waiting, provider, reply>>

\* Mutant: the model is announced before what is known of it.
NextField_KeyEarly == [core |-> "key", key |-> "meta", meta |-> "serve"]

\* The order in which the fields are set: model_key is the last of them.
NextField == [core |-> "meta", meta |-> "key", key |-> "serve"]

Publish ==
  /\ worker.pc \in DOMAIN NextField
  /\ provider' = [provider EXCEPT ![worker.pc] = Wanted]
  /\ WorkerAt(IF NextField[worker.pc] = "serve" THEN Serving ELSE NextField[worker.pc])
  /\ UNCHANGED <<main, handler, asked, tracked, waiting, rqueue, reply>>

\* _serve_single: the context goes out first.
Serve ==
  /\ worker.pc = "serve"
  /\ Put(Ctx) /\ WorkerAt("produce")
  /\ UNCHANGED <<main, handler, asked, tracked, waiting, provider, reply>>

Produce ==
  /\ worker.pc = "produce"
  /\ LET b == Ask[asked[worker.request]] IN
     IF worker.put < b.items
     THEN /\ Put(Item(IF worker.put + 1 = b.items THEN b.reason ELSE None))
          /\ worker' = [worker EXCEPT !.put = @ + 1]
     ELSE Put(End) /\ WorkerAt("idle")
  /\ UNCHANGED <<main, handler, asked, tracked, waiting, provider, reply>>

\* Whatever raises goes to the handler; before the context its kind is all one.
ServeRaises ==
  /\ \/ worker.pc = "serve" /\ Put(Error("other"))
     \/ worker.pc = "produce" /\ \E kind \in {"ValueError", "other"} : Put(Error(kind))
  /\ WorkerAt("idle")
  /\ UNCHANGED <<main, handler, asked, tracked, waiting, provider, reply>>

Generate ==
  \/ Stop \/ Take \/ Load \/ LoadRaises \/ Publish \/ Serve \/ Produce \/ ServeRaises

-----------------------------------------------------------------------------
Init ==
  /\ main = [pc |-> "waiting", told |-> FALSE, saw |-> Unloaded]
  /\ handler = [h \in Handler |-> Fresh]
  /\ asked = << >> /\ tracked = None /\ waiting = << >>
  /\ worker = [pc |-> "load", request |-> 0, put |-> 0]
  /\ provider = Unloaded
  /\ rqueue = [r \in Request |-> << >>]
  /\ reply = [r \in Request |-> Unsent]

Next ==
  \/ Ready \/ StopGenerator \/ ShutdownCaches
  \/ Generate
  \/ \E h \in Handler : Handle(h)

Spec == Init /\ [][Next]_vars

\* Threads run.  A handler need not get another request, nor its client leave.
Answer(h) ==
  Forget(h) \/ Queue(h) \/ Await(h) \/ Read(h) \/ Pass(h)
    \/ ParseError(h) \/ ParserEscapes(h) \/ Complete(h) \/ Salvage(h)

FairSpec ==
  /\ Spec /\ WF_vars(Generate) /\ WF_vars(Ready)
  /\ \A h \in Handler : WF_vars(Answer(h))

-----------------------------------------------------------------------------
\* How a reply should end, and the two ways in which serve.py ends it otherwise:
\* the status of a reply over /v1/responses is followed by a 400 when the engine
\* raises a ValueError behind it, and a reply that is no stream and whose tool
\* call cannot be read is closed without the status that was set for it.
Success(sent) == sent.status = <<200>> /\ sent.final # {}
Refusal(sent) == sent.status \in {<<400>>, <<404>>} /\ sent.final = {}
LateError(r, sent) ==
  /\ Ask[asked[r]].endpoint = "responses" /\ sent.fault = "ValueError"
  /\ sent.status = <<200, 400>> /\ sent.final = {}
Headless(r, sent) ==
  /\ ~Ask[asked[r]].stream /\ Parses[asked[r]] = Refused
  /\ sent.buffer = <<200>> /\ sent.status = << >> /\ sent.final # {}

WellFormed(r, sent) ==
  /\ sent.fate = "done" =>
       Success(sent) \/ Refusal(sent) \/ LateError(r, sent) \/ Headless(r, sent)
  /\ sent.fate # "done" => sent.status \in {<< >>, <<200>>} /\ sent.final = {}
  /\ sent.fate = "dropped" => sent.fault # None \/ Parses[asked[r]] = Escaped
  /\ \A final \in sent.final :
       /\ final.reason \in {"stop", "length"}
       /\ final.responses <=> Ask[asked[r]].endpoint = "responses"

\* Whoever stays gets one status line, and behind a 200 a reply that is closed
\* with a finish reason in the format of the endpoint, also when the tool call
\* in it cannot be read: a 400 never lands in a stream, nor a rest of a response
\* where none has begun.  Only an exception of the engine or an unknown one of a
\* parser drops the connection.  The two ways named above are all the code gets
\* wrong.
ReplyWellFormed == \A r \in 1 .. Len(asked) : WellFormed(r, reply[r])

\* The main thread announces a model with all that is known of it, although it
\* looks at the fields while the other thread sets them, and a request is served
\* by the model it asks for, also after a load that raised half way.
WholeModel ==
  /\ main.saw = Unloaded \/ \E m \in Model : main.saw = [core |-> m, meta |-> m, key |-> m]
  /\ main.pc = "serving" => main.saw # Unloaded
  /\ worker.pc \in {"serve", "produce"} => \A f \in DOMAIN provider : provider[f] = Wanted

Continued == [turn \in Turn |-> \A template \in Template : Continues(turn, template)]

\* A conversation over /v1/responses goes on where it was: the calls of a reply,
\* the items they are sent as, the items the client sends back with its results
\* and the messages made of those are the same declared calls under the same
\* identities, no word is lost, each result answers one of them, and the next
\* prompt begins with the stable prefix of the one before, so what was cached
\* under it is found again.
TurnsContinue ==
  \A r \in 1 .. Len(asked) :
    Ask[asked[r]].endpoint = "responses" /\ reply[r].final # {} =>
      \A turn \in Turn : turn.body = Ask[asked[r]].response => Continued[turn]

\* Every request gets to its end unless the server stops.
EveryRequestEnds ==
  \A h \in Handler :
    handler[h].pc # "idle" ~> handler[h].pc = "idle" \/ main.pc \in {"joining", "down"}

\* What the tests of the salvage say: a reply that is closed because the tool
\* call in it cannot be read names the finish reason its request has had.
SalvageReportsItself ==
  \A r \in 1 .. Len(asked) : \A final \in reply[r].final :
    final.read # None => final.reason = final.read

==============================================================================
