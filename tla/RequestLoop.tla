----------------------------- MODULE RequestLoop -----------------------------
(***************************************************************************)
(* The request path of the server (serve.py, server/runtime.py,            *)
(* server/request_loop.py, the live request of server/metrics.py).         *)
(*                                                                         *)
(* One generation thread takes the requests of all handler threads one     *)
(* after the other.  It pulls the decode engine, a generator that does     *)
(* what GreedyDecode says, and puts what it hands out on the queue of the  *)
(* request, one token late.  Every handler thread reads its own queue, and *)
(* may stop reading at any time.  Anything on the way may raise.           *)
(*                                                                         *)
(*   options     what each client asks for                                 *)
(*   requests        the queue of the generation thread                    *)
(*   worker          its place and its locals: the client served, whether  *)
(*                   the cache is bracketed, and those of                  *)
(*                   consume_dflash_events                                 *)
(*   greedy, limit, output, ended    the engine it pulls (GreedyDecode)    *)
(*   stopping        ctx._should_stop of each request                      *)
(*   rqueue          the queue of each request                             *)
(*   got, reason, fate   what each handler thread has read                 *)
(*   active          the requests begun and not ended in the prefix store  *)
(*   live            _LIVE_CURRENT_REQUEST                                 *)
(*   recorded        how often each request entered the totals             *)
(*   draft           model_provider.draft_model is set                     *)
(***************************************************************************)
EXTENDS Integers, Sequences, SequencesExt

CONSTANTS Client, Token, Stop, Overrun,
          Asked        \* what the clients may ask for together: for each the way
                       \* it is served, its limit, its stop word and the text
                       \* the model would write

VARIABLES options, requests, worker, greedy, limit, output, ended, stopping,
          rqueue, got, reason, fate, active, live, recorded, draft

engine == <<greedy, limit, output, ended>>
handlers == <<got, reason, fate, stopping>>
metrics == <<live, recorded>>
vars == <<options, requests, worker, engine, handlers, rqueue, active, metrics, draft>>

Engine == INSTANCE GreedyDecode
Promise == INSTANCE ReplyPromise

Request == [mode : {"dflash", "target"}, limit : Nat, word : Seq(Token), text : Seq(Token)]

ASSUME AskedAssumption ==
  /\ Asked \subseteq [Client -> Request]
  /\ \A asked \in Asked : \A c \in Client : Len(asked[c].text) >= asked[c].limit
ASSUME OverrunAssumption == Overrun \in Nat
ASSUME NoneAssumption == "none" \notin Client \cup Token

None == "none"
NoPending == [token |-> None, why |-> None]
Idle == [pc |-> "idle", client |-> None, gated |-> FALSE, pending |-> NoPending,
         flushed |-> FALSE, done |-> FALSE, count |-> 0, finish |-> None, failed |-> FALSE]

Reason == {None, "stop", "length"}
Message == [kind : {"ctx", "token", "end", "error"}, token : Token \cup {None}, why : Reason]

Ctx == [kind |-> "ctx", token |-> None, why |-> None]
End == [kind |-> "end", token |-> None, why |-> None]
Error == [kind |-> "error", token |-> None, why |-> None]

\* make_response
Response(token, why) == [kind |-> "token", token |-> token, why |-> why]

Put(messages) == rqueue' = [rqueue EXCEPT ![worker.client] = @ \o messages]

Goto(pc) == worker' = [worker EXCEPT !.pc = pc]

\* clear_live_request
ClearLive == live' = IF live = worker.client THEN None ELSE live

RecordRequest ==
  recorded' = [recorded EXCEPT ![worker.client] = @ + 1] /\ ClearLive

-----------------------------------------------------------------------------
\* The handler threads.

Submit(c) ==
  /\ fate[c] = "new"
  /\ fate' = [fate EXCEPT ![c] = "waiting"]
  /\ requests' = Append(requests, c)
  /\ UNCHANGED <<options, worker, engine, got, reason, stopping, rqueue, active, metrics, draft>>

Receive(c) ==
  /\ fate[c] \in {"waiting", "reading"} /\ rqueue[c] # << >>
  /\ rqueue' = [rqueue EXCEPT ![c] = Tail(@)]
  /\ LET m == Head(rqueue[c]) IN
     /\ got' = IF m.kind = "token" THEN [got EXCEPT ![c] = Append(@, m.token)] ELSE got
     /\ reason' = IF m.why # None THEN [reason EXCEPT ![c] = m.why] ELSE reason
     /\ fate' = [fate EXCEPT ![c] = CASE m.kind = "end" -> "answered"
                                      [] m.kind = "error" -> "failed"
                                      [] OTHER -> "reading"]
  /\ UNCHANGED <<options, requests, worker, engine, stopping, active, metrics, draft>>

\* The connection breaks, or the handler has enough; it may tell the context.
Leave(c) ==
  /\ fate[c] = "reading"
  /\ fate' = [fate EXCEPT ![c] = "left"]
  /\ \E tells \in BOOLEAN : stopping' = [stopping EXCEPT ![c] = tells]
  /\ UNCHANGED <<options, requests, worker, engine, got, reason, rqueue, active, metrics, draft>>

-----------------------------------------------------------------------------
\* The generation thread: _serve_single up to the engine.

\* A request the engine cannot serve exactly runs on the target alone, and the
\* draft model is hidden from mlx_lm meanwhile.
TakeTargetOnly ==
  /\ worker.pc = "idle" /\ requests # << >>
  /\ options[Head(requests)].mode = "target"
  /\ worker' = [Idle EXCEPT !.pc = "target", !.client = Head(requests)]
  /\ requests' = Tail(requests)
  /\ live' = Head(requests) /\ draft' = FALSE
  /\ UNCHANGED <<options, engine, handlers, rqueue, active, recorded>>

\* The whole reply as mlx_lm puts it, or the part before its own exception.
TargetReply(c) ==
  LET o == options[c]
      StoppedAt(i) == Promise!Stopped(o, SubSeq(o.text, 1, i))
      Ends(n) == /\ n = o.limit \/ (n > 0 /\ StoppedAt(n))
                 /\ \A i \in 1 .. n - 1 : ~StoppedAt(i)
      Why(i, n) == IF i < n THEN None ELSE IF StoppedAt(i) THEN "stop" ELSE "length"
      Tokens(n) == [i \in 1 .. n |-> Response(o.text[i], Why(i, n))]
  IN UNION {{<<Ctx>> \o Tokens(n) \o <<End>>, <<Ctx>> \o SubSeq(Tokens(n), 1, n - 1) \o <<Error>>} :
              n \in {n \in 0 .. o.limit : Ends(n)}}

\* mlx_lm answers its own exceptions, but may raise before it could.
ServeTargetOnly ==
  /\ worker.pc = "target"
  /\ \/ \E reply \in TargetReply(worker.client) : Put(reply) /\ Goto("record target")
     \/ Goto("fail") /\ UNCHANGED rqueue
  /\ draft' = TRUE
  /\ UNCHANGED <<options, requests, engine, handlers, active, metrics>>

RecordTargetOnly ==
  /\ worker.pc = "record target"
  /\ RecordRequest /\ worker' = Idle
  /\ UNCHANGED <<options, requests, engine, handlers, rqueue, active, draft>>

Take ==
  /\ worker.pc = "idle" /\ requests # << >>
  /\ options[Head(requests)].mode # "target"
  /\ worker' = [Idle EXCEPT !.pc = "prepare", !.client = Head(requests)]
  /\ requests' = Tail(requests)
  /\ UNCHANGED <<options, engine, handlers, rqueue, active, metrics, draft>>

\* Tokenises the request and answers with its context, or raises.
Prepare ==
  /\ worker.pc = "prepare"
  /\ \/ Put(<<Ctx>>) /\ Goto("lookup")
     \/ Goto("fail") /\ UNCHANGED rqueue
  /\ UNCHANGED <<options, requests, engine, handlers, active, metrics, draft>>

\* PrefixCacheFlow.for_request, then the live request, the generator, and
\* begin_request on the manager of the flow, if it has one.
Begin ==
  /\ worker.pc = "lookup"
  /\ \/ /\ \E gated \in BOOLEAN :
             /\ worker' = [worker EXCEPT !.pc = "pull", !.gated = gated]
             /\ active' = IF gated THEN active + 1 ELSE active
        /\ live' = worker.client
        /\ greedy' = options[worker.client].text /\ limit' = options[worker.client].limit
        /\ output' = << >> /\ ended' = "no"
     \/ Goto("fail") /\ UNCHANGED <<active, live, engine>>
  /\ UNCHANGED <<options, requests, handlers, rqueue, recorded, draft>>

-----------------------------------------------------------------------------
\* consume_dflash_events.

TokenReason(o, tokens) ==
  CASE Promise!Stopped(o, tokens) -> "stop"
    [] ~Promise!Stopped(o, tokens) /\ Len(tokens) >= o.limit -> "length"
    [] OTHER -> None

Consume_NeverDone(w, token, why) ==
  /\ Put(IF ~w.flushed THEN <<Response(token, why)>>
         ELSE IF w.pending = NoPending THEN << >>
         ELSE <<Response(w.pending.token, w.pending.why)>>)
  /\ worker' = [w EXCEPT !.count = @ + 1, !.flushed = TRUE,
                         !.pending = IF w.flushed THEN [token |-> token, why |-> why] ELSE @,
                         !.pc = IF stopping[w.client] THEN "close" ELSE @]

\* The first token goes out at once, every later one when its successor comes.
Consume(w, token, why) ==
  /\ Put(IF ~w.flushed THEN <<Response(token, why)>>
         ELSE IF w.pending = NoPending THEN << >>
         ELSE <<Response(w.pending.token, w.pending.why)>>)
  /\ worker' = [w EXCEPT !.count = @ + 1, !.flushed = TRUE,
                         !.pending = IF w.flushed THEN [token |-> token, why |-> why] ELSE @,
                         !.pc = IF stopping[w.client] THEN "close" ELSE @,
                         !.done = ~stopping[w.client] /\ why # None]

\* Tokens after the one that ended the reply are dropped, the engine goes on.
PullToken ==
  /\ worker.pc = "pull"
  /\ Engine!Emit /\ ended' = "no"
  /\ IF worker.done THEN UNCHANGED <<worker, rqueue>>
     ELSE Consume(worker, Last(output'), TokenReason(options[worker.client], output'))
  /\ UNCHANGED <<options, requests, handlers, active, metrics, draft>>

\* Mutant: whatever does not end in a stop token ended at the limit.
SummaryReason_AnyLength(tokens) ==
  IF tokens # << >> /\ Last(tokens) \notin Stop THEN "length" ELSE "stop"

\* The summary names the reason after the last token of the engine.
SummaryReason(tokens) ==
  IF tokens # << >> /\ Last(tokens) \notin Stop /\ Len(tokens) >= limit
  THEN "length" ELSE "stop"

PullSummary ==
  /\ worker.pc = "pull"
  /\ Engine!Finish
  /\ worker' = [worker EXCEPT !.finish = SummaryReason(output), !.pc = "close"]
  /\ UNCHANGED <<options, requests, handlers, rqueue, active, metrics, draft>>

EngineRaises ==
  /\ worker.pc = "pull"
  /\ Engine!Close
  /\ worker' = [worker EXCEPT !.failed = TRUE, !.pc = "close"]
  /\ UNCHANGED <<options, requests, handlers, rqueue, active, metrics, draft>>

CloseEngine_SkipsBracket ==
  /\ worker.pc = "close"
  /\ ended' = IF ended = "no" THEN "closed" ELSE ended
  /\ Goto(IF worker.failed THEN "fail" ELSE "end")
  /\ UNCHANGED <<options, requests, greedy, limit, output, handlers, rqueue, active, metrics, draft>>

\* The finally clause: the generator is closed, then the bracket.
CloseEngine ==
  /\ worker.pc = "close"
  /\ ended' = IF ended = "no" THEN "closed" ELSE ended
  /\ Goto("end")
  /\ UNCHANGED <<options, requests, greedy, limit, output, handlers, rqueue, active, metrics, draft>>

EndRequest_Always ==
  /\ worker.pc = "end"
  /\ active' = active - 1
  /\ Goto(IF worker.failed THEN "fail" ELSE "flush")
  /\ UNCHANGED <<options, requests, engine, handlers, rqueue, metrics, draft>>

EndRequest ==
  /\ worker.pc = "end"
  /\ active' = IF worker.gated THEN active - 1 ELSE active
  /\ Goto(IF worker.failed THEN "fail" ELSE "flush")
  /\ UNCHANGED <<options, requests, engine, handlers, rqueue, metrics, draft>>

\* The token held back goes out with the summary's reason, if there was one.
Flush ==
  /\ worker.pc = "flush"
  /\ Put(IF worker.pending = NoPending THEN << >>
         ELSE <<Response(worker.pending.token, IF worker.finish # None THEN worker.finish
                                               ELSE worker.pending.why)>>)
  /\ Goto("finalize")
  /\ UNCHANGED <<options, requests, engine, handlers, active, metrics, draft>>

-----------------------------------------------------------------------------
\* serve_dflash_request after the loop, and the except clause of _serve_single.

Finalize ==
  /\ worker.pc = "finalize"
  /\ \/ RecordRequest /\ \E pc \in {"answer", "fail"} : Goto(pc)
     \/ Goto("fail") /\ UNCHANGED metrics
  /\ UNCHANGED <<options, requests, engine, handlers, rqueue, active, draft>>

Answer ==
  /\ worker.pc = "answer"
  /\ Put(<<End>>) /\ worker' = Idle
  /\ UNCHANGED <<options, requests, engine, handlers, active, metrics, draft>>

Fail_KeepsLive ==
  /\ worker.pc = "fail"
  /\ Put(<<Error>>) /\ worker' = Idle
  /\ UNCHANGED <<options, requests, engine, handlers, active, metrics, draft>>

Fail_Silent ==
  /\ worker.pc = "fail"
  /\ ClearLive /\ worker' = Idle
  /\ UNCHANGED <<options, requests, engine, handlers, rqueue, active, recorded, draft>>

Fail ==
  /\ worker.pc = "fail"
  /\ ClearLive /\ Put(<<Error>>) /\ worker' = Idle
  /\ UNCHANGED <<options, requests, engine, handlers, active, recorded, draft>>

-----------------------------------------------------------------------------
Init ==
  /\ options \in Asked
  /\ requests = << >> /\ worker = Idle
  /\ greedy = << >> /\ limit = 0 /\ output = << >> /\ ended = "finished"
  /\ stopping = [c \in Client |-> FALSE] /\ rqueue = [c \in Client |-> << >>]
  /\ got = [c \in Client |-> << >>] /\ reason = [c \in Client |-> None]
  /\ fate = [c \in Client |-> "new"]
  /\ active = 0 /\ live = None /\ recorded = [c \in Client |-> 0] /\ draft = TRUE

Serve ==
  \/ TakeTargetOnly \/ ServeTargetOnly \/ RecordTargetOnly
  \/ Take \/ Prepare \/ Begin
  \/ PullToken \/ PullSummary \/ EngineRaises
  \/ CloseEngine \/ EndRequest \/ Flush \/ Finalize \/ Answer \/ Fail

Handle == \E c \in Client : Submit(c) \/ Receive(c) \/ Leave(c)

Next == Serve \/ Handle

Spec == Init /\ [][Next]_vars

\* The generation thread runs, and a handler that waits for a message takes it.
FairSpec == Spec /\ WF_vars(Serve) /\ \A c \in Client : WF_vars(Receive(c))

-----------------------------------------------------------------------------
\* The state is well formed: the store counts at most the one request served,
\* and a request enters the totals at most once.
TypeOK ==
  /\ options \in Asked
  /\ requests \in Seq(Client)
  /\ worker.client \in Client \cup {None} /\ (worker.client = None <=> worker.pc = "idle")
  /\ ended \in {"no", "closed", "finished"}
  /\ active \in 0 .. 1 /\ live \in Client \cup {None}
  /\ recorded \in [Client -> 0 .. 1] /\ draft \in BOOLEAN
  /\ rqueue \in [Client -> Seq(Message)] /\ reason \in [Client -> Reason]
  /\ fate \in [Client -> {"new", "waiting", "reading", "answered", "failed", "left"}]

\* Each reader gets the model's text token by token, its finish reason with the
\* token that ends the reply, and one end: the token held back, the tokens the
\* engine hands out beyond the end and an exception at any point included.
ReplyKept ==
  INSTANCE ReplyPromise WITH
    fate <- [c \in Client |-> IF fate[c] \in {"new", "waiting", "reading"} THEN "open" ELSE fate[c]]
KeepsPromise == ReplyKept!Spec

\* The writer of the prefix cache is held back exactly while the engine of a
\* request that has the cache is open, however the request ends, and nothing of
\* a request outlives it: bracket, engine and hidden draft model.
BracketCoversDecoding ==
  /\ ended = "no" /\ worker.gated => active = 1
  /\ active = 1 => worker.gated /\ worker.pc \in {"pull", "close", "end"}
  /\ worker.pc \in {"idle", "flush", "fail"} => active = 0 /\ ended # "no"
  /\ worker.pc # "target" => draft

\* The live request of /metrics is the one being served, and whoever has read
\* the end of an answered reply is no longer live and entered the totals.
LiveIsServed ==
  /\ live # None => worker.client = live
  /\ \A c \in Client : fate[c] = "answered" /\ options[c].mode # "target" =>
       recorded[c] = 1 /\ live # c

\* Every client that waits gets to the end of its reply, or has left.
EveryoneAnswered ==
  \A c \in Client : fate[c] = "waiting" ~> fate[c] \in {"answered", "failed", "left"}

==============================================================================
