-------------------------- MODULE RequestLoopProofs --------------------------
(***************************************************************************)
(* Proofs about the request path, for all clients, requests and texts, and *)
(* whatever the engine hands out.                                          *)
(***************************************************************************)
EXTENDS RequestLoop, TLAPS

\* The worker is a record of exactly these fields.
WorkerOK ==
  /\ worker = [pc |-> worker.pc, client |-> worker.client, gated |-> worker.gated,
               pending |-> worker.pending, flushed |-> worker.flushed,
               done |-> worker.done, count |-> worker.count,
               finish |-> worker.finish, failed |-> worker.failed]
  /\ worker.gated \in BOOLEAN

\* The bracket is a function of the place of the worker, and the engine is open
\* only inside it.
BInv ==
  /\ WorkerOK
  /\ active = IF worker.gated /\ worker.pc \in {"pull", "close", "end"} THEN 1 ELSE 0
  /\ ended = "no" => worker.pc \in {"pull", "close"}
  /\ worker.pc # "target" => draft

LEMMA BInvInit == Init => BInv
  BY DEF Init, BInv, WorkerOK, Idle

LEMMA BInvStep == BInv /\ [Next]_vars => BInv'
<1> SUFFICES ASSUME BInv, [Next]_vars PROVE BInv'
  OBVIOUS
<1> USE DEF BInv, WorkerOK
<1>1. CASE TakeTargetOnly
  BY <1>1 DEF TakeTargetOnly, Idle, engine
<1>2. CASE ServeTargetOnly
  BY <1>2 DEF ServeTargetOnly, Goto, engine
<1>3. CASE RecordTargetOnly
  BY <1>3 DEF RecordTargetOnly, Idle, engine
<1>4. CASE Take
  BY <1>4 DEF Take, Idle, engine
<1>5. CASE Prepare
  BY <1>5 DEF Prepare, Goto, engine
<1>6. CASE Begin
  <2>1. worker.pc = "lookup" /\ active = 0 /\ draft' = draft
    BY <1>6 DEF Begin
  <2>2. CASE worker' = [worker EXCEPT !.pc = "fail"] /\ UNCHANGED <<active, ended>>
    BY <2>1, <2>2
  <2>3. ASSUME NEW gated \in BOOLEAN,
               worker' = [worker EXCEPT !.pc = "pull", !.gated = gated],
               active' = IF gated THEN active + 1 ELSE active
        PROVE  BInv'
    <3>1. worker'.pc = "pull" /\ worker'.gated = gated /\ WorkerOK'
      BY <2>3
    <3> QED
      BY <2>1, <2>3, <3>1
  <2> QED
    BY <1>6, <2>2, <2>3 DEF Begin, Goto, engine
<1>7. CASE PullToken
  BY <1>7 DEF PullToken, Consume
<1>8. CASE PullSummary
  BY <1>8 DEF PullSummary, Engine!Finish
<1>9. CASE EngineRaises
  BY <1>9 DEF EngineRaises, Engine!Close
<1>10. CASE CloseEngine
  BY <1>10 DEF CloseEngine, Goto
<1>11. CASE EndRequest
  BY <1>11 DEF EndRequest, Goto, engine
<1>12. CASE Flush
  BY <1>12 DEF Flush, Goto, engine
<1>13. CASE Finalize
  BY <1>13 DEF Finalize, Goto, engine
<1>14. CASE Answer
  BY <1>14 DEF Answer, Idle, engine
<1>15. CASE Fail
  BY <1>15 DEF Fail, Idle, engine
<1>16. CASE Handle
  BY <1>16 DEF Handle, Submit, Receive, Leave, engine
<1>17. CASE UNCHANGED vars
  BY <1>17 DEF vars, engine
<1> QED
  BY <1>1, <1>2, <1>3, <1>4, <1>5, <1>6, <1>7, <1>8, <1>9, <1>10, <1>11, <1>12, <1>13,
     <1>14, <1>15, <1>16, <1>17 DEF Next, Serve

\* The writer of the prefix cache is held back exactly while the engine of a
\* request that has the cache is open, and no request leaves its bracket, its
\* engine or the hidden draft model behind, whichever of its steps raises.
THEOREM BracketAlwaysCovers == Spec => []BracketCoversDecoding
<1>1. BInv => BracketCoversDecoding
  BY DEF BInv, WorkerOK, BracketCoversDecoding
<1> QED
  BY <1>1, BInvInit, BInvStep, PTL DEF Spec

-----------------------------------------------------------------------------
Fates == {"new", "waiting", "reading", "answered", "failed", "left"}

\* What every queue and every local may hold.
TInv ==
  /\ WorkerOK
  /\ options \in Asked
  /\ requests \in Seq(Client)
  /\ rqueue \in [Client -> Seq(Message)]
  /\ fate \in [Client -> Fates]
  /\ reason \in [Client -> Reason]
  /\ recorded \in [Client -> Nat]
  /\ worker.client \in Client \cup {None}
  /\ worker.client = None <=> worker.pc = "idle"
  /\ worker.pending \in [token : Token \cup {None}, why : Reason]
  /\ worker.finish \in Reason
  /\ greedy \in Seq(Token) /\ limit \in Nat /\ output \in Seq(Token)
  /\ limit <= Len(greedy)

LEMMA OptionsFixed ==
  ASSUME TInv, NEW c \in Client
  PROVE  /\ options[c] \in Request
         /\ options[c].limit \in Nat /\ options[c].text \in Seq(Token)
         /\ options[c].limit <= Len(options[c].text)
<1>1. options \in [Client -> Request] /\ Len(options[c].text) >= options[c].limit
  BY AskedAssumption DEF TInv
<1> QED
  BY <1>1 DEF Request

LEMMA PutKeeps ==
  ASSUME TInv, worker.client \in Client, NEW ms \in Seq(Message), Put(ms)
  PROVE  rqueue' \in [Client -> Seq(Message)]
  BY DEF TInv, Put

LEMMA MessagesOK ==
  /\ Ctx \in Message /\ End \in Message /\ Error \in Message
  /\ \A t \in Token \cup {None}, w \in Reason : Response(t, w) \in Message
  BY DEF Message, Ctx, End, Error, Response, Reason, None

LEMMA TargetReplyOK ==
  ASSUME TInv, NEW c \in Client, NEW ms \in TargetReply(c)
  PROVE  ms \in Seq(Message)
<1> DEFINE o == options[c]
           StoppedAt(i) == Promise!Stopped(o, SubSeq(o.text, 1, i))
           Why(i, n) == IF i < n THEN None ELSE IF StoppedAt(i) THEN "stop" ELSE "length"
           Tokens(n) == [i \in 1 .. n |-> Response(o.text[i], Why(i, n))]
<1>1. PICK n \in 0 .. o.limit :
        ms \in {<<Ctx>> \o Tokens(n) \o <<End>>, <<Ctx>> \o SubSeq(Tokens(n), 1, n - 1) \o <<Error>>}
  BY DEF TargetReply
<1>2. Tokens(n) \in Seq(Message)
  <2>1. ASSUME NEW i \in 1 .. n PROVE Response(o.text[i], Why(i, n)) \in Message
    <3>1. o.text[i] \in Token
      BY OptionsFixed
    <3>2. Why(i, n) \in Reason
      BY DEF Reason
    <3> QED
      BY <3>1, <3>2, MessagesOK
  <2> QED
    BY <2>1
<1>3. SubSeq(Tokens(n), 1, n - 1) \in Seq(Message)
  BY <1>2
<1>4. <<Ctx>> \in Seq(Message) /\ <<End>> \in Seq(Message) /\ <<Error>> \in Seq(Message)
  BY MessagesOK
<1> DEFINE whole == Tokens(n)  part == SubSeq(Tokens(n), 1, n - 1)
<1> HIDE DEF Tokens, whole, part
<1>5. /\ <<Ctx>> \o whole \o <<End>> \in Seq(Message)
      /\ <<Ctx>> \o part \o <<Error>> \in Seq(Message)
  BY <1>2, <1>3, <1>4 DEF whole, part
<1> QED
  BY <1>1, <1>5 DEF whole, part

LEMMA TInvInit == Init => TInv
<1> SUFFICES ASSUME Init PROVE TInv
  OBVIOUS
<1>1. WorkerOK /\ worker.client = None /\ worker.pc = "idle" /\ worker.pending = NoPending
      /\ worker.finish = None
  BY DEF Init, WorkerOK, Idle
<1> QED
  BY <1>1 DEF Init, TInv, Fates, Reason, NoPending, None

\* The engine hands out tokens of the text.
LEMMA EmitOK ==
  ASSUME TInv, Engine!Emit
  PROVE  greedy' = greedy /\ limit' = limit /\ output' \in Seq(Token) /\ Last(output') \in Token
<1>1. greedy[Len(output) + 1] \in Token /\ output \in Seq(Token)
  BY DEF TInv, Engine!Emit
<1>2. output' = Append(output, greedy[Len(output) + 1]) /\ greedy' = greedy /\ limit' = limit
  BY DEF Engine!Emit
<1> QED
  BY <1>1, <1>2 DEF Last

\* A step of the worker that leaves the rest alone.
LEMMA WorkerMoves ==
  ASSUME TInv, NEW pc, Goto(pc), worker.pc # "idle", pc # "idle"
  PROVE  /\ WorkerOK' /\ worker'.pc = pc /\ worker'.client = worker.client
         /\ worker'.pending = worker.pending /\ worker'.finish = worker.finish
         /\ worker'.failed = worker.failed /\ worker'.gated = worker.gated
         /\ worker.client \in Client
  BY DEF TInv, WorkerOK, Goto

\* What consuming a token does to the worker and to the queue.
LEMMA ConsumeOK ==
  ASSUME TInv, worker.pc = "pull", NEW t \in Token, NEW w \in Reason, Consume(worker, t, w)
  PROVE  /\ WorkerOK' /\ worker'.pc \in {"pull", "close"} /\ worker'.client = worker.client
         /\ worker'.pending \in [token : Token \cup {None}, why : Reason]
         /\ worker'.finish = worker.finish
         /\ \E m \in Seq(Message) : Put(m) /\ \A i \in 1 .. Len(m) : m[i].kind = "token"
<1>1. Response(t, w) \in Message /\ Response(worker.pending.token, worker.pending.why) \in Message
  BY MessagesOK DEF TInv
<1>2. PICK m : /\ Put(m)
               /\ \/ m = <<Response(t, w)>> \/ m = << >>
                  \/ m = <<Response(worker.pending.token, worker.pending.why)>>
  BY DEF Consume
<1> DEFINE r1 == Response(t, w)  r2 == Response(worker.pending.token, worker.pending.why)
<1>5. r1.kind = "token" /\ r2.kind = "token"
  BY DEF Response
<1> HIDE DEF r1, r2
<1>3. m \in Seq(Message) /\ \A i \in 1 .. Len(m) : m[i].kind = "token"
  <2>1. m = <<r1>> \/ m = <<r2>> \/ m = << >>
    BY <1>2 DEF r1, r2
  <2>2. r1 \in Message /\ r2 \in Message
    BY <1>1 DEF r1, r2
  <2>3. CASE m = <<r1>>
    BY <1>5, <2>2, <2>3
  <2>4. CASE m = <<r2>>
    BY <1>5, <2>2, <2>4
  <2>5. CASE m = << >>
    BY <2>5
  <2> QED
    BY <2>1, <2>3, <2>4, <2>5
<1>4. /\ WorkerOK' /\ worker'.pc \in {"pull", "close"} /\ worker'.client = worker.client
      /\ worker'.pending \in {worker.pending, [token |-> t, why |-> w]}
      /\ worker'.finish = worker.finish
  BY DEF Consume, TInv, WorkerOK
<1> QED
  BY <1>2, <1>3, <1>4 DEF TInv

\* The worker between two requests.
LEMMA IdleOK ==
  ASSUME worker' = Idle \/ \E pc, c : worker' = [Idle EXCEPT !.pc = pc, !.client = c]
  PROVE  /\ WorkerOK'
         /\ worker'.pending \in [token : Token \cup {None}, why : Reason]
         /\ worker'.finish \in Reason
<1>1. NoPending \in [token : Token \cup {None}, why : Reason] /\ None \in Reason
  BY DEF NoPending, Reason
<1>2. WorkerOK' /\ worker'.pending = NoPending /\ worker'.finish = None
  <2>1. CASE worker' = Idle
    BY <2>1 DEF WorkerOK, Idle
  <2>2. ASSUME NEW pc, NEW c, worker' = [Idle EXCEPT !.pc = pc, !.client = c]
        PROVE  WorkerOK' /\ worker'.pending = NoPending /\ worker'.finish = None
    BY <2>2 DEF WorkerOK, Idle
  <2> QED
    BY <2>1, <2>2
<1> QED
  BY <1>1, <1>2

LEMMA OneMessage ==
  <<Ctx>> \in Seq(Message) /\ <<End>> \in Seq(Message) /\ <<Error>> \in Seq(Message)
  BY MessagesOK

\* Recording touches the count of the client served alone.
LEMMA RecordOK ==
  ASSUME TInv, worker.client \in Client, RecordRequest
  PROVE  recorded' \in [Client -> Nat] /\ recorded'[worker.client] = recorded[worker.client] + 1
         /\ \A c \in Client \ {worker.client} : recorded'[c] = recorded[c]
  BY DEF TInv, RecordRequest

LEMMA TInvStep == TInv /\ [Next]_vars => TInv'
<1> SUFFICES ASSUME TInv, [Next]_vars PROVE TInv'
  OBVIOUS
<1>1. CASE TakeTargetOnly \/ Take
  <2>1. Head(requests) \in Client /\ Tail(requests) \in Seq(Client)
    BY <1>1 DEF TakeTargetOnly, Take, TInv
  <2>2. /\ WorkerOK'
        /\ worker'.pending \in [token : Token \cup {None}, why : Reason]
        /\ worker'.finish \in Reason
    BY <1>1, IdleOK DEF TakeTargetOnly, Take
  <2>3. worker'.pc # "idle" /\ worker'.client = Head(requests)
    BY <1>1 DEF TakeTargetOnly, Take, Idle
  <2> QED
    BY <1>1, <2>1, <2>2, <2>3, NoneAssumption
    DEF TakeTargetOnly, Take, TInv, engine, handlers, metrics, None
<1>2. CASE ServeTargetOnly
  <2>1. CASE \E reply \in TargetReply(worker.client) : Put(reply) /\ Goto("record target")
    <3>1. worker.client \in Client
      BY <1>2 DEF ServeTargetOnly, TInv
    <3>2. rqueue' \in [Client -> Seq(Message)]
      BY <2>1, <3>1, TargetReplyOK, PutKeeps
    <3>3. WorkerOK' /\ worker'.pc = "record target" /\ worker'.client = worker.client
          /\ worker'.pending = worker.pending /\ worker'.finish = worker.finish
      BY <1>2, <2>1, WorkerMoves DEF ServeTargetOnly
    <3> QED
      BY <1>2, <3>2, <3>3 DEF ServeTargetOnly, TInv, engine, handlers, metrics
  <2>2. CASE Goto("fail") /\ UNCHANGED rqueue
    <3>1. WorkerOK' /\ worker'.pc = "fail" /\ worker'.client = worker.client
          /\ worker'.pending = worker.pending /\ worker'.finish = worker.finish
      BY <1>2, <2>2, WorkerMoves DEF ServeTargetOnly
    <3> QED
      BY <1>2, <2>2, <3>1 DEF ServeTargetOnly, TInv, engine, handlers, metrics
  <2> QED
    BY <1>2, <2>1, <2>2 DEF ServeTargetOnly
<1>3. CASE RecordTargetOnly
  <2>1. recorded' \in [Client -> Nat]
    BY <1>3, RecordOK DEF RecordTargetOnly, TInv
  <2> QED
    BY <1>3, <2>1, NoneAssumption DEF RecordTargetOnly, TInv, WorkerOK, Idle, engine, handlers,
       NoPending, Reason, None
<1>4. CASE Prepare
  <2>1. worker.client \in Client
    BY <1>4 DEF Prepare, TInv
  <2>2. rqueue' \in [Client -> Seq(Message)]
    <3>1. CASE Put(<<Ctx>>)
      BY <2>1, <3>1, OneMessage, PutKeeps
    <3> QED
      BY <1>4, <3>1 DEF Prepare, TInv
  <2> QED
    BY <1>4, <2>2, WorkerMoves DEF Prepare, TInv, engine, handlers, metrics
<1>5. CASE Begin
  <2>1. worker.client \in Client /\ worker.pc = "lookup"
    BY <1>5 DEF Begin, TInv
  <2>2. CASE Goto("fail") /\ UNCHANGED engine
    <3>1. WorkerOK' /\ worker'.pc = "fail" /\ worker'.client = worker.client
          /\ worker'.pending = worker.pending /\ worker'.finish = worker.finish
      BY <2>1, <2>2, WorkerMoves
    <3> QED
      BY <1>5, <2>1, <2>2, <3>1 DEF Begin, TInv, engine, handlers
  <2>3. ASSUME NEW gated \in BOOLEAN,
               worker' = [worker EXCEPT !.pc = "pull", !.gated = gated],
               greedy' = options[worker.client].text, limit' = options[worker.client].limit,
               output' = << >>
        PROVE  TInv'
    <3>1. greedy' \in Seq(Token) /\ limit' \in Nat /\ limit' <= Len(greedy')
      BY <2>1, <2>3, OptionsFixed
    <3>2. /\ WorkerOK' /\ worker'.pc = "pull" /\ worker'.client = worker.client
          /\ worker'.pending = worker.pending /\ worker'.finish = worker.finish
      BY <2>3 DEF TInv, WorkerOK
    <3>3. UNCHANGED <<options, requests, rqueue, fate, reason, recorded>>
      BY <1>5 DEF Begin, handlers
    <3>4. output' \in Seq(Token)
      BY <2>3
    <3> QED
      BY <2>1, <3>1, <3>2, <3>3, <3>4 DEF TInv
  <2> QED
    BY <1>5, <2>2, <2>3 DEF Begin
<1>6. CASE PullToken
  <2>1. greedy' = greedy /\ limit' = limit /\ output' \in Seq(Token) /\ Last(output') \in Token
    BY <1>6, EmitOK DEF PullToken
  <2>2. CASE UNCHANGED <<worker, rqueue>>
    BY <1>6, <2>1, <2>2 DEF PullToken, TInv, WorkerOK, handlers, metrics
  <2>3. CASE Consume(worker, Last(output'), TokenReason(options[worker.client], output'))
    <3>1. TokenReason(options[worker.client], output') \in Reason
      BY DEF TokenReason, Reason
    <3>2. worker.client \in Client /\ worker.pc = "pull"
      BY <1>6 DEF PullToken, TInv
    <3>3. /\ WorkerOK' /\ worker'.pc \in {"pull", "close"} /\ worker'.client = worker.client
          /\ worker'.pending \in [token : Token \cup {None}, why : Reason]
          /\ worker'.finish = worker.finish
          /\ \E m \in Seq(Message) : Put(m)
      BY <2>1, <2>3, <3>1, <3>2, ConsumeOK
    <3>4. rqueue' \in [Client -> Seq(Message)]
      BY <3>2, <3>3, PutKeeps
    <3> QED
      BY <1>6, <2>1, <3>2, <3>3, <3>4 DEF PullToken, TInv, handlers, metrics
  <2> QED
    BY <1>6, <2>2, <2>3 DEF PullToken
<1>7. CASE PullSummary
  <2>1. SummaryReason(output) \in Reason
    BY DEF SummaryReason, Reason
  <2> QED
    BY <1>7, <2>1 DEF PullSummary, Engine!Finish, TInv, WorkerOK, handlers, metrics
<1>8. CASE EngineRaises
  BY <1>8 DEF EngineRaises, Engine!Close, TInv, WorkerOK, handlers, metrics
<1>9. CASE CloseEngine
  BY <1>9, WorkerMoves DEF CloseEngine, TInv, handlers, metrics
<1>10. CASE EndRequest
  BY <1>10, WorkerMoves DEF EndRequest, TInv, engine, handlers, metrics
<1>11. CASE Flush
  <2>1. worker.client \in Client
    BY <1>11 DEF Flush, TInv
  <2>2. \A w \in Reason : Response(worker.pending.token, w) \in Message
    BY MessagesOK DEF TInv
  <2>3. PICK m \in Seq(Message) : Put(m)
    <3>1. CASE worker.pending = NoPending
      <4>1. Put(<< >>)
        BY <1>11, <3>1 DEF Flush
      <4>2. << >> \in Seq(Message)
        OBVIOUS
      <4> QED
        BY <4>1, <4>2
    <3>2. CASE worker.pending # NoPending
      <4>1. PICK w \in Reason : Put(<<Response(worker.pending.token, w)>>)
        BY <1>11, <3>2 DEF Flush, TInv
      <4>2. <<Response(worker.pending.token, w)>> \in Seq(Message)
        BY <2>2
      <4> QED
        BY <4>1, <4>2
    <3> QED
      BY <3>1, <3>2
  <2>4. rqueue' \in [Client -> Seq(Message)]
    BY <2>1, <2>3, PutKeeps
  <2> QED
    BY <1>11, <2>4, WorkerMoves DEF Flush, TInv, engine, handlers, metrics
<1>12. CASE Finalize
  <2>1. worker.client \in Client
    BY <1>12 DEF Finalize, TInv
  <2>2. recorded' \in [Client -> Nat]
    BY <1>12, <2>1, RecordOK DEF Finalize, TInv, metrics
  <2> QED
    BY <1>12, <2>2, WorkerMoves DEF Finalize, TInv, engine, handlers
<1>13. CASE Answer \/ Fail
  <2>1. worker.client \in Client
    BY <1>13 DEF Answer, Fail, TInv
  <2>2. rqueue' \in [Client -> Seq(Message)]
    BY <1>13, <2>1, OneMessage, PutKeeps DEF Answer, Fail
  <2>3. /\ WorkerOK'
        /\ worker'.pending \in [token : Token \cup {None}, why : Reason]
        /\ worker'.finish \in Reason
    BY <1>13, IdleOK DEF Answer, Fail
  <2>4. worker'.pc = "idle" /\ worker'.client = None
    BY <1>13 DEF Answer, Fail, Idle
  <2> QED
    BY <1>13, <2>2, <2>3, <2>4 DEF Answer, Fail, TInv, engine, handlers, metrics
<1>14. ASSUME NEW c \in Client, Submit(c) PROVE TInv'
  BY <1>14 DEF Submit, TInv, WorkerOK, engine, metrics, Fates
<1>15. ASSUME NEW c \in Client, Receive(c) PROVE TInv'
  <2>1. rqueue[c] \in Seq(Message) /\ rqueue[c] # << >>
    BY <1>15 DEF Receive, TInv
  <2>2. Head(rqueue[c]) \in Message /\ Tail(rqueue[c]) \in Seq(Message)
    BY <2>1
  <2>3. Head(rqueue[c]).why \in Reason
    BY <2>2 DEF Message
  <2> QED
    BY <1>15, <2>2, <2>3 DEF Receive, TInv, WorkerOK, engine, metrics, Fates
<1>16. ASSUME NEW c \in Client, Leave(c) PROVE TInv'
  BY <1>16 DEF Leave, TInv, WorkerOK, engine, metrics, Fates
<1>17. CASE UNCHANGED vars
  BY <1>17 DEF vars, TInv, WorkerOK, engine, handlers, metrics
<1> QED
  BY <1>1, <1>2, <1>3, <1>4, <1>5, <1>6, <1>7, <1>8, <1>9, <1>10, <1>11, <1>12, <1>13,
     <1>14, <1>15, <1>16, <1>17 DEF Next, Serve, Handle

-----------------------------------------------------------------------------
\* The request has not been taken from the queue of the generation thread yet.
Fresh(c) == fate[c] = "new" \/ \E i \in 1 .. Len(requests) : requests[i] = c

\* The end of a good reply is on its way to the client.
HasEnd(c) == \E i \in 1 .. Len(rqueue[c]) : rqueue[c][i].kind = "end"

LiveInv ==
  /\ live \in {None, worker.client}
  /\ worker.pc \in {"idle", "prepare", "lookup", "answer"} => live = None

\* A request is queued once, and is served as one nobody has worked on.
FreshInv ==
  /\ \A c \in Client : Fresh(c) => recorded[c] = 0 /\ rqueue[c] = << >> /\ worker.client # c
  /\ \A i \in 1 .. Len(requests) : fate[requests[i]] = "waiting"
  /\ \A i, j \in 1 .. Len(requests) : requests[i] = requests[j] => i = j

\* A request enters the totals in the last step before its answer.
CountInv ==
  /\ \A c \in Client : recorded[c] \in 0 .. 1
  /\ worker.client \in Client =>
       /\ worker.pc = "answer" => recorded[worker.client] = 1
       /\ worker.pc \notin {"answer", "fail"} => recorded[worker.client] = 0
       /\ worker.pc \in {"target", "record target"} => options[worker.client].mode = "target"

EndInv ==
  \A c \in Client : options[c].mode # "target" /\ (HasEnd(c) \/ fate[c] = "answered") =>
    recorded[c] = 1 /\ worker.client # c

SInv == LiveInv /\ FreshInv /\ CountInv /\ EndInv

LEMMA SInvInit == Init => SInv
<1> SUFFICES ASSUME Init PROVE SInv
  OBVIOUS
<1>1. /\ requests = << >> /\ live = None /\ worker.pc = "idle" /\ worker.client = None
      /\ \A c \in Client : rqueue[c] = << >> /\ fate[c] = "new" /\ recorded[c] = 0 /\ c # None
  BY NoneAssumption DEF Init, Idle, None
<1>2. Len(requests) = 0 /\ \A c \in Client : Len(rqueue[c]) = 0
  BY <1>1
<1>3. LiveInv
  BY <1>1 DEF LiveInv
<1>4. FreshInv
  BY <1>1, <1>2 DEF FreshInv
<1>5. CountInv
  BY <1>1 DEF CountInv
<1>6. EndInv
  BY <1>1, <1>2 DEF EndInv, HasEnd
<1> QED
  BY <1>3, <1>4, <1>5, <1>6 DEF SInv

\* Only the queue of the client served changes.
LEMMA PutFrame ==
  ASSUME TInv, worker.client \in Client, NEW ms \in Seq(Message), Put(ms)
  PROVE  /\ rqueue'[worker.client] = rqueue[worker.client] \o ms
         /\ \A c \in Client \ {worker.client} : rqueue'[c] = rqueue[c]
         /\ (\A i \in 1 .. Len(ms) : ms[i].kind # "end") => \A c \in Client : HasEnd(c)' => HasEnd(c)
<1>1. /\ rqueue'[worker.client] = rqueue[worker.client] \o ms
      /\ \A c \in Client \ {worker.client} : rqueue'[c] = rqueue[c]
  BY DEF TInv, Put
<1>2. ASSUME \A i \in 1 .. Len(ms) : ms[i].kind # "end", NEW c \in Client, HasEnd(c)'
      PROVE  HasEnd(c)
  <2>1. CASE c # worker.client
    BY <1>1, <1>2, <2>1 DEF HasEnd
  <2>2. CASE c = worker.client
    <3> DEFINE q == rqueue[c]
    <3>1. q \in Seq(Message) /\ rqueue'[c] = q \o ms
      BY <1>1, <2>2 DEF TInv
    <3>2. PICK i \in 1 .. Len(q \o ms) : (q \o ms)[i].kind = "end"
      BY <1>2, <3>1 DEF HasEnd
    <3> HIDE DEF q
    <3>3. i \in 1 .. Len(q) \/ (i - Len(q) \in 1 .. Len(ms) /\ (q \o ms)[i] = ms[i - Len(q)])
      BY <3>1
    <3>4. i \in 1 .. Len(q) => (q \o ms)[i] = q[i]
      BY <3>1
    <3>5. i \in 1 .. Len(q) /\ q[i].kind = "end"
      BY <1>2, <3>2, <3>3, <3>4
    <3> QED
      BY <3>5 DEF q, HasEnd
  <2> QED
    BY <2>1, <2>2
<1> QED
  BY <1>1, <1>2

\* A step of the worker on the request it serves disturbs no fresh request.
LEMMA FreshFrame ==
  ASSUME FreshInv, UNCHANGED <<requests, fate>>, worker.client \in Client,
         worker'.client \in {worker.client, None},
         \A c \in Client \ {worker.client} : rqueue'[c] = rqueue[c] /\ recorded'[c] = recorded[c]
  PROVE  FreshInv'
<1>1. \A c \in Client : Fresh(c)' => Fresh(c) /\ c # worker.client
  BY DEF FreshInv, Fresh
<1>2. \A c \in Client : Fresh(c)' => recorded'[c] = 0 /\ rqueue'[c] = << >> /\ worker'.client # c
  BY <1>1, NoneAssumption DEF FreshInv, None
<1> QED
  BY <1>2 DEF FreshInv

\* ... nor a reply that has its end, unless it ends the reply itself.
LEMMA EndFrame ==
  ASSUME EndInv, UNCHANGED <<options, fate>>, worker.client \in Client,
         worker'.client \in {worker.client, None},
         \A c \in Client \ {worker.client} : recorded'[c] = recorded[c],
         \A c \in Client : options[c].mode # "target" /\ HasEnd(c)' => HasEnd(c)
  PROVE  EndInv'
<1>1. ASSUME NEW c \in Client, options[c].mode # "target", HasEnd(c)' \/ fate[c] = "answered"
      PROVE  recorded'[c] = 1 /\ worker'.client # c
  <2>1. recorded[c] = 1 /\ worker.client # c
    BY <1>1 DEF EndInv
  <2> QED
    BY <2>1, NoneAssumption DEF None
<1> QED
  BY <1>1 DEF EndInv

\* Taking the first request of the queue.
LEMMA TakeOK ==
  ASSUME TInv, SInv, requests # << >>, requests' = Tail(requests),
         UNCHANGED <<options, fate, rqueue, recorded>>, worker'.client = Head(requests)
  PROVE  FreshInv' /\ EndInv' /\ recorded'[worker'.client] = 0
<1>0. PICK head \in Client : head = requests[1]
  BY DEF TInv
<1>1. /\ worker'.client = head /\ requests' \in Seq(Client)
      /\ Len(requests') = Len(requests) - 1 /\ 1 \in 1 .. Len(requests)
      /\ \A i \in 1 .. Len(requests') : requests'[i] = requests[i + 1] /\ i + 1 \in 1 .. Len(requests)
  BY <1>0 DEF TInv
<1>2. /\ fate[head] = "waiting" /\ recorded[head] = 0 /\ rqueue[head] = << >>
  BY <1>0, <1>1 DEF SInv, FreshInv, Fresh
<1>3. \A c \in Client : Fresh(c)' => Fresh(c) /\ c # head
  <2>1. ASSUME NEW c \in Client, fate[c] = "new" PROVE Fresh(c) /\ c # head
    BY <1>2, <2>1 DEF Fresh
  <2>2. ASSUME NEW i \in 1 .. Len(requests') PROVE Fresh(requests'[i]) /\ requests'[i] # head
    BY <1>1 DEF SInv, FreshInv, Fresh
  <2> QED
    BY <2>1, <2>2 DEF Fresh
<1>4. \A i \in 1 .. Len(requests') : fate'[requests'[i]] = "waiting"
  BY <1>1 DEF SInv, FreshInv
<1>5. \A i, j \in 1 .. Len(requests') : requests'[i] = requests'[j] => i = j
  BY <1>1 DEF SInv, FreshInv
<1>6. FreshInv'
  <2>1. \A c \in Client : Fresh(c)' => recorded'[c] = 0 /\ rqueue'[c] = << >> /\ worker'.client # c
    BY <1>1, <1>3 DEF SInv, FreshInv
  <2> QED
    BY <1>4, <1>5, <2>1 DEF FreshInv
<1>7. EndInv'
  <2>1. ~HasEnd(head)'
    BY <1>2 DEF HasEnd
  <2>2. \A c \in Client : HasEnd(c)' => HasEnd(c)
    BY DEF HasEnd
  <2> QED
    BY <1>1, <1>2, <2>1, <2>2 DEF SInv, EndInv
<1> QED
  BY <1>1, <1>2, <1>6, <1>7

\* Submitting, receiving and leaving.
LEMMA HandleOK == TInv /\ SInv /\ Handle => SInv'
<1> SUFFICES ASSUME TInv, SInv, NEW c \in Client, Submit(c) \/ Receive(c) \/ Leave(c)
             PROVE  SInv'
  BY DEF Handle
<1>1. UNCHANGED <<options, worker, recorded, live>>
  BY DEF Submit, Receive, Leave, metrics
<1>2. LiveInv' /\ CountInv'
  BY <1>1 DEF SInv, LiveInv, CountInv
<1>3. CASE Submit(c)
  <2>1. /\ requests' = Append(requests, c) /\ rqueue' = rqueue /\ fate[c] = "new"
        /\ fate' = [fate EXCEPT ![c] = "waiting"] /\ fate \in [Client -> Fates]
        /\ requests \in Seq(Client)
    BY <1>3 DEF Submit, TInv
  <2>2. /\ Len(requests') = Len(requests) + 1
        /\ \A i \in 1 .. Len(requests) : requests'[i] = requests[i] /\ requests[i] # c
        /\ requests'[Len(requests')] = c
    BY <2>1 DEF SInv, FreshInv
  <2>3. \A d \in Client : Fresh(d)' => Fresh(d)
    BY <2>1, <2>2 DEF Fresh
  <2>4. \A i \in 1 .. Len(requests') : fate'[requests'[i]] = "waiting"
    BY <2>1, <2>2 DEF SInv, FreshInv
  <2>5. \A i, j \in 1 .. Len(requests') : requests'[i] = requests'[j] => i = j
    BY <2>1, <2>2 DEF SInv, FreshInv
  <2>6. FreshInv'
    BY <1>1, <2>1, <2>3, <2>4, <2>5 DEF SInv, FreshInv
  <2>7. EndInv'
    BY <1>1, <2>1 DEF SInv, EndInv, HasEnd
  <2> QED
    BY <1>2, <2>6, <2>7 DEF SInv
<1>4. CASE Receive(c) \/ Leave(c)
  <2>1. /\ requests' = requests /\ fate[c] \in {"waiting", "reading"} /\ fate'[c] # "new"
        /\ \A d \in Client \ {c} : fate'[d] = fate[d] /\ rqueue'[d] = rqueue[d]
    BY <1>4 DEF Receive, Leave, TInv
  <2>2. \/ rqueue'[c] = rqueue[c]
        \/ rqueue[c] # << >> /\ rqueue'[c] = Tail(rqueue[c])
    BY <1>4 DEF Receive, Leave, TInv
  <2>3. fate'[c] = "answered" => HasEnd(c)
    <3>1. CASE Receive(c)
      <4>1. fate'[c] = "answered" => Head(rqueue[c]).kind = "end"
        BY <3>1 DEF Receive, TInv
      <4>2. rqueue[c] \in Seq(Message) /\ rqueue[c] # << >>
        BY <3>1 DEF Receive, TInv
      <4>3. 1 \in 1 .. Len(rqueue[c]) /\ Head(rqueue[c]) = rqueue[c][1]
        BY <4>2
      <4> QED
        BY <4>1, <4>3 DEF HasEnd
    <3>2. CASE Leave(c)
      BY <3>2 DEF Leave, TInv
    <3> QED
      BY <1>4, <3>1, <3>2
  <2>4. HasEnd(c)' => HasEnd(c)
    <3>1. CASE rqueue'[c] = rqueue[c]
      BY <3>1 DEF HasEnd
    <3>2. CASE rqueue[c] # << >> /\ rqueue'[c] = Tail(rqueue[c])
      <4>1. rqueue[c] \in Seq(Message)
        BY DEF TInv
      <4>2. \A i \in 1 .. Len(rqueue'[c]) :
              i + 1 \in 1 .. Len(rqueue[c]) /\ rqueue'[c][i] = rqueue[c][i + 1]
        BY <3>2, <4>1
      <4> QED
        BY <4>2 DEF HasEnd
    <3> QED
      BY <2>2, <3>1, <3>2
  <2>5. ~Fresh(c)
    <3>1. fate[c] = "reading" \/ rqueue[c] # << >>
      BY <1>4 DEF Receive, Leave
    <3> QED
      BY <2>1, <3>1 DEF SInv, FreshInv, Fresh
  <2>6. \A d \in Client : Fresh(d)' => Fresh(d)
    BY <2>1 DEF Fresh
  <2>7. FreshInv'
    <3>1. \A i \in 1 .. Len(requests') : fate'[requests'[i]] = "waiting"
      <4>1. ASSUME NEW i \in 1 .. Len(requests) PROVE fate'[requests[i]] = "waiting"
        <5>1. requests[i] \in Client /\ Fresh(requests[i]) /\ fate[requests[i]] = "waiting"
          BY DEF TInv, Fresh, SInv, FreshInv
        <5> QED
          BY <2>1, <2>5, <5>1
      <4> QED
        BY <2>1, <4>1
    <3>2. \A d \in Client : Fresh(d)' => recorded'[d] = 0 /\ rqueue'[d] = << >> /\ worker'.client # d
      BY <1>1, <2>1, <2>5, <2>6 DEF SInv, FreshInv
    <3> QED
      BY <2>1, <3>1, <3>2 DEF SInv, FreshInv
  <2>8. EndInv'
    <3>1. \A d \in Client \ {c} : HasEnd(d)' => HasEnd(d)
      BY <2>1 DEF HasEnd
    <3> QED
      BY <1>1, <2>1, <2>3, <2>4, <3>1 DEF SInv, EndInv
  <2> QED
    BY <1>2, <2>7, <2>8 DEF SInv
<1> QED
  BY <1>3, <1>4

\* A step of the worker that puts no end, records nothing and leaves the live
\* request alone.
LEMMA QuietOK ==
  ASSUME TInv, SInv, worker.client \in Client, worker'.client = worker.client,
         UNCHANGED <<options, requests, fate, live, recorded>>,
         worker'.pc \notin {"idle", "prepare", "answer", "target", "record target"},
         worker'.pc = "lookup" => worker.pc = "prepare",
         worker.pc # "answer", worker'.pc # "fail" => worker.pc # "fail",
         \/ rqueue' = rqueue
         \/ \E ms \in Seq(Message) : Put(ms) /\ \A i \in 1 .. Len(ms) : ms[i].kind # "end"
  PROVE  SInv'
<1>1. \A c \in Client : HasEnd(c)' => HasEnd(c)
  BY PutFrame DEF HasEnd
<1>2. \A c \in Client \ {worker.client} : rqueue'[c] = rqueue[c]
  BY PutFrame
<1>3. FreshInv'
  BY <1>2, FreshFrame DEF SInv
<1>4. EndInv'
  BY <1>1, EndFrame DEF SInv
<1>5. LiveInv'
  BY DEF SInv, LiveInv
<1>6. CountInv'
  BY DEF SInv, CountInv
<1> QED
  BY <1>3, <1>4, <1>5, <1>6 DEF SInv

\* Counting one client that was not counted yet.
LEMMA CountOne ==
  ASSUME NEW c \in Client, NEW before \in [Client -> Nat], before[c] = 0,
         \A d \in Client : before[d] \in 0 .. 1
  PROVE  LET after == [before EXCEPT ![c] = @ + 1] IN
         after[c] = 1 /\ \A d \in Client : after[d] \in 0 .. 1
  OBVIOUS

\* The request served is recorded and is no longer live.
LEMMA RecordedOK ==
  ASSUME TInv, SInv, worker.client \in Client, worker.pc \in {"finalize", "record target"},
         RecordRequest
  PROVE  /\ recorded'[worker.client] = 1 /\ live' = None
         /\ \A c \in Client : recorded'[c] \in 0 .. 1
         /\ \A c \in Client \ {worker.client} : recorded'[c] = recorded[c]
<1>1. recorded[worker.client] = 0 /\ live \in {None, worker.client}
  BY DEF SInv, CountInv, LiveInv
<1>2. live' = None
  BY <1>1 DEF RecordRequest, ClearLive
<1>3. recorded \in [Client -> Nat] /\ \A c \in Client : recorded[c] \in 0 .. 1
  BY DEF TInv, SInv, CountInv
<1>4. recorded' = [recorded EXCEPT ![worker.client] = @ + 1]
  BY DEF RecordRequest
<1>5. recorded'[worker.client] = 1 /\ \A c \in Client : recorded'[c] \in 0 .. 1
  BY <1>1, <1>3, <1>4, CountOne
<1> QED
  BY <1>2, <1>5, RecordOK

LEMMA SInvStep == TInv /\ TInv' /\ SInv /\ [Next]_vars => SInv'
<1> SUFFICES ASSUME TInv, TInv', SInv, [Next]_vars PROVE SInv'
  OBVIOUS
<1>1. CASE TakeTargetOnly \/ Take
  <2>1. /\ worker.pc = "idle" /\ requests # << >> /\ requests' = Tail(requests)
        /\ worker'.client = Head(requests) /\ UNCHANGED <<options, fate, rqueue, recorded>>
        /\ \/ worker'.pc = "prepare" /\ UNCHANGED live
           \/ worker'.pc = "target" /\ live' = Head(requests) /\ options[Head(requests)].mode = "target"
    BY <1>1 DEF TakeTargetOnly, Take, Idle, handlers, metrics
  <2>2. FreshInv' /\ EndInv' /\ recorded'[worker'.client] = 0
    BY <2>1, TakeOK
  <2>3. LiveInv'
    BY <2>1 DEF SInv, LiveInv
  <2>4. CountInv'
    BY <2>1, <2>2 DEF SInv, CountInv
  <2> QED
    BY <2>2, <2>3, <2>4 DEF SInv
<1>2. CASE ServeTargetOnly
  <2>1. /\ worker.pc = "target" /\ worker.client \in Client
        /\ UNCHANGED <<options, requests, fate, live, recorded>>
    BY <1>2 DEF ServeTargetOnly, TInv, handlers, metrics
  <2>2. CASE Goto("fail") /\ UNCHANGED rqueue
    <3>1. worker'.client = worker.client /\ worker'.pc = "fail" /\ rqueue' = rqueue
      BY <2>1, <2>2, WorkerMoves
    <3> QED
      BY <2>1, <3>1, QuietOK
  <2>3. CASE \E reply \in TargetReply(worker.client) : Put(reply) /\ Goto("record target")
    <3>1. PICK ms \in Seq(Message) : Put(ms) /\ Goto("record target")
      BY <2>1, <2>3, TargetReplyOK
    <3>2. worker'.client = worker.client /\ worker'.pc = "record target"
      BY <2>1, <3>1, WorkerMoves
    <3>3. /\ \A c \in Client \ {worker.client} : rqueue'[c] = rqueue[c]
          /\ options[worker.client].mode = "target"
      BY <2>1, <3>1, PutFrame DEF SInv, CountInv
    <3>4. FreshInv'
      BY <2>1, <3>2, <3>3, FreshFrame DEF SInv
    <3>5. EndInv'
      <4>1. \A c \in Client : options[c].mode # "target" /\ HasEnd(c)' => HasEnd(c)
        BY <3>3 DEF HasEnd
      <4> QED
        BY <2>1, <3>2, <4>1, EndFrame DEF SInv
    <3>6. LiveInv' /\ CountInv'
      BY <2>1, <3>2 DEF SInv, LiveInv, CountInv
    <3> QED
      BY <3>4, <3>5, <3>6 DEF SInv
  <2> QED
    BY <1>2, <2>2, <2>3 DEF ServeTargetOnly
<1>3. CASE RecordTargetOnly \/ (Finalize /\ RecordRequest)
  <2>1. /\ worker.pc \in {"finalize", "record target"} /\ worker.client \in Client
        /\ RecordRequest /\ UNCHANGED <<options, requests, fate, rqueue>>
    BY <1>3 DEF RecordTargetOnly, Finalize, TInv, handlers
  <2>2. \/ worker'.client = None /\ worker'.pc = "idle"
        \/ worker'.client = worker.client /\ worker'.pc \in {"answer", "fail"}
    <3>1. CASE RecordTargetOnly
      BY <3>1 DEF RecordTargetOnly, Idle
    <3>2. CASE Finalize
      BY <3>2, WorkerMoves DEF Finalize
    <3> QED
      BY <1>3, <3>1, <3>2
  <2>3. /\ recorded'[worker.client] = 1 /\ live' = None
        /\ \A c \in Client : recorded'[c] \in 0 .. 1
        /\ \A c \in Client \ {worker.client} : recorded'[c] = recorded[c]
    BY <2>1, RecordedOK
  <2>4. FreshInv'
    BY <2>1, <2>2, <2>3, FreshFrame DEF SInv
  <2>5. EndInv'
    BY <2>1, <2>2, <2>3, EndFrame DEF SInv, HasEnd
  <2>6. LiveInv' /\ CountInv'
    BY <2>1, <2>2, <2>3, NoneAssumption DEF LiveInv, CountInv, None
  <2> QED
    BY <2>4, <2>5, <2>6 DEF SInv
<1>4. CASE Prepare
  <2>1. Put(<<Ctx>>) \/ UNCHANGED rqueue
    BY <1>4 DEF Prepare
  <2>2. <<Ctx>> \in Seq(Message) /\ \A i \in 1 .. Len(<<Ctx>>) : <<Ctx>>[i].kind # "end"
    BY OneMessage DEF Ctx
  <2>3. /\ worker.pc = "prepare" /\ worker'.pc \in {"lookup", "fail"}
        /\ worker.client \in Client /\ worker'.client = worker.client
        /\ UNCHANGED <<options, requests, fate, live, recorded>>
    BY <1>4, WorkerMoves DEF Prepare, handlers, metrics
  <2> QED
    BY <2>1, <2>2, <2>3, QuietOK
<1>5. CASE Begin
  <2>1. /\ worker.pc = "lookup" /\ worker.client \in Client /\ worker'.client = worker.client
        /\ UNCHANGED <<options, requests, fate, rqueue, recorded>>
        /\ \/ worker'.pc = "pull" /\ live' = worker.client
           \/ worker'.pc = "fail" /\ UNCHANGED live
    BY <1>5 DEF Begin, Goto, TInv, WorkerOK, handlers
  <2>2. FreshInv' /\ EndInv'
    BY <2>1, FreshFrame, EndFrame DEF SInv, HasEnd
  <2>3. LiveInv' /\ CountInv'
    BY <2>1 DEF SInv, LiveInv, CountInv
  <2> QED
    BY <2>2, <2>3 DEF SInv
<1>6. CASE PullToken
  <2>1. Last(output') \in Token /\ TokenReason(options[worker.client], output') \in Reason
    BY <1>6, EmitOK DEF PullToken, TokenReason, Reason
  <2>2. /\ worker.pc = "pull" /\ worker.client \in Client
        /\ UNCHANGED <<options, requests, fate, live, recorded>>
    BY <1>6 DEF PullToken, TInv, handlers, metrics
  <2>3. CASE UNCHANGED <<worker, rqueue>>
    BY <2>2, <2>3, QuietOK
  <2>4. CASE Consume(worker, Last(output'), TokenReason(options[worker.client], output'))
    <3>1. /\ worker'.pc \in {"pull", "close"} /\ worker'.client = worker.client
          /\ \E m \in Seq(Message) : Put(m) /\ \A i \in 1 .. Len(m) : m[i].kind = "token"
      BY <2>1, <2>2, <2>4, ConsumeOK
    <3> QED
      BY <2>2, <3>1, QuietOK
  <2> QED
    BY <1>6, <2>3, <2>4 DEF PullToken
<1>7. CASE PullSummary \/ EngineRaises
  <2>1. /\ worker.pc = "pull" /\ worker.client \in Client /\ worker'.client = worker.client
        /\ worker'.pc = "close" /\ UNCHANGED <<options, requests, fate, live, recorded, rqueue>>
    BY <1>7 DEF PullSummary, EngineRaises, TInv, WorkerOK, handlers, metrics
  <2> QED
    BY <2>1, QuietOK
<1>8. CASE CloseEngine \/ EndRequest
  <2>1. /\ worker.pc \in {"close", "end"} /\ worker'.pc \in {"end", "fail", "flush"}
        /\ worker.client \in Client /\ worker'.client = worker.client
        /\ UNCHANGED <<options, requests, fate, live, recorded, rqueue>>
    BY <1>8, WorkerMoves DEF CloseEngine, EndRequest, handlers, metrics
  <2> QED
    BY <2>1, QuietOK
<1>9. CASE Flush
  <2>1. /\ worker.pc = "flush" /\ worker'.pc = "finalize"
        /\ worker.client \in Client /\ worker'.client = worker.client
        /\ UNCHANGED <<options, requests, fate, live, recorded>>
    BY <1>9, WorkerMoves DEF Flush, handlers, metrics
  <2>2. \E ms \in Seq(Message) : Put(ms) /\ \A i \in 1 .. Len(ms) : ms[i].kind # "end"
    <3>1. CASE worker.pending = NoPending
      <4>1. Put(<< >>)
        BY <1>9, <3>1 DEF Flush
      <4>2. << >> \in Seq(Message) /\ \A i \in 1 .. Len(<< >>) : << >>[i].kind # "end"
        OBVIOUS
      <4> QED
        BY <4>1, <4>2
    <3>2. CASE worker.pending # NoPending
      <4>1. PICK w \in Reason : Put(<<Response(worker.pending.token, w)>>)
        BY <1>9, <3>2 DEF Flush, TInv
      <4>2. PICK r \in Message : r = Response(worker.pending.token, w)
        BY MessagesOK DEF TInv
      <4>3. r.kind = "token"
        BY <4>2 DEF Response
      <4>4. <<r>> \in Seq(Message) /\ \A i \in 1 .. Len(<<r>>) : <<r>>[i].kind # "end"
        BY <4>3
      <4> QED
        BY <4>1, <4>2, <4>4
    <3> QED
      BY <3>1, <3>2
  <2> QED
    BY <2>1, <2>2, QuietOK
<1>10. CASE Finalize /\ Goto("fail") /\ UNCHANGED metrics
  <2>1. /\ worker.pc = "finalize" /\ worker'.pc = "fail"
        /\ worker.client \in Client /\ worker'.client = worker.client
        /\ UNCHANGED <<options, requests, fate, live, recorded, rqueue>>
    BY <1>10, WorkerMoves DEF Finalize, handlers, metrics
  <2> QED
    BY <2>1, QuietOK
<1>11. CASE Answer \/ Fail
  <2>1. /\ worker.pc \in {"answer", "fail"} /\ worker.client \in Client
        /\ worker'.client = None /\ worker'.pc = "idle"
        /\ UNCHANGED <<options, requests, fate, recorded>>
    BY <1>11 DEF Answer, Fail, Idle, TInv, handlers, metrics
  <2>2. live' = None
    BY <1>11 DEF Answer, Fail, ClearLive, metrics, SInv, LiveInv
  <2>3. CASE Answer
    <3>1. Put(<<End>>) /\ <<End>> \in Seq(Message) /\ recorded[worker.client] = 1
      BY <2>1, <2>3, OneMessage DEF Answer, SInv, CountInv
    <3>2. \A c \in Client \ {worker.client} : rqueue'[c] = rqueue[c]
      BY <2>1, <3>1, PutFrame
    <3>3. FreshInv'
      BY <2>1, <3>2, FreshFrame DEF SInv
    <3>4. EndInv'
      <4>1. ASSUME NEW c \in Client, options[c].mode # "target", HasEnd(c)' \/ fate[c] = "answered"
            PROVE  recorded[c] = 1
        <5>1. c # worker.client /\ HasEnd(c)' => HasEnd(c)
          BY <3>2 DEF HasEnd
        <5> QED
          BY <3>1, <4>1, <5>1 DEF SInv, EndInv
      <4> QED
        BY <2>1, <4>1, NoneAssumption DEF EndInv, None
    <3> QED
      BY <2>1, <2>2, <3>3, <3>4, NoneAssumption DEF SInv, LiveInv, CountInv, None
  <2>4. CASE Fail
    <3>1. /\ Put(<<Error>>) /\ <<Error>> \in Seq(Message)
          /\ \A i \in 1 .. Len(<<Error>>) : <<Error>>[i].kind # "end"
      BY <2>4, OneMessage DEF Fail, Error
    <3>2. /\ \A c \in Client \ {worker.client} : rqueue'[c] = rqueue[c]
          /\ \A c \in Client : HasEnd(c)' => HasEnd(c)
      BY <2>1, <3>1, PutFrame
    <3>3. FreshInv' /\ EndInv'
      BY <2>1, <3>2, FreshFrame, EndFrame DEF SInv
    <3> QED
      BY <2>1, <2>2, <3>3, NoneAssumption DEF SInv, LiveInv, CountInv, None
  <2> QED
    BY <1>11, <2>3, <2>4
<1>12. CASE Handle
  BY <1>12, HandleOK
<1>13. CASE UNCHANGED vars
  BY <1>13 DEF vars, handlers, metrics, SInv, LiveInv, FreshInv, Fresh, CountInv, EndInv, HasEnd
<1> QED
  BY <1>1, <1>2, <1>3, <1>4, <1>5, <1>6, <1>7, <1>8, <1>9, <1>10, <1>11, <1>12, <1>13
  DEF Next, Serve, Finalize

\* The live request of /metrics is the one being served, and whoever has read
\* the end of a good reply is counted in the totals and no longer live.
THEOREM LiveIsAlwaysServed == Spec => []LiveIsServed
<1>1. SInv => LiveIsServed
  BY NoneAssumption DEF SInv, LiveInv, EndInv, LiveIsServed, None
<1> QED
  BY <1>1, TInvInit, TInvStep, SInvInit, SInvStep, PTL DEF Spec

EngineInv == ended \in {"no", "closed", "finished"} /\ draft \in BOOLEAN

LEMMA EngineInvStep == EngineInv /\ [Next]_vars => EngineInv'
<1> SUFFICES ASSUME EngineInv, [Next]_vars PROVE EngineInv'
  OBVIOUS
<1>1. CASE Serve
  BY <1>1 DEF EngineInv, Serve, TakeTargetOnly, ServeTargetOnly, RecordTargetOnly, Take, Prepare,
     Begin, PullToken, PullSummary, EngineRaises, CloseEngine, EndRequest, Flush, Finalize, Answer,
     Fail, Engine!Finish, Engine!Close, engine
<1>2. CASE Handle
  BY <1>2 DEF EngineInv, Handle, Submit, Receive, Leave, engine
<1>3. CASE UNCHANGED vars
  BY <1>3 DEF EngineInv, vars, engine
<1> QED
  BY <1>1, <1>2, <1>3 DEF Next

\* Every queue, place and count of the request path stays well formed: the
\* prefix store counts the one request served at most, and nobody enters the
\* totals twice.
THEOREM TypeCorrect == Spec => []TypeOK
<1>1. Init => EngineInv
  BY DEF Init, EngineInv
<1>2. BInv /\ TInv /\ SInv /\ EngineInv => TypeOK
  <2> SUFFICES ASSUME BInv, TInv, SInv, EngineInv PROVE TypeOK
    OBVIOUS
  <2>1. active \in 0 .. 1
    BY DEF BInv
  <2>2. live \in Client \cup {None}
    BY DEF SInv, LiveInv, TInv
  <2>3. recorded \in [Client -> 0 .. 1]
    BY DEF TInv, SInv, CountInv
  <2> QED
    BY <2>1, <2>2, <2>3 DEF TInv, EngineInv, TypeOK, Fates
<1> QED
  BY <1>1, <1>2, BInvInit, BInvStep, TInvInit, TInvStep, SInvInit, SInvStep, EngineInvStep, PTL
  DEF Spec

-----------------------------------------------------------------------------
(* What a reader gets.                                                      *)
(* Position n of a reply is position n of the model's text.  A message in a *)
(* queue has its place in the text as well: one after the last token read,  *)
(* and one more for each message before it but the context.                 *)
(* Of one reply: o the request, g the tokens read, w the reason read, q the *)
(* queue.                                                                   *)

CtxIn(q) == IF Len(q) > 0 /\ q[1].kind = "ctx" THEN 1 ELSE 0
Place(g, q, i) == Len(g) + i - CtxIn(q)
Sent(g, q) == Len(g) + Len(q) - CtxIn(q)

Ended(o, n) == Promise!Stopped(o, SubSeq(o.text, 1, n))
Due(o, n) == IF Ended(o, n) THEN "stop" ELSE IF n >= o.limit THEN "length" ELSE None

\* The finish reason that may go with token n.
Fits(o, n, why) ==
  /\ why \in Reason
  /\ why = None <=> ~Ended(o, n) /\ n < o.limit
  /\ why = "stop" => Ended(o, n)
  /\ why = "length" => n >= o.limit \/ Promise!RunsOn(o)

InText(o, n, m) == n \in 1 .. o.limit /\ m.token = o.text[n] /\ Fits(o, n, m.why)

Closing(m) == m.kind \in {"end", "error"}
Unended(q) == \A i \in 1 .. Len(q) : ~Closing(q[i])

MessageFits(o, g, q, i) ==
  /\ q[i].kind = "ctx" => i = 1 /\ Len(g) = 0
  /\ q[i].kind = "token" => InText(o, Place(g, q, i), q[i])
  /\ q[i].kind # "token" => q[i].why = None
  /\ Closing(q[i]) => i = Len(q)

\* The reason has been read or is in the queue, and only an end follows it.
Told(w, q) == w # None \/ \E i \in 1 .. Len(q) : q[i].why # None

LastWord(w, q) ==
  /\ w # None => \A i \in 1 .. Len(q) : Closing(q[i])
  /\ \A i, j \in 1 .. Len(q) : q[i].why # None /\ i < j => Closing(q[j])

GotText(o, g) == Len(g) <= o.limit /\ g = SubSeq(o.text, 1, Len(g))

Reply(o, g, w, q) ==
  /\ GotText(o, g)
  /\ \A i \in 1 .. Len(q) : MessageFits(o, g, q, i)
  /\ LastWord(w, q)

\* A request the server may have been given.
Valid(o) == o \in Request /\ o.limit <= Len(o.text)

LEMMA SameTokens ==
  ASSUME NEW S, NEW a \in Seq(S), NEW b \in Seq(S), Len(a) = Len(b),
         \A i \in 1 .. Len(a) : a[i] = b[i]
  PROVE  a = b
  OBVIOUS

\* A queue with one message more.
Longer(q, m, r) == r = q \o <<m>>

LEMMA AppendOne ==
  ASSUME NEW q \in Seq(Message), NEW m \in Message, NEW r, Longer(q, m, r)
  PROVE  /\ r \in Seq(Message) /\ Len(r) = Len(q) + 1 /\ r[Len(q) + 1] = m
         /\ \A i \in 1 .. Len(q) : r[i] = q[i]
         /\ m.kind # "ctx" => CtxIn(r) = CtxIn(q)
<1>1. /\ r \in Seq(Message) /\ Len(r) = Len(q) + 1 /\ r[Len(q) + 1] = m
      /\ \A i \in 1 .. Len(q) : r[i] = q[i]
  <2>1. <<m>> \in Seq(Message) /\ Len(<<m>>) = 1 /\ <<m>>[1] = m
    OBVIOUS
  <2> QED
    BY <2>1 DEF Longer
<1>2. CASE q = << >>
  BY <1>1, <1>2 DEF CtxIn
<1>3. CASE q # << >>
  <2>1. Len(q) > 0 /\ 1 \in 1 .. Len(q)
    BY <1>3
  <2> QED
    BY <1>1, <1>3, <2>1 DEF CtxIn
<1> QED
  BY <1>1, <1>2, <1>3

LEMMA CtxInOK == ASSUME NEW q PROVE CtxIn(q) \in 0 .. 1
  BY DEF CtxIn

\* The next token of the text on an open reply that has not been told its end.
LEMMA PutToken ==
  ASSUME NEW o, Valid(o), NEW g \in Seq(Token), NEW w \in Reason, NEW q \in Seq(Message),
         NEW m \in Message, m.kind = "token", InText(o, Sent(g, q) + 1, m),
         Reply(o, g, w, q), Unended(q), ~Told(w, q), NEW r, Longer(q, m, r)
  PROVE  /\ Reply(o, g, w, r) /\ Unended(r) /\ Sent(g, r) = Sent(g, q) + 1
         /\ Told(w, r) <=> m.why # None
<1>1. /\ r \in Seq(Message) /\ Len(r) = Len(q) + 1 /\ r[Len(q) + 1] = m
      /\ \A i \in 1 .. Len(q) : r[i] = q[i]
      /\ CtxIn(r) = CtxIn(q)
  <2>1. m.kind # "ctx"
    OBVIOUS
  <2> QED
    BY <2>1, AppendOne
<1>2. CtxIn(q) \in Int /\ Len(g) \in Int /\ Len(q) \in Int
  BY CtxInOK
<1>3. Place(g, r, Len(q) + 1) = Sent(g, q) + 1 /\ Sent(g, r) = Sent(g, q) + 1
      /\ \A i \in 1 .. Len(q) : Place(g, r, i) = Place(g, q, i)
  <2>1. \A i \in 1 .. Len(q) : Place(g, r, i) = Place(g, q, i)
    BY <1>1 DEF Place
  <2>2. PICK a \in Int, b \in Int, x \in Int : a = Len(g) /\ b = Len(q) /\ x = CtxIn(q)
    BY <1>2
  <2>3. Place(g, r, Len(q) + 1) = a + (b + 1) - x /\ Sent(g, q) = a + b - x
        /\ Sent(g, r) = a + (b + 1) - x
    BY <1>1, <2>2 DEF Place, Sent
  <2>4. a + (b + 1) - x = (a + b - x) + 1
    OBVIOUS
  <2> QED
    BY <2>1, <2>3, <2>4
<1>4. ~Closing(m)
  BY DEF Closing
<1>5. \A i \in 1 .. Len(r) : MessageFits(o, g, r, i)
  <2>1. ASSUME NEW i \in 1 .. Len(q) PROVE MessageFits(o, g, r, i)
    <3>1. r[i] = q[i] /\ MessageFits(o, g, q, i) /\ ~Closing(q[i]) /\ Place(g, r, i) = Place(g, q, i)
      BY <1>1, <1>3 DEF Reply, Unended
    <3> QED
      BY <3>1 DEF MessageFits
  <2>2. MessageFits(o, g, r, Len(q) + 1)
    BY <1>1, <1>3, <1>4 DEF MessageFits
  <2> QED
    BY <1>1, <2>1, <2>2
<1>6. Unended(r)
  BY <1>1, <1>4 DEF Unended
<1>7. w = None /\ \A i \in 1 .. Len(q) : q[i].why = None
  BY DEF Told
<1>8. LastWord(w, r)
  <2>1. \A i \in 1 .. Len(r) : r[i].why # None => i = Len(r)
    BY <1>1, <1>7
  <2> QED
    BY <1>7, <2>1 DEF LastWord
<1>9. Told(w, r) <=> m.why # None
  <2>1. Len(r) \in 1 .. Len(r) /\ r[Len(r)] = m
    BY <1>1, <1>2
  <2>2. \A i \in 1 .. Len(r) : i = Len(r) \/ r[i].why = None
    BY <1>1, <1>7
  <2> QED
    BY <1>7, <2>1, <2>2 DEF Told
<1> QED
  BY <1>3, <1>5, <1>6, <1>8, <1>9 DEF Reply

\* The end of a reply, good or bad.
LEMMA PutClosing ==
  ASSUME NEW o, Valid(o), NEW g \in Seq(Token), NEW w \in Reason, NEW q \in Seq(Message),
         NEW m \in Message, Closing(m), m.why = None,
         Reply(o, g, w, q), Unended(q), NEW r, Longer(q, m, r)
  PROVE  Reply(o, g, w, r) /\ (Told(w, q) => Told(w, r))
<1>1. /\ r \in Seq(Message) /\ Len(r) = Len(q) + 1 /\ r[Len(q) + 1] = m
      /\ \A i \in 1 .. Len(q) : r[i] = q[i]
      /\ CtxIn(r) = CtxIn(q)
  <2>1. m.kind # "ctx"
    BY DEF Closing
  <2> QED
    BY <2>1, AppendOne
<1>2. \A i \in 1 .. Len(q) : Place(g, r, i) = Place(g, q, i)
  BY <1>1 DEF Place
<1>3. \A i \in 1 .. Len(r) : MessageFits(o, g, r, i)
  <2>1. ASSUME NEW i \in 1 .. Len(q) PROVE MessageFits(o, g, r, i)
    <3>1. r[i] = q[i] /\ MessageFits(o, g, q, i) /\ ~Closing(q[i]) /\ Place(g, r, i) = Place(g, q, i)
      BY <1>1, <1>2 DEF Reply, Unended
    <3> QED
      BY <3>1 DEF MessageFits
  <2>2. MessageFits(o, g, r, Len(q) + 1)
    BY <1>1 DEF MessageFits, Closing
  <2> QED
    BY <1>1, <2>1, <2>2
<1>4. LastWord(w, r)
  <2>1. w # None => \A i \in 1 .. Len(r) : Closing(r[i])
    BY <1>1 DEF Reply, LastWord
  <2>2. ASSUME NEW i \in 1 .. Len(r), NEW j \in 1 .. Len(r), r[i].why # None, i < j
        PROVE  Closing(r[j])
    <3>1. CASE j = Len(q) + 1
      BY <1>1, <3>1
    <3>2. CASE j \in 1 .. Len(q)
      <4>1. i \in 1 .. Len(q) /\ r[i] = q[i] /\ r[j] = q[j]
        BY <1>1, <2>2, <3>2
      <4> QED
        BY <2>2, <4>1, <3>2 DEF Reply, LastWord
    <3> QED
      BY <1>1, <3>1, <3>2
  <2> QED
    BY <2>1, <2>2 DEF LastWord
<1>5. Told(w, q) => Told(w, r)
  BY <1>1 DEF Told
<1> QED
  BY <1>3, <1>4, <1>5 DEF Reply

\* The context opens a reply.
LEMMA PutContext ==
  ASSUME NEW o, Valid(o), NEW g \in Seq(Token), Len(g) = 0, NEW q, q = <<Ctx>>
  PROVE  Reply(o, g, None, q) /\ Unended(q) /\ Sent(g, q) = 0 /\ ~Told(None, q)
<1>1. Len(q) = 1 /\ q[1] = Ctx /\ Ctx.kind = "ctx" /\ Ctx.why = None
  BY DEF Ctx
<1>2. CtxIn(q) = 1 /\ Sent(g, q) = 0
  BY <1>1 DEF CtxIn, Sent
<1>3. GotText(o, g)
  BY DEF GotText, Valid, Request
<1> QED
  BY <1>1, <1>2, <1>3 DEF Reply, Unended, Told, LastWord, MessageFits, Closing

\* Reading the first message of a queue.
Reads(m, g, w, q, g2, w2, r) ==
  /\ m = Head(q) /\ r = Tail(q)
  /\ g2 = IF m.kind = "token" THEN Append(g, m.token) ELSE g
  /\ w2 = IF m.why # None THEN m.why ELSE w

\* It moves the place of the others by what it read.
LEMMA ReadOne ==
  ASSUME NEW o, Valid(o), NEW g \in Seq(Token), NEW w \in Reason, NEW q \in Seq(Message),
         Reply(o, g, w, q), q # << >>, NEW m \in Message, NEW r, NEW g2, NEW w2,
         Reads(m, g, w, q, g2, w2, r)
  PROVE  /\ Reply(o, g2, w2, r) /\ g2 \in Seq(Token)
         /\ Told(w2, r) <=> Told(w, q)
         /\ Unended(q) => Unended(r) /\ Sent(g2, r) = Sent(g, q)
         /\ m.kind # "token" => m.why = None
         /\ m.kind = "token" => /\ w = None /\ g2 = Append(g, o.text[Len(g) + 1])
                                /\ Fits(o, Len(g2), m.why) /\ g2 = SubSeq(o.text, 1, Len(g2))
         /\ Closing(m) => Len(q) = 1
<1> USE DEF Reads
<1>1. /\ r \in Seq(Message) /\ Len(r) = Len(q) - 1 /\ Len(q) \in Nat /\ Len(q) >= 1 /\ q[1] = m
      /\ \A i \in 1 .. Len(r) : r[i] = q[i + 1] /\ i + 1 \in 1 .. Len(q)
  OBVIOUS
<1>0. Len(q) \in Int /\ Len(r) \in Int /\ Len(r) = Len(q) - 1
  BY <1>1
<1>2. /\ MessageFits(o, g, q, 1) /\ 1 \in 1 .. Len(q)
      /\ \A i \in 1 .. Len(r) : MessageFits(o, g, q, i + 1) /\ r[i].kind # "ctx"
  <2>1. \A i \in 1 .. Len(q) : MessageFits(o, g, q, i)
    BY DEF Reply
  <2>2. 1 \in 1 .. Len(q)
    BY <1>1
  <2>3. ASSUME NEW i \in 1 .. Len(r) PROVE MessageFits(o, g, q, i + 1) /\ r[i].kind # "ctx"
    <3>1. MessageFits(o, g, q, i + 1) /\ r[i] = q[i + 1]
      BY <1>1, <2>1
    <3>2. i + 1 # 1
      BY <1>1
    <3> QED
      BY <3>1, <3>2 DEF MessageFits
  <2> QED
    BY <2>1, <2>2, <2>3
<1>3. CtxIn(r) = 0 /\ CtxIn(q) = IF m.kind = "ctx" THEN 1 ELSE 0
  <2>1. Len(r) > 0 => 1 \in 1 .. Len(r)
    BY <1>1
  <2>2. Len(q) > 0
    BY <1>1
  <2>3. CtxIn(r) = 0
    BY <1>2, <2>1 DEF CtxIn
  <2>4. CtxIn(q) = IF m.kind = "ctx" THEN 1 ELSE 0
    BY <1>1, <2>2 DEF CtxIn
  <2> QED
    BY <2>3, <2>4
<1>4. m.kind \in {"ctx", "token", "end", "error"} /\ m.why \in Reason
  BY DEF Message
<1>5. Closing(m) => Len(q) = 1
  BY <1>1, <1>2 DEF MessageFits
<1>6. ASSUME m.kind = "token"
      PROVE  /\ w = None /\ m.token = o.text[Len(g) + 1] /\ m.token \in Token /\ Len(g) + 1 <= o.limit
             /\ Fits(o, Len(g) + 1, m.why) /\ g2 = Append(g, m.token)
             /\ g2 \in Seq(Token) /\ Len(g2) = Len(g) + 1 /\ g2 = SubSeq(o.text, 1, Len(g) + 1)
  <2>1. Place(g, q, 1) = Len(g) + 1
    BY <1>3, <1>6 DEF Place
  <2>2. InText(o, Len(g) + 1, m)
    BY <1>1, <1>2, <1>6, <2>1 DEF MessageFits
  <2>3. w = None
    <3>1. ~Closing(q[1])
      BY <1>1, <1>6 DEF Closing
    <3> QED
      BY <1>2, <3>1 DEF Reply, LastWord
  <2>4. o.text \in Seq(Token) /\ o.limit \in Nat /\ o.limit <= Len(o.text)
    BY DEF Valid, Request
  <2>5. m.token = o.text[Len(g) + 1] /\ Len(g) + 1 <= o.limit /\ Fits(o, Len(g) + 1, m.why)
    BY <2>2 DEF InText
  <2>6. m.token \in Token
    BY <2>4, <2>5
  <2>7. g2 = Append(g, m.token) /\ g2 \in Seq(Token) /\ Len(g2) = Len(g) + 1
    BY <1>6, <2>6
  <2>8. g = SubSeq(o.text, 1, Len(g))
    BY DEF Reply, GotText
  <2>9. g2 = SubSeq(o.text, 1, Len(g) + 1)
    <3> DEFINE s == SubSeq(o.text, 1, Len(g) + 1)
    <3>1. s \in Seq(Token) /\ Len(s) = Len(g) + 1 /\ \A i \in 1 .. Len(g) + 1 : s[i] = o.text[i]
      BY <2>4, <2>5
    <3>2. \A i \in 1 .. Len(g) : g[i] = o.text[i]
      BY <2>4, <2>5, <2>8
    <3>3. \A i \in 1 .. Len(g) + 1 : g2[i] = o.text[i]
      BY <2>5, <2>7, <3>2
    <3> HIDE DEF s
    <3>4. g2 = s
      <4>1. Len(g2) = Len(s) /\ \A i \in 1 .. Len(g2) : g2[i] = s[i]
        BY <2>7, <3>1, <3>3
      <4> QED
        BY <2>7, <3>1, <4>1, SameTokens
    <3> QED
      BY <3>4 DEF s
  <2> QED
    BY <2>3, <2>5, <2>6, <2>7, <2>9
<1>7. GotText(o, g2) /\ g2 \in Seq(Token)
  <2>1. CASE m.kind = "token"
    BY <1>6, <2>1 DEF GotText
  <2>2. CASE m.kind # "token"
    BY <2>2 DEF Reply, GotText
  <2> QED
    BY <2>1, <2>2
<1>8. m.kind # "token" => m.why = None /\ g2 = g /\ w2 = w
  BY <1>1, <1>2 DEF MessageFits
<1>9. \A i \in 1 .. Len(r) : Place(g2, r, i) = Place(g, q, i + 1)
  <2>1. ASSUME NEW i \in 1 .. Len(r) PROVE Place(g2, r, i) = Place(g, q, i + 1)
    <3>1. ~Closing(m)
      <4>1. Len(r) >= 1
        BY <1>1
      <4>2. Len(q) # 1
        BY <1>1, <4>1
      <4> QED
        BY <1>5, <4>2 DEF Closing
    <3>2. CASE m.kind = "token"
      <4>1. Len(g2) = Len(g) + 1
        BY <1>6, <3>2
      <4>2. CtxIn(r) = 0 /\ CtxIn(q) = 0
        BY <1>3, <3>2
      <4>3. PICK a \in Int : a = Len(g)
        OBVIOUS
      <4>4. i \in Int /\ (a + 1) + i - 0 = a + (i + 1) - 0
        BY <1>1
      <4> QED
        BY <4>1, <4>2, <4>3, <4>4 DEF Place
    <3>3. CASE m.kind = "ctx"
      BY <1>3, <1>8, <3>3 DEF Place
    <3> QED
      BY <1>4, <3>1, <3>2, <3>3 DEF Closing
  <2> QED
    BY <2>1
<1>10. \A i \in 1 .. Len(r) : MessageFits(o, g2, r, i)
  <2>1. ASSUME NEW i \in 1 .. Len(r) PROVE MessageFits(o, g2, r, i)
    <3>1. /\ MessageFits(o, g, q, i + 1) /\ r[i] = q[i + 1] /\ r[i].kind # "ctx"
          /\ Place(g2, r, i) = Place(g, q, i + 1)
      <4>1. r[i] = q[i + 1]
        BY <1>1
      <4>2. MessageFits(o, g, q, i + 1) /\ r[i].kind # "ctx"
        BY <1>2
      <4>3. Place(g2, r, i) = Place(g, q, i + 1)
        BY <1>9
      <4> QED
        BY <4>1, <4>2, <4>3
    <3>2. Closing(r[i]) => i = Len(r)
      <4>1. Closing(r[i]) => i + 1 = Len(q)
        BY <3>1 DEF MessageFits
      <4>2. i + 1 = Len(q) => i = Len(r)
        <5>1. i \in Int
          OBVIOUS
        <5>2. PICK a \in Int, b \in Int : a = Len(q) /\ b = Len(r) /\ b = a - 1
          BY <1>0
        <5>3. i + 1 = a => i = b
          BY <5>1, <5>2
        <5> QED
          BY <5>2, <5>3
      <4> QED
        BY <4>1, <4>2
    <3> QED
      BY <3>1, <3>2 DEF MessageFits
  <2> QED
    BY <2>1
<1>11. LastWord(w2, r)
  <2>1. w2 # None => \A i \in 1 .. Len(r) : Closing(r[i])
    <3>1. CASE m.why # None
      <4>1. \A i \in 1 .. Len(r) : q[1].why # None /\ 1 < i + 1
        BY <1>1, <3>1
      <4> QED
        BY <1>1, <1>2, <4>1 DEF Reply, LastWord
    <3>2. CASE m.why = None
      BY <1>1, <3>2 DEF Reply, LastWord
    <3> QED
      BY <3>1, <3>2
  <2>2. ASSUME NEW i \in 1 .. Len(r), NEW j \in 1 .. Len(r), r[i].why # None, i < j
        PROVE  Closing(r[j])
    <3>1. r[i] = q[i + 1] /\ r[j] = q[j + 1] /\ i + 1 \in 1 .. Len(q) /\ j + 1 \in 1 .. Len(q)
          /\ i + 1 < j + 1
      BY <1>1, <2>2
    <3> QED
      BY <2>2, <3>1 DEF Reply, LastWord
  <2> QED
    BY <2>1, <2>2 DEF LastWord
<1>12. Told(w2, r) <=> Told(w, q)
  <2>1. ASSUME Told(w, q) PROVE Told(w2, r)
    <3>1. CASE m.why # None
      BY <3>1 DEF Told
    <3>2. CASE m.why = None
      <4>1. CASE w # None
        BY <3>2, <4>1 DEF Told
      <4>2. CASE w = None
        <5>1. PICK i \in 1 .. Len(q) : q[i].why # None
          BY <2>1, <4>2 DEF Told
        <5>2. i # 1
          BY <1>1, <3>2, <5>1
        <5>3. i - 1 \in 1 .. Len(r) /\ r[i - 1] = q[i]
          BY <1>1, <5>2
        <5> QED
          BY <5>1, <5>3 DEF Told
      <4> QED
        BY <4>1, <4>2
    <3> QED
      BY <3>1, <3>2
  <2>2. ASSUME Told(w2, r) PROVE Told(w, q)
    <3>1. CASE m.why # None
      BY <1>1, <1>2, <3>1 DEF Told
    <3>2. CASE m.why = None
      BY <1>1, <2>2, <3>2 DEF Told
    <3> QED
      BY <3>1, <3>2
  <2> QED
    BY <2>1, <2>2
<1>13. ASSUME Unended(q) PROVE Unended(r) /\ Sent(g2, r) = Sent(g, q)
  <2>1. Unended(r) /\ ~Closing(m)
    <3>1. \A i \in 1 .. Len(q) : ~Closing(q[i])
      BY <1>13 DEF Unended
    <3>2. ~Closing(q[1])
      BY <1>2, <3>1
    <3>3. ASSUME NEW i \in 1 .. Len(r) PROVE ~Closing(r[i])
      <4>1. r[i] = q[i + 1] /\ i + 1 \in 1 .. Len(q)
        BY <1>1
      <4> QED
        BY <3>1, <4>1
    <3>4. ~Closing(m)
      BY <1>1, <3>2
    <3>5. Unended(r)
      BY <3>3 DEF Unended
    <3> QED
      BY <3>4, <3>5
  <2>2. CASE m.kind = "token"
    <3>1. Len(g2) = Len(g) + 1
      BY <1>6, <2>2
    <3>2. CtxIn(r) = 0 /\ CtxIn(q) = 0
      BY <1>3, <2>2
    <3>3. PICK a \in Int, b \in Int : a = Len(g) /\ b = Len(q) /\ Len(r) = b - 1
      <4>1. Len(g) \in Int
        OBVIOUS
      <4> QED
        BY <1>0, <4>1
    <3>4. (a + 1) + (b - 1) - 0 = a + b - 0
      OBVIOUS
    <3> QED
      BY <2>1, <3>1, <3>2, <3>3, <3>4 DEF Sent
  <2>3. CASE m.kind = "ctx"
    BY <1>1, <1>3, <1>8, <2>1, <2>3 DEF Sent
  <2> QED
    BY <1>4, <2>1, <2>2, <2>3 DEF Closing
<1> QED
  BY <1>5, <1>6, <1>7, <1>8, <1>10, <1>11, <1>12, <1>13 DEF Reply

LEMMA Surrounded ==
  ASSUME NEW x \in Message, NEW y \in Message, NEW s \in Seq(Message),
         NEW q, q = <<x>> \o s \o <<y>>
  PROVE  /\ Len(q) = Len(s) + 2 /\ q[1] = x /\ q[Len(s) + 2] = y
         /\ \A i \in 1 .. Len(s) : q[i + 1] = s[i]
<1> DEFINE h == <<x>> \o s
<1>1. /\ h \in Seq(Message) /\ Len(h) = Len(s) + 1 /\ h[1] = x
      /\ \A i \in 1 .. Len(s) : h[i + 1] = s[i]
  <2>1. <<x>> \in Seq(Message) /\ Len(<<x>>) = 1 /\ <<x>>[1] = x
    OBVIOUS
  <2> QED
    BY <2>1
<1> HIDE DEF h
<1>2. <<y>> \in Seq(Message) /\ Len(<<y>>) = 1 /\ <<y>>[1] = y
  OBVIOUS
<1>3. q = h \o <<y>>
  BY DEF h
<1>4. /\ Len(q) = Len(h) + 1 /\ q[Len(h) + 1] = y
      /\ \A i \in 1 .. Len(h) : q[i] = h[i]
  BY <1>1, <1>2, <1>3
<1> QED
  BY <1>1, <1>4

\* A whole reply: the context, k tokens of the text of which only the last may
\* have a reason, and an end.
Whole(o, q, k) ==
  /\ Len(q) = k + 2 /\ q[1] = Ctx /\ q[k + 2] \in {End, Error}
  /\ \A i \in 1 .. k : /\ q[i + 1].kind = "token" /\ InText(o, i, q[i + 1])
                       /\ i < k => q[i + 1].why = None

LEMMA WholeReply ==
  ASSUME NEW o, Valid(o), NEW g \in Seq(Token), Len(g) = 0, NEW k \in Nat,
         NEW q \in Seq(Message), Whole(o, q, k)
  PROVE  Reply(o, g, None, q)
<1>0. /\ Len(q) = k + 2 /\ q[1] = Ctx /\ q[k + 2] \in {End, Error}
      /\ \A i \in 1 .. k : q[i + 1].kind = "token" /\ InText(o, i, q[i + 1])
      /\ \A i \in 1 .. k : i < k => q[i + 1].why = None
  BY DEF Whole
<1>1. CtxIn(q) = 1
  BY <1>0 DEF CtxIn, Ctx
<1>2. \A i \in 1 .. k : Place(g, q, i + 1) = i
  BY <1>1 DEF Place
<1>3. Ctx.kind = "ctx" /\ Ctx.why = None
  BY DEF Ctx
<1>4. Closing(q[k + 2]) /\ q[k + 2].why = None
  BY <1>0 DEF Closing, End, Error
<1>5. \A i \in 1 .. Len(q) : i = 1 \/ i = k + 2 \/ (i - 1 \in 1 .. k /\ (i - 1) + 1 = i)
  BY <1>0
<1>6. ASSUME NEW i \in 1 .. Len(q) PROVE MessageFits(o, g, q, i)
  <2>1. CASE i = 1
    BY <1>0, <1>3, <2>1 DEF MessageFits, Closing
  <2>2. CASE i = k + 2
    BY <1>0, <1>4, <2>2 DEF MessageFits, Closing
  <2>3. CASE i - 1 \in 1 .. k /\ (i - 1) + 1 = i
    <3>1. q[i].kind = "token" /\ InText(o, i - 1, q[i]) /\ Place(g, q, i) = i - 1
      <4>1. PICK j \in 1 .. k : j = i - 1 /\ j + 1 = i
        BY <2>3
      <4>2. q[j + 1].kind = "token" /\ InText(o, j, q[j + 1]) /\ Place(g, q, j + 1) = j
        BY <1>0, <1>2
      <4> QED
        BY <4>1, <4>2
    <3> QED
      BY <3>1 DEF MessageFits, Closing
  <2> QED
    BY <1>5, <2>1, <2>2, <2>3
<1>7. LastWord(None, q)
  <2>1. ASSUME NEW i \in 1 .. Len(q), NEW j \in 1 .. Len(q), q[i].why # None, i < j
        PROVE  Closing(q[j])
    <3>1. i # 1 /\ i # k + 2
      BY <1>0, <1>3, <1>4, <2>1
    <3>2. i - 1 \in 1 .. k /\ (i - 1) + 1 = i
      BY <1>5, <3>1
    <3>3. ~(i - 1 < k)
      <4>1. PICK h \in 1 .. k : h = i - 1 /\ h + 1 = i
        BY <3>2
      <4>2. h < k => q[h + 1].why = None
        BY <1>0
      <4> QED
        BY <2>1, <4>1, <4>2
    <3>4. j = k + 2
      BY <1>0, <2>1, <3>2, <3>3
    <3> QED
      BY <1>4, <3>4
  <2> QED
    BY <2>1 DEF LastWord
<1>8. GotText(o, g)
  BY DEF GotText, Valid, Request
<1> QED
  BY <1>6, <1>7, <1>8 DEF Reply

\* What mlx_lm puts is such a reply, and a good end comes with a reason.
LEMMA TargetReplyFits ==
  ASSUME TInv, NEW c \in Client, Valid(options[c]), NEW g \in Seq(Token), Len(g) = 0,
         NEW ms \in TargetReply(c)
  PROVE  /\ Reply(options[c], g, None, ms)
         /\ \A i \in 1 .. Len(ms) : ms[i].kind = "end" => Told(None, ms) \/ options[c].limit = 0
<1> DEFINE o == options[c]
           StoppedAt(i) == Promise!Stopped(o, SubSeq(o.text, 1, i))
           Ends(n) == /\ n = o.limit \/ (n > 0 /\ StoppedAt(n))
                      /\ \A i \in 1 .. n - 1 : ~StoppedAt(i)
           Why(i, n) == IF i < n THEN None ELSE IF StoppedAt(i) THEN "stop" ELSE "length"
           Tokens(n) == [i \in 1 .. n |-> Response(o.text[i], Why(i, n))]
<1>0. o.limit \in Nat /\ o.text \in Seq(Token) /\ o.limit <= Len(o.text) /\ ms \in Seq(Message)
  BY OptionsFixed, TargetReplyOK
<1>1. PICK n \in 0 .. o.limit :
        /\ Ends(n)
        /\ ms \in {<<Ctx>> \o Tokens(n) \o <<End>>, <<Ctx>> \o SubSeq(Tokens(n), 1, n - 1) \o <<Error>>}
  BY DEF TargetReply
<1>2. ASSUME NEW i \in 1 .. n
      PROVE  /\ Tokens(n)[i].kind = "token" /\ InText(o, i, Tokens(n)[i])
             /\ i < n => Tokens(n)[i].why = None
             /\ i = n => Tokens(n)[i].why # None
             /\ Tokens(n)[i] \in Message
  <2>1. Tokens(n)[i] = Response(o.text[i], Why(i, n))
    OBVIOUS
  <2>2. Tokens(n)[i].kind = "token" /\ Tokens(n)[i].token = o.text[i] /\ Tokens(n)[i].why = Why(i, n)
    BY <2>1 DEF Response
  <2>3. StoppedAt(i) <=> Ended(o, i)
    BY DEF Ended
  <2>4. i < n => ~Ended(o, i) /\ i < o.limit
    <3>1. i < n => i \in 1 .. n - 1 /\ i < o.limit
      BY <1>0
    <3> QED
      BY <1>1, <2>3, <3>1
  <2>5. i = n => Ended(o, i) \/ i = o.limit
    BY <1>1, <2>3
  <2>6. i < n \/ i = n
    BY <1>0
  <2>7. i \in 1 .. o.limit
    BY <1>0
  <2>8. Fits(o, i, Why(i, n)) /\ (i < n => Why(i, n) = None) /\ (i = n => Why(i, n) # None)
    <3>1. CASE i < n
      BY <2>4, <3>1 DEF Fits, Reason, None
    <3>2. CASE i = n
      <4>1. Why(i, n) = IF Ended(o, i) THEN "stop" ELSE "length"
        BY <1>0, <2>3, <3>2
      <4>2. ~Ended(o, i) => ~(i < o.limit) /\ i >= o.limit
        BY <1>0, <2>5, <3>2
      <4> QED
        BY <3>2, <4>1, <4>2 DEF Fits, Reason, None
    <3> QED
      BY <2>6, <3>1, <3>2
  <2>9. Tokens(n)[i] \in Message
    <3>1. o.text[i] \in Token /\ Why(i, n) \in Reason
      BY <1>0, <2>7, <2>8 DEF Fits
    <3> QED
      BY <2>1, <3>1, MessagesOK
  <2> QED
    BY <2>2, <2>7, <2>8, <2>9 DEF InText
<1> DEFINE T == Tokens(n)
<1>3. T \in Seq(Message) /\ Len(T) = n
  <2>1. \A i \in 1 .. n : T[i] \in Message
    BY <1>2
  <2> QED
    BY <1>0, <2>1
<1> HIDE DEF Tokens, T
<1>4. CASE ms = <<Ctx>> \o T \o <<End>>
  <2>1. /\ Len(ms) = n + 2 /\ ms[1] = Ctx /\ ms[n + 2] = End
        /\ \A i \in 1 .. n : ms[i + 1] = T[i]
    BY <1>3, <1>4, OneMessage, Surrounded
  <2>2. Reply(o, g, None, ms)
    <3>1. \A i \in 1 .. n : /\ ms[i + 1].kind = "token" /\ InText(o, i, ms[i + 1])
                            /\ i < n => ms[i + 1].why = None
      BY <1>2, <2>1 DEF T
    <3>2. n \in Nat /\ Whole(o, ms, n)
      BY <1>0, <2>1, <3>1 DEF Whole
    <3> HIDE DEF o
    <3> QED
      BY <1>0, <3>2, WholeReply DEF o
  <2>3. Told(None, ms) \/ o.limit = 0
    <3>1. CASE n = 0
      BY <1>1, <3>1
    <3>2. CASE n # 0
      <4>1. n \in 1 .. n /\ n + 1 \in 1 .. Len(ms)
        BY <1>0, <2>1, <3>2
      <4>2. ms[n + 1].why # None
        BY <1>2, <2>1, <4>1 DEF T
      <4> QED
        BY <4>1, <4>2 DEF Told
    <3> QED
      BY <3>1, <3>2
  <2> QED
    BY <2>2, <2>3
<1>5. CASE ms = <<Ctx>> \o SubSeq(T, 1, n - 1) \o <<Error>>
  <2> DEFINE U == SubSeq(T, 1, n - 1)
  <2>1. PICK k \in Nat : k = IF n = 0 THEN 0 ELSE n - 1
    BY <1>0
  <2>2. U \in Seq(Message) /\ Len(U) = k /\ \A i \in 1 .. k : U[i] = T[i] /\ i \in 1 .. n /\ i < n
    BY <1>0, <1>3, <2>1
  <2> HIDE DEF U
  <2>3. /\ Len(ms) = k + 2 /\ ms[1] = Ctx /\ ms[k + 2] = Error
        /\ \A i \in 1 .. k : ms[i + 1] = U[i]
    <3>1. ms = <<Ctx>> \o U \o <<Error>>
      BY <1>5 DEF U
    <3>2. Ctx \in Message /\ Error \in Message
      BY MessagesOK
    <3> QED
      BY <2>2, <3>1, <3>2, Surrounded
  <2>4. Reply(o, g, None, ms)
    <3>1. \A i \in 1 .. k : /\ ms[i + 1].kind = "token" /\ InText(o, i, ms[i + 1])
                            /\ ms[i + 1].why = None
      <4>1. ASSUME NEW i \in 1 .. k
            PROVE  ms[i + 1].kind = "token" /\ InText(o, i, ms[i + 1]) /\ ms[i + 1].why = None
        <5>1. ms[i + 1] = T[i] /\ i \in 1 .. n /\ i < n
          BY <2>2, <2>3
        <5> QED
          BY <1>2, <5>1 DEF T
      <4> QED
        BY <4>1
    <3>2. Whole(o, ms, k)
      BY <2>3, <3>1 DEF Whole
    <3> HIDE DEF o
    <3> QED
      BY <1>0, <3>2, WholeReply DEF o
  <2>5. \A i \in 1 .. Len(ms) : ms[i].kind # "end"
    <3>1. ASSUME NEW i \in 1 .. Len(ms) PROVE ms[i].kind # "end"
      <4>1. i = 1 \/ i = k + 2 \/ (i - 1 \in 1 .. k /\ (i - 1) + 1 = i)
        BY <2>3
      <4>2. CASE i = 1
        BY <2>3, <4>2 DEF Ctx
      <4>3. CASE i = k + 2
        BY <2>3, <4>3 DEF Error
      <4>4. CASE i - 1 \in 1 .. k /\ (i - 1) + 1 = i
        <5>1. ms[i] = U[i - 1] /\ U[i - 1] = T[i - 1] /\ i - 1 \in 1 .. n
          BY <2>2, <2>3, <4>4
        <5> QED
          BY <1>2, <5>1 DEF T
      <4> QED
        BY <4>1, <4>2, <4>3, <4>4
    <3> QED
      BY <3>1
  <2> QED
    BY <2>4, <2>5
<1> QED
  BY <1>1, <1>4, <1>5 DEF T, Tokens

-----------------------------------------------------------------------------
\* An end is put after the reason, except to a reader that has left.
Complete(c) == Told(reason[c], rqueue[c]) \/ options[c].limit = 0 \/ fate[c] = "left"

Kept(c) ==
  /\ Reply(options[c], got[c], reason[c], rqueue[c])
  /\ HasEnd(c) => Complete(c)

Untouched(c) == Len(got[c]) = 0 /\ reason[c] = None

Readers ==
  /\ got \in [Client -> Seq(Token)] /\ stopping \in [Client -> BOOLEAN]
  /\ \A c \in Client :
       Kept(c) /\ (Fresh(c) => Untouched(c)) /\ (stopping[c] => fate[c] = "left")

\* The worker before the engine.
Begun(c) ==
  /\ Untouched(c) /\ Sent(got[c], rqueue[c]) = 0 /\ ~Told(reason[c], rqueue[c])
  /\ worker = [Idle EXCEPT !.pc = worker.pc, !.client = c]

\* What consume_dflash_events knows: of the text that came from the engine the
\* first k tokens have been looked at, the last of them is held back unless it
\* is the first, and only it may have a reason.
Counted(c, k) ==
  LET o == options[c] IN
  /\ k \in 0 .. Len(output)
  /\ worker.count = k /\ (worker.flushed <=> k > 0)
  /\ worker.pending = IF k > 1 THEN [token |-> o.text[k], why |-> Due(o, k)] ELSE NoPending
  /\ Sent(got[c], rqueue[c]) = IF k > 1 THEN k - 1 ELSE k
  /\ \A n \in 1 .. k - 1 : Due(o, n) = None
  /\ Told(reason[c], rqueue[c]) <=> k = 1 /\ Due(o, 1) # None
  /\ worker.done => k > 0 /\ Due(o, k) # None

Produced(c) ==
  LET o == options[c] IN
  /\ greedy = o.text /\ limit = o.limit
  /\ Len(output) <= o.limit /\ output = SubSeq(o.text, 1, Len(output))
  /\ \A i \in 1 .. Len(output) : output[i] \in Stop => i + Overrun >= Len(output)

\* ... while it pulls, and when it has stopped.
Pulling(c) ==
  /\ worker.finish = None /\ ~worker.failed
  /\ ~worker.done =>
       worker.count = Len(output) /\ \A n \in 1 .. worker.count : Due(options[c], n) = None

Pulled(c) ==
  /\ worker.failed \/ stopping[c] \/ worker.finish # None
  /\ worker.finish # None =>
       IF worker.count = 0 THEN options[c].limit = 0
       ELSE Fits(options[c], worker.count, worker.finish)

Served(c) ==
  /\ worker.pc # "record target" => Unended(rqueue[c])
  /\ worker.pc \in {"target", "prepare", "lookup"} => Begun(c)
  /\ worker.pc \in {"target", "prepare"} => rqueue[c] = << >>
  /\ worker.pc \in {"pull", "close", "end", "flush"} =>
       Counted(c, worker.count) /\ Produced(c)
  /\ worker.pc = "pull" => Pulling(c)
  /\ worker.pc \in {"close", "end", "flush"} => Pulled(c)
  /\ worker.pc = "flush" => ~worker.failed
  /\ worker.pc \in {"finalize", "answer"} => Complete(c)

Serving == worker.client \in Client => Served(worker.client)

PInv == Readers /\ Serving

LEMMA ValidOptions == ASSUME TInv, NEW c \in Client PROVE Valid(options[c])
  BY OptionsFixed DEF Valid

LEMMA UnendedOK == \A c \in Client : Unended(rqueue[c]) => ~HasEnd(c)
  BY DEF Unended, HasEnd, Closing

\* A reply of which nothing is put yet.
LEMMA NothingPut ==
  ASSUME NEW o, Valid(o), NEW g \in Seq(Token), Len(g) = 0, NEW q, q = << >>
  PROVE  Reply(o, g, None, q) /\ Unended(q) /\ Sent(g, q) = 0 /\ ~Told(None, q)
<1>1. Len(q) = 0 /\ CtxIn(q) = 0
  BY DEF CtxIn
<1>2. GotText(o, g)
  BY DEF GotText, Valid, Request
<1> QED
  BY <1>1, <1>2 DEF Reply, Unended, Sent, Told, LastWord

LEMMA PInvInit == Init => PInv
<1> SUFFICES ASSUME Init PROVE PInv
  OBVIOUS
<1>1. TInv
  BY TInvInit
<1>2. /\ worker.client = None /\ None \notin Client
      /\ got \in [Client -> Seq(Token)] /\ stopping \in [Client -> BOOLEAN]
  BY NoneAssumption DEF Init, Idle, None
<1>3. ASSUME NEW c \in Client
      PROVE  Kept(c) /\ (Fresh(c) => Untouched(c)) /\ (stopping[c] => fate[c] = "left")
  <2>1. rqueue[c] = << >> /\ got[c] = << >> /\ reason[c] = None /\ ~stopping[c]
    BY DEF Init
  <2>2. Reply(options[c], got[c], reason[c], rqueue[c]) /\ Unended(rqueue[c])
    <3>1. got[c] \in Seq(Token) /\ Len(got[c]) = 0 /\ Valid(options[c])
      BY <1>1, <1>2, <2>1, ValidOptions
    <3> QED
      BY <2>1, <3>1, NothingPut
  <2> QED
    BY <2>1, <2>2, UnendedOK DEF Kept, Untouched
<1> QED
  BY <1>2, <1>3 DEF PInv, Readers, Serving

\* A step of the worker leaves the readers where they are, and puts something on
\* the queue of the client served at most.
Puts ==
  /\ UNCHANGED <<options, got, reason, fate, stopping>>
  /\ \A c \in Client \ {worker.client} : rqueue'[c] = rqueue[c]
  /\ \A c \in Client : Fresh(c)' => Fresh(c)

LEMMA ReadersFrame ==
  ASSUME Readers, Puts, NEW c, c = worker.client, c \in Client => Kept(c)'
  PROVE  Readers'
<1>1. ASSUME NEW d \in Client PROVE Kept(d)'
  <2>1. CASE d = c
    BY <2>1
  <2>2. CASE d # c
    BY <2>2 DEF Readers, Puts, Kept, Complete, HasEnd
  <2> QED
    BY <2>1, <2>2
<1>2. ASSUME NEW d \in Client PROVE Fresh(d)' => Untouched(d)'
  BY DEF Readers, Puts, Untouched
<1> QED
  BY <1>1, <1>2 DEF Readers, Puts

\* ... as when it puts nothing at all.
LEMMA ReadersSame ==
  ASSUME Readers, Puts, rqueue' = rqueue
  PROVE  Readers'
<1>1. PICK c : c = worker.client
  OBVIOUS
<1>2. c \in Client => Kept(c)'
  BY DEF Readers, Puts, Kept, Complete, HasEnd
<1> QED
  BY <1>1, <1>2, ReadersFrame

LEMMA PutQueue ==
  ASSUME TInv, worker.client \in Client, NEW ms \in Seq(Message), Put(ms)
  PROVE  /\ rqueue'[worker.client] = rqueue[worker.client] \o ms
         /\ \A c \in Client \ {worker.client} : rqueue'[c] = rqueue[c]
  BY PutFrame

LEMMA PInvTake ==
  ASSUME TInv, SInv, PInv, TakeTargetOnly \/ Take
  PROVE  PInv'
<1>1. Head(requests) \in Client /\ requests \in Seq(Client) /\ requests # << >>
      /\ requests' = Tail(requests) /\ worker.client = None
  BY DEF TakeTargetOnly, Take, TInv
<1>2. PICK c \in Client : c = Head(requests)
  BY <1>1
<1>3. /\ UNCHANGED <<options, got, reason, fate, stopping, rqueue>>
      /\ worker' = [Idle EXCEPT !.pc = worker'.pc, !.client = c]
      /\ worker'.pc \in {"target", "prepare"} /\ worker'.client = c
  BY <1>2 DEF TakeTargetOnly, Take, handlers, Idle
<1>4. \A d \in Client : Fresh(d)' => Fresh(d)
  <2>1. \A i \in 1 .. Len(requests') : i + 1 \in 1 .. Len(requests) /\ requests'[i] = requests[i + 1]
    BY <1>1
  <2> QED
    BY <1>3, <2>1 DEF Fresh
<1>5. Fresh(c)
  <2>1. 1 \in 1 .. Len(requests) /\ requests[1] = c
    BY <1>1, <1>2
  <2> QED
    BY <2>1 DEF Fresh
<1>6. rqueue[c] = << >> /\ Untouched(c) /\ got[c] \in Seq(Token)
  BY <1>5 DEF SInv, FreshInv, PInv, Readers
<1>7. Readers'
  <2>1. Puts
    BY <1>3, <1>4 DEF Puts
  <2> QED
    BY <1>3, <2>1, ReadersSame DEF PInv
<1>8. Served(c)'
  <2>1. Valid(options[c]) /\ Len(got[c]) = 0
    BY <1>6, ValidOptions DEF Untouched
  <2>2. Unended(rqueue[c]) /\ Sent(got[c], rqueue[c]) = 0 /\ ~Told(None, rqueue[c])
    BY <1>6, <2>1, NothingPut
  <2>3. Begun(c)'
    BY <1>3, <1>6, <2>2 DEF Begun, Untouched
  <2> QED
    BY <1>3, <1>6, <2>2, <2>3 DEF Served
<1> QED
  BY <1>3, <1>7, <1>8 DEF PInv, Serving

\* What follows when the worker leaves the readers and all queues alone.
LEMMA Silent ==
  ASSUME Readers,
         UNCHANGED <<options, requests, got, reason, fate, stopping, rqueue>>
  PROVE  Readers' /\ \A c : Complete(c)' <=> Complete(c)
<1>1. Puts
  BY DEF Puts, Fresh
<1> QED
  BY <1>1, ReadersSame DEF Complete

\* What follows when it puts messages on the queue of the client served.
LEMMA Speaks ==
  ASSUME TInv, Readers, NEW c \in Client, c = worker.client,
         UNCHANGED <<options, requests, got, reason, fate, stopping>>,
         NEW ms \in Seq(Message), Put(ms),
         NEW r, r = rqueue[c] \o ms, Reply(options[c], got[c], reason[c], r),
         HasEnd(c)' => Complete(c)'
  PROVE  Readers' /\ rqueue'[c] = r
<1>1. rqueue'[c] = r /\ Puts
  BY PutQueue DEF Puts, Fresh
<1>2. Kept(c)'
  BY <1>1 DEF Kept
<1> QED
  BY <1>1, <1>2, ReadersFrame

LEMMA QueueTyped ==
  ASSUME TInv, Readers, NEW c \in Client
  PROVE  /\ rqueue[c] \in Seq(Message) /\ got[c] \in Seq(Token) /\ reason[c] \in Reason
         /\ Valid(options[c]) /\ Reply(options[c], got[c], reason[c], rqueue[c])
  BY ValidOptions DEF TInv, Readers, Kept

LEMMA PInvServeTargetOnly ==
  ASSUME TInv, SInv, PInv, ServeTargetOnly
  PROVE  PInv'
<1>1. PICK c \in Client : c = worker.client
  BY DEF ServeTargetOnly, TInv
<1>2. /\ worker.pc = "target" /\ UNCHANGED <<options, requests, got, reason, fate, stopping>>
      /\ rqueue[c] = << >> /\ Begun(c) /\ Unended(rqueue[c])
  BY <1>1 DEF ServeTargetOnly, handlers, PInv, Serving, Served
<1>3. CASE Goto("fail") /\ UNCHANGED rqueue
  <2>1. worker'.pc = "fail" /\ worker'.client = c
    BY <1>1, <1>2, <1>3, WorkerMoves
  <2>2. Readers'
    BY <1>2, <1>3, Silent DEF PInv
  <2>3. Served(c)'
    BY <1>2, <1>3, <2>1 DEF Served
  <2> QED
    BY <2>1, <2>2, <2>3 DEF PInv, Serving
<1>4. CASE \E reply \in TargetReply(worker.client) : Put(reply) /\ Goto("record target")
  <2>1. PICK ms \in TargetReply(c) : Put(ms) /\ Goto("record target")
    BY <1>1, <1>4
  <2>2. worker'.pc = "record target" /\ worker'.client = c
    BY <1>1, <1>2, <2>1, WorkerMoves
  <2>3. ms \in Seq(Message)
    BY TargetReplyOK
  <2>4. PICK r : r = rqueue[c] \o ms
    OBVIOUS
  <2>5. r = ms
    BY <1>2, <2>3, <2>4
  <2>6. Len(got[c]) = 0 /\ reason[c] = None
    BY <1>2 DEF Begun, Untouched
  <2>7. got[c] \in Seq(Token) /\ Valid(options[c])
    BY QueueTyped DEF PInv
  <2>8. /\ Reply(options[c], got[c], None, ms)
        /\ \A i \in 1 .. Len(ms) : ms[i].kind = "end" => Told(None, ms) \/ options[c].limit = 0
    BY <2>6, <2>7, TargetReplyFits
  <2>9. rqueue'[c] = ms
    BY <1>1, <2>1, <2>3, <2>4, <2>5, PutQueue
  <2>10. HasEnd(c)' => Complete(c)'
    BY <1>2, <2>6, <2>8, <2>9 DEF HasEnd, Complete
  <2>11. Readers'
    BY <1>1, <1>2, <2>1, <2>3, <2>4, <2>5, <2>6, <2>8, <2>10, Speaks DEF PInv
  <2>12. Served(c)'
    BY <2>2 DEF Served
  <2> QED
    BY <2>2, <2>11, <2>12 DEF PInv, Serving
<1> QED
  BY <1>3, <1>4 DEF ServeTargetOnly

\* The worker becomes idle again.
LEMMA PInvIdle ==
  ASSUME Readers', worker' = Idle
  PROVE  PInv'
<1>1. worker'.client = None /\ None \notin Client
  BY NoneAssumption DEF Idle, None
<1> QED
  BY <1>1 DEF PInv, Serving

LEMMA PInvPrepare ==
  ASSUME TInv, SInv, PInv, Prepare
  PROVE  PInv'
<1>1. PICK c \in Client : c = worker.client
  BY DEF Prepare, TInv
<1>2. /\ worker.pc = "prepare" /\ UNCHANGED <<options, requests, got, reason, fate, stopping>>
      /\ rqueue[c] = << >> /\ Begun(c) /\ Unended(rqueue[c])
  BY <1>1 DEF Prepare, handlers, PInv, Serving, Served
<1>3. CASE Goto("fail") /\ UNCHANGED rqueue
  <2>1. worker'.pc = "fail" /\ worker'.client = c
    BY <1>1, <1>2, <1>3, WorkerMoves
  <2>2. Readers'
    BY <1>2, <1>3, Silent DEF PInv
  <2>3. Served(c)'
    BY <1>2, <1>3, <2>1 DEF Served
  <2> QED
    BY <2>1, <2>2, <2>3 DEF PInv, Serving
<1>4. CASE Put(<<Ctx>>) /\ Goto("lookup")
  <2>1. worker'.pc = "lookup" /\ worker'.client = c
    BY <1>1, <1>2, <1>4, WorkerMoves
  <2>2. PICK ms \in Seq(Message) : ms = <<Ctx>>
    BY OneMessage
  <2>3. PICK r : r = rqueue[c] \o ms
    OBVIOUS
  <2>4. r = ms
    BY <1>2, <2>3
  <2>5. Len(got[c]) = 0 /\ reason[c] = None /\ got[c] \in Seq(Token) /\ Valid(options[c])
    BY <1>2, QueueTyped DEF Begun, Untouched, PInv
  <2>6. Reply(options[c], got[c], None, r) /\ Unended(r) /\ Sent(got[c], r) = 0 /\ ~Told(None, r)
    BY <2>2, <2>4, <2>5, PutContext
  <2>7. rqueue'[c] = r
    BY <1>1, <1>4, <2>2, <2>3, PutQueue
  <2>8. ~HasEnd(c)'
    BY <2>6, <2>7 DEF HasEnd, Unended, Closing
  <2>9. Readers'
    BY <1>1, <1>2, <1>4, <2>2, <2>3, <2>5, <2>6, <2>8, Speaks DEF PInv
  <2>10. Begun(c)'
    <3>1. worker' = [Idle EXCEPT !.pc = worker'.pc, !.client = c]
      BY <1>2, <1>4, <2>1 DEF Begun, Goto, Idle
    <3> QED
      BY <1>2, <2>5, <2>6, <2>7, <3>1 DEF Begun, Untouched
  <2> QED
    BY <2>1, <2>6, <2>7, <2>9, <2>10 DEF PInv, Serving, Served
<1> QED
  BY <1>3, <1>4 DEF Prepare

LEMMA PInvBegin ==
  ASSUME TInv, SInv, PInv, Begin
  PROVE  PInv'
<1>1. PICK c \in Client : c = worker.client
  BY DEF Begin, TInv
<1>2. /\ worker.pc = "lookup" /\ UNCHANGED <<options, requests, got, reason, fate, stopping, rqueue>>
      /\ Begun(c) /\ Unended(rqueue[c])
  BY <1>1 DEF Begin, handlers, PInv, Serving, Served
<1>3. Readers'
  BY <1>2, Silent DEF PInv
<1>4. CASE Goto("fail")
  <2>1. worker'.pc = "fail" /\ worker'.client = c
    BY <1>1, <1>2, <1>4, WorkerMoves
  <2>3. Served(c)'
    BY <1>2, <2>1 DEF Served
  <2> QED
    BY <1>3, <2>1, <2>3 DEF PInv, Serving
<1>5. ASSUME NEW gated \in BOOLEAN,
             worker' = [worker EXCEPT !.pc = "pull", !.gated = gated],
             greedy' = options[c].text, limit' = options[c].limit, output' = << >>
      PROVE  PInv'
  <2>1. /\ worker'.pc = "pull" /\ worker'.client = c /\ worker'.count = 0 /\ ~worker'.flushed
        /\ worker'.pending = NoPending /\ ~worker'.done /\ worker'.finish = None /\ ~worker'.failed
    BY <1>1, <1>2, <1>5 DEF Begun, Idle
  <2>2. Sent(got[c], rqueue[c]) = 0 /\ ~Told(reason[c], rqueue[c])
    BY <1>2 DEF Begun
  <2>3. options[c].limit \in Nat /\ options[c].text \in Seq(Token)
    BY OptionsFixed
  <2>4. Len(output') = 0 /\ output' = SubSeq(options[c].text, 1, 0)
    BY <1>5, <2>3
  <2>5. Counted(c, 0)'
    BY <1>2, <2>1, <2>2, <2>4 DEF Counted
  <2>6. Produced(c)'
    BY <1>2, <1>5, <2>3, <2>4 DEF Produced
  <2>7. Pulling(c)'
    BY <2>1, <2>4 DEF Pulling
  <2>8. Served(c)'
    BY <1>2, <2>1, <2>5, <2>6, <2>7 DEF Served
  <2> QED
    BY <1>3, <2>1, <2>8 DEF PInv, Serving
<1> QED
  BY <1>1, <1>4, <1>5 DEF Begin

LEMMA StoppedAtStop ==
  ASSUME NEW o, Valid(o), NEW n \in 1 .. o.limit, o.text[n] \in Stop
  PROVE  Ended(o, n)
<1>1. o.text \in Seq(Token) /\ n \in 1 .. Len(o.text)
  BY DEF Valid, Request
<1>2. Len(SubSeq(o.text, 1, n)) = n /\ SubSeq(o.text, 1, n)[n] = o.text[n]
  BY <1>1
<1> DEFINE t == SubSeq(o.text, 1, n)
<1>3. Last(t) = t[Len(t)]
  BY DEF Last
<1>4. Last(t) \in Stop
  BY <1>2, <1>3
<1> HIDE DEF t
<1>5. Promise!Stopped(o, t)
  BY <1>4 DEF Promise!Stopped, Promise!Last, Last
<1> QED
  BY <1>5 DEF Ended, t

LEMMA DueOK ==
  ASSUME NEW o, Valid(o), NEW n \in Nat
  PROVE  /\ Fits(o, n, Due(o, n)) /\ Due(o, n) \in Reason
         /\ \A why : Fits(o, n, why) => (why = None <=> Due(o, n) = None)
<1>1. o.limit \in Nat
  BY DEF Valid, Request
<1>2. n < o.limit <=> ~(n >= o.limit)
  BY <1>1
<1> QED
  BY <1>2 DEF Fits, Due, Reason, None

\* The reason in the summary suits the last token looked at.
LEMMA SummaryFits ==
  ASSUME TInv, NEW c \in Client, Counted(c, worker.count), Produced(c), Pulling(c), Engine!Finish
  PROVE  IF worker.count = 0 THEN options[c].limit = 0
         ELSE Fits(options[c], worker.count, SummaryReason(output))
<1> DEFINE o == options[c]  k == worker.count
<1>1. /\ Valid(o) /\ o.limit \in Nat /\ o.text \in Seq(Token) /\ o.limit <= Len(o.text)
      /\ output \in Seq(Token) /\ Len(output) \in Nat
  BY ValidOptions, OptionsFixed DEF TInv
<1>2. /\ k \in Nat /\ k <= Len(output) /\ Len(output) <= o.limit /\ limit = o.limit
      /\ output = SubSeq(o.text, 1, Len(output))
  BY <1>1 DEF Counted, Produced
<1>3. \A i \in 1 .. Len(output) : output[i] = o.text[i] /\ i \in 1 .. o.limit
  BY <1>1, <1>2
<1>4. \A i \in 1 .. Len(output) : output[i] \in Stop => Ended(o, i)
  BY <1>1, <1>3, StoppedAtStop
<1>5. Len(output) = o.limit \/ \E i \in 1 .. Len(output) : output[i] \in Stop
  <2>1. Len(output) = limit \/ \E i \in 1 .. Len(output) - 0 : output[i] \in Stop
    BY DEF Engine!Finish, Engine!StoppedBefore
  <2>2. Len(output) - 0 = Len(output)
    BY <1>1
  <2> QED
    BY <1>2, <2>1, <2>2
<1>6. SummaryReason(output) \in {"stop", "length"} /\ SummaryReason(output) # None
  BY DEF SummaryReason, None
<1>7. CASE ~worker.done
  <2>1. k = Len(output) /\ \A n \in 1 .. k : Due(o, n) = None
    BY <1>7 DEF Pulling
  <2>2. \A n \in 1 .. k : ~Ended(o, n) /\ n < o.limit
    BY <1>1, <2>1 DEF Due, None
  <2>3. Len(output) = o.limit
    BY <1>4, <1>5, <2>1, <2>2
  <2>4. k = 0
    <3>1. CASE k # 0
      <4>1. k \in 1 .. k
        BY <1>2, <3>1
      <4> QED
        BY <1>1, <2>1, <2>2, <2>3, <4>1
    <3> QED
      BY <3>1
  <2> QED
    BY <2>1, <2>3, <2>4
<1>8. CASE worker.done
  <2>1. k > 0 /\ Due(o, k) # None
    BY <1>8 DEF Counted
  <2>2. Ended(o, k) \/ ~(k < o.limit)
    BY <1>1, <1>2, <2>1 DEF Due
  <2>3. SummaryReason(output) = "stop" => Ended(o, k)
    <3>1. ASSUME ~Ended(o, k) PROVE SummaryReason(output) = "length"
      <4>1. k = Len(output) /\ Len(output) = o.limit
        BY <1>1, <1>2, <2>2, <3>1
      <4>2. k \in 1 .. Len(output) /\ Last(output) = output[k]
        BY <1>1, <1>2, <2>1, <4>1 DEF Last
      <4>3. Last(output) \notin Stop
        BY <1>4, <3>1, <4>2
      <4>4. output # << >> /\ Len(output) >= limit
        BY <1>1, <1>2, <4>1, <4>2
      <4> QED
        BY <4>3, <4>4 DEF SummaryReason
    <3> QED
      BY <3>1
  <2>4. SummaryReason(output) = "length" => Promise!RunsOn(o)
    <3> SUFFICES ASSUME SummaryReason(output) = "length", NEW n \in 1 .. o.limit,
                        o.text[n] \in Stop
                 PROVE  n # o.limit /\ n + Overrun >= o.limit
      BY DEF Promise!RunsOn
    <3>1. output # << >> /\ Last(output) \notin Stop /\ Len(output) >= limit
      BY DEF SummaryReason
    <3>2. Len(output) = o.limit /\ Last(output) = output[o.limit]
      BY <1>1, <1>2, <3>1 DEF Last
    <3>3. output[n] = o.text[n] /\ n \in 1 .. Len(output)
      BY <1>3, <3>2
    <3> QED
      BY <3>1, <3>2, <3>3 DEF Produced
  <2>5. Fits(o, k, SummaryReason(output))
    BY <1>6, <2>2, <2>3, <2>4 DEF Fits, Reason
  <2> QED
    BY <1>2, <2>1, <2>5
<1> QED
  BY <1>7, <1>8

LEMMA PInvStops ==
  ASSUME TInv, SInv, PInv, PullSummary \/ EngineRaises
  PROVE  PInv'
<1>1. PICK c \in Client : c = worker.client
  BY DEF PullSummary, EngineRaises, TInv
<1>2. /\ worker.pc = "pull" /\ UNCHANGED <<options, requests, got, reason, fate, stopping, rqueue>>
      /\ UNCHANGED <<greedy, limit, output>>
      /\ Unended(rqueue[c]) /\ Counted(c, worker.count) /\ Produced(c) /\ Pulling(c)
  BY <1>1 DEF PullSummary, EngineRaises, Engine!Finish, Engine!Close, handlers, PInv, Serving, Served
<1>3. Readers'
  BY <1>2, Silent DEF PInv
<1>4. /\ worker'.pc = "close" /\ worker'.client = c /\ worker'.count = worker.count
      /\ worker'.flushed = worker.flushed /\ worker'.pending = worker.pending
      /\ worker'.done = worker.done
  BY <1>1 DEF PullSummary, EngineRaises, TInv, WorkerOK
<1>5. Counted(c, worker.count)' /\ Produced(c)'
  BY <1>2, <1>4 DEF Counted, Produced
<1>6. Pulled(c)'
  <2>1. CASE EngineRaises
    <3>1. worker'.failed /\ worker'.finish = None
      BY <1>2, <2>1 DEF EngineRaises, TInv, WorkerOK, Pulling
    <3> QED
      BY <3>1 DEF Pulled
  <2>2. CASE PullSummary
    <3>1. worker'.finish = SummaryReason(output) /\ Engine!Finish
      BY <2>2 DEF PullSummary, TInv, WorkerOK
    <3>2. SummaryReason(output) # None
      BY DEF SummaryReason, None
    <3>3. IF worker.count = 0 THEN options[c].limit = 0
          ELSE Fits(options[c], worker.count, SummaryReason(output))
      BY <1>2, <3>1, SummaryFits
    <3> QED
      BY <1>2, <1>4, <3>1, <3>2, <3>3 DEF Pulled
  <2> QED
    BY <2>1, <2>2
<1>7. Served(c)'
  BY <1>2, <1>4, <1>5, <1>6 DEF Served
<1> QED
  BY <1>3, <1>4, <1>7 DEF PInv, Serving

\* Closing the engine and ending the bracket leave all this alone.
LEMMA PInvCloses ==
  ASSUME TInv, SInv, PInv, CloseEngine \/ EndRequest
  PROVE  PInv'
<1>1. PICK c \in Client : c = worker.client
  BY DEF CloseEngine, EndRequest, TInv
<1>2. /\ worker.pc \in {"close", "end"}
      /\ UNCHANGED <<options, requests, got, reason, fate, stopping, rqueue>>
      /\ UNCHANGED <<greedy, limit, output>>
      /\ Unended(rqueue[c]) /\ Counted(c, worker.count) /\ Produced(c) /\ Pulled(c)
  BY <1>1 DEF CloseEngine, EndRequest, engine, handlers, PInv, Serving, Served
<1>3. Readers'
  BY <1>2, Silent DEF PInv
<1>4. /\ worker'.pc \in {"end", "fail", "flush"} /\ (worker'.pc = "flush" => ~worker.failed)
      /\ worker'.client = c /\ worker'.count = worker.count
      /\ worker'.flushed = worker.flushed /\ worker'.pending = worker.pending
      /\ worker'.done = worker.done /\ worker'.finish = worker.finish
      /\ worker'.failed = worker.failed
  BY <1>1 DEF CloseEngine, EndRequest, Goto, TInv, WorkerOK
<1>5. Counted(c, worker.count)' /\ Produced(c)' /\ Pulled(c)'
  BY <1>2, <1>4 DEF Counted, Produced, Pulled
<1>6. Served(c)'
  BY <1>2, <1>4, <1>5 DEF Served
<1> QED
  BY <1>3, <1>4, <1>6 DEF PInv, Serving

\* The token held back is put, with the reason of the summary if there is one.
LEMMA PInvFlush ==
  ASSUME TInv, SInv, PInv, Flush
  PROVE  PInv'
<1>1. PICK c \in Client : c = worker.client
  BY DEF Flush, TInv
<1> DEFINE o == options[c]  g == got[c]  w == reason[c]  q == rqueue[c]  k == worker.count
<1>2. /\ worker.pc = "flush" /\ UNCHANGED <<options, requests, got, reason, fate, stopping>>
      /\ Unended(q) /\ Counted(c, k) /\ Produced(c) /\ Pulled(c) /\ ~worker.failed
  BY <1>1 DEF Flush, handlers, PInv, Serving, Served
<1>3. worker'.pc = "finalize" /\ worker'.client = c
  BY <1>1, <1>2, WorkerMoves DEF Flush
<1>4. /\ q \in Seq(Message) /\ g \in Seq(Token) /\ w \in Reason /\ Valid(o) /\ Reply(o, g, w, q)
      /\ Readers /\ k \in Nat /\ (stopping[c] => fate[c] = "left")
  BY <1>2, QueueTyped DEF PInv, Readers, Counted
<1>5. o.limit \in Nat /\ o.text \in Seq(Token) /\ o.limit <= Len(o.text) /\ k <= o.limit
  BY <1>2, OptionsFixed DEF Counted, Produced, TInv
<1>6. worker.finish # None \/ stopping[c]
  BY <1>2 DEF Pulled
<1>7. CASE k <= 1
  <2>1. worker.pending = NoPending
    BY <1>2, <1>7 DEF Counted
  <2>2. Put(<< >>)
    BY <2>1 DEF Flush
  <2>3. rqueue' = rqueue
    <3>1. rqueue \in [Client -> Seq(Message)] /\ rqueue' = [rqueue EXCEPT ![c] = @ \o << >>]
      BY <1>1, <2>2 DEF Put, TInv
    <3>2. q \o << >> = q
      BY <1>4
    <3> QED
      BY <3>1, <3>2
  <2>4. Complete(c)
    <3>1. CASE stopping[c]
      BY <1>4, <3>1 DEF Complete
    <3>2. CASE worker.finish # None /\ k = 0
      BY <1>2, <3>2 DEF Pulled, Complete
    <3>3. CASE worker.finish # None /\ k = 1
      <4>1. Fits(o, 1, worker.finish)
        BY <1>2, <3>3 DEF Pulled
      <4>2. Due(o, 1) # None
        BY <1>4, <3>3, <4>1, DueOK
      <4> QED
        BY <1>2, <3>3, <4>2 DEF Counted, Complete
    <3> QED
      BY <1>4, <1>6, <1>7, <3>1, <3>2, <3>3
  <2>5. Readers' /\ Complete(c)'
    BY <1>2, <1>4, <2>3, <2>4, Silent
  <2>6. Served(c)'
    BY <1>2, <1>3, <2>3, <2>5 DEF Served
  <2> QED
    BY <1>3, <2>5, <2>6 DEF PInv, Serving
<1>8. CASE k > 1
  <2>1. PICK why \in Reason : why = IF worker.finish # None THEN worker.finish ELSE worker.pending.why
    BY DEF TInv
  <2>2. worker.pending = [token |-> o.text[k], why |-> Due(o, k)]
    BY <1>2, <1>8 DEF Counted
  <2>3. o.text[k] \in Token /\ k \in 1 .. o.limit
    BY <1>4, <1>5, <1>8
  <2>4. worker.pending # NoPending
    BY <2>2, <2>3, NoneAssumption DEF NoPending, None
  <2>5. PICK m \in Message : m = Response(o.text[k], why)
    BY <2>3, MessagesOK
  <2>6. Put(<<m>>)
    BY <2>1, <2>2, <2>4, <2>5 DEF Flush
  <2>7. m.kind = "token" /\ m.token = o.text[k] /\ m.why = why
    BY <2>5 DEF Response
  <2>8. Fits(o, k, why)
    <3>1. CASE worker.finish # None
      BY <1>2, <1>8, <2>1, <3>1 DEF Pulled
    <3>2. CASE worker.finish = None
      BY <1>4, <2>1, <2>2, <3>2, DueOK
    <3> QED
      BY <3>1, <3>2
  <2>9. Sent(g, q) + 1 = k /\ ~Told(w, q)
    BY <1>2, <1>8 DEF Counted
  <2>10. InText(o, Sent(g, q) + 1, m)
    BY <2>3, <2>7, <2>8, <2>9 DEF InText
  <2>11. PICK r : Longer(q, m, r)
    BY DEF Longer
  <2>12. Reply(o, g, w, r) /\ Unended(r) /\ (Told(w, r) <=> why # None)
    BY <1>2, <1>4, <2>7, <2>9, <2>10, <2>11, PutToken
  <2>13. <<m>> \in Seq(Message) /\ r = rqueue[c] \o <<m>>
    BY <2>11 DEF Longer
  <2>14. rqueue'[c] = r
    BY <1>1, <2>6, <2>13, PutQueue
  <2>15. ~HasEnd(c)'
    BY <2>12, <2>14 DEF HasEnd, Unended, Closing
  <2>16. Readers'
    BY <1>1, <1>2, <1>4, <2>6, <2>12, <2>13, <2>15, Speaks
  <2>17. Complete(c)'
    <3>1. CASE stopping[c]
      BY <1>2, <1>4, <3>1 DEF Complete
    <3>2. CASE worker.finish # None
      BY <1>2, <2>1, <2>12, <2>14, <3>2 DEF Complete
    <3> QED
      BY <1>6, <3>1, <3>2
  <2>18. Served(c)'
    BY <1>3, <2>12, <2>14, <2>17 DEF Served
  <2> QED
    BY <1>3, <2>16, <2>18 DEF PInv, Serving
<1> QED
  BY <1>4, <1>7, <1>8

LEMMA PInvFinalize ==
  ASSUME TInv, SInv, PInv, Finalize
  PROVE  PInv'
<1>1. PICK c \in Client : c = worker.client
  BY DEF Finalize, TInv
<1>2. /\ worker.pc = "finalize"
      /\ UNCHANGED <<options, requests, got, reason, fate, stopping, rqueue>>
      /\ Unended(rqueue[c]) /\ Complete(c)
  BY <1>1 DEF Finalize, handlers, PInv, Serving, Served
<1>3. worker'.pc \in {"answer", "fail"} /\ worker'.client = c
  BY <1>1, <1>2, WorkerMoves DEF Finalize
<1>4. Readers' /\ Complete(c)'
  BY <1>2, Silent DEF PInv
<1>5. Served(c)'
  BY <1>2, <1>3, <1>4 DEF Served
<1> QED
  BY <1>3, <1>4, <1>5 DEF PInv, Serving

\* A good end is put only when the reply is complete.
LEMMA PInvEnds ==
  ASSUME TInv, SInv, PInv, Answer \/ Fail
  PROVE  PInv'
<1>1. PICK c \in Client : c = worker.client
  BY DEF Answer, Fail, TInv
<1>2. /\ worker.pc \in {"answer", "fail"} /\ worker' = Idle
      /\ UNCHANGED <<options, requests, got, reason, fate, stopping>>
      /\ Unended(rqueue[c]) /\ (worker.pc = "answer" => Complete(c))
  BY <1>1 DEF Answer, Fail, handlers, PInv, Serving, Served
<1>3. PICK m \in {End, Error} : Put(<<m>>) /\ (m.kind = "end" => worker.pc = "answer")
  <2>1. CASE Answer
    BY <2>1 DEF Answer
  <2>2. CASE Fail
    BY <2>2 DEF Fail, Error
  <2> QED
    BY <2>1, <2>2
<1>4. m \in Message /\ Closing(m) /\ m.why = None
  BY MessagesOK DEF Closing, End, Error
<1>5. PICK r : Longer(rqueue[c], m, r)
  BY DEF Longer
<1>6. /\ rqueue[c] \in Seq(Message) /\ got[c] \in Seq(Token) /\ reason[c] \in Reason
      /\ Valid(options[c]) /\ Reply(options[c], got[c], reason[c], rqueue[c]) /\ Readers
  BY QueueTyped DEF PInv
<1>7. Reply(options[c], got[c], reason[c], r) /\ (Told(reason[c], rqueue[c]) => Told(reason[c], r))
  BY <1>2, <1>4, <1>5, <1>6, PutClosing
<1>8. <<m>> \in Seq(Message) /\ r = rqueue[c] \o <<m>>
  BY <1>4, <1>5 DEF Longer
<1>9. rqueue'[c] = r
  BY <1>1, <1>3, <1>8, PutQueue
<1>10. HasEnd(c)' => Complete(c)'
  <2>1. ASSUME HasEnd(c)' PROVE worker.pc = "answer"
    <3>1. PICK i \in 1 .. Len(r) : r[i].kind = "end"
      BY <1>9, <2>1 DEF HasEnd
    <3>2. Len(r) = Len(rqueue[c]) + 1 /\ r[Len(rqueue[c]) + 1] = m
          /\ \A j \in 1 .. Len(rqueue[c]) : r[j] = rqueue[c][j]
      BY <1>4, <1>5, <1>6, AppendOne
    <3>3. i = Len(rqueue[c]) + 1
      <4>1. \A j \in 1 .. Len(rqueue[c]) : r[j].kind # "end"
        BY <1>2, <3>2 DEF Unended, Closing
      <4> QED
        BY <1>6, <3>1, <3>2, <4>1
    <3> QED
      BY <1>3, <3>1, <3>2, <3>3
  <2> QED
    BY <1>2, <1>7, <1>9, <2>1 DEF Complete
<1>11. Readers'
  BY <1>1, <1>2, <1>3, <1>6, <1>7, <1>8, <1>10, Speaks
<1> QED
  BY <1>2, <1>11, PInvIdle

LEMMA EmitProduces ==
  ASSUME TInv, NEW c \in Client, Produced(c), Engine!Emit, UNCHANGED options
  PROVE  /\ Produced(c)' /\ Len(output') = Len(output) + 1 /\ Len(output) + 1 <= options[c].limit
         /\ Last(output') = options[c].text[Len(output) + 1]
         /\ output' = SubSeq(options[c].text, 1, Len(output) + 1)
<1> DEFINE o == options[c]  n == Len(output) + 1
<1>1. /\ o.limit \in Nat /\ o.text \in Seq(Token) /\ o.limit <= Len(o.text)
      /\ output \in Seq(Token) /\ Len(output) \in Nat
  BY OptionsFixed DEF TInv
<1>2. /\ greedy = o.text /\ limit = o.limit /\ output = SubSeq(o.text, 1, Len(output))
      /\ Len(output) < limit /\ output' = Append(output, greedy[Len(output) + 1])
      /\ greedy' = greedy /\ limit' = limit
  BY DEF Produced, Engine!Emit
<1>3. n \in 1 .. Len(o.text) /\ n \in Nat /\ n <= o.limit
  BY <1>1, <1>2
<1>4. o.text[n] \in Token /\ output' = Append(output, o.text[n])
  BY <1>1, <1>2, <1>3
<1>5. /\ output' \in Seq(Token) /\ Len(output') = n
      /\ output'[n] = o.text[n] /\ \A i \in 1 .. Len(output) : output'[i] = output[i]
  BY <1>1, <1>4
<1>6. \A i \in 1 .. Len(output) : output[i] = o.text[i]
  BY <1>1, <1>2
<1>7. output' = SubSeq(o.text, 1, n)
  <2> DEFINE s == SubSeq(o.text, 1, n)
  <2>1. s \in Seq(Token) /\ Len(s) = n /\ \A i \in 1 .. n : s[i] = o.text[i]
    BY <1>1, <1>3
  <2>2. \A i \in 1 .. n : output'[i] = o.text[i]
    BY <1>1, <1>5, <1>6
  <2> HIDE DEF s
  <2>3. \A i \in 1 .. Len(output') : output'[i] = s[i]
    BY <1>5, <2>1, <2>2
  <2>4. output' = s
    BY <1>5, <2>1, <2>3, SameTokens
  <2> QED
    BY <2>4 DEF s
<1>8. Last(output') = o.text[n]
  BY <1>5 DEF Last
<1>9. ASSUME NEW i \in 1 .. n, output'[i] \in Stop PROVE i + Overrun >= n
  <2>1. CASE i = n
    BY <1>3, <2>1, OverrunAssumption
  <2>2. CASE i # n
    <3>1. i \in 1 .. Len(output) /\ output[i] \in Stop
      BY <1>1, <1>5, <1>9, <2>2
    <3>2. ~ \E j \in 1 .. Len(output) - Overrun : output[j] \in Stop
      BY DEF Engine!Emit, Engine!StoppedBefore
    <3>3. i \notin 1 .. Len(output) - Overrun
      BY <3>1, <3>2
    <3> QED
      BY <1>1, <3>1, <3>3, OverrunAssumption
  <2> QED
    BY <2>1, <2>2
<1> QED
  BY <1>2, <1>3, <1>5, <1>7, <1>8, <1>9 DEF Produced

LEMMA ReasonIsDue ==
  ASSUME NEW o, Valid(o), NEW n \in Nat, n <= o.limit, NEW s, s = SubSeq(o.text, 1, n)
  PROVE  TokenReason(o, s) = Due(o, n)
<1>1. Len(s) = n
  BY DEF Valid, Request
<1>2. Ended(o, n) <=> Promise!Stopped(o, s)
  BY DEF Ended
<1> QED
  BY <1>1, <1>2 DEF TokenReason, Due

\* A token the engine hands out after the end is dropped.
LEMMA PInvDrop ==
  ASSUME TInv, SInv, PInv, PullToken, worker.done
  PROVE  PInv'
<1>1. PICK c \in Client : c = worker.client
  BY DEF PullToken, TInv
<1>2. /\ worker.pc = "pull" /\ Engine!Emit /\ UNCHANGED <<worker, rqueue>>
      /\ UNCHANGED <<options, requests, got, reason, fate, stopping, rqueue>>
      /\ Unended(rqueue[c]) /\ Counted(c, worker.count) /\ Produced(c) /\ Pulling(c)
  BY <1>1 DEF PullToken, handlers, PInv, Serving, Served
<1>3. Readers'
  BY <1>2, Silent DEF PInv
<1>4. Produced(c)' /\ Len(output') = Len(output) + 1 /\ Len(output) \in Nat
  BY <1>2, EmitProduces DEF TInv
<1>5. Counted(c, worker.count)'
  <2>1. \A k : k \in 0 .. Len(output) => k \in 0 .. Len(output')
    BY <1>4
  <2> QED
    BY <1>2, <2>1 DEF Counted
<1>6. Pulling(c)'
  BY <1>2 DEF Pulling
<1>7. Served(c)'
  BY <1>2, <1>4, <1>5, <1>6 DEF Served
<1> QED
  BY <1>1, <1>2, <1>3, <1>7 DEF PInv, Serving

LEMMA PInvConsume ==
  ASSUME TInv, SInv, PInv, PullToken, ~worker.done
  PROVE  PInv'
<1>1. PICK c \in Client : c = worker.client
  BY DEF PullToken, TInv
<1>2. PICK k \in Nat, why \in Reason :
        k = worker.count /\ why = Due(options[c], k + 1)
  <2>1. Counted(c, worker.count) /\ output \in Seq(Token) /\ Valid(options[c])
    BY <1>1, ValidOptions DEF PullToken, PInv, Serving, Served, TInv
  <2>2. worker.count \in Nat
    BY <2>1 DEF Counted
  <2>3. Due(options[c], worker.count + 1) \in Reason
    BY DEF Due, Reason
  <2> QED
    BY <2>2, <2>3
<1> DEFINE o == options[c]  g == got[c]  w == reason[c]  q == rqueue[c]
<1>3. /\ worker.pc = "pull" /\ UNCHANGED <<options, requests, got, reason, fate, stopping>>
      /\ Engine!Emit /\ Consume(worker, Last(output'), TokenReason(o, output'))
      /\ Unended(q) /\ Counted(c, k) /\ Produced(c) /\ Pulling(c)
  BY <1>1, <1>2 DEF PullToken, handlers, PInv, Serving, Served
<1>4. /\ q \in Seq(Message) /\ g \in Seq(Token) /\ w \in Reason /\ Valid(o) /\ Reply(o, g, w, q)
      /\ Readers
  BY QueueTyped DEF PInv
<1>5. /\ k = Len(output) /\ \A n \in 1 .. k : Due(o, n) = None
      /\ worker.finish = None /\ ~worker.failed
  BY <1>2, <1>3 DEF Pulling
<1>6. /\ Produced(c)' /\ Len(output') = k + 1 /\ k + 1 <= o.limit
      /\ Last(output') = o.text[k + 1] /\ output' = SubSeq(o.text, 1, k + 1)
  BY <1>3, <1>5, EmitProduces
<1>7. TokenReason(o, output') = why
  <2>1. PICK s : s = output'
    OBVIOUS
  <2>2. PICK n \in Nat : n = k + 1
    OBVIOUS
  <2>3. n <= o.limit /\ s = SubSeq(o.text, 1, n)
    BY <1>6, <2>1, <2>2
  <2>4. TokenReason(o, s) = Due(o, n)
    BY <1>4, <2>3, ReasonIsDue
  <2> QED
    BY <1>2, <2>1, <2>2, <2>4
<1>8. o.limit \in Nat /\ o.text \in Seq(Token) /\ o.limit <= Len(o.text)
  BY OptionsFixed
<1>9. /\ worker'.client = c /\ worker'.count = k + 1 /\ worker'.flushed
      /\ worker'.pending = IF worker.flushed THEN [token |-> o.text[k + 1], why |-> why]
                           ELSE worker.pending
      /\ worker'.pc = IF stopping[c] THEN "close" ELSE "pull"
      /\ worker'.done = (~stopping[c] /\ why # None)
      /\ worker'.finish = None /\ ~worker'.failed
  <2>1. worker' = [worker EXCEPT !.count = @ + 1, !.flushed = TRUE,
                         !.pending = IF worker.flushed THEN [token |-> o.text[k + 1], why |-> why] ELSE @,
                         !.pc = IF stopping[c] THEN "close" ELSE @,
                         !.done = ~stopping[c] /\ why # None]
    BY <1>1, <1>3, <1>6, <1>7 DEF Consume
  <2>2. WorkerOK
    BY DEF TInv
  <2> QED
    BY <1>1, <1>2, <1>3, <1>5, <2>1, <2>2 DEF WorkerOK
<1>10. (worker.flushed <=> k > 0) /\ ~Told(w, q) /\ Sent(g, q) = (IF k > 1 THEN k - 1 ELSE k)
       /\ worker.pending = IF k > 1 THEN [token |-> o.text[k], why |-> Due(o, k)] ELSE NoPending
  <2>1. k = 1 => Due(o, 1) = None
    BY <1>5
  <2> QED
    BY <1>3, <2>1 DEF Counted
<1>11. \A n \in 1 .. (k + 1) - 1 : Due(o, n) = None
  BY <1>5
\* What is put: nothing, or the token that comes next in the queue.
<1> DEFINE Next1(n) == /\ \E m \in Message : /\ Put(<<m>>) /\ m.kind = "token"
                                             /\ m.token = o.text[n] /\ m.why = Due(o, n)
                       /\ n = Sent(g, q) + 1 /\ n \in 1 .. o.limit
<1>12. IF k = 1 THEN Put(<< >>) ELSE \E n \in {k, k + 1} : Next1(n) /\ n = (IF k = 0 THEN 1 ELSE k)
  <2>1. CASE k = 0
    <3>1. ~worker.flushed
      BY <1>10, <2>1
    <3>2. Put(<<Response(o.text[1], why)>>)
      BY <1>3, <1>6, <1>7, <2>1, <3>1 DEF Consume
    <3>3. o.text[1] \in Token /\ 1 \in 1 .. o.limit
      BY <1>6, <1>8, <2>1
    <3>4. PICK m \in Message : m = Response(o.text[1], why)
      BY <3>3, MessagesOK
    <3>5. m.kind = "token" /\ m.token = o.text[1] /\ m.why = why
      BY <3>4 DEF Response
    <3>6. why = Due(o, 1) /\ Sent(g, q) = 0
      BY <1>2, <1>10, <2>1
    <3>7. Next1(1)
      BY <3>2, <3>3, <3>4, <3>5, <3>6
    <3> QED
      BY <2>1, <3>7
  <2>2. CASE k = 1
    <3>1. worker.flushed /\ worker.pending = NoPending
      BY <1>10, <2>2
    <3> QED
      BY <1>3, <2>2, <3>1 DEF Consume
  <2>3. CASE k > 1
    <3>1. worker.flushed /\ worker.pending = [token |-> o.text[k], why |-> Due(o, k)]
      BY <1>10, <2>3
    <3>2. o.text[k] \in Token /\ k \in 1 .. o.limit /\ Due(o, k) \in Reason
      BY <1>4, <1>6, <1>8, <2>3, DueOK
    <3>3. worker.pending # NoPending
      BY <3>1, <3>2, NoneAssumption DEF NoPending, None
    <3>4. Put(<<Response(worker.pending.token, worker.pending.why)>>)
      BY <1>3, <3>1, <3>3 DEF Consume
    <3>5. PICK m \in Message : m = Response(o.text[k], Due(o, k))
      BY <3>2, MessagesOK
    <3>6. m.kind = "token" /\ m.token = o.text[k] /\ m.why = Due(o, k)
      BY <3>5 DEF Response
    <3>7. Put(<<m>>)
      BY <3>1, <3>4, <3>5
    <3>8. k = Sent(g, q) + 1
      BY <1>10, <2>3
    <3>9. Next1(k)
      BY <3>2, <3>6, <3>7, <3>8
    <3> QED
      BY <2>3, <3>9
  <2> QED
    BY <2>1, <2>2, <2>3
\* What the queue is then.
<1>13. /\ Readers' /\ Unended(rqueue[c])'
       /\ Sent(g, rqueue'[c]) = (IF k > 0 THEN k ELSE 1)
       /\ Told(w, rqueue'[c]) <=> k = 0 /\ why # None
  <2>1. CASE k = 1
    <3>1. Put(<< >>)
      BY <1>12, <2>1
    <3>2. rqueue' = rqueue
      <4>1. rqueue \in [Client -> Seq(Message)] /\ rqueue' = [rqueue EXCEPT ![c] = @ \o << >>]
        BY <1>1, <3>1 DEF Put, TInv
      <4>2. q \o << >> = q
        BY <1>4
      <4> QED
        BY <4>1, <4>2
    <3>3. Readers'
      BY <1>3, <1>4, <3>2, Silent
    <3> QED
      BY <1>3, <1>10, <2>1, <3>2, <3>3
  <2>2. CASE k # 1
    <3>1. PICK n \in {k, k + 1} : Next1(n) /\ n = (IF k = 0 THEN 1 ELSE k)
      BY <1>12, <2>2
    <3>2. PICK m \in Message : /\ Put(<<m>>) /\ m.kind = "token"
                               /\ m.token = o.text[n] /\ m.why = Due(o, n)
      BY <3>1
    <3>3. n = Sent(g, q) + 1 /\ n \in 1 .. o.limit /\ n \in Nat
      BY <3>1
    <3>4. InText(o, Sent(g, q) + 1, m)
      BY <1>4, <3>2, <3>3, DueOK DEF InText
    <3>5. PICK r : Longer(q, m, r)
      BY DEF Longer
    <3>6. Reply(o, g, w, r) /\ Unended(r) /\ Sent(g, r) = n /\ (Told(w, r) <=> m.why # None)
      BY <1>3, <1>4, <1>10, <3>2, <3>3, <3>4, <3>5, PutToken
    <3>7. <<m>> \in Seq(Message) /\ r = rqueue[c] \o <<m>>
      BY <3>5 DEF Longer
    <3>8. rqueue'[c] = r
      BY <1>1, <3>2, <3>7, PutQueue
    <3>9. ~HasEnd(c)'
      BY <3>6, <3>8 DEF HasEnd, Unended, Closing
    <3>10. Readers'
      BY <1>1, <1>3, <1>4, <3>2, <3>6, <3>7, <3>9, Speaks
    <3>11. n = (IF k > 0 THEN k ELSE 1) /\ (m.why # None <=> k = 0 /\ why # None)
      <4>1. CASE k = 0
        BY <1>2, <3>1, <3>2, <4>1
      <4>2. CASE k # 0
        <5>1. n = k /\ k > 0 /\ k \in 1 .. k
          BY <3>1, <4>2
        <5> QED
          BY <1>5, <3>2, <4>2, <5>1
      <4> QED
        BY <4>1, <4>2
    <3> QED
      BY <3>6, <3>8, <3>10, <3>11
  <2> QED
    BY <2>1, <2>2
<1>14. Counted(c, worker.count)'
  <2> DEFINE j == k + 1
  <2>1. j \in 0 .. Len(output') /\ j > 0
    BY <1>6
  <2>2. worker'.pending = IF j > 1 THEN [token |-> o.text[j], why |-> Due(o, j)] ELSE NoPending
    BY <1>2, <1>9, <1>10
  <2>3. Sent(g, rqueue'[c]) = IF j > 1 THEN j - 1 ELSE j
    BY <1>13
  <2>4. Told(w, rqueue'[c]) <=> j = 1 /\ Due(o, 1) # None
    <3>1. k = 0 => why = Due(o, 1)
      BY <1>2
    <3> QED
      BY <1>13, <3>1
  <2>5. worker'.done => j > 0 /\ Due(o, j) # None
    BY <1>2, <1>9, <2>1
  <2>6. (worker'.flushed <=> j > 0) /\ worker'.count = j
    BY <1>9, <2>1
  <2> HIDE DEF j
  <2> QED
    BY <1>3, <1>11, <2>1, <2>2, <2>3, <2>4, <2>5, <2>6 DEF Counted, j
<1>15. worker'.pc = "pull" => Pulling(c)'
  <2>1. ASSUME worker'.pc = "pull", ~worker'.done
        PROVE  \A n \in 1 .. k + 1 : Due(o, n) = None
    <3>1. why = None
      BY <1>9, <2>1
    <3>2. \A n \in 1 .. k + 1 : n \in 1 .. k \/ n = k + 1
      OBVIOUS
    <3> QED
      BY <1>2, <1>5, <3>1, <3>2
  <2> QED
    BY <1>3, <1>6, <1>9, <2>1 DEF Pulling
<1>16. worker'.pc = "close" => Pulled(c)'
  BY <1>3, <1>9 DEF Pulled
<1>17. Served(c)'
  <2>1. worker'.pc \in {"pull", "close"}
    BY <1>9
  <2> QED
    BY <1>6, <1>13, <1>14, <1>15, <1>16, <2>1 DEF Served
<1> QED
  BY <1>9, <1>13, <1>17 DEF PInv, Serving

LEMMA PInvSubmit ==
  ASSUME TInv, SInv, PInv, NEW d \in Client, Submit(d)
  PROVE  PInv'
<1>1. /\ fate[d] = "new" /\ fate' = [fate EXCEPT ![d] = "waiting"] /\ requests' = Append(requests, d)
      /\ UNCHANGED <<options, worker, greedy, limit, output, got, reason, stopping, rqueue>>
      /\ requests \in Seq(Client) /\ Fresh(d) /\ Readers
  BY DEF Submit, engine, TInv, Fresh, PInv
<1>2. \A c \in Client : Fresh(c)' => Fresh(c)
  <2>1. \A i \in 1 .. Len(requests') :
          (i \in 1 .. Len(requests) /\ requests'[i] = requests[i]) \/ requests'[i] = d
    BY <1>1
  <2>2. \A c \in Client : c # d => fate'[c] = fate[c]
    BY <1>1 DEF TInv
  <2> QED
    BY <1>1, <2>1, <2>2 DEF Fresh
<1>3. \A c \in Client : (fate[c] = "left" => fate'[c] = "left") /\ (Complete(c) => Complete(c)')
  <2>1. \A c \in Client : fate[c] = "left" => fate'[c] = "left"
    BY <1>1 DEF TInv
  <2> QED
    BY <1>1, <2>1 DEF Complete
<1>4. Readers'
  BY <1>1, <1>2, <1>3 DEF Readers, Kept, HasEnd, Untouched
<1>5. ASSUME NEW c \in Client, Served(c) PROVE Served(c)'
  <2>1. Begun(c)' <=> Begun(c)
    BY <1>1 DEF Begun, Untouched
  <2>2. \A k : Counted(c, k)' <=> Counted(c, k)
    BY <1>1 DEF Counted
  <2>3. (Produced(c)' <=> Produced(c)) /\ (Pulling(c)' <=> Pulling(c)) /\ (Pulled(c)' <=> Pulled(c))
    BY <1>1 DEF Produced, Pulling, Pulled
  <2> QED
    BY <1>1, <1>3, <1>5, <2>1, <2>2, <2>3 DEF Served
<1> QED
  BY <1>1, <1>4, <1>5 DEF PInv, Serving

\* Leaving completes a reply, as nobody reads on.
LEMMA PInvLeave ==
  ASSUME TInv, SInv, PInv, NEW d \in Client, Leave(d)
  PROVE  PInv'
<1>1. /\ fate[d] = "reading" /\ fate' = [fate EXCEPT ![d] = "left"]
      /\ \E tells \in BOOLEAN : stopping' = [stopping EXCEPT ![d] = tells]
      /\ UNCHANGED <<options, requests, worker, greedy, limit, output, got, reason, rqueue>>
      /\ Readers /\ fate'[d] = "left"
  BY DEF Leave, engine, TInv, PInv
<1>2. \A c \in Client : c # d => fate'[c] = fate[c] /\ stopping'[c] = stopping[c]
  BY <1>1 DEF TInv, Readers
<1>3. \A c \in Client : (fate[c] = "left" => fate'[c] = "left") /\ (Complete(c) => Complete(c)')
                        /\ (stopping[c] => stopping'[c])
  <2>1. \A c \in Client : fate[c] = "left" => fate'[c] = "left"
    BY <1>1, <1>2
  <2>2. ~stopping[d]
    BY <1>1 DEF Readers
  <2> QED
    BY <1>1, <1>2, <2>1, <2>2 DEF Complete
<1>4. Readers'
  <2>1. stopping' \in [Client -> BOOLEAN]
    BY <1>1 DEF Readers
  <2>2. \A c \in Client : stopping'[c] => fate'[c] = "left"
    BY <1>1, <1>2 DEF Readers
  <2>3. \A c \in Client : Fresh(c)' => Fresh(c)
    BY <1>1, <1>2 DEF Fresh
  <2> QED
    BY <1>1, <1>3, <2>1, <2>2, <2>3 DEF Readers, Kept, HasEnd, Untouched
<1>5. ASSUME NEW c \in Client, Served(c) PROVE Served(c)'
  <2>1. Begun(c)' <=> Begun(c)
    BY <1>1 DEF Begun, Untouched
  <2>2. \A k : Counted(c, k)' <=> Counted(c, k)
    BY <1>1 DEF Counted
  <2>3. (Produced(c)' <=> Produced(c)) /\ (Pulling(c)' <=> Pulling(c))
    BY <1>1 DEF Produced, Pulling
  <2>4. Pulled(c) => Pulled(c)'
    BY <1>1, <1>3 DEF Pulled
  <2> QED
    BY <1>1, <1>3, <1>5, <2>1, <2>2, <2>3, <2>4 DEF Served
<1> QED
  BY <1>1, <1>4, <1>5 DEF PInv, Serving

\* Taking the first message from a queue, and what it says of the reply.
LEMMA Receives ==
  ASSUME TInv, SInv, PInv, NEW d \in Client, Receive(d)
  PROVE  /\ Readers' /\ rqueue[d] # << >>
         /\ Reply(options[d], got'[d], reason'[d], rqueue'[d]) /\ got'[d] \in Seq(Token)
         /\ Told(reason'[d], rqueue'[d]) <=> Told(reason[d], rqueue[d])
         /\ Unended(rqueue[d]) => /\ Unended(rqueue'[d])
                                  /\ Sent(got'[d], rqueue'[d]) = Sent(got[d], rqueue[d])
         /\ \A c \in Client \ {d} :
              /\ got'[c] = got[c] /\ reason'[c] = reason[c] /\ rqueue'[c] = rqueue[c]
              /\ fate'[c] = fate[c]
         /\ fate[d] \in {"waiting", "reading"}
         /\ Head(rqueue[d]).kind # "token" => got' = got /\ reason' = reason
         /\ Head(rqueue[d]).kind = "token" =>
              /\ reason[d] = None /\ got' = [got EXCEPT ![d] = Append(@, options[d].text[Len(@) + 1])]
              /\ reason' = [reason EXCEPT ![d] = Head(rqueue[d]).why]
              /\ Fits(options[d], Len(got'[d]), Head(rqueue[d]).why)
              /\ got'[d] = SubSeq(options[d].text, 1, Len(got'[d]))
         /\ Head(rqueue[d]).kind = "end" => Complete(d) /\ Len(rqueue[d]) = 1
<1> DEFINE o == options[d]  g == got[d]  w == reason[d]  q == rqueue[d]
<1>1. /\ q \in Seq(Message) /\ g \in Seq(Token) /\ w \in Reason /\ Valid(o) /\ Reply(o, g, w, q)
      /\ Readers /\ q # << >> /\ fate[d] \in {"waiting", "reading"}
      /\ UNCHANGED <<options, requests, worker, stopping>>
      /\ got \in [Client -> Seq(Token)] /\ reason \in [Client -> Reason]
      /\ rqueue \in [Client -> Seq(Message)] /\ fate \in [Client -> Fates]
  BY QueueTyped DEF PInv, Receive, TInv, Readers
<1>2. PICK m \in Message : m = Head(q)
  BY <1>1
<1>3. /\ rqueue' = [rqueue EXCEPT ![d] = Tail(@)]
      /\ got' = IF m.kind = "token" THEN [got EXCEPT ![d] = Append(@, m.token)] ELSE got
      /\ reason' = IF m.why # None THEN [reason EXCEPT ![d] = m.why] ELSE reason
  BY <1>2 DEF Receive
<1>4. PICK r, g2, w2 : Reads(m, g, w, q, g2, w2, r)
  BY <1>2 DEF Reads
<1>5. rqueue'[d] = r /\ got'[d] = g2 /\ reason'[d] = w2
  BY <1>1, <1>3, <1>4 DEF Reads
<1>6. /\ Reply(o, g2, w2, r) /\ g2 \in Seq(Token)
      /\ Told(w2, r) <=> Told(w, q)
      /\ Unended(q) => Unended(r) /\ Sent(g2, r) = Sent(g, q)
      /\ m.kind # "token" => m.why = None
      /\ m.kind = "token" => /\ w = None /\ g2 = Append(g, o.text[Len(g) + 1])
                             /\ Fits(o, Len(g2), m.why) /\ g2 = SubSeq(o.text, 1, Len(g2))
      /\ Closing(m) => Len(q) = 1
  BY <1>1, <1>2, <1>4, ReadOne
<1>7. \A c \in Client \ {d} :
        /\ got'[c] = got[c] /\ reason'[c] = reason[c] /\ rqueue'[c] = rqueue[c] /\ fate'[c] = fate[c]
  BY <1>1, <1>3 DEF Receive
<1>8. /\ m.kind # "token" => got' = got /\ reason' = reason
      /\ m.kind = "token" =>
           /\ w = None /\ got' = [got EXCEPT ![d] = Append(@, o.text[Len(@) + 1])]
           /\ reason' = [reason EXCEPT ![d] = m.why]
  <2>1. CASE m.kind = "token"
    <3>1. w = None /\ Append(g, m.token) = Append(g, o.text[Len(g) + 1])
      BY <1>4, <1>6, <2>1 DEF Reads
    <3>2. got' = [got EXCEPT ![d] = Append(@, o.text[Len(@) + 1])]
      BY <1>1, <1>3, <2>1, <3>1
    <3>3. reason' = [reason EXCEPT ![d] = m.why]
      BY <1>1, <1>3, <3>1
    <3> QED
      BY <2>1, <3>1, <3>2, <3>3
  <2>2. CASE m.kind # "token"
    BY <1>3, <1>6, <2>2
  <2> QED
    BY <2>1, <2>2
<1>9. m.kind = "end" => Complete(d) /\ Len(q) = 1
  <2>1. ASSUME m.kind = "end" PROVE HasEnd(d) /\ Closing(m)
    <3>1. 1 \in 1 .. Len(q) /\ q[1] = m
      BY <1>1, <1>2
    <3> QED
      BY <2>1, <3>1 DEF HasEnd, Closing
  <2> QED
    BY <1>1, <1>6, <2>1 DEF Readers, Kept
<1>10. HasEnd(d)' => HasEnd(d)
  <2>1. \A i \in 1 .. Len(r) : i + 1 \in 1 .. Len(q) /\ r[i] = q[i + 1]
    BY <1>1, <1>4 DEF Reads
  <2> QED
    BY <1>5, <2>1 DEF HasEnd
<1>11. \A c \in Client : Fresh(c)' => Fresh(c) /\ c # d
  <2>1. ~Fresh(d) /\ fate'[d] # "new"
    <3>1. ~Fresh(d)
      BY <1>1 DEF SInv, FreshInv
    <3>2. fate'[d] # "new"
      BY <1>1 DEF Receive
    <3> QED
      BY <3>1, <3>2
  <2> QED
    BY <1>1, <1>7, <2>1 DEF Fresh
<1>12. Readers'
  <2>1. got' \in [Client -> Seq(Token)] /\ stopping' \in [Client -> BOOLEAN]
    <3>1. \A c \in Client : got'[c] \in Seq(Token)
      BY <1>1, <1>5, <1>6, <1>7
    <3>2. got' = [c \in Client |-> got'[c]]
      BY <1>1, <1>3
    <3> QED
      BY <1>1, <3>1, <3>2 DEF Readers
  <2>2. Kept(d)'
    <3>1. HasEnd(d)' => Complete(d)'
      <4>1. ASSUME HasEnd(d)' PROVE Complete(d)'
        <5>1. Complete(d) /\ fate[d] # "left"
          BY <1>1, <1>10, <4>1 DEF Readers, Kept
        <5> QED
          BY <1>1, <1>5, <1>6, <5>1 DEF Complete
      <4> QED
        BY <4>1
    <3> QED
      BY <1>1, <1>5, <1>6, <3>1 DEF Kept
  <2>3. \A c \in Client \ {d} : Kept(c)'
    BY <1>1, <1>7 DEF Readers, Kept, Complete, HasEnd
  <2>4. \A c \in Client : Fresh(c)' => Untouched(c)'
    BY <1>1, <1>7, <1>11 DEF Readers, Untouched
  <2>5. \A c \in Client : stopping'[c] => fate'[c] = "left"
    BY <1>1, <1>7 DEF Readers
  <2> QED
    BY <2>1, <2>2, <2>3, <2>4, <2>5 DEF Readers
<1> QED
  BY <1>1, <1>2, <1>5, <1>6, <1>7, <1>8, <1>9, <1>12

LEMMA PInvReceive ==
  ASSUME TInv, SInv, PInv, NEW d \in Client, Receive(d)
  PROVE  PInv'
<1>1. /\ UNCHANGED <<options, requests, worker, greedy, limit, output, stopping>> /\ Readers'
  BY Receives DEF Receive, engine
<1>2. ASSUME NEW c \in Client, Served(c), c = worker.client, c # d PROVE Served(c)'
  <2>1. got'[c] = got[c] /\ reason'[c] = reason[c] /\ rqueue'[c] = rqueue[c] /\ fate'[c] = fate[c]
    BY <1>2, Receives
  <2>2. Begun(c)' <=> Begun(c)
    BY <1>1, <2>1 DEF Begun, Untouched
  <2>3. \A k : Counted(c, k)' <=> Counted(c, k)
    BY <1>1, <2>1 DEF Counted
  <2>4. (Produced(c)' <=> Produced(c)) /\ (Pulling(c)' <=> Pulling(c)) /\ (Pulled(c)' <=> Pulled(c))
        /\ (Complete(c)' <=> Complete(c))
    BY <1>1, <2>1 DEF Produced, Pulling, Pulled, Complete
  <2> QED
    BY <1>1, <1>2, <2>1, <2>2, <2>3, <2>4 DEF Served
<1>3. ASSUME Served(d), d = worker.client PROVE Served(d)'
  <2>1. /\ rqueue[d] # << >> /\ fate[d] # "left"
        /\ Told(reason'[d], rqueue'[d]) <=> Told(reason[d], rqueue[d])
        /\ Unended(rqueue[d]) => /\ Unended(rqueue'[d])
                                 /\ Sent(got'[d], rqueue'[d]) = Sent(got[d], rqueue[d])
    BY Receives
  <2>2. worker.pc \notin {"target", "prepare"}
    BY <1>3, <2>1 DEF Served
  <2>3. worker.pc # "record target" => Unended(rqueue[d])
    BY <1>3 DEF Served
  <2>4. worker.pc = "lookup" => Begun(d)'
    <3>1. ASSUME worker.pc = "lookup" PROVE Begun(d)'
      <4>1. Begun(d) /\ Unended(rqueue[d])
        BY <1>3, <3>1 DEF Served
      <4>2. Head(rqueue[d]).kind # "token"
        <5>1. ASSUME Head(rqueue[d]).kind = "token" PROVE FALSE
          <6>1. /\ rqueue[d] \in Seq(Message) /\ got[d] \in Seq(Token)
                /\ rqueue[d][1].kind # "ctx"
            BY <2>1, <5>1, QueueTyped DEF PInv
          <6>2. CtxIn(rqueue[d]) = 0
            BY <6>1 DEF CtxIn
          <6>3. Sent(got[d], rqueue[d]) > 0
            <7>0. Len(rqueue[d]) \in Nat /\ Len(rqueue[d]) > 0 /\ Len(got[d]) \in Nat
              BY <2>1, <6>1
            <7>1. PICK a \in Nat : a = Len(got[d])
              BY <7>0
            <7>2. PICK b \in Nat : b = Len(rqueue[d]) /\ b > 0
              BY <7>0
            <7>3. a + b - 0 > 0
              BY <7>2
            <7> QED
              BY <6>2, <7>1, <7>2, <7>3 DEF Sent
          <6> QED
            BY <4>1, <6>3 DEF Begun
        <5> QED
          BY <5>1
      <4>3. got' = got /\ reason' = reason
        BY <4>2, Receives
      <4> QED
        BY <1>1, <2>1, <4>1, <4>3 DEF Begun, Untouched
    <3> QED
      BY <3>1
  <2>5. \A k : Unended(rqueue[d]) /\ Counted(d, k) => Counted(d, k)'
    BY <1>1, <2>1 DEF Counted
  <2>6. (Produced(d)' <=> Produced(d)) /\ (Pulling(d)' <=> Pulling(d)) /\ (Pulled(d)' <=> Pulled(d))
    BY <1>1 DEF Produced, Pulling, Pulled
  <2>7. Complete(d) => Complete(d)'
    BY <1>1, <2>1 DEF Complete
  <2> QED
    BY <1>1, <1>3, <2>1, <2>2, <2>3, <2>4, <2>5, <2>6, <2>7 DEF Served
<1> QED
  BY <1>1, <1>2, <1>3 DEF PInv, Serving

LEMMA PInvStep == TInv /\ SInv /\ PInv /\ [Next]_vars => PInv'
<1> SUFFICES ASSUME TInv, SInv, PInv, [Next]_vars PROVE PInv'
  OBVIOUS
<1>1. CASE TakeTargetOnly \/ Take
  BY <1>1, PInvTake
<1>2. CASE ServeTargetOnly
  BY <1>2, PInvServeTargetOnly
<1>3. CASE RecordTargetOnly
  <2>1. UNCHANGED <<options, requests, got, reason, fate, stopping, rqueue>> /\ worker' = Idle
    BY <1>3 DEF RecordTargetOnly, handlers
  <2> QED
    BY <2>1, Silent, PInvIdle DEF PInv
<1>4. CASE Prepare
  BY <1>4, PInvPrepare
<1>5. CASE Begin
  BY <1>5, PInvBegin
<1>6. CASE PullToken
  BY <1>6, PInvDrop, PInvConsume
<1>7. CASE PullSummary \/ EngineRaises
  BY <1>7, PInvStops
<1>8. CASE CloseEngine \/ EndRequest
  BY <1>8, PInvCloses
<1>9. CASE Flush
  BY <1>9, PInvFlush
<1>10. CASE Finalize
  BY <1>10, PInvFinalize
<1>11. CASE Answer \/ Fail
  BY <1>11, PInvEnds
<1>12. CASE Handle
  BY <1>12, PInvSubmit, PInvReceive, PInvLeave DEF Handle
<1>13. CASE UNCHANGED vars
  <2>1. UNCHANGED <<options, requests, worker, greedy, limit, output, got, reason, fate, stopping, rqueue>>
    BY <1>13 DEF vars, engine, handlers
  <2>2. Readers'
    BY <2>1, Silent DEF PInv
  <2>3. Serving'
    BY <2>1 DEF PInv, Serving, Served, Begun, Untouched, Counted, Produced, Pulling, Pulled, Complete
  <2> QED
    BY <2>2, <2>3 DEF PInv
<1> QED
  BY <1>1, <1>2, <1>3, <1>4, <1>5, <1>6, <1>7, <1>8, <1>9, <1>10, <1>11, <1>12, <1>13
  DEF Next, Serve

-----------------------------------------------------------------------------
\* What the reader of a reply sees of its fate.
Bar == [c \in Client |-> IF fate[c] \in {"new", "waiting", "reading"} THEN "open" ELSE fate[c]]

LEMMA BarKept ==
  ASSUME TInv, NEW d \in Client, NEW f, fate' = [fate EXCEPT ![d] = f]
  PROVE  Bar' = [Bar EXCEPT ![d] = IF f \in {"new", "waiting", "reading"} THEN "open" ELSE f]
  BY DEF Bar, TInv

\* Every step of the request path is a step of the promise, or none.
LEMMA PromiseStep ==
  TInv /\ SInv /\ PInv /\ [Next]_vars => [ReplyKept!Next]_(ReplyKept!vars)
<1> SUFFICES ASSUME TInv, SInv, PInv, [Next]_vars
             PROVE  ReplyKept!Next \/ UNCHANGED <<options, got, reason, Bar>>
  BY DEF ReplyKept!vars, Bar
<1>1. ASSUME UNCHANGED <<options, got, reason, fate>> PROVE UNCHANGED <<options, got, reason, Bar>>
  BY <1>1 DEF Bar
<1>2. CASE Serve \/ UNCHANGED vars
  <2>1. UNCHANGED <<options, got, reason, fate>>
    BY <1>2 DEF Serve, TakeTargetOnly, ServeTargetOnly, RecordTargetOnly, Take, Prepare, Begin,
       PullToken, PullSummary, EngineRaises, CloseEngine, EndRequest, Flush, Finalize, Answer, Fail,
       handlers, vars
  <2> QED
    BY <1>1, <2>1
<1>3. ASSUME NEW d \in Client, Submit(d) PROVE UNCHANGED <<options, got, reason, Bar>>
  <2>1. fate[d] = "new" /\ fate' = [fate EXCEPT ![d] = "waiting"] /\ UNCHANGED <<options, got, reason>>
    BY <1>3 DEF Submit
  <2>2. Bar' = [Bar EXCEPT ![d] = "open"]
    BY <2>1, BarKept
  <2> QED
    BY <2>1, <2>2 DEF Bar
<1>4. ASSUME NEW d \in Client, Leave(d) PROVE ReplyKept!Next
  <2>1. /\ fate[d] = "reading" /\ fate' = [fate EXCEPT ![d] = "left"]
        /\ UNCHANGED <<options, got, reason>>
    BY <1>4 DEF Leave
  <2>2. Bar' = [Bar EXCEPT ![d] = "left"] /\ Bar[d] = "open"
    BY <2>1, BarKept DEF Bar
  <2>3. ReplyKept!Break(d)
    BY <2>1, <2>2 DEF ReplyKept!Break, Bar
  <2> QED
    BY <2>3 DEF ReplyKept!Next
<1>5. ASSUME NEW d \in Client, Receive(d)
      PROVE  ReplyKept!Next \/ UNCHANGED <<options, got, reason, Bar>>
  <2> DEFINE m == Head(rqueue[d])
  <2>1. /\ UNCHANGED options /\ fate[d] \in {"waiting", "reading"} /\ m.kind \in {"ctx", "token", "end", "error"}
        /\ fate' = [fate EXCEPT ![d] = CASE m.kind = "end" -> "answered"
                                         [] m.kind = "error" -> "failed"
                                         [] OTHER -> "reading"]
    <3>1. rqueue[d] \in Seq(Message) /\ rqueue[d] # << >>
      BY <1>5 DEF Receive, TInv
    <3>2. m \in Message
      BY <3>1
    <3> QED
      BY <1>5, <3>2 DEF Receive, Message
  <2>2. Bar[d] = "open" /\ [Bar EXCEPT ![d] = "open"] = Bar
    BY <2>1 DEF Bar
  <2>3. CASE m.kind = "ctx"
    <3>1. fate' = [fate EXCEPT ![d] = "reading"] /\ got' = got /\ reason' = reason
      BY <1>5, <2>1, <2>3, Receives
    <3>2. Bar' = [Bar EXCEPT ![d] = "open"]
      BY <3>1, BarKept
    <3> QED
      BY <2>1, <2>2, <3>1, <3>2
  <2>4. CASE m.kind = "token"
    <3>1. /\ reason[d] = None /\ got' = [got EXCEPT ![d] = Append(@, options[d].text[Len(@) + 1])]
          /\ reason' = [reason EXCEPT ![d] = m.why]
          /\ Fits(options[d], Len(got'[d]), m.why)
          /\ got'[d] = SubSeq(options[d].text, 1, Len(got'[d]))
      BY <1>5, <2>4, Receives
    <3>2. fate' = [fate EXCEPT ![d] = "reading"]
      BY <2>1, <2>4
    <3>3. Bar' = [Bar EXCEPT ![d] = "open"]
      BY <3>2, BarKept
    <3>4. Bar' = Bar
      BY <2>2, <3>3
    <3>5. Ended(options[d], Len(got'[d])) <=> Promise!Stopped(options[d], got'[d])
      BY <3>1 DEF Ended
    <3>6. Promise!Stopped(options[d], got'[d]) <=> ReplyKept!Stopped(options[d], got'[d])
      BY DEF Promise!Stopped, ReplyKept!Stopped, Promise!Last, ReplyKept!Last,
         Promise!IsSuffix, ReplyKept!IsSuffix, Promise!IsPrefix, ReplyKept!IsPrefix,
         Promise!Reverse, ReplyKept!Reverse
    <3>7. /\ m.why \in {"none", "stop", "length"}
          /\ m.why = "none" <=> ~ReplyKept!Stopped(options[d], got'[d]) /\ Len(got'[d]) < options[d].limit
          /\ m.why = "stop" => ReplyKept!Stopped(options[d], got'[d])
          /\ m.why = "length" =>
               Len(got'[d]) >= options[d].limit \/ ReplyKept!RunsOn(options[d])
      BY <3>1, <3>5, <3>6 DEF Fits, Reason, None, Promise!RunsOn, ReplyKept!RunsOn
    <3>8. ReplyKept!Read(d)
      BY <2>1, <2>2, <3>1, <3>4, <3>7 DEF ReplyKept!Read, Bar, None
    <3> QED
      BY <3>8 DEF ReplyKept!Next
  <2>5. CASE m.kind = "end"
    <3>1. Complete(d) /\ Len(rqueue[d]) = 1 /\ got' = got /\ reason' = reason
      BY <1>5, <2>5, Receives
    <3>2. reason[d] # None \/ options[d].limit = 0
      <4>1. rqueue[d] \in Seq(Message) /\ Reply(options[d], got[d], reason[d], rqueue[d])
        BY QueueTyped DEF PInv
      <4>2. \A i \in 1 .. Len(rqueue[d]) : rqueue[d][i] = m
        BY <3>1, <4>1
      <4>3. 1 \in 1 .. Len(rqueue[d]) /\ rqueue[d][1] = m
        BY <3>1, <4>2
      <4>4. m.why = None
        BY <2>5, <4>1, <4>3 DEF Reply, MessageFits
      <4> QED
        BY <2>1, <3>1, <4>2, <4>4 DEF Complete, Told
    <3>3. fate' = [fate EXCEPT ![d] = "answered"]
      BY <2>1, <2>5
    <3>4. Bar' = [Bar EXCEPT ![d] = "answered"]
      BY <3>3, BarKept
    <3>5. ReplyKept!Answer(d)
      BY <2>1, <2>2, <3>1, <3>2, <3>4 DEF ReplyKept!Answer, Bar, None
    <3> QED
      BY <3>5 DEF ReplyKept!Next
  <2>6. CASE m.kind = "error"
    <3>1. fate' = [fate EXCEPT ![d] = "failed"] /\ got' = got /\ reason' = reason
      BY <1>5, <2>1, <2>6, Receives
    <3>2. Bar' = [Bar EXCEPT ![d] = "failed"]
      BY <3>1, BarKept
    <3>3. ReplyKept!Break(d)
      BY <2>1, <2>2, <3>1, <3>2 DEF ReplyKept!Break, Bar
    <3> QED
      BY <3>3 DEF ReplyKept!Next
  <2> QED
    BY <2>1, <2>3, <2>4, <2>5, <2>6
<1> QED
  BY <1>2, <1>3, <1>4, <1>5 DEF Next, Handle

\* The request path implements the promise to the readers: whatever raises,
\* whoever leaves and however far the engine overruns, each reader gets the
\* model's text in order, its finish reason with the last token, and one end.
THEOREM PromiseIsKept == Spec => KeepsPromise
<1>1. Init => ReplyKept!Init
  BY DEF Init, ReplyKept!Init, None
<1>2. PInv /\ TInv /\ SInv /\ [Next]_vars => [ReplyKept!Next]_(ReplyKept!vars)
  BY PromiseStep
<1> QED
  BY <1>1, <1>2, TInvInit, TInvStep, SInvInit, SInvStep, PInvInit, PInvStep, PTL
  DEF Spec, KeepsPromise, ReplyKept!Spec

==============================================================================
