----------------------------- MODULE ServerProofs -----------------------------
(***************************************************************************)
(* Proofs about the threads of the server, for any number of handlers,     *)
(* models and requests, whatever clients ask for.                          *)
(***************************************************************************)
EXTENDS Server, SequenceTheorems, TLAPS

Reasons == {"stop", "length"}
Kinds == {"ValueError", "other"}
Errors == {Error(kind) : kind \in Kinds}
Signal == {Ctx, End} \cup Errors \cup {Item(reason) : reason \in Reasons \cup {None}}
ReplyFields == {"buffer", "status", "final", "fate", "fault"}
WorkerPc == {"load", "core", "meta", "key", "serve", "produce", "idle", "stopped"}

\* Only these fields of a handler and of a reply are spoken of.
Types ==
  /\ asked \in Seq(DOMAIN Ask) /\ Len(asked) <= MaxRequests
  /\ tracked \in Reasons \cup {None}
  /\ waiting \in Seq(1 .. Len(asked))
  /\ worker \in [pc : WorkerPc, request : 0 .. Len(asked), put : Nat]
  /\ rqueue \in [Request -> Seq(Signal)]
  /\ DOMAIN handler = Handler /\ DOMAIN reply = Request
  /\ \A h \in Handler :
       /\ {"pc", "request", "responses", "started", "reason"} \subseteq DOMAIN handler[h]
       /\ handler[h].pc \in {"idle", "generate", "queue", "await", "read", "pass", "complete",
                             "salvage"}
       /\ handler[h].reason \in Reasons \cup {None}
       /\ handler[h].pc # "idle" => handler[h].request \in 1 .. Len(asked)
  /\ \A r \in Request : ReplyFields \subseteq DOMAIN reply[r]

Active(h) == handler[h].pc # "idle"

\* No two handlers serve one request.
Distinct ==
  \A g, h \in Handler :
    Active(g) /\ Active(h) /\ handler[g].request = handler[h].request => g = h

AskedInv == Types /\ Distinct

-----------------------------------------------------------------------------
(* The model of a request, and what the main thread sees of it. *)

Whole(fields) == fields = Unloaded \/ \E m \in Model : fields = [core |-> m, meta |-> m, key |-> m]

\* The fields follow the place of the generation thread.
Published ==
  /\ worker.pc \in {"load", "idle", "stopped"} => Whole(provider)
  /\ worker.pc = "core" => provider = Unloaded
  /\ worker.pc = "meta" => provider = [core |-> Wanted, meta |-> None, key |-> None]
  /\ worker.pc = "key" => provider = [core |-> Wanted, meta |-> Wanted, key |-> None]
  /\ worker.pc \in {"serve", "produce"} =>
       worker.request # 0 /\ provider = [core |-> Wanted, meta |-> Wanted, key |-> Wanted]

Seen ==
  /\ main \in [pc : {"waiting", "serving", "joining", "down"}, told : BOOLEAN, saw : {main.saw}]
  /\ Whole(main.saw)
  /\ main.pc = "serving" => main.saw # Unloaded

ModelInv == Published /\ Seen

-----------------------------------------------------------------------------
(* The queues. *)

Busy(r) == worker.request = r /\ worker.pc \notin {"idle", "stopped"}
Waits(r) == \E i \in DOMAIN waiting : waiting[i] = r

\* Nothing has been put for r, and its handler, if it has one, reads nothing.
Untouched(r) ==
  /\ rqueue[r] = << >>
  /\ \A h \in Handler : Active(h) /\ handler[h].request = r =>
       handler[h].pc \in {"generate", "queue", "await"} /\ handler[h].reason = None

\* Each request is queued once, and served once.
ServedOnce ==
  /\ \A h \in Handler : handler[h].pc \in {"generate", "queue"} =>
       /\ Untouched(handler[h].request)
       /\ ~Busy(handler[h].request) /\ ~Waits(handler[h].request)
  /\ \A i \in DOMAIN waiting :
       /\ Untouched(waiting[i]) /\ ~Busy(waiting[i])
       /\ \A j \in DOMAIN waiting : waiting[j] = waiting[i] => i = j
  /\ worker.pc \in {"load", "core", "meta", "key", "serve"} =>
       worker.put = 0 /\ (worker.request # 0 => Untouched(worker.request))
  /\ \A r \in Request : r > Len(asked) => rqueue[r] = << >>

HasReason(m) == m.is = "item" /\ m.reason # None

\* The context comes first and only there, and no end comes before a reason.
Reasoned(h, n) ==
  \/ handler[h].reason # None
  \/ \E j \in DOMAIN rqueue[handler[h].request] :
       j < n /\ HasReason(rqueue[handler[h].request][j])

Told(h) ==
  LET q == rqueue[handler[h].request] IN
  /\ \A i \in DOMAIN q : q[i] = Ctx => handler[h].pc = "await" /\ i = 1
  /\ handler[h].pc = "await" /\ q # << >> => q[1] \in {Ctx} \cup Errors
  /\ \A i \in DOMAIN q : q[i] = End => Reasoned(h, i)
  /\ worker.pc = "produce" /\ worker.request = handler[h].request =>
       /\ handler[h].pc = "await" => q # << >>
       /\ worker.put >= BodyOf(h).items => Reasoned(h, Len(q) + 1)
  /\ handler[h].pc = "complete" => handler[h].reason # None

QueueInv == ServedOnce /\ \A h \in Handler : Active(h) => Told(h)

-----------------------------------------------------------------------------
(* The replies. *)

\* The reply of a request that is still served is open, and its status is sent
\* or in the buffer exactly when the flag of the handler says so.
Open(h) ==
  LET sent == reply[handler[h].request] IN
  /\ sent.final = {} /\ sent.fate = "open"
  /\ sent.status = IF handler[h].started /\ BodyOf(h).stream THEN <<200>> ELSE << >>
  /\ sent.buffer = IF handler[h].started /\ ~BodyOf(h).stream THEN <<200>> ELSE << >>
  /\ handler[h].pc \in {"generate", "queue", "await"} => ~handler[h].started
  /\ handler[h].pc \in {"read", "pass", "complete", "salvage"} => handler[h].started
  /\ handler[h].pc = "salvage" => Parsed(h) = Refused
  /\ handler[h].responses <=> BodyOf(h).endpoint = "responses"

ReplyInv ==
  /\ ReplyWellFormed
  /\ \A h \in Handler : IF Active(h) THEN Open(h) ELSE ~handler[h].responses
  /\ \A r \in Request : r > Len(asked) => reply[r] = Unsent

ServerInv == AskedInv /\ ModelInv /\ QueueInv /\ ReplyInv

LEMMA InitInv == BoundAssumption /\ Init => ServerInv
<1> SUFFICES ASSUME BoundAssumption, Init PROVE ServerInv
  OBVIOUS
<1>1. /\ << >> \in Seq(DOMAIN Ask) /\ << >> \in Seq(1 .. Len(asked)) /\ << >> \in Seq(Signal)
      /\ Len(asked) = 0 /\ DOMAIN waiting = {}
  BY DEF Init
<1>2. /\ \A h \in Handler :
           /\ {"pc", "request", "responses", "started", "reason"} \subseteq DOMAIN handler[h]
           /\ handler[h].pc = "idle" /\ handler[h].reason = None /\ ~handler[h].responses
      /\ DOMAIN handler = Handler
  BY DEF Init, Fresh
<1>3. /\ \A r \in Request : reply[r] = Unsent /\ ReplyFields \subseteq DOMAIN reply[r]
      /\ DOMAIN reply = Request
  BY DEF Init, Unsent, ReplyFields
<1>4. /\ worker \in [pc : WorkerPc, request : 0 .. Len(asked), put : Nat]
      /\ worker.pc = "load" /\ worker.request = 0 /\ worker.put = 0
  BY <1>1 DEF Init, WorkerPc
<1>5. AskedInv
  BY <1>1, <1>2, <1>3, <1>4 DEF Init, AskedInv, Types, Distinct, Active, BoundAssumption
<1>6. ModelInv
  BY <1>4 DEF Init, ModelInv, Published, Seen, Whole
<1>7. QueueInv
  BY <1>1, <1>2, <1>4 DEF Init, QueueInv, ServedOnce, Active
<1>8. ReplyInv
  BY <1>1, <1>2, <1>3 DEF ReplyInv, ReplyWellFormed, Active
<1> QED
  BY <1>5, <1>6, <1>7, <1>8 DEF ServerInv

-----------------------------------------------------------------------------
(* What the steps of a handler and of the generation thread change. *)

LEMMA Requests ==
  ASSUME BoundAssumption, Types
  PROVE  1 .. Len(asked) \subseteq Request
  BY DEF BoundAssumption, Types, Request

\* A handler that goes on with its request touches nobody else's.
Alone(h) ==
  /\ UNCHANGED <<main, asked, worker, provider>>
  /\ Active(h)
  /\ DOMAIN handler' = Handler /\ \A g \in Handler \ {h} : handler'[g] = handler[g]
  /\ DOMAIN handler'[h] = DOMAIN handler[h] /\ handler'[h].request = handler[h].request
  /\ DOMAIN reply' = Request /\ \A r \in Request \ {handler[h].request} : reply'[r] = reply[r]
  /\ DOMAIN rqueue' = Request /\ \A r \in Request \ {handler[h].request} : rqueue'[r] = rqueue[r]

LEMMA HandlerAtEffect ==
  ASSUME Types, NEW h \in Handler, NEW pc, HandlerAt(h, pc)
  PROVE  /\ DOMAIN handler' = Handler /\ \A g \in Handler \ {h} : handler'[g] = handler[g]
         /\ DOMAIN handler'[h] = DOMAIN handler[h] /\ handler'[h].request = handler[h].request
         /\ handler'[h].pc = pc /\ handler'[h].reason = handler[h].reason
         /\ (handler'[h].started <=> handler[h].started)
         /\ (handler'[h].responses <=> handler[h].responses)
  BY DEF Types, HandlerAt

LEMMA FinishEffect ==
  ASSUME BoundAssumption, Types, NEW h \in Handler, NEW sent, NEW fate, Finish(h, sent, fate),
         Active(h), ReplyFields \subseteq DOMAIN sent
  PROVE  /\ DOMAIN handler' = Handler /\ \A g \in Handler \ {h} : handler'[g] = handler[g]
         /\ DOMAIN handler'[h] = DOMAIN handler[h] /\ handler'[h].request = handler[h].request
         /\ handler'[h].pc = "idle" /\ handler'[h].reason = handler[h].reason
         /\ ~handler'[h].responses
         /\ DOMAIN reply' = Request
         /\ \A r \in Request \ {handler[h].request} : reply'[r] = reply[r]
         /\ ReplyFields \subseteq DOMAIN reply'[handler[h].request]
<1>1. handler[h].request \in Request
  BY Requests DEF Types, Active
<1>2. /\ DOMAIN handler' = Handler /\ \A g \in Handler \ {h} : handler'[g] = handler[g]
      /\ DOMAIN handler'[h] = DOMAIN handler[h] /\ handler'[h].request = handler[h].request
      /\ handler'[h].pc = "idle" /\ handler'[h].reason = handler[h].reason
      /\ ~handler'[h].responses
  BY DEF Types, Finish
<1>3. /\ DOMAIN reply' = Request
      /\ \A r \in Request \ {handler[h].request} : reply'[r] = reply[r]
      /\ reply'[handler[h].request] = [sent EXCEPT !.fate = fate]
  BY <1>1 DEF Types, Finish
<1>4. ReplyFields \subseteq DOMAIN [sent EXCEPT !.fate = fate]
  OBVIOUS
<1> QED
  BY <1>2, <1>3, <1>4

LEMMA FinishReply ==
  ASSUME BoundAssumption, Types, NEW h \in Handler, NEW sent, NEW fate, Finish(h, sent, fate),
         Active(h)
  PROVE  reply'[handler[h].request] = [sent EXCEPT !.fate = fate]
  BY Requests DEF Types, Active, Finish

\* What the steps that only move the handler have in common.
LEMMA MovesEffect ==
  ASSUME BoundAssumption, Types, NEW h \in Handler, NEW pc, Active(h), HandlerAt(h, pc),
         UNCHANGED <<main, asked, worker, provider, rqueue, reply>>
  PROVE  Alone(h)
  BY HandlerAtEffect DEF Alone, Types

LEMMA FinishesEffect ==
  ASSUME BoundAssumption, Types, NEW h \in Handler, NEW sent, NEW fate, Finish(h, sent, fate),
         Active(h), ReplyFields \subseteq DOMAIN sent,
         UNCHANGED <<main, asked, worker, provider, rqueue>>
  PROVE  Alone(h)
  BY FinishEffect DEF Alone, Types

\* The fields a closed reply keeps.
LEMMA ClosedShape ==
  ASSUME NEW sent, ReplyFields \subseteq DOMAIN sent, NEW fate
  PROVE  LET now == [sent EXCEPT !.fate = fate] IN
         /\ now.fate = fate /\ now.buffer = sent.buffer /\ now.status = sent.status
         /\ now.final = sent.final /\ now.fault = sent.fault
  BY DEF ReplyFields

LEMMA SentFields ==
  ASSUME BoundAssumption, Types, NEW h \in Handler, Active(h)
  PROVE  ReplyFields \subseteq DOMAIN Sent(h)
<1>1. handler[h].request \in Request
  BY Requests DEF Types, Active
<1> QED
  BY <1>1 DEF Types, Sent

LEMMA BufferedShape ==
  ASSUME NEW h \in Handler, ReplyFields \subseteq DOMAIN Sent(h), NEW code
  PROVE  /\ ReplyFields \subseteq DOMAIN Buffered(h, code)
         /\ Buffered(h, code).buffer = Append(Sent(h).buffer, code)
         /\ Buffered(h, code).status = Sent(h).status
         /\ Buffered(h, code).final = Sent(h).final /\ Buffered(h, code).fate = Sent(h).fate
  BY DEF Buffered, ReplyFields

LEMMA StatusShape ==
  ASSUME NEW h \in Handler, ReplyFields \subseteq DOMAIN Sent(h), NEW code
  PROVE  /\ ReplyFields \subseteq DOMAIN Status(h, code)
         /\ Status(h, code).buffer = << >>
         /\ Status(h, code).status = Append(Sent(h).status \o Sent(h).buffer, code)
         /\ Status(h, code).final = Sent(h).final /\ Status(h, code).fate = Sent(h).fate
  BY DEF Status, Flushed, ReplyFields

LEMMA FailedShape ==
  ASSUME NEW sent, ReplyFields \subseteq DOMAIN sent, NEW fault
  PROVE  LET failed == [sent EXCEPT !.fault = fault] IN
         /\ ReplyFields \subseteq DOMAIN failed /\ failed.fault = fault
         /\ failed.status = sent.status /\ failed.final = sent.final
  BY DEF ReplyFields

LEMMA FinalShape ==
  ASSUME NEW h \in Handler, ReplyFields \subseteq DOMAIN Sent(h), NEW final
  PROVE  /\ LET closed == [Sent(h) EXCEPT !.final = final] IN
            /\ ReplyFields \subseteq DOMAIN closed /\ closed.final = final
            /\ closed.buffer = Sent(h).buffer /\ closed.status = Sent(h).status
         /\ LET closed == [Flushed(h) EXCEPT !.final = final] IN
            /\ ReplyFields \subseteq DOMAIN closed /\ closed.final = final
            /\ closed.status = Sent(h).status \o Sent(h).buffer
  BY DEF Flushed, ReplyFields

\* What the steps that close a reply close it with.
LEMMA ClosableFields ==
  ASSUME BoundAssumption, Types, NEW h \in Handler, Active(h)
  PROVE  /\ ReplyFields \subseteq DOMAIN Sent(h)
         /\ \A code : /\ ReplyFields \subseteq DOMAIN Status(h, code)
                      /\ ReplyFields \subseteq DOMAIN Buffered(h, code)
         /\ \A fault : /\ ReplyFields \subseteq DOMAIN [Sent(h) EXCEPT !.fault = fault]
                       /\ ReplyFields \subseteq DOMAIN [Status(h, 400) EXCEPT !.fault = fault]
         /\ \A final : /\ ReplyFields \subseteq DOMAIN [Sent(h) EXCEPT !.final = final]
                       /\ ReplyFields \subseteq DOMAIN [Flushed(h) EXCEPT !.final = final]
<1>1. ReplyFields \subseteq DOMAIN Sent(h)
  BY SentFields
<1>2. \A code : /\ ReplyFields \subseteq DOMAIN Status(h, code)
               /\ ReplyFields \subseteq DOMAIN Buffered(h, code)
  BY <1>1, StatusShape, BufferedShape
<1>3. \A fault : /\ ReplyFields \subseteq DOMAIN [Sent(h) EXCEPT !.fault = fault]
                /\ ReplyFields \subseteq DOMAIN [Status(h, 400) EXCEPT !.fault = fault]
  BY <1>1, <1>2, FailedShape
<1>4. \A final : /\ ReplyFields \subseteq DOMAIN [Sent(h) EXCEPT !.final = final]
                /\ ReplyFields \subseteq DOMAIN [Flushed(h) EXCEPT !.final = final]
  BY <1>1, FinalShape
<1> QED
  BY <1>1, <1>2, <1>3, <1>4

\* A read takes one message from the queue of the handler.
LEMMA PopEffect ==
  ASSUME BoundAssumption, Types, NEW h \in Handler, Active(h),
         rqueue[handler[h].request] # << >>,
         rqueue' = [rqueue EXCEPT ![handler[h].request] = Tail(@)]
  PROVE  /\ rqueue' \in [Request -> Seq(Signal)]
         /\ \A r \in Request \ {handler[h].request} : rqueue'[r] = rqueue[r]
         /\ Head(rqueue[handler[h].request]) = rqueue[handler[h].request][1]
         /\ 1 \in DOMAIN rqueue[handler[h].request]
         /\ rqueue[handler[h].request][1] \in Signal
         /\ Len(rqueue[handler[h].request]) \in Nat
         /\ Len(rqueue'[handler[h].request]) = Len(rqueue[handler[h].request]) - 1
         /\ \A i \in DOMAIN rqueue'[handler[h].request] :
              /\ i \in Nat \ {0} /\ i + 1 \in DOMAIN rqueue[handler[h].request]
              /\ rqueue'[handler[h].request][i] = rqueue[handler[h].request][i + 1]
         /\ \A i \in DOMAIN rqueue[handler[h].request] :
              /\ i \in Nat \ {0}
              /\ i # 1 => i - 1 \in DOMAIN rqueue'[handler[h].request]
<1> DEFINE r == handler[h].request
           q == rqueue[r]
<1>1. r \in Request
  BY Requests DEF Types, Active
<1>2. q \in Seq(Signal) /\ q # << >>
  BY <1>1 DEF Types
<1>3. rqueue'[r] = Tail(q) /\ \A x \in Request \ {r} : rqueue'[x] = rqueue[x]
  BY <1>1 DEF Types
<1>4. /\ Head(q) = q[1] /\ Tail(q) \in Seq(Signal) /\ Len(Tail(q)) = Len(q) - 1
      /\ \A i \in 1 .. Len(q) - 1 : Tail(q)[i] = q[i + 1]
      /\ Len(q) \in Nat /\ Len(q) > 0 /\ DOMAIN q = 1 .. Len(q)
      /\ DOMAIN Tail(q) = 1 .. Len(q) - 1 /\ q[1] \in Signal
  <2> HIDE DEF q
  <2> QED
    BY <1>2
<1>5. rqueue' \in [Request -> Seq(Signal)]
  BY <1>1, <1>3, <1>4 DEF Types
<1> QED
  BY <1>2, <1>3, <1>4, <1>5

LEMMA SignalKinds ==
  ASSUME NEW m \in Signal
  PROVE  /\ m = Ctx \/ m = End \/ m \in Errors \/ m.is = "item"
         /\ m.is = "error" <=> m \in Errors
         /\ m.is = "item" => m.reason \in Reasons \cup {None}
         /\ m = Ctx => m.is # "item"
         /\ m = End => m # Ctx /\ m \notin Errors /\ m.is # "item"
         /\ m \in Errors => m # Ctx /\ m # End /\ m.is # "item" /\ m.kind \in Kinds
  BY DEF Signal, Ctx, End, Errors, Error, Item

\* What Await and Read do besides taking a message.
LEMMA AwaitEffect ==
  ASSUME BoundAssumption, Types, NEW h \in Handler, Await(h)
  PROVE  /\ Alone(h)
         /\ \/ /\ rqueue[handler[h].request][1] \in Errors
               /\ Finish(h, Status(h, 404), "done")
            \/ /\ rqueue[handler[h].request][1] \notin Errors
               /\ handler'[h].pc = "read" /\ handler'[h].reason = handler[h].reason
               /\ (handler'[h].responses <=> handler[h].responses)
               /\ handler'[h].started
               /\ reply' = [reply EXCEPT ![handler[h].request] =
                              IF BodyOf(h).stream THEN Status(h, 200) ELSE Buffered(h, 200)]
<1> DEFINE r == handler[h].request
           m == rqueue[r][1]
<1>1. Active(h) /\ r \in Request
  BY Requests DEF Await, Types, Active
<1>2. Head(rqueue[r]) = m /\ DOMAIN rqueue' = Request /\ m \in Signal
      /\ \A x \in Request \ {r} : rqueue'[x] = rqueue[x]
  BY <1>1, PopEffect DEF Await, Types
<1>3. m.is = "error" <=> m \in Errors
  BY <1>2, SignalKinds
<1>4. CASE m \in Errors
  <2>1. Finish(h, Status(h, 404), "done")
    BY <1>2, <1>3, <1>4 DEF Await
  <2>2. ReplyFields \subseteq DOMAIN Status(h, 404)
    BY <1>1, ClosableFields
  <2> QED
    BY <1>1, <1>2, <1>4, <2>1, <2>2, FinishEffect DEF Alone, Await
<1>5. CASE m \notin Errors
  <2>1. /\ handler' = [handler EXCEPT ![h].pc = "read", ![h].started = Started(h, 200)]
        /\ reply' = [reply EXCEPT ![r] =
                       IF BodyOf(h).stream THEN Status(h, 200) ELSE Buffered(h, 200)]
    BY <1>2, <1>3, <1>5 DEF Await
  <2>2. /\ DOMAIN handler' = Handler /\ \A g \in Handler \ {h} : handler'[g] = handler[g]
        /\ DOMAIN handler'[h] = DOMAIN handler[h] /\ handler'[h].request = handler[h].request
        /\ handler'[h].pc = "read" /\ handler'[h].reason = handler[h].reason
        /\ (handler'[h].responses <=> handler[h].responses)
        /\ handler'[h].started
    BY <2>1 DEF Types, Started
  <2>3. DOMAIN reply' = Request /\ \A x \in Request \ {r} : reply'[x] = reply[x]
    BY <2>1, <1>1 DEF Types
  <2> QED
    BY <1>1, <1>2, <1>5, <2>1, <2>2, <2>3 DEF Alone, Await
<1> QED
  BY <1>4, <1>5

LEMMA FailEffect ==
  ASSUME NEW h \in Handler, NEW kind, Fail(h, kind)
  PROVE  \/ /\ handler[h].responses /\ kind = "ValueError"
            /\ Finish(h, [Status(h, 400) EXCEPT !.fault = kind], "done")
         \/ Finish(h, [Sent(h) EXCEPT !.fault = kind], "dropped")
  BY DEF Fail

LEMMA ReadEffect ==
  ASSUME BoundAssumption, Types, NEW h \in Handler, Read(h)
  PROVE  /\ Alone(h) \/ rqueue[handler[h].request][1] = Ctx
         /\ LET m == rqueue[handler[h].request][1] IN
            \/ m = Ctx
            \/ m = End /\ HandlerAt(h, "complete") /\ UNCHANGED <<tracked, reply>>
            \/ m \in Errors /\ Fail(h, m.kind) /\ UNCHANGED tracked
            \/ /\ m.is = "item"
               /\ handler'[h].pc = "pass"
               /\ handler'[h].reason = IF m.reason # None THEN m.reason ELSE handler[h].reason
               /\ (handler'[h].responses <=> handler[h].responses)
               /\ (handler'[h].started <=> handler[h].started)
               /\ tracked' = IF m.reason # None THEN m.reason ELSE tracked
               /\ UNCHANGED reply
<1> DEFINE r == handler[h].request
           m == rqueue[r][1]
<1>1. Active(h) /\ r \in Request
  BY Requests DEF Read, Types, Active
<1>2. /\ Head(rqueue[r]) = m /\ DOMAIN rqueue' = Request /\ m \in Signal
      /\ \A x \in Request \ {r} : rqueue'[x] = rqueue[x]
  BY <1>1, PopEffect DEF Read, Types
<1>3. /\ m = Ctx \/ m = End \/ m \in Errors \/ m.is = "item"
      /\ m = End => m \notin Errors /\ m.is # "item"
      /\ m \in Errors => m # End /\ m.is # "item"
      /\ m.is = "error" <=> m \in Errors
  BY <1>2, SignalKinds
<1> HIDE DEF m
<1>4. CASE m = End
  <2>1. HandlerAt(h, "complete") /\ UNCHANGED <<tracked, reply>>
    BY <1>2, <1>3, <1>4 DEF Read
  <2>2. Alone(h)
    BY <1>1, <1>2, <2>1, HandlerAtEffect DEF Alone, Read, Types
  <2> QED
    BY <1>4, <2>1, <2>2 DEF m
<1>5. CASE m \in Errors
  <2>1. Fail(h, m.kind) /\ UNCHANGED tracked
    BY <1>2, <1>3, <1>5 DEF Read
  <2>2. /\ ReplyFields \subseteq DOMAIN [Status(h, 400) EXCEPT !.fault = m.kind]
        /\ ReplyFields \subseteq DOMAIN [Sent(h) EXCEPT !.fault = m.kind]
    BY <1>1, ClosableFields
  <2>3. \E sent, fate : Finish(h, sent, fate) /\ ReplyFields \subseteq DOMAIN sent
    BY <2>1, <2>2, FailEffect
  <2>4. Alone(h)
    BY <1>1, <1>2, <2>3, FinishEffect DEF Alone, Read
  <2> QED
    BY <1>5, <2>1, <2>4 DEF m
<1>6. CASE m.is = "item" /\ m # End /\ m \notin Errors
  <2>1. /\ tracked' = IF m.reason # None THEN m.reason ELSE tracked
        /\ handler' = [handler EXCEPT ![h].pc = "pass",
                         ![h].reason = IF m.reason # None THEN m.reason ELSE @]
        /\ UNCHANGED reply
    BY <1>2, <1>6 DEF Read
  <2>2. /\ DOMAIN handler' = Handler /\ \A g \in Handler \ {h} : handler'[g] = handler[g]
        /\ DOMAIN handler'[h] = DOMAIN handler[h] /\ handler'[h].request = handler[h].request
        /\ handler'[h].pc = "pass"
        /\ handler'[h].reason = IF m.reason # None THEN m.reason ELSE handler[h].reason
        /\ (handler'[h].responses <=> handler[h].responses)
        /\ (handler'[h].started <=> handler[h].started)
    BY <2>1 DEF Types
  <2>3. Alone(h)
    BY <1>1, <1>2, <2>1, <2>2 DEF Alone, Read, Types
  <2> QED
    BY <1>6, <2>1, <2>2, <2>3 DEF m
<1> QED
  BY <1>3, <1>4, <1>5, <1>6 DEF m

LEMMA ReceiveEffect ==
  ASSUME BoundAssumption, Types, NEW h \in Handler, Receive(h)
  PROVE  LET r == Len(asked) + 1 IN
         /\ UNCHANGED <<main, tracked, waiting, worker, provider, rqueue>>
         /\ ~Active(h) /\ r \in Request /\ Len(asked) \in Nat
         /\ asked' \in Seq(DOMAIN Ask) /\ Len(asked') = r
         /\ \A i \in 1 .. Len(asked) : asked'[i] = asked[i]
         /\ DOMAIN handler' = Handler /\ \A g \in Handler \ {h} : handler'[g] = handler[g]
         /\ DOMAIN handler'[h] = DOMAIN handler[h]
         /\ DOMAIN reply' = Request /\ \A x \in Request \ {r} : reply'[x] = reply[x]
         /\ \/ /\ UNCHANGED handler
               /\ reply'[r] = [Unsent EXCEPT !.status = <<400>>, !.fate = "done"]
            \/ /\ UNCHANGED reply
               /\ handler'[h].pc = "generate" /\ handler'[h].request = r
               /\ handler'[h].reason = None /\ ~handler'[h].started
               /\ handler'[h].responses <=>
                    handler[h].responses \/ Ask[asked'[r]].endpoint = "responses"
<1> DEFINE r == Len(asked) + 1
<1>1. PICK name \in DOMAIN Ask :
        /\ asked' = Append(asked, name)
        /\ IF name \in Rejected
           THEN /\ reply' = [reply EXCEPT ![r] = [Unsent EXCEPT !.status = <<400>>, !.fate = "done"]]
                /\ UNCHANGED handler
           ELSE /\ handler' = [handler EXCEPT ![h] = Accept(h, r, Ask[name])]
                /\ UNCHANGED reply
  BY DEF Receive
<1>2. Len(asked) \in Nat /\ r \in Request
  BY DEF Receive, Types, Request, BoundAssumption
<1>3. /\ asked' \in Seq(DOMAIN Ask) /\ Len(asked') = r /\ asked'[r] = name
      /\ \A i \in 1 .. Len(asked) : asked'[i] = asked[i]
  BY <1>1 DEF Types
<1>4. ~Active(h) /\ UNCHANGED <<main, tracked, waiting, worker, provider, rqueue>>
  BY DEF Receive, Active
<1>5. CASE name \in Rejected
  <2>1. UNCHANGED handler /\ DOMAIN reply' = Request /\ (\A x \in Request \ {r} : reply'[x] = reply[x])
        /\ reply'[r] = [Unsent EXCEPT !.status = <<400>>, !.fate = "done"]
    BY <1>1, <1>2, <1>5 DEF Types
  <2> QED
    BY <1>2, <1>3, <1>4, <2>1 DEF Types
<1>6. CASE name \notin Rejected
  <2>1. handler' = [handler EXCEPT ![h] = Accept(h, r, Ask[name])] /\ UNCHANGED reply
    BY <1>1, <1>6
  <2>2. /\ DOMAIN handler' = Handler /\ \A g \in Handler \ {h} : handler'[g] = handler[g]
        /\ handler'[h] = Accept(h, r, Ask[name])
    BY <2>1 DEF Types
  <2>3. /\ DOMAIN Accept(h, r, Ask[name]) = DOMAIN handler[h]
        /\ Accept(h, r, Ask[name]).pc = "generate" /\ Accept(h, r, Ask[name]).request = r
        /\ Accept(h, r, Ask[name]).reason = None /\ ~Accept(h, r, Ask[name]).started
        /\ Accept(h, r, Ask[name]).responses <=>
             handler[h].responses \/ Ask[name].endpoint = "responses"
    BY DEF Accept, Types
  <2> QED
    BY <1>2, <1>3, <1>4, <2>1, <2>2, <2>3 DEF Types
<1> QED
  BY <1>5, <1>6

-----------------------------------------------------------------------------
(* Requests and types. *)

LEMMA ReceiveAsked ==
  ASSUME BoundAssumption, AskedInv, NEW h \in Handler, Receive(h)
  PROVE  AskedInv'
<1> DEFINE r == Len(asked) + 1
<1>1. Types /\ Distinct
  BY DEF AskedInv
<1>2. /\ UNCHANGED <<main, tracked, waiting, worker, provider, rqueue>>
      /\ ~Active(h) /\ r \in Request /\ Len(asked) \in Nat
      /\ asked' \in Seq(DOMAIN Ask) /\ Len(asked') = r
      /\ DOMAIN handler' = Handler /\ \A g \in Handler \ {h} : handler'[g] = handler[g]
      /\ DOMAIN handler'[h] = DOMAIN handler[h]
      /\ DOMAIN reply' = Request /\ \A x \in Request \ {r} : reply'[x] = reply[x]
      /\ \/ /\ UNCHANGED handler
            /\ reply'[r] = [Unsent EXCEPT !.status = <<400>>, !.fate = "done"]
         \/ /\ UNCHANGED reply
            /\ handler'[h].pc = "generate" /\ handler'[h].request = r
            /\ handler'[h].reason = None
  BY <1>1, ReceiveEffect
<1>3. waiting' \in Seq(1 .. Len(asked')) /\ worker' \in [pc : WorkerPc, request : 0 .. Len(asked'), put : Nat]
  BY <1>1, <1>2 DEF Types
<1>4. Len(asked') <= MaxRequests
  BY <1>2 DEF Request
<1>5. \A x \in Request : ReplyFields \subseteq DOMAIN reply'[x]
  BY <1>1, <1>2 DEF Types, Unsent, ReplyFields
<1>6. \A g \in Handler :
        /\ {"pc", "request", "responses", "started", "reason"} \subseteq DOMAIN handler'[g]
        /\ handler'[g].pc \in {"idle", "generate", "queue", "await", "read", "pass", "complete",
                               "salvage"}
        /\ handler'[g].reason \in Reasons \cup {None}
        /\ handler'[g].pc # "idle" => handler'[g].request \in 1 .. Len(asked')
  BY <1>1, <1>2 DEF Types
<1>7. Types'
  BY <1>1, <1>2, <1>3, <1>4, <1>5, <1>6 DEF Types
<1>8. Distinct'
  BY <1>1, <1>2 DEF Types, Distinct, Active
<1> QED
  BY <1>7, <1>8 DEF AskedInv

\* No handler takes a message for the context that is not one.
LEMMA HandleAsked ==
  ASSUME BoundAssumption, AskedInv, QueueInv, NEW h \in Handler, Handle(h), ~Receive(h)
  PROVE  AskedInv' /\ Alone(h)
<1> DEFINE r == handler[h].request
<1>1. Types /\ Distinct
  BY DEF AskedInv
<1>2. Active(h) /\ r \in 1 .. Len(asked) /\ r \in Request
  BY <1>1, Requests DEF Handle, Forget, Queue, Await, Read, Pass, Broken, ParseError,
     ParserEscapes, Parsing, Complete, Salvage, Active, Types
<1>3. /\ ReplyFields \subseteq DOMAIN Sent(h)
      /\ ReplyFields \subseteq DOMAIN Status(h, 400)
      /\ ReplyFields \subseteq DOMAIN Status(h, 404)
      /\ ReplyFields \subseteq DOMAIN Status(h, 200)
      /\ ReplyFields \subseteq DOMAIN Buffered(h, 200)
      /\ \A fault : /\ ReplyFields \subseteq DOMAIN [Sent(h) EXCEPT !.fault = fault]
                    /\ ReplyFields \subseteq DOMAIN [Status(h, 400) EXCEPT !.fault = fault]
      /\ \A final : /\ ReplyFields \subseteq DOMAIN [Sent(h) EXCEPT !.final = final]
                    /\ ReplyFields \subseteq DOMAIN [Flushed(h) EXCEPT !.final = final]
  BY <1>1, <1>2, ClosableFields
<1>4. /\ Alone(h)
      /\ handler'[h].pc \in {"idle", "generate", "queue", "await", "read", "pass", "complete",
                             "salvage"}
      /\ handler'[h].reason \in Reasons \cup {None}
      /\ ReplyFields \subseteq DOMAIN reply'[r]
      /\ tracked' \in Reasons \cup {None}
      /\ waiting' \in Seq(1 .. Len(asked))
      /\ rqueue' \in [Request -> Seq(Signal)]
  <2> DEFINE P == /\ Alone(h)
                  /\ handler'[h].pc \in {"idle", "generate", "queue", "await", "read", "pass",
                                         "complete", "salvage"}
                  /\ handler'[h].reason \in Reasons \cup {None}
                  /\ ReplyFields \subseteq DOMAIN reply'[r]
                  /\ tracked' \in Reasons \cup {None}
                  /\ waiting' \in Seq(1 .. Len(asked))
                  /\ rqueue' \in [Request -> Seq(Signal)]
  <2>1. ASSUME NEW pc \in {"queue", "await", "read", "complete", "salvage"}, HandlerAt(h, pc),
               UNCHANGED <<main, asked, worker, provider, rqueue, reply>>,
               tracked' \in Reasons \cup {None}, waiting' \in Seq(1 .. Len(asked))
        PROVE  P
    BY <1>1, <1>2, <2>1, MovesEffect, HandlerAtEffect DEF Types
  <2>2. ASSUME NEW sent, NEW fate, Finish(h, sent, fate),
               ReplyFields \subseteq DOMAIN sent,
               UNCHANGED <<main, asked, worker, provider, rqueue, tracked, waiting>>
        PROVE  P
    BY <1>1, <1>2, <2>2, FinishesEffect, FinishEffect DEF Types
  <2>3. CASE Forget(h)
    BY <1>1, <2>1, <2>3 DEF Forget, Types
  <2>4. CASE Queue(h)
    BY <1>1, <1>2, <2>1, <2>4 DEF Queue, Types
  <2>5. CASE Await(h)
    <3>1. rqueue' \in [Request -> Seq(Signal)] /\ UNCHANGED <<tracked, waiting>>
      BY <1>1, <1>2, <2>5, PopEffect DEF Await
    <3>2. Alone(h)
      BY <1>1, <2>5, AwaitEffect
    <3>3. CASE Finish(h, Status(h, 404), "done")
      BY <1>1, <1>2, <1>3, <3>1, <3>2, <3>3, FinishEffect DEF Types
    <3>4. CASE /\ handler'[h].pc = "read" /\ handler'[h].reason = handler[h].reason
               /\ reply' = [reply EXCEPT ![r] =
                              IF BodyOf(h).stream THEN Status(h, 200) ELSE Buffered(h, 200)]
      BY <1>1, <1>2, <1>3, <3>1, <3>2, <3>4 DEF Types
    <3> QED
      BY <1>1, <2>5, <3>3, <3>4, AwaitEffect
  <2>6. CASE Read(h)
    <3> DEFINE m == rqueue[r][1]
    <3>1. rqueue' \in [Request -> Seq(Signal)] /\ UNCHANGED waiting /\ m \in Signal /\ 1 \in DOMAIN rqueue[r]
      BY <1>1, <1>2, <2>6, PopEffect DEF Read
    <3>2. m # Ctx
      BY <1>2, <2>6, <3>1 DEF QueueInv, Told, Read
    <3>3. Alone(h)
      BY <1>1, <2>6, <3>2, ReadEffect
    <3>4. CASE m = End /\ HandlerAt(h, "complete") /\ UNCHANGED <<tracked, reply>>
      BY <1>1, <1>2, <3>1, <3>3, <3>4, HandlerAtEffect DEF Types
    <3>5. CASE m \in Errors /\ Fail(h, m.kind) /\ UNCHANGED tracked
      <4>1. \E sent, fate : Finish(h, sent, fate) /\ ReplyFields \subseteq DOMAIN sent
        <5>1. \/ Finish(h, [Status(h, 400) EXCEPT !.fault = m.kind], "done")
              \/ Finish(h, [Sent(h) EXCEPT !.fault = m.kind], "dropped")
          BY <3>5, FailEffect
        <5> QED
          BY <1>3, <5>1
      <4> QED
        BY <1>1, <1>2, <3>1, <3>3, <3>5, <4>1, FinishEffect DEF Types
    <3>6. CASE /\ m.is = "item"
               /\ handler'[h].pc = "pass"
               /\ handler'[h].reason = IF m.reason # None THEN m.reason ELSE handler[h].reason
               /\ tracked' = IF m.reason # None THEN m.reason ELSE tracked
               /\ UNCHANGED reply
      <4>1. m.reason \in Reasons \cup {None}
        BY <3>1, <3>6, SignalKinds
      <4> QED
        BY <1>1, <1>2, <3>1, <3>3, <3>6, <4>1 DEF Types
    <3> QED
      BY <1>1, <2>6, <3>2, <3>4, <3>5, <3>6, ReadEffect
  <2>7. CASE Pass(h)
    BY <1>1, <2>1, <2>7 DEF Pass, Types
  <2>8. CASE Broken(h)
    BY <1>3, <2>2, <2>8 DEF Broken
  <2>9. CASE ParseError(h)
    BY <1>1, <1>3, <2>1, <2>2, <2>9 DEF ParseError, Types
  <2>10. CASE ParserEscapes(h)
    BY <1>3, <2>2, <2>10 DEF ParserEscapes
  <2>11. CASE Complete(h)
    <3> DEFINE final == {Final(h, handler[h].reason)}
    <3>1. Finish(h, [Flushed(h) EXCEPT !.final = final], "done")
      BY <2>11 DEF Complete
    <3> QED
      BY <1>3, <2>2, <2>11, <3>1 DEF Complete
  <2>12. CASE Salvage(h)
    <3>1. \E final : Finish(h, [Sent(h) EXCEPT !.final = final], "done")
      BY <2>12 DEF Salvage
    <3> QED
      BY <1>3, <2>2, <2>12, <3>1 DEF Salvage
  <2> QED
    BY <2>3, <2>4, <2>5, <2>6, <2>7, <2>8, <2>9, <2>10, <2>11, <2>12 DEF Handle
<1>5. \A x \in Request : ReplyFields \subseteq DOMAIN reply'[x]
  BY <1>1, <1>4 DEF Types, Alone
<1>6. Types'
  BY <1>1, <1>2, <1>4, <1>5 DEF Types, Alone
<1>7. Distinct'
  BY <1>1, <1>4 DEF Distinct, Active, Alone
<1> QED
  BY <1>4, <1>6, <1>7 DEF AskedInv

\* The generation thread puts one message at the end of its queue.
LEMMA PutEffect ==
  ASSUME BoundAssumption, Types, NEW m \in Signal, Put(m), worker.request # 0
  PROVE  LET r == worker.request IN
         /\ r \in 1 .. Len(asked) /\ r \in Request
         /\ rqueue' \in [Request -> Seq(Signal)]
         /\ \A x \in Request \ {r} : rqueue'[x] = rqueue[x]
         /\ Len(rqueue[r]) \in Nat /\ Len(rqueue'[r]) = Len(rqueue[r]) + 1
         /\ rqueue'[r][Len(rqueue[r]) + 1] = m
         /\ DOMAIN rqueue[r] = 1 .. Len(rqueue[r])
         /\ DOMAIN rqueue'[r] = 1 .. Len(rqueue[r]) + 1
         /\ \A i \in DOMAIN rqueue[r] : rqueue'[r][i] = rqueue[r][i]
<1> DEFINE r == worker.request
           q == rqueue[r]
<1>1. r \in 1 .. Len(asked) /\ r \in Request
  BY Requests DEF Types
<1>2. q \in Seq(Signal)
  BY <1>1 DEF Types
<1>3. rqueue'[r] = Append(q, m) /\ \A x \in Request \ {r} : rqueue'[x] = rqueue[x]
  BY <1>1 DEF Types, Put
<1>4. /\ Append(q, m) \in Seq(Signal) /\ Len(q) \in Nat /\ Len(Append(q, m)) = Len(q) + 1
      /\ Append(q, m)[Len(q) + 1] = m
      /\ DOMAIN q = 1 .. Len(q) /\ DOMAIN Append(q, m) = 1 .. Len(q) + 1
      /\ \A i \in DOMAIN q : Append(q, m)[i] = q[i]
  <2> HIDE DEF q
  <2> QED
    BY <1>2
<1>5. rqueue' \in [Request -> Seq(Signal)]
  BY <1>1, <1>3, <1>4 DEF Types, Put
<1> QED
  BY <1>1, <1>2, <1>3, <1>4, <1>5

LEMMA ItemIsSignal ==
  /\ Ctx \in Signal /\ End \in Signal
  /\ \A kind \in Kinds : /\ Error(kind) \in Errors /\ Error(kind) \in Signal
                         /\ Error(kind) # Ctx /\ Error(kind) # End
  /\ \A reason \in Reasons \cup {None} : /\ Item(reason) \in Signal
                                         /\ Item(reason) # Ctx /\ Item(reason) # End
                                         /\ Item(reason).is = "item" /\ Item(reason).reason = reason
  BY DEF Signal, Ctx, End, Errors, Error, Item

LEMMA GenerateAsked ==
  ASSUME BoundAssumption, AskAssumption, AskedInv, Published, Generate
  PROVE  AskedInv' /\ UNCHANGED <<main, handler, asked, tracked, reply>>
<1>1. Types /\ Distinct /\ UNCHANGED <<main, handler, asked, tracked, reply>>
  BY DEF AskedInv, Generate, Stop, Take, Load, LoadRaises, Publish, Serve, Produce, ServeRaises
<1>2. \A pc \in WorkerPc : WorkerAt(pc) => worker' \in [pc : WorkerPc, request : 0 .. Len(asked), put : Nat]
  BY <1>1 DEF Types, WorkerAt
<1>3. Serving \in WorkerPc
  BY DEF Serving, WorkerPc
<1>4. /\ worker' \in [pc : WorkerPc, request : 0 .. Len(asked), put : Nat]
      /\ waiting' \in Seq(1 .. Len(asked))
      /\ rqueue' \in [Request -> Seq(Signal)]
  <2>1. CASE Stop
    BY <1>1, <1>2, <2>1 DEF Stop, WorkerPc, Types
  <2>2. CASE Take
    <3>1. Head(waiting) \in 1 .. Len(asked) /\ Tail(waiting) \in Seq(1 .. Len(asked))
      BY <1>1, <2>2 DEF Take, Types
    <3> QED
      BY <1>1, <2>2, <3>1 DEF Take, Types, WorkerPc
  <2>3. CASE Load
    BY <1>1, <1>2, <1>3, <2>3 DEF Load, WorkerPc, Types
  <2>4. CASE LoadRaises
    BY <1>1, <1>2, <2>4, PutEffect, ItemIsSignal DEF LoadRaises, WorkerPc, Types, Kinds
  <2>5. CASE Publish
    <3>1. NextField[worker.pc] \in {"meta", "key", "serve"}
      BY <2>5 DEF Publish, NextField
    <3> QED
      BY <1>1, <1>2, <1>3, <2>5, <3>1 DEF Publish, WorkerPc, Types
  <2>6. CASE Serve
    BY <1>1, <1>2, <2>6, PutEffect, ItemIsSignal DEF Serve, WorkerPc, Types, Published
  <2>7. CASE Produce
    <3>1. worker.request # 0 /\ asked[worker.request] \in DOMAIN Ask
      BY <1>1, <2>7 DEF Produce, Published, Types
    <3>2. Ask[asked[worker.request]].reason \in Reasons
      BY <3>1 DEF AskAssumption, Reasons
    <3>3. CASE WorkerAt("idle") /\ Put(End)
      BY <1>1, <1>2, <2>7, <3>1, <3>3, PutEffect, ItemIsSignal DEF Produce, WorkerPc, Types
    <3>4. CASE /\ worker' = [worker EXCEPT !.put = @ + 1]
               /\ \E reason \in Reasons \cup {None} : Put(Item(reason))
      <4>1. PICK reason \in Reasons \cup {None} : Put(Item(reason))
        BY <3>4
      <4>2. rqueue' \in [Request -> Seq(Signal)]
        BY <1>1, <3>1, <4>1, PutEffect, ItemIsSignal
      <4>3. worker' \in [pc : WorkerPc, request : 0 .. Len(asked), put : Nat]
        BY <1>1, <3>4 DEF Types
      <4> QED
        BY <1>1, <2>7, <4>2, <4>3 DEF Produce, Types
    <3> QED
      BY <2>7, <3>2, <3>3, <3>4 DEF Produce
  <2>8. CASE ServeRaises
    BY <1>1, <1>2, <2>8, PutEffect, ItemIsSignal DEF ServeRaises, WorkerPc, Types, Published, Kinds
  <2> QED
    BY <2>1, <2>2, <2>3, <2>4, <2>5, <2>6, <2>7, <2>8 DEF Generate
<1>5. Types'
  BY <1>1, <1>4 DEF Types
<1>6. Distinct'
  BY <1>1 DEF Distinct, Active
<1> QED
  BY <1>1, <1>5, <1>6 DEF AskedInv

-----------------------------------------------------------------------------
(* The provider and the main thread. *)

LEMMA WantedIsModel ==
  ASSUME ModelAssumption, AskAssumption, Types
  PROVE  Wanted \in Model
  BY DEF ModelAssumption, AskAssumption, Types, Wanted

LEMMA HandleModel ==
  ASSUME BoundAssumption, Types, ModelInv, NEW h \in Handler, Handle(h), Receive(h) \/ Alone(h)
  PROVE  ModelInv'
<1>1. UNCHANGED <<main, worker, provider>>
  BY DEF Alone, Receive
<1>2. worker.request # 0 => asked'[worker.request] = asked[worker.request]
  <2>1. worker.request # 0 => worker.request \in 1 .. Len(asked)
    BY DEF Types
  <2>2. CASE Receive(h)
    BY <2>1, <2>2, ReceiveEffect
  <2>3. CASE Alone(h)
    BY <2>3 DEF Alone
  <2> QED
    BY <2>2, <2>3
<1>3. Wanted' = Wanted
  BY <1>1, <1>2 DEF Wanted
<1> QED
  BY <1>1, <1>3 DEF ModelInv, Published, Seen

LEMMA MainModel ==
  ASSUME ModelAssumption, ModelInv, Types, Ready \/ StopGenerator \/ ShutdownCaches,
         UNCHANGED <<worker, asked, provider>>
  PROVE  ModelInv'
<1>1. Published'
  BY DEF ModelInv, Published, Wanted
<1>2. CASE Ready
  <2>1. /\ main' = [pc |-> "serving", told |-> main.told, saw |-> provider]
        /\ provider.core # None /\ provider.key # None
    BY <1>2 DEF Ready, ModelInv, Seen
  <2>2. provider # Unloaded
    BY <2>1 DEF Unloaded
  <2>3. Whole(provider)
    <3>1. worker.pc \notin {"core", "meta", "key"}
      BY <2>1, <2>2 DEF ModelInv, Published
    <3>2. CASE worker.pc \in {"serve", "produce"}
      <4>1. provider = [core |-> Wanted, meta |-> Wanted, key |-> Wanted]
        BY <3>2 DEF ModelInv, Published
      <4>2. Wanted \in Model \/ provider.core = None
        BY <2>1, WantedIsModel, AskAssumption
      <4> QED
        BY <2>1, <4>1, <4>2 DEF Whole
    <3> QED
      BY <3>1, <3>2 DEF ModelInv, Published, Types, WorkerPc
  <2> QED
    BY <1>1, <2>1, <2>2, <2>3 DEF ModelInv, Seen, Whole
<1>3. CASE StopGenerator
  BY <1>1, <1>3 DEF StopGenerator, ModelInv, Seen, Whole
<1>4. CASE ShutdownCaches
  BY <1>1, <1>4 DEF ShutdownCaches, ModelInv, Seen, Whole
<1> QED
  BY <1>2, <1>3, <1>4

LEMMA GenerateModel ==
  ASSUME ModelAssumption, AskAssumption, Types, ModelInv, Generate,
         UNCHANGED <<main, asked>>
  PROVE  ModelInv'
<1> DEFINE All(m) == [core |-> m, meta |-> m, key |-> m]
<1>1. Published /\ Seen /\ Wanted \in Model /\ Wanted # None
  BY WantedIsModel DEF ModelInv, ModelAssumption
<1>2. worker.pc # "stopped"
  BY DEF Generate, Stop, Take, Load, LoadRaises, Publish, Serve, Produce, ServeRaises, NextField
<1>3. Seen'
  BY <1>1, <1>2 DEF Seen, Whole
<1>4. \A pc : WorkerAt(pc) => worker'.pc = pc /\ worker'.request = worker.request /\ Wanted' = Wanted
  BY DEF Types, WorkerAt, Wanted
<1>5. Published'
  <2>1. CASE Stop
    BY <1>1, <1>4, <2>1 DEF Stop, Published, Whole
  <2>2. CASE Take
    BY <1>1, <2>2 DEF Take, Published, Whole
  <2>3. CASE Load
    <3>1. CASE ~Loaded
      BY <1>1, <1>4, <2>3, <3>1 DEF Load, Published
    <3>2. CASE Loaded
      <4>1. WorkerAt(Serving) /\ UNCHANGED provider /\ Whole(provider)
        BY <1>1, <2>3, <3>2 DEF Load, Published
      <4>2. provider = All(Wanted)
        BY <1>1, <3>2, <4>1 DEF Loaded, Whole, Unloaded
      <4>3. Serving = IF worker.request = 0 THEN "idle" ELSE "serve"
        BY DEF Serving
      <4> QED
        BY <1>1, <1>4, <4>1, <4>2, <4>3 DEF Published, Whole
    <3> QED
      BY <3>1, <3>2
  <2>4. CASE LoadRaises
    BY <1>1, <1>4, <2>4 DEF LoadRaises, Published, Whole
  <2>5. CASE Publish
    <3>0. /\ DOMAIN NextField = {"core", "meta", "key"}
          /\ NextField["core"] = "meta" /\ NextField["meta"] = "key" /\ NextField["key"] = "serve"
      BY DEF NextField
    <3>1. CASE worker.pc = "core"
      <4>1. provider = [core |-> None, meta |-> None, key |-> None] /\ provider' = [provider EXCEPT !["core"] = Wanted]
        BY <1>1, <2>5, <3>1 DEF Publish, Published, Unloaded
      <4>2. provider' = [core |-> Wanted, meta |-> None, key |-> None]
        BY <4>1
      <4>3. WorkerAt("meta")
        BY <2>5, <3>0, <3>1 DEF Publish
      <4>4. worker'.pc = "meta" /\ Wanted' = Wanted
        BY <1>4, <4>3
      <4> QED
        BY <4>2, <4>4 DEF Published
    <3>2. CASE worker.pc = "meta"
      <4>1. provider = [core |-> Wanted, meta |-> None, key |-> None] /\ provider' = [provider EXCEPT !["meta"] = Wanted]
        BY <1>1, <2>5, <3>2 DEF Publish, Published
      <4>2. provider' = [core |-> Wanted, meta |-> Wanted, key |-> None]
        BY <4>1
      <4>3. WorkerAt("key")
        BY <2>5, <3>0, <3>2 DEF Publish
      <4>4. worker'.pc = "key" /\ Wanted' = Wanted
        BY <1>4, <4>3
      <4> QED
        BY <4>2, <4>4 DEF Published
    <3>3. CASE worker.pc = "key"
      <4>1. provider = [core |-> Wanted, meta |-> Wanted, key |-> None] /\ provider' = [provider EXCEPT !["key"] = Wanted]
        BY <1>1, <2>5, <3>3 DEF Publish, Published
      <4>2. provider' = All(Wanted)
        BY <4>1
      <4>3. WorkerAt(Serving)
        BY <2>5, <3>0, <3>3 DEF Publish
      <4>4. /\ worker'.pc = Serving /\ worker'.request = worker.request /\ Wanted' = Wanted
            /\ Serving = IF worker.request = 0 THEN "idle" ELSE "serve"
        BY <1>4, <4>3 DEF Serving
      <4> QED
        BY <1>1, <4>2, <4>4 DEF Published, Whole
    <3> QED
      BY <2>5, <3>0, <3>1, <3>2, <3>3 DEF Publish
  <2>6. CASE Serve
    BY <1>1, <1>4, <2>6 DEF Serve, Published
  <2>7. CASE Produce
    <3>1. provider = All(Wanted) /\ UNCHANGED provider
      BY <1>1, <2>7 DEF Produce, Published
    <3>2. CASE WorkerAt("idle")
      BY <1>1, <1>4, <3>1, <3>2 DEF Published, Whole
    <3>3. CASE worker' = [worker EXCEPT !.put = @ + 1]
      BY <1>1, <2>7, <3>1, <3>3 DEF Produce, Published, Types, Wanted
    <3> QED
      BY <2>7, <3>2, <3>3 DEF Produce
  <2>8. CASE ServeRaises
    BY <1>1, <1>4, <2>8 DEF ServeRaises, Published, Whole
  <2> QED
    BY <2>1, <2>2, <2>3, <2>4, <2>5, <2>6, <2>7, <2>8 DEF Generate
<1> QED
  BY <1>3, <1>5 DEF ModelInv

-----------------------------------------------------------------------------
(* The queues. *)

LEMMA ReceiveQueues ==
  ASSUME BoundAssumption, AskedInv, QueueInv, NEW h \in Handler, Receive(h)
  PROVE  QueueInv'
<1>0. PICK r : r = Len(asked) + 1
  OBVIOUS
<1>1. Types
  BY DEF AskedInv
<1>2. /\ UNCHANGED <<main, tracked, waiting, worker, provider, rqueue>>
      /\ ~Active(h) /\ r \in Request /\ Len(asked) \in Nat /\ Len(asked') = r
      /\ \A i \in 1 .. Len(asked) : asked'[i] = asked[i]
      /\ \A g \in Handler \ {h} : handler'[g] = handler[g]
      /\ \/ UNCHANGED handler
         \/ /\ handler'[h].pc = "generate" /\ handler'[h].request = r
            /\ handler'[h].reason = None
  BY <1>0, <1>1, ReceiveEffect
<1>3. /\ rqueue[r] = << >> /\ ~Busy(r) /\ ~Waits(r)
      /\ \A g \in Handler : Active(g) => handler[g].request # r
  BY <1>0, <1>1, <1>2 DEF QueueInv, ServedOnce, Types, Busy, Waits, Active
<1>4. \A x \in Request : Untouched(x) /\ x <= Len(asked) => Untouched(x)'
  BY <1>0, <1>2 DEF Untouched, Active
<1>5. Untouched(r)'
  BY <1>2, <1>3 DEF Untouched, Active
<1>6. \A x \in Request : (Busy(x)' <=> Busy(x)) /\ (Waits(x)' <=> Waits(x))
  BY <1>2 DEF Busy, Waits
<1>7. ServedOnce'
  <2>1. \A g \in Handler : handler'[g].pc \in {"generate", "queue"} =>
          /\ Untouched(handler[g].request)'
          /\ ~Busy(handler[g].request)' /\ ~Waits(handler[g].request)'
    <3> SUFFICES ASSUME NEW g \in Handler, handler'[g].pc \in {"generate", "queue"}
                 PROVE  /\ Untouched(handler[g].request)'
                        /\ ~Busy(handler[g].request)' /\ ~Waits(handler[g].request)'
      OBVIOUS
    <3>1. CASE handler'[g] = handler[g]
      <4>1. handler[g].request \in Request /\ handler[g].request <= Len(asked)
        BY <1>1, <3>1, Requests DEF Types
      <4> QED
        BY <1>4, <1>6, <3>1, <4>1 DEF QueueInv, ServedOnce
    <3>2. CASE handler'[g].request = r
      BY <1>2, <1>3, <1>5, <1>6, <3>2
    <3> QED
      BY <1>2, <3>1, <3>2
  <2>2. \A i \in DOMAIN waiting : waiting[i] \in Request /\ waiting[i] <= Len(asked)
    BY <1>1, Requests DEF Types
  <2>3. worker.request # 0 => worker.request \in Request /\ worker.request <= Len(asked)
    BY <1>1, Requests DEF Types
  <2>4. \A x \in Request : x > Len(asked') => rqueue'[x] = << >>
    BY <1>0, <1>1, <1>2 DEF QueueInv, ServedOnce, Request
  <2>5. /\ \A i \in DOMAIN waiting' :
             /\ Untouched(waiting[i])' /\ ~Busy(waiting[i])'
             /\ \A j \in DOMAIN waiting' : waiting'[j] = waiting'[i] => i = j
    BY <1>2, <1>4, <1>6, <2>2 DEF QueueInv, ServedOnce
  <2>6. worker'.pc \in {"load", "core", "meta", "key", "serve"} =>
          worker'.put = 0 /\ (worker'.request # 0 => Untouched(worker.request)')
    BY <1>2, <1>4, <2>3 DEF QueueInv, ServedOnce
  <2> QED
    BY <2>1, <2>4, <2>5, <2>6 DEF ServedOnce
<1>8. ASSUME NEW g \in Handler, Active(g)' PROVE Told(g)'
  <2>1. CASE Active(g) /\ handler'[g] = handler[g]
    <3>1. BodyOf(g)' = BodyOf(g)
      BY <1>1, <1>2, <2>1 DEF BodyOf, Types, Active
    <3> QED
      BY <1>2, <2>1, <3>1 DEF QueueInv, Told, Reasoned
  <2>2. CASE handler'[g].pc = "generate" /\ handler'[g].request = r
    <3>1. worker'.request # r /\ rqueue'[r] = << >> /\ DOMAIN rqueue'[r] = {}
      BY <1>0, <1>1, <1>2, <1>3 DEF Types
    <3> QED
      BY <2>2, <3>1 DEF Told
  <2> QED
    BY <1>2, <1>8, <2>1, <2>2 DEF Active
<1> QED
  BY <1>7, <1>8 DEF QueueInv

\* A handler that has read something goes on without reading.
LEMMA LeaveQueues ==
  ASSUME AskedInv, QueueInv, NEW h \in Handler, Alone(h), UNCHANGED <<waiting, rqueue>>,
         handler[h].pc \notin {"generate", "queue", "await"},
         handler'[h].pc \in {"idle", "read", "salvage"},
         handler'[h].reason = handler[h].reason
  PROVE  QueueInv'
<1>1. \A x : Untouched(x) => Untouched(x)' 
  BY DEF Untouched, Alone, Active
<1>2. \A x : (Busy(x)' <=> Busy(x)) /\ (Waits(x)' <=> Waits(x))
  BY DEF Busy, Waits, Alone
<1>3. \A g \in Handler : handler'[g].pc \in {"generate", "queue"} => handler'[g] = handler[g]
  BY DEF Alone
<1>4. ServedOnce'
  BY <1>1, <1>2, <1>3 DEF QueueInv, ServedOnce, Alone
<1>5. ASSUME NEW g \in Handler, Active(g)' PROVE Told(g)'
  <2>1. Active(g) /\ Told(g) /\ BodyOf(g)' = BodyOf(g)
    BY <1>5 DEF Alone, Active, QueueInv, BodyOf
  <2>2. /\ handler'[g].reason = handler[g].reason /\ handler'[g].request = handler[g].request
        /\ handler'[g].pc = handler[g].pc \/ handler'[g].pc \in {"idle", "read", "salvage"}
        /\ handler'[g].pc = "await" => handler[g].pc = "await"
        /\ handler[g].pc = "await" => handler'[g].pc = "await"
    BY DEF Alone
  <2>3. UNCHANGED <<rqueue, worker>>
    BY DEF Alone
  <2> QED
    BY <2>1, <2>2, <2>3 DEF Told, Reasoned
<1> QED
  BY <1>4, <1>5 DEF QueueInv

LEMMA ForgetQueues ==
  ASSUME AskedInv, QueueInv, NEW h \in Handler, Forget(h), Alone(h)
  PROVE  QueueInv'
<1>1. /\ handler'[h].pc = "queue" /\ handler'[h].reason = handler[h].reason
      /\ handler'[h].request = handler[h].request /\ handler[h].pc = "generate"
      /\ \A g \in Handler \ {h} : handler'[g] = handler[g]
      /\ UNCHANGED <<waiting, rqueue, worker, asked>>
  BY HandlerAtEffect DEF Forget, AskedInv, Alone
<1>2. ASSUME NEW g \in Handler
      PROVE  /\ handler'[g].pc \in {"generate", "queue"} <=> handler[g].pc \in {"generate", "queue"}
             /\ handler'[g].request = handler[g].request
             /\ handler'[g].reason = handler[g].reason
             /\ \/ handler'[g].pc = handler[g].pc
                \/ handler[g].pc = "generate" /\ handler'[g].pc = "queue"
  <2>1. CASE g = h
    BY <1>1, <2>1
  <2>2. CASE g # h
    BY <1>1, <2>2
  <2> QED
    BY <2>1, <2>2
<1>3. \A x : Untouched(x) => Untouched(x)'
  BY <1>1, <1>2 DEF Untouched, Active
<1>4. \A x : (Busy(x)' <=> Busy(x)) /\ (Waits(x)' <=> Waits(x))
  BY <1>1 DEF Busy, Waits
<1>5. ServedOnce'
  BY <1>1, <1>2, <1>3, <1>4 DEF QueueInv, ServedOnce
<1>6. ASSUME NEW g \in Handler, Active(g)' PROVE Told(g)'
  <2>1. Active(g) /\ Told(g) /\ BodyOf(g)' = BodyOf(g)
    BY <1>1, <1>2, <1>6 DEF Active, QueueInv, BodyOf
  <2> QED
    BY <1>1, <1>2, <2>1 DEF Told, Reasoned
<1> QED
  BY <1>5, <1>6 DEF QueueInv

\* The request of a handler joins the queue: it was in none, and nobody has it.
LEMMA QueueQueues ==
  ASSUME AskedInv, QueueInv, NEW h \in Handler, Queue(h), Alone(h)
  PROVE  QueueInv'
<1>0. PICK r : r = handler[h].request
  OBVIOUS
<1>1. /\ handler'[h].pc = "await" /\ handler'[h].reason = handler[h].reason
      /\ handler'[h].request = r /\ handler[h].pc = "queue"
      /\ \A g \in Handler \ {h} : handler'[g] = handler[g]
      /\ UNCHANGED <<rqueue, worker, asked>>
  BY <1>0, HandlerAtEffect DEF Queue, AskedInv, Alone
<1>2. /\ Untouched(r) /\ ~Busy(r) /\ ~Waits(r)
      /\ \A g \in Handler : g # h /\ Active(g) => handler[g].request # r
  BY <1>0, <1>1 DEF QueueInv, ServedOnce, AskedInv, Distinct, Active
<1>3. /\ Len(waiting) \in Nat /\ DOMAIN waiting = 1 .. Len(waiting)
      /\ DOMAIN waiting' = 1 .. Len(waiting) + 1
      /\ waiting'[Len(waiting) + 1] = r
      /\ \A i \in DOMAIN waiting : waiting'[i] = waiting[i]
  <2>1. waiting' = Append(waiting, r) /\ waiting \in Seq(1 .. Len(asked))
    BY <1>0 DEF Queue, AskedInv, Types
  <2> QED
    BY <2>1
<1>4. \A x : Untouched(x) => Untouched(x)'
  BY <1>0, <1>1 DEF Untouched, Active
<1>5. \A x : (Busy(x)' <=> Busy(x)) /\ (Waits(x)' <=> Waits(x) \/ x = r)
  BY <1>1, <1>3 DEF Busy, Waits
<1>6. ServedOnce'
  <2>1. \A g \in Handler : handler'[g].pc \in {"generate", "queue"} =>
          (Untouched(handler[g].request) /\ ~Busy(handler[g].request) /\ ~Waits(handler[g].request))'
    <3> SUFFICES ASSUME NEW g \in Handler, handler'[g].pc \in {"generate", "queue"}
                 PROVE  (/\ Untouched(handler[g].request)
                         /\ ~Busy(handler[g].request) /\ ~Waits(handler[g].request))'
      OBVIOUS
    <3>1. g # h /\ handler'[g] = handler[g] /\ handler[g].request # r
      BY <1>1, <1>2 DEF Active
    <3> QED
      BY <1>4, <1>5, <3>1 DEF QueueInv, ServedOnce
  <2>2. \A i \in DOMAIN waiting' :
          /\ (Untouched(waiting[i]) /\ ~Busy(waiting[i]))'
          /\ \A j \in DOMAIN waiting' : waiting'[j] = waiting'[i] => i = j
    <3>1. \A i \in DOMAIN waiting : waiting[i] # r
      BY <1>2 DEF Waits
    <3>2. \A i \in DOMAIN waiting' : i \in DOMAIN waiting \/ i = Len(waiting) + 1
      BY <1>3
    <3> QED
      BY <1>2, <1>3, <1>4, <1>5, <3>1, <3>2 DEF QueueInv, ServedOnce
  <2> QED
    BY <1>1, <1>4, <2>1, <2>2 DEF QueueInv, ServedOnce
<1>7. ASSUME NEW g \in Handler, Active(g)' PROVE Told(g)'
  <2>1. CASE g = h
    <3>1. rqueue'[r] = << >> /\ DOMAIN rqueue'[r] = {}
      BY <1>1, <1>2 DEF Untouched
    <3>2. ~(worker'.pc = "produce" /\ worker'.request = r)
      BY <1>1, <1>2 DEF Busy
    <3> QED
      BY <1>1, <2>1, <3>1, <3>2 DEF Told
  <2>2. CASE g # h
    <3>1. handler'[g] = handler[g] /\ Told(g) /\ BodyOf(g)' = BodyOf(g)
      BY <1>1, <1>7, <2>2 DEF Active, QueueInv, BodyOf
    <3> QED
      BY <1>1, <3>1 DEF Told, Reasoned
  <2> QED
    BY <2>1, <2>2
<1> QED
  BY <1>6, <1>7 DEF QueueInv

\* A message is taken; what the rest of its queue promises still holds.
LEMMA PopQueues ==
  ASSUME BoundAssumption, AskedInv, QueueInv, NEW h \in Handler, Alone(h), UNCHANGED waiting,
         rqueue[handler[h].request] # << >>,
         rqueue' = [rqueue EXCEPT ![handler[h].request] = Tail(@)],
         handler[h].pc \in {"await", "read"},
         handler'[h].pc \in {"idle", "read", "pass", "complete"},
         LET m == rqueue[handler[h].request][1] IN
         \/ handler'[h].pc = "idle"
         \/ m = Ctx /\ handler'[h].pc = "read" /\ handler'[h].reason = handler[h].reason
         \/ m = End /\ handler'[h].pc = "complete" /\ handler'[h].reason = handler[h].reason
         \/ /\ m.is = "item" /\ handler'[h].pc = "pass"
            /\ handler'[h].reason = IF m.reason # None THEN m.reason ELSE handler[h].reason
  PROVE  QueueInv'
<1>0. PICK r : r = handler[h].request
  OBVIOUS
<1> DEFINE q == rqueue[r]
           m == q[1]
<1>1. Types /\ Distinct /\ Active(h) /\ handler'[h].request = r /\ Told(h)
  BY <1>0 DEF AskedInv, Alone, QueueInv
<1>2. /\ rqueue' \in [Request -> Seq(Signal)]
      /\ \A x \in Request \ {r} : rqueue'[x] = rqueue[x]
      /\ 1 \in DOMAIN q /\ m \in Signal
      /\ Len(q) \in Nat /\ Len(rqueue'[r]) = Len(q) - 1
      /\ \A i \in DOMAIN rqueue'[r] :
           i \in Nat \ {0} /\ i + 1 \in DOMAIN q /\ rqueue'[r][i] = q[i + 1]
      /\ \A i \in DOMAIN q : i \in Nat \ {0} /\ (i # 1 => i - 1 \in DOMAIN rqueue'[r])
  BY <1>0, <1>1, PopEffect
<1>3. ~Untouched(r)
  BY <1>0 DEF Untouched
<1>4. \A g \in Handler : g # h => /\ handler'[g] = handler[g]
                                  /\ Active(g) => handler[g].request # r /\ handler[g].request \in Request
  BY <1>0, <1>1, Requests DEF Alone, Distinct, Active, Types
<1>5. \A x \in Request : Untouched(x) => Untouched(x)'
  BY <1>1, <1>2, <1>3, <1>4 DEF Untouched, Active
<1>6. \A x : (Busy(x)' <=> Busy(x)) /\ (Waits(x)' <=> Waits(x))
  BY DEF Busy, Waits, Alone
<1>7. ServedOnce'
  <2>1. \A g \in Handler : handler'[g].pc \in {"generate", "queue"} =>
          (Untouched(handler[g].request) /\ ~Busy(handler[g].request) /\ ~Waits(handler[g].request))'
    <3> SUFFICES ASSUME NEW g \in Handler, handler'[g].pc \in {"generate", "queue"}
                 PROVE  (/\ Untouched(handler[g].request)
                         /\ ~Busy(handler[g].request) /\ ~Waits(handler[g].request))'
      OBVIOUS
    <3>1. handler'[g] = handler[g] /\ handler[g].request \in Request
      BY <1>4 DEF Active
    <3> QED
      BY <1>5, <1>6, <3>1 DEF QueueInv, ServedOnce
  <2>2. /\ \A i \in DOMAIN waiting : waiting[i] \in 1 .. Len(asked)
        /\ worker.request # 0 => worker.request \in 1 .. Len(asked)
    BY <1>1 DEF Types
  <2>3. /\ \A i \in DOMAIN waiting : waiting[i] \in Request
        /\ worker.request # 0 => worker.request \in Request
    BY <1>1, <2>2, Requests
  <2>4. \A i \in DOMAIN waiting' :
          /\ (Untouched(waiting[i]) /\ ~Busy(waiting[i]))'
          /\ \A j \in DOMAIN waiting' : waiting'[j] = waiting'[i] => i = j
    BY <1>5, <1>6, <2>3 DEF QueueInv, ServedOnce
  <2>5. worker'.pc \in {"load", "core", "meta", "key", "serve"} =>
          worker'.put = 0 /\ (worker'.request # 0 => Untouched(worker.request)')
    BY <1>5, <2>3 DEF QueueInv, ServedOnce, Alone
  <2>6. ~(r > Len(asked)) /\ UNCHANGED asked
    BY <1>0, <1>1 DEF Types, Alone, Active
  <2>7. \A x \in Request : x > Len(asked') => rqueue'[x] = << >>
    BY <1>2, <2>6 DEF QueueInv, ServedOnce
  <2> QED
    BY <2>1, <2>4, <2>5, <2>7 DEF ServedOnce
<1>8. ASSUME NEW g \in Handler, g # h, Active(g)' PROVE Told(g)'
  <2>1. handler'[g] = handler[g] /\ Told(g) /\ BodyOf(g)' = BodyOf(g)
    BY <1>4, <1>8 DEF Active, QueueInv, BodyOf, Alone
  <2>2. rqueue'[handler[g].request] = rqueue[handler[g].request] /\ UNCHANGED worker
    BY <1>2, <1>4, <1>8, <2>1 DEF Active, Alone
  <2> QED
    BY <2>1, <2>2 DEF Told, Reasoned
<1>9. ASSUME Active(h)' PROVE Told(h)'
  <2>1. \/ m = Ctx /\ handler'[h].pc = "read" /\ handler'[h].reason = handler[h].reason
        \/ m = End /\ handler'[h].pc = "complete" /\ handler'[h].reason = handler[h].reason
        \/ /\ m.is = "item" /\ handler'[h].pc = "pass"
           /\ handler'[h].reason = IF m.reason # None THEN m.reason ELSE handler[h].reason
    BY <1>0, <1>9 DEF Active
  <2>2. HasReason(m) => handler'[h].reason # None
    BY <1>2, <2>1, SignalKinds DEF HasReason
  <2>3. handler[h].reason # None => handler'[h].reason # None
    BY <2>1
  <2>4. \A n \in Nat : Reasoned(h, n + 1) => Reasoned(h, n)'
    <3> SUFFICES ASSUME NEW n \in Nat, Reasoned(h, n + 1) PROVE Reasoned(h, n)'
      OBVIOUS
    <3>1. CASE handler[h].reason # None
      BY <2>3, <3>1 DEF Reasoned
    <3>2. CASE handler[h].reason = None
      <4>1. PICK j \in DOMAIN q : j < n + 1 /\ HasReason(q[j])
        BY <1>0, <3>2 DEF Reasoned
      <4>2. CASE j = 1
        BY <2>2, <4>1, <4>2 DEF Reasoned
      <4>3. CASE j # 1
        <5>1. j - 1 \in DOMAIN rqueue'[r] /\ j \in Nat
          BY <1>2, <4>3
        <5>2. rqueue'[r][j - 1] = q[j] /\ j - 1 < n
          BY <1>2, <4>1, <5>1
        <5>3. rqueue'[handler'[h].request] = rqueue'[r]
          BY <1>1
        <5> QED
          BY <4>1, <5>1, <5>2, <5>3 DEF Reasoned, HasReason
      <4> QED
        BY <4>2, <4>3
    <3> QED
      BY <3>1, <3>2
  <2>5. \A i \in DOMAIN rqueue'[r] : rqueue'[r][i] # Ctx
    BY <1>0, <1>1, <1>2 DEF Told
  <2>6. \A i \in DOMAIN rqueue'[r] : rqueue'[r][i] = End => Reasoned(h, i)'
    BY <1>0, <1>1, <1>2, <2>4 DEF Told
  <2>7. PICK k : k = Len(q)
    OBVIOUS
  <2>8. worker.pc = "produce" /\ worker.request = r /\ worker.put >= BodyOf(h).items =>
          Reasoned(h, k)'
    BY <1>0, <1>1, <1>2, <2>4, <2>7 DEF Told
  <2>9. Len(rqueue'[r]) + 1 = k /\ UNCHANGED worker /\ BodyOf(h)' = BodyOf(h)
    BY <1>2, <2>7 DEF Alone, BodyOf
  <2>10. /\ handler'[h].pc # "await" /\ handler'[h].pc = "complete" => handler'[h].reason # None
    <3>1. m = End => handler[h].reason # None
      <4>1. m = End => Reasoned(h, 1)
        BY <1>0, <1>1, <1>2 DEF Told
      <4>2. \A j \in DOMAIN q : ~(j < 1)
        BY <1>2
      <4> QED
        BY <1>0, <4>1, <4>2 DEF Reasoned
    <3> QED
      BY <2>1, <3>1
  <2> QED
    BY <1>1, <2>5, <2>6, <2>8, <2>9, <2>10, <2>1 DEF Told
<1> QED
  BY <1>7, <1>8, <1>9 DEF QueueInv

LEMMA HandleQueues ==
  ASSUME BoundAssumption, AskedInv, QueueInv, NEW h \in Handler, Handle(h)
  PROVE  QueueInv'
<1>1. CASE Receive(h)
  BY <1>1, ReceiveQueues
<1>2. CASE ~Receive(h)
  <2>1. Alone(h) /\ Types /\ Active(h)
    BY <1>2, HandleAsked DEF AskedInv, Alone
  <2>2. /\ ReplyFields \subseteq DOMAIN Sent(h)
        /\ \A code : ReplyFields \subseteq DOMAIN Status(h, code)
        /\ \A fault : /\ ReplyFields \subseteq DOMAIN [Sent(h) EXCEPT !.fault = fault]
                      /\ ReplyFields \subseteq DOMAIN [Status(h, 400) EXCEPT !.fault = fault]
        /\ \A final : /\ ReplyFields \subseteq DOMAIN [Sent(h) EXCEPT !.final = final]
                      /\ ReplyFields \subseteq DOMAIN [Flushed(h) EXCEPT !.final = final]
    BY <2>1, ClosableFields
  <2>3. ASSUME NEW sent, NEW fate, Finish(h, sent, fate),
               ReplyFields \subseteq DOMAIN sent
        PROVE  handler'[h].pc = "idle" /\ handler'[h].reason = handler[h].reason
    BY <2>1, <2>3, FinishEffect
  <2>4. CASE Forget(h)
    BY <2>1, <2>4, ForgetQueues
  <2>5. CASE Queue(h)
    BY <2>1, <2>5, QueueQueues
  <2>6. CASE Await(h)
    <3>1. 1 \in DOMAIN rqueue[handler[h].request]
      BY <2>1, <2>6, PopEffect DEF Await
    <3>2. rqueue[handler[h].request][1] \in {Ctx} \cup Errors
      BY <2>1, <2>6 DEF QueueInv, Told, Await
    <3>3. \/ handler'[h].pc = "idle"
          \/ /\ rqueue[handler[h].request][1] = Ctx
             /\ handler'[h].pc = "read" /\ handler'[h].reason = handler[h].reason
      BY <2>1, <2>2, <2>3, <2>6, <3>2, AwaitEffect
    <3> QED
      BY <2>1, <2>6, <3>3, PopQueues DEF Await
  <2>7. CASE Read(h)
    <3> DEFINE m == rqueue[handler[h].request][1]
    <3>1. 1 \in DOMAIN rqueue[handler[h].request]
      BY <2>1, <2>7, PopEffect DEF Read
    <3>2. m # Ctx
      BY <2>1, <2>7, <3>1 DEF QueueInv, Told, Read
    <3>3. \/ handler'[h].pc = "idle"
          \/ m = End /\ handler'[h].pc = "complete" /\ handler'[h].reason = handler[h].reason
          \/ /\ m.is = "item" /\ handler'[h].pc = "pass"
             /\ handler'[h].reason = IF m.reason # None THEN m.reason ELSE handler[h].reason
      <4>1. HandlerAt(h, "complete") =>
              handler'[h].pc = "complete" /\ handler'[h].reason = handler[h].reason
        BY <2>1, HandlerAtEffect
      <4>2. ASSUME Fail(h, m.kind) PROVE handler'[h].pc = "idle"
        <5>1. \/ Finish(h, [Status(h, 400) EXCEPT !.fault = m.kind], "done")
              \/ Finish(h, [Sent(h) EXCEPT !.fault = m.kind], "dropped")
          BY <4>2, FailEffect
        <5> QED
          BY <2>2, <2>3, <5>1
      <4> QED
        BY <2>1, <2>7, <3>2, <4>1, <4>2, ReadEffect
    <3> QED
      BY <2>1, <2>7, <3>3, PopQueues DEF Read
  <2>8. CASE Pass(h)
    BY <2>1, <2>8, HandlerAtEffect, LeaveQueues DEF Pass
  <2>9. CASE Broken(h)
    BY <2>1, <2>2, <2>3, <2>9, LeaveQueues DEF Broken
  <2>10. CASE ParseError(h)
    <3>1. handler'[h].pc \in {"idle", "salvage"} /\ handler'[h].reason = handler[h].reason
      BY <2>1, <2>2, <2>3, <2>10, HandlerAtEffect DEF ParseError
    <3> QED
      BY <2>1, <2>10, <3>1, LeaveQueues DEF ParseError, Parsing
  <2>11. CASE ParserEscapes(h)
    BY <2>1, <2>2, <2>3, <2>11, LeaveQueues DEF ParserEscapes, Parsing
  <2>12. CASE Complete(h)
    <3> DEFINE final == {Final(h, handler[h].reason)}
    <3>1. Finish(h, [Flushed(h) EXCEPT !.final = final], "done")
      BY <2>12 DEF Complete
    <3>2. handler'[h].pc = "idle" /\ handler'[h].reason = handler[h].reason
      BY <2>2, <2>3, <3>1
    <3> QED
      BY <2>1, <2>12, <3>2, LeaveQueues DEF Complete
  <2>13. CASE Salvage(h)
    <3>1. \E final : Finish(h, [Sent(h) EXCEPT !.final = final], "done")
      BY <2>13 DEF Salvage
    <3>2. handler'[h].pc = "idle" /\ handler'[h].reason = handler[h].reason
      BY <2>2, <2>3, <3>1
    <3> QED
      BY <2>1, <2>13, <3>2, LeaveQueues DEF Salvage
  <2> QED
    BY <1>2, <2>4, <2>5, <2>6, <2>7, <2>8, <2>9, <2>10, <2>11, <2>12, <2>13 DEF Handle
<1> QED
  BY <1>1, <1>2

\* The generation thread moves without putting anything.
LEMMA WorkerQueues ==
  ASSUME QueueInv, UNCHANGED <<handler, asked, waiting, rqueue>>,
         worker.pc \notin {"produce", "stopped"}, worker'.request = worker.request,
         worker'.put = worker.put, worker'.pc # "produce",
         worker'.pc \in {"load", "core", "meta", "key", "serve"} =>
           worker.pc \in {"load", "core", "meta", "key", "serve"},
         worker.pc = "idle" => worker'.pc = "stopped"
  PROVE  QueueInv'
<1>1. \A x : (Untouched(x)' <=> Untouched(x)) /\ (Waits(x)' <=> Waits(x)) /\ (Busy(x)' => Busy(x))
  BY DEF Untouched, Active, Waits, Busy
<1>2. ServedOnce'
  BY <1>1 DEF QueueInv, ServedOnce
<1>3. \A h \in Handler : Active(h)' => Told(h)'
  BY DEF QueueInv, Told, Reasoned, Active, BodyOf
<1> QED
  BY <1>2, <1>3 DEF QueueInv

LEMMA TakeQueues ==
  ASSUME AskedInv, QueueInv, Take, UNCHANGED <<handler, asked>>
  PROVE  QueueInv'
<1>0. PICK r : r = Head(waiting)
  OBVIOUS
<1>1. /\ worker.pc = "idle" /\ worker'.pc = "load" /\ worker'.request = r /\ worker'.put = 0
      /\ UNCHANGED rqueue
  BY <1>0 DEF Take
<1>2. /\ 1 \in DOMAIN waiting /\ waiting[1] = r
      /\ \A i \in DOMAIN waiting' : i + 1 \in DOMAIN waiting /\ waiting'[i] = waiting[i + 1]
                                    /\ i \in Nat \ {0}
  <2>1. waiting \in Seq(1 .. Len(asked)) /\ waiting # << >> /\ waiting' = Tail(waiting)
    BY DEF Take, AskedInv, Types
  <2> QED
    BY <1>0, <2>1
<1>3. \A x : (Untouched(x)' <=> Untouched(x)) /\ (Waits(x)' => Waits(x)) /\ (Busy(x)' => x = r)
  BY <1>1, <1>2 DEF Untouched, Active, Waits, Busy
<1>4. Untouched(r) /\ Waits(r) /\ \A i \in DOMAIN waiting : waiting[i] = r => i = 1
  BY <1>2 DEF QueueInv, ServedOnce, Waits
<1>5. \A h \in Handler : handler'[h].pc \in {"generate", "queue"} =>
        (Untouched(handler[h].request) /\ ~Busy(handler[h].request) /\ ~Waits(handler[h].request))'
  BY <1>3, <1>4 DEF QueueInv, ServedOnce
<1>6. \A i \in DOMAIN waiting' :
        /\ (Untouched(waiting[i]) /\ ~Busy(waiting[i]))'
        /\ \A j \in DOMAIN waiting' : waiting'[j] = waiting'[i] => i = j
  BY <1>2, <1>3, <1>4 DEF QueueInv, ServedOnce
<1>7. ServedOnce'
  BY <1>1, <1>3, <1>4, <1>5, <1>6 DEF QueueInv, ServedOnce
<1>8. \A h \in Handler : Active(h)' => Told(h)'
  BY <1>1 DEF QueueInv, Told, Reasoned, Active, BodyOf
<1> QED
  BY <1>7, <1>8 DEF QueueInv

\* What is put for one request changes nothing for the others.
LEMMA PutServed ==
  ASSUME BoundAssumption, AskedInv, QueueInv, NEW m \in Signal, Put(m), worker.request # 0,
         worker.pc \notin {"idle", "stopped"}, UNCHANGED <<handler, asked, waiting>>,
         worker'.request = worker.request, worker'.pc \in {"produce", "idle"}
  PROVE  /\ ServedOnce'
         /\ \A h \in Handler : Active(h) /\ handler[h].request # worker.request => Told(h)'
<1>0. PICK r : r = worker.request
  OBVIOUS
<1>1. Types
  BY DEF AskedInv
<1>2. /\ r \in Request /\ ~(r > Len(asked)) /\ \A x \in Request \ {r} : rqueue'[x] = rqueue[x]
  BY <1>0, <1>1, PutEffect DEF Types
<1>3. Busy(r)
  BY <1>0 DEF Busy
<1>4. \A x \in Request : x # r => (Untouched(x) => Untouched(x)')
  BY <1>2 DEF Untouched, Active
<1>5. \A x : (Busy(x)' => Busy(x)) /\ (Waits(x)' <=> Waits(x))
  BY <1>0 DEF Busy, Waits
<1>6. \A h \in Handler : handler'[h].pc \in {"generate", "queue"} =>
        (Untouched(handler[h].request) /\ ~Busy(handler[h].request) /\ ~Waits(handler[h].request))'
  <2> SUFFICES ASSUME NEW h \in Handler, handler[h].pc \in {"generate", "queue"}
               PROVE  (/\ Untouched(handler[h].request)
                       /\ ~Busy(handler[h].request) /\ ~Waits(handler[h].request))'
    OBVIOUS
  <2>1. /\ Untouched(handler[h].request) /\ ~Busy(handler[h].request)
        /\ ~Waits(handler[h].request)
    BY DEF QueueInv, ServedOnce
  <2>2. handler[h].request \in Request
    BY <1>1, Requests DEF Types
  <2>3. UNCHANGED handler
    OBVIOUS
  <2> QED
    BY <1>3, <1>4, <1>5, <2>1, <2>2, <2>3
<1>7. \A i \in DOMAIN waiting' :
        /\ (Untouched(waiting[i]) /\ ~Busy(waiting[i]))'
        /\ \A j \in DOMAIN waiting' : waiting'[j] = waiting'[i] => i = j
  <2>1. \A i \in DOMAIN waiting : waiting[i] \in Request /\ waiting[i] # r
    <3>1. \A i \in DOMAIN waiting : waiting[i] \in 1 .. Len(asked)
      BY <1>1 DEF Types
    <3>2. 1 .. Len(asked) \subseteq Request
      BY <1>1, Requests
    <3>3. \A i \in DOMAIN waiting : ~Busy(waiting[i])
      BY DEF QueueInv, ServedOnce
    <3> QED
      BY <1>3, <3>1, <3>2, <3>3
  <2> QED
    BY <1>4, <1>5, <2>1 DEF QueueInv, ServedOnce
<1>8. \A x \in Request : x > Len(asked') => rqueue'[x] = << >>
  BY <1>2 DEF QueueInv, ServedOnce
<1>9. ServedOnce'
  BY <1>6, <1>7, <1>8 DEF ServedOnce
<1>10. ASSUME NEW h \in Handler, Active(h), handler[h].request # r PROVE Told(h)'
  <2>1. Told(h) /\ rqueue'[handler[h].request] = rqueue[handler[h].request]
    BY <1>1, <1>2, <1>10, Requests DEF QueueInv, Types, Active
  <2> QED
    BY <1>0, <1>10, <2>1 DEF Told, Reasoned
<1> QED
  BY <1>0, <1>9, <1>10

\* The first message is the context, or the error that comes instead of it.
LEMMA PutFirst ==
  ASSUME BoundAssumption, AskAssumption, AskedInv, QueueInv, NEW m \in {Ctx} \cup Errors, Put(m),
         worker.request # 0, worker.pc \in {"load", "core", "meta", "key", "serve"},
         UNCHANGED <<handler, asked, waiting>>,
         worker'.request = worker.request, worker'.put = worker.put,
         worker'.pc \in {"produce", "idle"}
  PROVE  QueueInv'
<1>0. PICK r : r = worker.request
  OBVIOUS
<1>1. Types /\ m \in Signal /\ m # End
  BY ItemIsSignal DEF AskedInv, Ctx, End, Errors, Error
<1>2. Untouched(r) /\ worker.put = 0
  BY <1>0 DEF QueueInv, ServedOnce
<1>3. /\ Len(rqueue[r]) = 0 /\ rqueue'[r][1] = m /\ DOMAIN rqueue'[r] = {1} /\ rqueue'[r] # << >>
  <2>1. Len(rqueue[r]) = 0
    BY <1>2 DEF Untouched
  <2>2. rqueue'[r][1] = m /\ DOMAIN rqueue'[r] = 1 .. 1
    BY <1>0, <1>1, <2>1, PutEffect
  <2> QED
    BY <2>1, <2>2
<1>4. ASSUME NEW h \in Handler, Active(h), handler[h].request = r PROVE Told(h)'
  <2>1. handler[h].pc = "await" /\ handler[h].request = r /\ UNCHANGED handler
    <3>1. handler[h].pc \in {"generate", "queue", "await"}
      BY <1>2, <1>4 DEF Untouched
    <3>2. Busy(r)
      BY <1>0 DEF Busy
    <3> QED
      BY <1>4, <3>1, <3>2 DEF QueueInv, ServedOnce
  <2>2. BodyOf(h).items \in Nat \ {0} /\ BodyOf(h)' = BodyOf(h)
    BY <1>1, <1>4 DEF BodyOf, Types, AskAssumption, Active
  <2>3. ~(worker'.put >= BodyOf(h)'.items)
    BY <1>2, <2>2
  <2> QED
    BY <1>1, <1>3, <2>1, <2>3 DEF Told
<1>5. ServedOnce' /\ \A h \in Handler : Active(h) /\ handler[h].request # r => Told(h)'
  BY <1>0, <1>1, PutServed
<1> QED
  BY <1>4, <1>5 DEF QueueInv, Active

\* While it produces, an end is only put behind the reason.
LEMMA PutMore ==
  ASSUME BoundAssumption, AskAssumption, AskedInv, QueueInv, NEW m \in Signal, Put(m), m # Ctx,
         worker.request # 0, worker.pc = "produce",
         UNCHANGED <<handler, asked, waiting>>,
         worker'.request = worker.request, worker'.pc \in {"produce", "idle"},
         m = End => worker.put >= Ask[asked[worker.request]].items,
         worker'.pc = "produce" /\ worker'.put >= Ask[asked[worker.request]].items => HasReason(m)
  PROVE  QueueInv'
<1>0. PICK r : r = worker.request
  OBVIOUS
<1>1. Types
  BY DEF AskedInv
<1>2. PICK n \in Nat : n = Len(rqueue[r])
  BY <1>0, <1>1, PutEffect
<1>3. /\ Len(rqueue'[r]) = n + 1 /\ rqueue'[r][n + 1] = m
      /\ DOMAIN rqueue[r] = 1 .. n /\ DOMAIN rqueue'[r] = 1 .. n + 1
      /\ \A i \in DOMAIN rqueue[r] : rqueue'[r][i] = rqueue[r][i]
  BY <1>0, <1>1, <1>2, PutEffect
<1>4. ASSUME NEW h \in Handler, Active(h), handler[h].request = r PROVE Told(h)'
  <2>1. /\ Told(h) /\ BodyOf(h) = Ask[asked[r]] /\ BodyOf(h)' = BodyOf(h) /\ UNCHANGED handler
        /\ handler'[h].request = r
    BY <1>4 DEF QueueInv, BodyOf
  <2>2. handler[h].pc = "await" => n # 0
    BY <1>0, <1>2, <1>3, <1>4, <2>1 DEF Told
  <2>3. \A i \in Nat : Reasoned(h, i) => Reasoned(h, i)'
    <3>1. handler'[h] = handler[h] /\ handler[h].request = r
      BY <1>4
    <3>2. \A j \in DOMAIN rqueue[r] : j \in DOMAIN rqueue'[r] /\ rqueue'[r][j] = rqueue[r][j]
      BY <1>2, <1>3
    <3> QED
      BY <3>1, <3>2 DEF Reasoned, HasReason
  <2>4. \A i \in DOMAIN rqueue'[r] : rqueue'[r][i] = Ctx => handler[h].pc = "await" /\ i = 1
    <3>1. \A i \in 1 .. n + 1 : i \in 1 .. n \/ i = n + 1
      BY <1>2
    <3> QED
      BY <1>3, <1>4, <2>1, <3>1 DEF Told
  <2>5. handler[h].pc = "await" => rqueue'[r][1] \in {Ctx} \cup Errors /\ rqueue'[r] # << >>
    <3> SUFFICES ASSUME handler[h].pc = "await" PROVE rqueue'[r][1] \in {Ctx} \cup Errors /\ rqueue'[r] # << >>
      OBVIOUS
    <3>1. rqueue[r] # << >> /\ 1 \in DOMAIN rqueue[r]
      BY <1>0, <1>2, <1>3, <1>4, <2>1, <2>2 DEF Told
    <3> QED
      BY <1>3, <1>4, <2>1, <3>1 DEF Told
  <2>6. \A i \in DOMAIN rqueue'[r] : rqueue'[r][i] = End => Reasoned(h, i)'
    <3> SUFFICES ASSUME NEW i \in DOMAIN rqueue'[r], rqueue'[r][i] = End PROVE Reasoned(h, i)'
      OBVIOUS
    <3>1. CASE i \in 1 .. n
      BY <1>3, <1>4, <2>1, <2>3, <3>1 DEF Told
    <3>2. CASE i = n + 1
      <4>1. Reasoned(h, n + 1)
        BY <1>0, <1>2, <1>3, <1>4, <2>1, <3>2 DEF Told
      <4> QED
        BY <1>2, <2>3, <3>2, <4>1
    <3> QED
      BY <1>2, <1>3, <3>1, <3>2
  <2>7. worker'.pc = "produce" /\ worker'.put >= Ask[asked[r]].items => Reasoned(h, n + 2)'
    <3> SUFFICES ASSUME worker'.pc = "produce", worker'.put >= Ask[asked[r]].items
                 PROVE  Reasoned(h, n + 2)'
      OBVIOUS
    <3>1. HasReason(m)
      BY <1>0
    <3>2. n + 1 \in DOMAIN rqueue'[r] /\ n + 1 < n + 2 /\ HasReason(rqueue'[r][n + 1])
      BY <1>2, <1>3, <3>1 DEF HasReason
    <3>3. n + 2 \in Nat /\ rqueue'[handler'[h].request] = rqueue'[r]
      BY <1>2, <2>1
    <3> QED
      BY <3>2, <3>3 DEF Reasoned, HasReason
  <2>8. Len(rqueue'[r]) + 1 = n + 2
    BY <1>2, <1>3
  <2> QED
    BY <1>0, <1>4, <2>1, <2>4, <2>5, <2>6, <2>7, <2>8 DEF Told
<1>5. ServedOnce' /\ \A h \in Handler : Active(h) /\ handler[h].request # r => Told(h)'
  BY <1>0, PutServed
<1> QED
  BY <1>4, <1>5 DEF QueueInv, Active

LEMMA GenerateQueues ==
  ASSUME BoundAssumption, AskAssumption, AskedInv, Published, QueueInv, Generate
  PROVE  QueueInv'
<1>1. UNCHANGED <<main, handler, asked, tracked, reply>> /\ Types
  BY GenerateAsked DEF AskedInv
<1>2. \A pc : WorkerAt(pc) =>
        worker'.pc = pc /\ worker'.request = worker.request /\ worker'.put = worker.put
  BY <1>1 DEF Types, WorkerAt
<1>3. Serving \in {"idle", "serve"}
  BY DEF Serving
<1>4. CASE Stop
  BY <1>1, <1>2, <1>4, WorkerQueues DEF Stop
<1>5. CASE Take
  BY <1>1, <1>5, TakeQueues
<1>6. CASE Load
  BY <1>1, <1>2, <1>3, <1>6, WorkerQueues DEF Load
<1>7. CASE LoadRaises
  <2>1. CASE worker.request = 0
    BY <1>1, <1>2, <1>7, <2>1, WorkerQueues DEF LoadRaises
  <2>2. CASE worker.request # 0
    BY <1>1, <1>2, <1>7, <2>2, PutFirst, ItemIsSignal DEF LoadRaises, Kinds
  <2> QED
    BY <2>1, <2>2
<1>8. CASE Publish
  <2>1. worker.pc \in {"core", "meta", "key"} /\ NextField[worker.pc] \in {"meta", "key", "serve"}
    BY <1>8 DEF Publish, NextField
  <2>2. worker'.pc \in {"meta", "key", "serve", "idle"} /\ UNCHANGED <<waiting, rqueue>>
        /\ worker'.request = worker.request /\ worker'.put = worker.put
    BY <1>2, <1>3, <1>8, <2>1 DEF Publish
  <2> QED
    BY <1>1, <2>1, <2>2, WorkerQueues
<1>9. CASE Serve
  <2>1. worker.request # 0
    BY <1>9 DEF Published, Serve
  <2> QED
    BY <1>1, <1>2, <1>9, <2>1, PutFirst DEF Serve
<1>10. CASE Produce
  <2>1. worker.request # 0 /\ asked[worker.request] \in DOMAIN Ask
    BY <1>1, <1>10 DEF Produce, Published, Types
  <2> DEFINE b == Ask[asked[worker.request]]
  <2>2. b.items \in Nat \ {0} /\ b.reason \in Reasons /\ None \notin Reasons
    BY <2>1 DEF AskAssumption, Reasons, None
  <2>3. CASE worker.put < b.items
    <3>1. PICK reason \in Reasons \cup {None} :
            /\ Put(Item(reason))
            /\ worker.put + 1 = b.items => reason # None
      BY <1>10, <2>2, <2>3 DEF Produce
    <3>2. /\ worker' = [worker EXCEPT !.put = @ + 1] /\ UNCHANGED waiting
          /\ worker.pc = "produce" /\ worker.put \in Nat
      BY <1>1, <1>10, <2>3 DEF Produce, Types
    <3>3. worker'.pc = "produce" /\ worker'.request = worker.request /\ worker'.put = worker.put + 1
      BY <1>1, <3>2 DEF Types
    <3>4. /\ Item(reason) \in Signal /\ Item(reason) # Ctx /\ Item(reason) # End
          /\ Item(reason).is = "item" /\ Item(reason).reason = reason
      BY ItemIsSignal
    <3>5. worker'.put >= b.items => HasReason(Item(reason))
      BY <2>2, <2>3, <3>1, <3>2, <3>3, <3>4 DEF HasReason
    <3> QED
      BY <1>1, <2>1, <3>1, <3>2, <3>3, <3>4, <3>5, PutMore
  <2>4. CASE ~(worker.put < b.items)
    <3>1. Put(End) /\ WorkerAt("idle") /\ UNCHANGED waiting /\ worker.pc = "produce"
      BY <1>10, <2>4 DEF Produce
    <3>2. worker.put >= b.items
      BY <1>1, <2>2, <2>4 DEF Types
    <3>3. End \in Signal /\ End # Ctx
      BY ItemIsSignal DEF End, Ctx
    <3> QED
      BY <1>1, <1>2, <2>1, <3>1, <3>2, <3>3, PutMore
  <2> QED
    BY <2>3, <2>4
<1>11. CASE ServeRaises
  <2>1. /\ worker.request # 0 /\ WorkerAt("idle") /\ UNCHANGED waiting
        /\ worker.pc \in {"serve", "produce"}
        /\ \E kind \in Kinds : Put(Error(kind))
    BY <1>11 DEF ServeRaises, Published, Kinds
  <2>2. \A kind \in Kinds : /\ Error(kind) \in Errors /\ Error(kind) \in Signal
                            /\ Error(kind) # Ctx /\ Error(kind) # End
    BY ItemIsSignal
  <2>3. CASE worker.pc = "serve"
    BY <1>1, <1>2, <2>1, <2>2, <2>3, PutFirst
  <2>4. CASE worker.pc = "produce"
    BY <1>1, <1>2, <2>1, <2>2, <2>4, PutMore
  <2> QED
    BY <2>1, <2>3, <2>4
<1> QED
  BY <1>4, <1>5, <1>6, <1>7, <1>8, <1>9, <1>10, <1>11 DEF Generate

-----------------------------------------------------------------------------
(* The replies. *)

LEMMA ReceiveReplies ==
  ASSUME BoundAssumption, AskedInv, ReplyInv, NEW h \in Handler, Receive(h)
  PROVE  ReplyInv'
<1>0. PICK r : r = Len(asked) + 1
  OBVIOUS
<1>1. Types
  BY DEF AskedInv
<1>2. /\ ~Active(h) /\ r \in Request /\ Len(asked) \in Nat /\ Len(asked') = r
      /\ \A i \in 1 .. Len(asked) : asked'[i] = asked[i]
      /\ \A g \in Handler \ {h} : handler'[g] = handler[g]
      /\ DOMAIN reply' = Request /\ \A x \in Request \ {r} : reply'[x] = reply[x]
      /\ \/ /\ UNCHANGED handler
            /\ reply'[r] = [Unsent EXCEPT !.status = <<400>>, !.fate = "done"]
         \/ /\ UNCHANGED reply
            /\ handler'[h].pc = "generate" /\ handler'[h].request = r
            /\ ~handler'[h].started
            /\ handler'[h].responses <=>
                 handler[h].responses \/ Ask[asked'[r]].endpoint = "responses"
  BY <1>0, <1>1, ReceiveEffect
<1>3. reply[r] = Unsent /\ ~handler[h].responses
  BY <1>0, <1>2 DEF ReplyInv
<1>4. Unsent.status = << >> /\ Unsent.buffer = << >> /\ Unsent.final = {} /\ Unsent.fate = "open"
  BY DEF Unsent
<1>5. WellFormed(r, reply[r])'
  <2>1. CASE reply'[r] = [Unsent EXCEPT !.status = <<400>>, !.fate = "done"]
    <3>1. reply'[r].status = <<400>> /\ reply'[r].final = {} /\ reply'[r].fate = "done"
      BY <2>1 DEF Unsent
    <3> QED
      BY <3>1 DEF WellFormed, Refusal
  <2>2. CASE UNCHANGED reply
    BY <1>3, <1>4, <2>2 DEF WellFormed
  <2> QED
    BY <1>2, <2>1, <2>2
<1>6. \A x \in 1 .. Len(asked) : WellFormed(x, reply[x])'
  <2> SUFFICES ASSUME NEW x \in 1 .. Len(asked) PROVE WellFormed(x, reply[x])'
    OBVIOUS
  <2>1. WellFormed(x, reply[x])
    BY DEF ReplyInv, ReplyWellFormed
  <2>2. reply'[x] = reply[x] /\ asked'[x] = asked[x]
    BY <1>0, <1>1, <1>2, Requests
  <2> QED
    BY <2>1, <2>2 DEF WellFormed, LateError, Headless
<1>7. ReplyWellFormed'
  <2>1. \A x \in 1 .. Len(asked') : x \in 1 .. Len(asked) \/ x = r
    BY <1>0, <1>2
  <2> QED
    BY <1>5, <1>6, <2>1 DEF ReplyWellFormed
<1>8. ASSUME NEW g \in Handler PROVE IF Active(g)' THEN Open(g)' ELSE ~handler'[g].responses
  <2>1. CASE handler'[g] = handler[g]
    <3>1. CASE Active(g)
      <4>1. Open(g) /\ handler[g].request \in 1 .. Len(asked)
        BY <1>1, <3>1 DEF ReplyInv, Types, Active
      <4>2. /\ reply'[handler[g].request] = reply[handler[g].request]
            /\ asked'[handler[g].request] = asked[handler[g].request]
        BY <1>0, <1>1, <1>2, <4>1, Requests
      <4> QED
        BY <2>1, <3>1, <4>1, <4>2 DEF Open, BodyOf, Active, Parsed
    <3>2. CASE ~Active(g)
      BY <2>1, <3>2 DEF ReplyInv, Active
    <3> QED
      BY <3>1, <3>2
  <2>2. CASE /\ g = h /\ UNCHANGED reply
             /\ handler'[h].pc = "generate" /\ handler'[h].request = r
             /\ ~handler'[h].started
             /\ handler'[h].responses <=>
                  handler[h].responses \/ Ask[asked'[r]].endpoint = "responses"
    BY <1>3, <1>4, <2>2 DEF Open, BodyOf, Active
  <2> QED
    BY <1>2, <2>1, <2>2
<1>9. \A x \in Request : x > Len(asked') => reply'[x] = Unsent
  BY <1>0, <1>2 DEF ReplyInv, Request, BoundAssumption
<1> QED
  BY <1>7, <1>8, <1>9 DEF ReplyInv

\* What a step of h has to show, when it leaves every other reply alone.
LEMMA OneReply ==
  ASSUME BoundAssumption, AskedInv, ReplyInv, NEW h \in Handler, Alone(h),
         WellFormed(handler[h].request, reply[handler[h].request])',
         IF Active(h)' THEN Open(h)' ELSE ~handler'[h].responses
  PROVE  ReplyInv'
<1>0. PICK r : r = handler[h].request
  OBVIOUS
<1>1. Types /\ Distinct /\ UNCHANGED asked /\ Active(h)
  BY DEF AskedInv, Alone
<1>2. r \in 1 .. Len(asked) /\ handler'[h].request = r /\ \A x \in Request \ {r} : reply'[x] = reply[x]
  BY <1>0, <1>1 DEF Types, Alone, Active
<1>3. \A x \in 1 .. Len(asked) : WellFormed(x, reply[x])'
  <2> SUFFICES ASSUME NEW x \in 1 .. Len(asked), x # r PROVE WellFormed(x, reply[x])'
    BY <1>2
  <2>1. WellFormed(x, reply[x]) /\ reply'[x] = reply[x]
    BY <1>1, <1>2, Requests DEF ReplyInv, ReplyWellFormed
  <2> QED
    BY <1>1, <2>1 DEF WellFormed, LateError, Headless
<1>4. ReplyWellFormed'
  BY <1>1, <1>3 DEF ReplyWellFormed
<1>5. ASSUME NEW g \in Handler, g # h PROVE IF Active(g)' THEN Open(g)' ELSE ~handler'[g].responses
  <2>1. handler'[g] = handler[g]
    BY <1>5 DEF Alone
  <2>2. CASE Active(g)
    <3>1. handler[g].request # r /\ handler[g].request \in Request
      BY <1>0, <1>1, <1>5, <2>2, Requests DEF Distinct, Types, Active
    <3>2. Open(g) /\ reply'[handler[g].request] = reply[handler[g].request]
      BY <1>2, <2>2, <3>1 DEF ReplyInv
    <3> QED
      BY <1>1, <2>1, <2>2, <3>2 DEF Open, BodyOf, Active, Parsed
  <2>3. CASE ~Active(g)
    BY <2>1, <2>3 DEF ReplyInv, Active
  <2> QED
    BY <2>2, <2>3
<1>6. \A x \in Request : x > Len(asked') => reply'[x] = Unsent
  BY <1>1, <1>2 DEF ReplyInv
<1> QED
  BY <1>4, <1>5, <1>6 DEF ReplyInv

\* A step of h within its request leaves the reply open.
LEMMA KeepOpen ==
  ASSUME BoundAssumption, AskedInv, ReplyInv, NEW h \in Handler, Alone(h), UNCHANGED reply,
         Active(h)', handler'[h].started <=> handler[h].started,
         handler'[h].responses <=> handler[h].responses,
         handler'[h].pc \in {"generate", "queue", "await"} =>
           handler[h].pc \in {"generate", "queue", "await"},
         handler'[h].pc \in {"read", "pass", "complete", "salvage"} => handler[h].started,
         handler'[h].pc = "salvage" => Parsed(h) = Refused
  PROVE  ReplyInv'
<1>1. Active(h) /\ Open(h) /\ UNCHANGED asked /\ handler'[h].request = handler[h].request
  BY DEF Alone, ReplyInv
<1>2. Open(h)'
  BY <1>1 DEF Open, BodyOf, Parsed
<1>3. WellFormed(handler[h].request, reply[handler[h].request])'
  BY <1>1, <1>2 DEF Open, WellFormed
<1> QED
  BY <1>2, <1>3, OneReply

LEMMA CloseReply ==
  ASSUME BoundAssumption, AskedInv, ReplyInv, NEW h \in Handler, Alone(h), NEW sent, NEW fate,
         Finish(h, sent, fate), ReplyFields \subseteq DOMAIN sent,
         WellFormed(handler[h].request, [sent EXCEPT !.fate = fate])
  PROVE  ReplyInv'
<1>0. PICK r : r = handler[h].request
  OBVIOUS
<1>1. Active(h) /\ Types /\ UNCHANGED asked /\ handler'[h].request = r
  BY <1>0 DEF Alone, AskedInv
<1>2. /\ handler'[h].pc = "idle" /\ ~handler'[h].responses
      /\ reply'[r] = [sent EXCEPT !.fate = fate]
  BY <1>0, <1>1, FinishEffect, FinishReply
<1>3. ~Active(h)'
  BY <1>2 DEF Active
<1>4. WellFormed(r, reply[r])'
  BY <1>0, <1>1, <1>2 DEF WellFormed, LateError, Headless
<1> QED
  BY <1>0, <1>1, <1>2, <1>3, <1>4, OneReply

LEMMA TwoStatuses == Append(<<200>>, 400) = <<200, 400>>
<1> DEFINE both == Append(<<200>>, 400)
<1>1. both \in Seq({200, 400}) /\ Len(both) = 2 /\ both[1] = 200 /\ both[2] = 400
  OBVIOUS
<1>2. /\ <<200, 400>> \in Seq({200, 400}) /\ Len(<<200, 400>>) = 2
      /\ <<200, 400>>[1] = 200 /\ <<200, 400>>[2] = 400
  OBVIOUS
<1> HIDE DEF both
<1>3. \A i \in 1 .. Len(both) : both[i] = <<200, 400>>[i]
  <2>1. \A i \in 1 .. 2 : i = 1 \/ i = 2
    OBVIOUS
  <2> QED
    BY <1>1, <1>2, <2>1
<1>4. both = <<200, 400>>
  BY <1>1, <1>2, <1>3, SeqEqual
<1> QED
  BY <1>4 DEF both

LEMMA HandleReplies ==
  ASSUME BoundAssumption, AskAssumption, AskedInv, QueueInv, ReplyInv, NEW h \in Handler, Handle(h)
  PROVE  ReplyInv'
<1>1. CASE Receive(h)
  BY <1>1, ReceiveReplies
<1>2. CASE ~Receive(h)
  <2>1. Alone(h) /\ Types /\ Active(h) /\ Open(h)
    BY <1>2, HandleAsked DEF AskedInv, Alone, ReplyInv
  <2>0. PICK r : r = handler[h].request
    OBVIOUS
  <2>2. /\ ReplyFields \subseteq DOMAIN Sent(h)
        /\ Sent(h).final = {} /\ Sent(h).fate = "open"
        /\ Sent(h).status = IF handler[h].started /\ BodyOf(h).stream THEN <<200>> ELSE << >>
        /\ Sent(h).buffer = IF handler[h].started /\ ~BodyOf(h).stream THEN <<200>> ELSE << >>
        /\ Sent(h).status \in {<< >>, <<200>>}
    BY <2>1, SentFields DEF Open, Sent
  <2>18. \A code :
           /\ /\ ReplyFields \subseteq DOMAIN Status(h, code)
              /\ Status(h, code).buffer = << >>
              /\ Status(h, code).status = Append(Sent(h).status \o Sent(h).buffer, code)
              /\ Status(h, code).final = {} /\ Status(h, code).fate = "open"
           /\ /\ Buffered(h, code).buffer = Append(Sent(h).buffer, code)
              /\ Buffered(h, code).status = Sent(h).status
              /\ Buffered(h, code).final = {} /\ Buffered(h, code).fate = "open"
    <3>1. ReplyFields \subseteq DOMAIN Sent(h) /\ Sent(h).final = {} /\ Sent(h).fate = "open"
      BY <2>2
    <3> QED
      BY <3>1, StatusShape, BufferedShape
  <2>3. Sent(h).status \o Sent(h).buffer = IF handler[h].started THEN <<200>> ELSE << >>
    <3>1. << >> \o << >> = << >> /\ <<200>> \o << >> = <<200>> /\ << >> \o <<200>> = <<200>>
      OBVIOUS
    <3> QED
      BY <2>2, <3>1
  <2>4. /\ Append(<< >>, 200) = <<200>> /\ Append(<< >>, 400) = <<400>>
        /\ Append(<< >>, 404) = <<404>>
    OBVIOUS
  \* The ways a reply is closed.
  <2>5. ASSUME Finish(h, Sent(h), "closed") PROVE ReplyInv'
    <3> DEFINE now == [Sent(h) EXCEPT !.fate = "closed"]
    <3>1. now.fate = "closed" /\ now.status = Sent(h).status /\ now.final = {}
      BY <2>2, ClosedShape
    <3>2. WellFormed(handler[h].request, now)
      BY <2>2, <3>1 DEF WellFormed
    <3> QED
      BY <2>1, <2>2, <2>5, <3>2, CloseReply
  <2>6. ASSUME NEW code \in {400, 404}, ~handler[h].started, Finish(h, Status(h, code), "done")
        PROVE  ReplyInv'
    <3> DEFINE sent == Status(h, code)
               now == [sent EXCEPT !.fate = "done"]
    <3>1. ReplyFields \subseteq DOMAIN sent /\ sent.status = <<code>> /\ sent.final = {}
      <4>1. /\ ReplyFields \subseteq DOMAIN sent /\ sent.final = {}
            /\ sent.status = Append(Sent(h).status \o Sent(h).buffer, code)
        BY <2>18
      <4>2. Append(<< >>, code) = <<code>>
        BY <2>4, <2>6
      <4> QED
        BY <2>3, <2>6, <4>1, <4>2
    <3>2. now.fate = "done" /\ now.status = <<code>> /\ now.final = {}
      BY <3>1, ClosedShape
    <3>3. WellFormed(handler[h].request, now)
      BY <3>2 DEF WellFormed, Refusal
    <3> QED
      BY <2>1, <2>6, <3>1, <3>3, CloseReply
  <2>7. ASSUME NEW sent, NEW reason \in Reasons, ReplyFields \subseteq DOMAIN sent,
               sent.final = {Final(h, reason)}, Finish(h, sent, "done"),
               \/ sent.status = << 200 >>
               \/ /\ sent.status = << >> /\ sent.buffer = << 200 >>
                  /\ ~BodyOf(h).stream /\ Parsed(h) = Refused
        PROVE  ReplyInv'
    <3> DEFINE now == [sent EXCEPT !.fate = "done"]
    <3>1. /\ now.fate = "done" /\ now.status = sent.status /\ now.buffer = sent.buffer
          /\ now.final = {Final(h, reason)} /\ now.final # {}
      BY <2>7, ClosedShape
    <3>2. /\ Final(h, reason).reason = reason
          /\ Final(h, reason).responses <=> BodyOf(h).endpoint = "responses"
      BY <2>1 DEF Final, Open
    <3>3. /\ BodyOf(h) = Ask[asked[handler[h].request]]
          /\ Parsed(h) = Parses[asked[handler[h].request]]
      BY DEF BodyOf, Parsed
    <3>4. Success(now) \/ Headless(handler[h].request, now)
      <4>1. CASE sent.status = <<200>>
        BY <3>1, <4>1 DEF Success
      <4>2. CASE /\ sent.status = << >> /\ sent.buffer = <<200>>
                 /\ ~BodyOf(h).stream /\ Parsed(h) = Refused
        BY <3>1, <3>3, <4>2 DEF Headless
      <4> QED
        BY <2>7, <4>1, <4>2
    <3>5. \A final \in now.final :
            /\ final.reason \in {"stop", "length"}
            /\ final.responses <=> Ask[asked[handler[h].request]].endpoint = "responses"
      BY <3>1, <3>2, <3>3 DEF Reasons
    <3> HIDE DEF now
    <3>6. WellFormed(handler[h].request, now)
      BY <3>1, <3>4, <3>5 DEF WellFormed
    <3> QED
      BY <2>1, <2>7, <3>6, CloseReply DEF now
  <2>8. CASE Forget(h)
    BY <2>1, <2>8, HandlerAtEffect, KeepOpen DEF Forget, Active
  <2>9. CASE Queue(h)
    BY <2>1, <2>9, HandlerAtEffect, KeepOpen DEF Queue, Active
  <2>10. CASE Await(h)
    <3>1. ~handler[h].started /\ handler[h].pc = "await"
      BY <2>1, <2>10 DEF Open, Await
    <3>2. CASE Finish(h, Status(h, 404), "done")
      BY <2>6, <3>1, <3>2
    <3>3. CASE /\ handler'[h].pc = "read" /\ (handler'[h].responses <=> handler[h].responses)
               /\ handler'[h].started
               /\ reply' = [reply EXCEPT ![handler[h].request] =
                              IF BodyOf(h).stream THEN Status(h, 200) ELSE Buffered(h, 200)]
      <4>1. /\ r \in Request /\ DOMAIN reply = Request /\ UNCHANGED asked
            /\ handler'[h].request = r
        BY <2>0, <2>1, Requests DEF Types, Active, Alone
      <4>2. reply'[r] = IF BodyOf(h).stream THEN Status(h, 200) ELSE Buffered(h, 200)
        BY <2>0, <3>3, <4>1
      <4>3. /\ Sent(h).status = << >> /\ Sent(h).buffer = << >>
            /\ Sent(h).status \o Sent(h).buffer = << >>
        BY <2>2, <2>3, <3>1
      <4>4. /\ reply'[r].final = {} /\ reply'[r].fate = "open"
            /\ reply'[r].status = IF BodyOf(h).stream THEN <<200>> ELSE << >>
            /\ reply'[r].buffer = IF ~BodyOf(h).stream THEN <<200>> ELSE << >>
        <5>1. CASE BodyOf(h).stream
          <6>1. /\ Status(h, 200).buffer = << >> /\ Status(h, 200).final = {}
                /\ Status(h, 200).fate = "open"
                /\ Status(h, 200).status = Append(Sent(h).status \o Sent(h).buffer, 200)
            BY <2>18
          <6> QED
            BY <2>4, <4>2, <4>3, <5>1, <6>1
        <5>2. CASE ~BodyOf(h).stream
          <6>1. /\ Buffered(h, 200).status = Sent(h).status /\ Buffered(h, 200).final = {}
                /\ Buffered(h, 200).fate = "open"
                /\ Buffered(h, 200).buffer = Append(Sent(h).buffer, 200)
            BY <2>18
          <6> QED
            BY <2>4, <4>2, <4>3, <5>2, <6>1
        <5> QED
          BY <5>1, <5>2
      <4>5. Open(h)'
        <5>1. BodyOf(h)' = BodyOf(h)
          BY <2>0, <4>1 DEF BodyOf
        <5>2. handler[h].responses <=> BodyOf(h).endpoint = "responses"
          BY <2>1 DEF Open
        <5> QED
          BY <3>3, <4>1, <4>4, <5>1, <5>2 DEF Open
      <4>6. WellFormed(r, reply[r])'
        BY <4>4 DEF WellFormed
      <4>7. Active(h)'
        BY <3>3 DEF Active
      <4> QED
        BY <2>0, <2>1, <4>1, <4>5, <4>6, <4>7, OneReply
    <3> QED
      BY <2>1, <2>10, <3>2, <3>3, AwaitEffect
  <2>11. CASE Read(h)
    <3> DEFINE m == rqueue[handler[h].request][1]
    <3>1. m # Ctx /\ handler[h].pc = "read" /\ handler[h].started /\ m \in Signal
      <4>1. 1 \in DOMAIN rqueue[handler[h].request] /\ m \in Signal
        BY <2>1, <2>11, PopEffect DEF Read
      <4> QED
        BY <2>1, <2>11, <4>1 DEF QueueInv, Told, Read, Open
    <3>2. CASE HandlerAt(h, "complete") /\ UNCHANGED reply
      BY <2>1, <3>1, <3>2, HandlerAtEffect, KeepOpen DEF Active
    <3>3. CASE m \in Errors /\ Fail(h, m.kind)
      <4>1. m.kind # None
        BY <3>1, <3>3, SignalKinds DEF Kinds, None
      <4>2. CASE /\ handler[h].responses /\ m.kind = "ValueError"
                 /\ Finish(h, [Status(h, 400) EXCEPT !.fault = m.kind], "done")
        <5> DEFINE sent == [Status(h, 400) EXCEPT !.fault = m.kind]
                   now == [sent EXCEPT !.fate = "done"]
        <5>0. /\ ReplyFields \subseteq DOMAIN Status(h, 400)
              /\ Status(h, 400).status = <<200, 400>> /\ Status(h, 400).final = {}
          <6>1. /\ ReplyFields \subseteq DOMAIN Status(h, 400) /\ Status(h, 400).final = {}
                /\ Status(h, 400).status = Append(Sent(h).status \o Sent(h).buffer, 400)
            BY <2>18
          <6> QED
            BY <2>3, <3>1, <6>1, TwoStatuses
        <5>1. /\ ReplyFields \subseteq DOMAIN sent /\ sent.status = <<200, 400>>
              /\ sent.final = {} /\ sent.fault = "ValueError"
          BY <4>2, <5>0, FailedShape
        <5>2. /\ now.fate = "done" /\ now.status = <<200, 400>> /\ now.final = {}
              /\ now.fault = "ValueError"
          BY <5>1, ClosedShape
        <5>3. Ask[asked[handler[h].request]].endpoint = "responses"
          BY <2>1, <4>2 DEF Open, BodyOf
        <5>4. WellFormed(handler[h].request, now)
          BY <5>2, <5>3 DEF WellFormed, LateError
        <5> QED
          BY <2>1, <4>2, <5>1, <5>4, CloseReply
      <4>3. CASE Finish(h, [Sent(h) EXCEPT !.fault = m.kind], "dropped")
        <5> DEFINE sent == [Sent(h) EXCEPT !.fault = m.kind]
                   now == [sent EXCEPT !.fate = "dropped"]
        <5>1. /\ ReplyFields \subseteq DOMAIN sent /\ sent.status = Sent(h).status
              /\ sent.final = {} /\ sent.fault = m.kind
          BY <2>2, FailedShape
        <5>2. /\ now.fate = "dropped" /\ now.status = Sent(h).status /\ now.final = {}
              /\ now.fault = m.kind
          BY <5>1, ClosedShape
        <5>3. WellFormed(handler[h].request, now)
          BY <2>2, <4>1, <5>2 DEF WellFormed
        <5> QED
          BY <2>1, <4>3, <5>1, <5>3, CloseReply
      <4> QED
        BY <3>3, <4>2, <4>3, FailEffect
    <3>4. CASE /\ handler'[h].pc = "pass" /\ (handler'[h].responses <=> handler[h].responses)
               /\ (handler'[h].started <=> handler[h].started) /\ UNCHANGED reply
      BY <2>1, <3>1, <3>4, KeepOpen DEF Active
    <3> QED
      BY <2>1, <2>11, <3>1, <3>2, <3>3, <3>4, ReadEffect
  <2>12. CASE Pass(h)
    BY <2>1, <2>12, HandlerAtEffect, KeepOpen DEF Pass, Active, Open
  <2>13. CASE Broken(h)
    BY <2>5, <2>13 DEF Broken
  <2>14. CASE ParseError(h)
    <3>1. handler[h].started /\ Parsed(h) = Refused
      BY <2>1, <2>14 DEF ParseError, Parsing, Open
    <3> QED
      BY <2>1, <2>14, <3>1, HandlerAtEffect, KeepOpen DEF ParseError, Active
  <2>15. CASE ParserEscapes(h)
    <3> DEFINE now == [Sent(h) EXCEPT !.fate = "dropped"]
    <3>1. now.fate = "dropped" /\ now.status = Sent(h).status /\ now.final = {}
      BY <2>2, ClosedShape
    <3>2. Parses[asked[handler[h].request]] = Escaped
      BY <2>15 DEF ParserEscapes, Parsed
    <3>3. WellFormed(handler[h].request, now)
      BY <2>2, <3>1, <3>2 DEF WellFormed
    <3> QED
      BY <2>1, <2>2, <2>15, <3>3, CloseReply DEF ParserEscapes
  <2>16. CASE Complete(h)
    <3>1. handler[h].reason \in Reasons
      BY <2>1, <2>16 DEF QueueInv, Told, Complete, Types
    <3> DEFINE sent == [Flushed(h) EXCEPT !.final = {Final(h, handler[h].reason)}]
    <3>2. Finish(h, sent, "done") /\ handler[h].started
      BY <2>1, <2>16 DEF Complete, Open
    <3>3. /\ ReplyFields \subseteq DOMAIN sent /\ sent.final = {Final(h, handler[h].reason)}
          /\ sent.status = <<200>>
      BY <2>2, <2>3, <3>2, FinalShape
    <3> HIDE DEF sent
    <3> QED
      BY <2>7, <3>1, <3>2, <3>3
  <2>17. CASE Salvage(h)
    <3>1. PICK reason \in Reasons :
            Finish(h, [Sent(h) EXCEPT !.final = {Final(h, reason)}], "done")
      <4>1. (IF tracked # None THEN tracked ELSE "length") \in Reasons
        BY <2>1 DEF Types, Reasons
      <4> QED
        BY <2>17, <4>1 DEF Salvage
    <3>2. handler[h].started /\ Parsed(h) = Refused
      BY <2>1, <2>17 DEF Open, Salvage
    <3> DEFINE sent == [Sent(h) EXCEPT !.final = {Final(h, reason)}]
    <3>3. /\ ReplyFields \subseteq DOMAIN sent /\ sent.final = {Final(h, reason)}
          /\ sent.status = Sent(h).status /\ sent.buffer = Sent(h).buffer
      BY <2>2, FinalShape
    <3>4. Finish(h, sent, "done")
      BY <3>1
    <3> HIDE DEF sent
    <3> QED
      BY <2>2, <2>7, <3>2, <3>3, <3>4
  <2> QED
    BY <1>2, <2>8, <2>9, <2>10, <2>11, <2>12, <2>13, <2>14, <2>15, <2>16, <2>17 DEF Handle
<1> QED
  BY <1>1, <1>2

-----------------------------------------------------------------------------

LEMMA StepInv ==
  /\ ModelAssumption /\ AskAssumption /\ BoundAssumption
  /\ ServerInv /\ [Next]_vars
  => ServerInv'
<1> SUFFICES ASSUME ModelAssumption, AskAssumption, BoundAssumption, ServerInv, [Next]_vars
             PROVE  ServerInv'
  OBVIOUS
<1>1. AskedInv /\ Types /\ ModelInv /\ Published /\ QueueInv /\ ReplyInv
  BY DEF ServerInv, AskedInv, ModelInv
<1>2. ASSUME UNCHANGED <<handler, asked, tracked, waiting, worker, provider, rqueue, reply>>
      PROVE  AskedInv' /\ QueueInv' /\ ReplyInv'
  <2>1. AskedInv'
    BY <1>1, <1>2 DEF AskedInv, Types, Distinct, Active
  <2>2. QueueInv'
    BY <1>1, <1>2 DEF QueueInv, ServedOnce, Untouched, Busy, Waits, Told, Reasoned, BodyOf, Active
  <2>3. ReplyInv'
    BY <1>1, <1>2 DEF ReplyInv, ReplyWellFormed, WellFormed, LateError, Headless, Open, BodyOf,
       Active, Parsed
  <2> QED
    BY <2>1, <2>2, <2>3
<1>3. CASE Ready \/ StopGenerator \/ ShutdownCaches
  <2>1. UNCHANGED <<handler, asked, tracked, waiting, worker, provider, rqueue, reply>>
    BY <1>3 DEF Ready, StopGenerator, ShutdownCaches
  <2>2. ModelInv'
    BY <1>1, <1>3, <2>1, MainModel
  <2> QED
    BY <1>2, <2>1, <2>2 DEF ServerInv
<1>4. CASE Generate
  <2>1. AskedInv' /\ UNCHANGED <<main, handler, asked, tracked, reply>>
    BY <1>1, <1>4, GenerateAsked
  <2>2. ModelInv'
    BY <1>1, <1>4, <2>1, GenerateModel
  <2>3. QueueInv'
    BY <1>1, <1>4, GenerateQueues
  <2>4. ReplyInv'
    BY <1>1, <2>1 DEF ReplyInv, ReplyWellFormed, WellFormed, LateError, Headless, Open, BodyOf,
       Active, Parsed
  <2> QED
    BY <2>1, <2>2, <2>3, <2>4 DEF ServerInv
<1>5. ASSUME NEW h \in Handler, Handle(h) PROVE ServerInv'
  <2>1. AskedInv' /\ (Receive(h) \/ Alone(h))
    BY <1>1, <1>5, ReceiveAsked, HandleAsked
  <2>2. ModelInv'
    BY <1>1, <1>5, <2>1, HandleModel
  <2>3. QueueInv' /\ ReplyInv'
    BY <1>1, <1>5, HandleQueues, HandleReplies
  <2> QED
    BY <2>1, <2>2, <2>3 DEF ServerInv
<1>6. CASE UNCHANGED vars
  <2>1. UNCHANGED <<handler, asked, tracked, waiting, worker, provider, rqueue, reply>>
    BY <1>6 DEF vars
  <2>2. ModelInv'
    BY <1>1, <1>6 DEF vars, ModelInv, Published, Seen, Wanted
  <2> QED
    BY <1>2, <2>1, <2>2 DEF ServerInv
<1> QED
  BY <1>3, <1>4, <1>5, <1>6 DEF Next

LEMMA AlwaysInv == Spec => []ServerInv
<1>1. ServerInv /\ [Next]_vars => ServerInv'
  BY ModelAssumption, AskAssumption, BoundAssumption, StepInv
<1>2. Init => ServerInv
  BY BoundAssumption, InitInv
<1> QED
  BY <1>1, <1>2, PTL DEF Spec

\* However many handlers answer at once and whatever clients ask for, a client
\* gets one status line, and behind a 200 a reply that is closed with a finish
\* reason in the format of its endpoint, but for a ValueError of the engine in
\* the middle of a reply over /v1/responses and for the salvage of a reply that
\* is no stream.
THEOREM RepliesAlwaysWellFormed == Spec => []ReplyWellFormed
<1>1. ServerInv => ReplyWellFormed
  BY DEF ServerInv, ReplyInv
<1> QED
  BY <1>1, AlwaysInv, PTL

\* For any models and requests the main thread only announces a model all of
\* whose fields are set, and a request is only served by the model it asks for,
\* wherever earlier loads raised.
THEOREM WholeModelAlways == Spec => []WholeModel
<1>1. ServerInv => WholeModel
  <2> SUFFICES ASSUME ServerInv PROVE WholeModel
    OBVIOUS
  <2>1. Published /\ Seen
    BY DEF ServerInv, ModelInv
  <2>2. ASSUME worker.pc \in {"serve", "produce"} PROVE \A f \in DOMAIN provider : provider[f] = Wanted
    BY <2>1, <2>2 DEF Published
  <2> QED
    BY <2>1, <2>2 DEF Seen, Whole, WholeModel
<1> QED
  BY <1>1, AlwaysInv, PTL
===============================================================================
