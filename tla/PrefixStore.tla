------------------------------ MODULE PrefixStore ------------------------------
(***************************************************************************)
(* The two-level cache of one process and the request that uses it:        *)
(* PrefixSnapshotStore (cache/store.py) over PrefixL1 and PrefixL2, behind *)
(* RuntimeCacheManager (cache/manager.py), called by the request flow      *)
(* (server/prefix_cache_flow.py, cache/snapshot_service.py,                *)
(* server/request_loop.py).                                                *)
(*                                                                         *)
(* The manager's lock admits one call at a time; only the L2 writer thread *)
(* runs beside it.  A call that touches L2 several times is several steps, *)
(* because the writer may move in between:                                 *)
(*   call      the call that holds the lock: its phase and the snapshots   *)
(*             it has yet to hand to L2                                    *)
(*   request   the request served: one at a time, the server has a single  *)
(*             generation thread                                           *)
(*   manager   the manager's _retired and _shutdown_complete               *)
(*   found     what the last lookup in either level found                  *)
(*   reply     what the store returned to the last request                 *)
(***************************************************************************)
EXTENDS Snapshots

CONSTANTS server, Snapshot, Request, NoSnapshot,
          MaxEntries, MaxBytes, MaxSnapshotTokens, FrontierStride, MaxClock,
          InitDisk, MaxDiskBytes, MaxInFlight, SaveErrors,
          InsertMayRaise     \* whether preparing a snapshot for L2 may fail

ASSUME StoreAssumption ==
  /\ \A s \in Snapshot : IsSnapshot(s)
  /\ \A r \in Request : IsRequest(r)
  /\ NoSnapshot \notin Snapshot /\ InitDisk \subseteq Seq(Snapshot)
  /\ MaxEntries \in Nat /\ MaxBytes \in Nat /\ MaxSnapshotTokens \in Nat
  /\ FrontierStride \in Nat /\ MaxClock \in Nat
  /\ MaxDiskBytes \in Nat /\ MaxInFlight \in Nat \ {0}
  /\ SaveErrors \subseteq {"os", "other"} /\ InsertMayRaise \in BOOLEAN

VARIABLES entries, lru, nextId, outcome, lastUse, clock,
          disk, proc, writer, client, wiped,
          manager, call, request, found, reply

l1vars == <<entries, lru, nextId, outcome, lastUse, clock>>
l2vars == <<disk, proc, writer, client, wiped>>
vars == <<l1vars, l2vars, manager, call, request, found, reply>>

L1 == INSTANCE PrefixL1 WITH CrossKindPrune <- TRUE, reply <- found
L2 == INSTANCE PrefixL2 WITH Proc <- {server}, MaxBytes <- MaxDiskBytes, Rotten <- {},
        SlowJoin <- FALSE, MaxActive <- 1, MaxEpoch <- 0, reply <- found

-----------------------------------------------------------------------------

NoCall == [op |-> "none", todo |-> << >>]
NoRequest == [stage |-> "none", req |-> NoSnapshot, answer |-> {}]
Open == [retired |-> FALSE, complete |-> FALSE]

Init ==
  /\ L1!Init /\ L2!Init
  /\ manager = Open /\ call = NoCall /\ request = NoRequest
  /\ reply = NoSnapshot

\* _make_prefix_store, in a process of its own.
Start ==
  /\ L2!Open(server)
  /\ UNCHANGED <<l1vars, manager, call, request, reply>>

\* The process ends, at any point; only the directory survives.
Crash ==
  /\ L2!Crash(server)
  /\ entries' = << >> /\ lru' = << >> /\ nextId' = 0 /\ outcome' = L1!NoOutcome
  /\ lastUse' = << >> /\ clock' = 0
  /\ manager' = Open /\ call' = NoCall /\ request' = NoRequest
  /\ UNCHANGED reply

\* The manager's lock is free.
Free == proc[server].up # "down" /\ call.op = "none"

Spilling(todo) == [op |-> "spill", todo |-> todo]

-----------------------------------------------------------------------------
(* store.lookup, for a request that begins *)

\* The length of what L1 alone would return.
Matched(r) ==
  IF L1!Hit(entries, r) = {} THEN 0
  ELSE Len((CHOOSE h \in L1!Hit(entries, r) : TRUE).snap.tokens)

May(r) == Free /\ ~manager.retired /\ request.stage = "none"

\* An exact match in L1 is not looked for on disk.
LookupExact(r) ==
  /\ May(r) /\ Matched(r) = Len(r.tokens)
  /\ L1!Lookup(r)
  /\ reply' = found'
  /\ request' = [NoRequest EXCEPT !.stage = "found", !.req = r]
  /\ UNCHANGED <<l2vars, manager, call>>

\* Mutant: L2 is asked for any match at all.
LookupDeep_AnyLength(r) ==
  /\ May(r) /\ Matched(r) < Len(r.tokens)
  /\ L2!Lookup(server, r, 0)
  /\ call' = [NoCall EXCEPT !.op = "search"]
  /\ request' = [NoRequest EXCEPT !.stage = "lookup", !.req = r]
  /\ UNCHANGED <<l1vars, manager, reply>>

\* Otherwise L2 is searched for a longer one.
LookupDeep(r) ==
  /\ May(r) /\ Matched(r) < Len(r.tokens)
  /\ L2!Lookup(server, r, Matched(r))
  /\ call' = [NoCall EXCEPT !.op = "search"]
  /\ request' = [NoRequest EXCEPT !.stage = "lookup", !.req = r]
  /\ UNCHANGED <<l1vars, manager, reply>>

Search ==
  /\ call.op = "search"
  /\ L2!Load(server) \/ L2!Recount(server)
  /\ UNCHANGED <<l1vars, manager, call, request, reply>>

Searched == call.op = "search" /\ client[server].pc = "idle"

\* L2 has nothing longer: L1 serves.
FallBack ==
  /\ Searched /\ found.snap = NoSnapshot
  /\ L1!Lookup(request.req)
  /\ reply' = found' /\ call' = NoCall
  /\ request' = [request EXCEPT !.stage = "found"]
  /\ UNCHANGED <<l2vars, manager>>

\* Mutant: what a promotion pushes out of L1 is not handed on.
Promote_Drops ==
  /\ Searched /\ found.snap # NoSnapshot
  /\ \/ /\ found.snap.kind = "generation"
        /\ UNCHANGED <<l1vars, found>>
     \/ /\ found.snap.kind # "generation"
        /\ L1!Insert(found.snap)
  /\ call' = Spilling(<< >>)
  /\ UNCHANGED <<l2vars, manager, request, reply>>

\* _record_l2_hit: a prefill snapshot moves up, what it pushes out goes down.
Promote ==
  /\ Searched /\ found.snap # NoSnapshot
  /\ \/ /\ found.snap.kind = "generation"
        /\ call' = Spilling(<< >>)
        /\ UNCHANGED <<l1vars, found>>
     \/ /\ found.snap.kind # "generation"
        /\ L1!Insert(found.snap)
        /\ call' = Spilling(outcome'.removed)
  /\ UNCHANGED <<l2vars, manager, request, reply>>

-----------------------------------------------------------------------------
(* store.insert, insert_l2_only and _write_snapshots_to_l2 *)

\* Mutant: pruned and evicted snapshots are dropped.
ToL2_OnlyIncoming(s, o) ==
  IF s.kind = "prefill" /\ (o.admitted \/ o.skipped) THEN <<s>> ELSE << >>

\* What an insert with outcome o hands to L2: the prompt itself, written
\* through or too long for L1, and all that L1 gave up.
ToL2(s, o) ==
  (IF s.kind = "prefill" /\ (o.admitted \/ o.skipped) THEN <<s>> ELSE << >>) \o o.removed

\* The engine publishes the snapshot of the prompt, or at the end that of
\* prompt and answer.
Publish(s) ==
  LET r == request.req
  IN /\ Free /\ ~manager.retired /\ request.stage = "serving" /\ request.answer = {}
     /\ s.key = r.key
     /\ \/ s.kind = "prefill" /\ s.logits /\ s.tokens = r.tokens
        \/ s.kind = "generation" /\ IsStrictPrefix(r.tokens, s.tokens)
     /\ L1!Insert(s)
     /\ call' = Spilling(ToL2(s, outcome'))
     /\ request' = IF s.kind = "generation" THEN [request EXCEPT !.answer = {s}] ELSE request
     /\ UNCHANGED <<l2vars, manager, reply>>

\* A frontier of a long prefill goes to L2 only.
PublishFrontier(s) ==
  /\ Free /\ ~manager.retired /\ request.stage = "serving" /\ request.answer = {}
  /\ s.key = request.req.key /\ s.kind = "prefill" /\ s.logits
  /\ IsStrictPrefix(s.tokens, request.req.tokens)
  /\ call' = Spilling(<<s>>)
  /\ UNCHANGED <<l1vars, l2vars, manager, request, found, reply>>

\* One insert_async; the writer may free the slot before the next.
Spill ==
  /\ call.op \in {"spill", "close"} /\ call.todo # << >>
  /\ L2!Insert(server, Head(call.todo))
  /\ call' = [call EXCEPT !.todo = Tail(@)]
  /\ UNCHANGED <<l1vars, manager, request, reply>>

\* insert_async raises: the call ends there.  A lookup that fails ends its
\* request, a failed shutdown leaves the manager retired.
SpillRaises ==
  /\ InsertMayRaise
  /\ call.op \in {"spill", "close"} /\ call.todo # << >>
  /\ L2!Accepts(server, Head(call.todo)) /\ ~L2!OnDisk(Head(call.todo))
  /\ call' = NoCall
  /\ request' = IF request.stage = "lookup" THEN NoRequest ELSE request
  /\ UNCHANGED <<l1vars, l2vars, manager, found, reply>>

Return ==
  /\ call.op = "spill" /\ call.todo = << >>
  /\ call' = NoCall
  /\ \/ /\ request.stage = "lookup"
        /\ reply' = found
        /\ request' = [request EXCEPT !.stage = "found"]
     \/ /\ request.stage # "lookup"
        /\ UNCHANGED <<request, reply>>
  /\ UNCHANGED <<l1vars, l2vars, manager, found>>

-----------------------------------------------------------------------------
(* The brackets around a request, and the end of the manager *)

Begin ==
  /\ Free /\ request.stage = "found"
  /\ IF manager.retired THEN UNCHANGED <<l2vars, found>> ELSE L2!BeginRequest(server)
  /\ request' = [request EXCEPT !.stage = "serving"]
  /\ UNCHANGED <<l1vars, manager, call, reply>>

\* Mutant: a request that published an answer is thought to have ended.
End_Unbalanced ==
  /\ Free /\ request.stage = "serving"
  /\ IF manager.retired \/ request.answer # {} THEN UNCHANGED <<l2vars, found>>
     ELSE L2!EndRequest(server)
  /\ request' = NoRequest
  /\ UNCHANGED <<l1vars, manager, call, reply>>

\* The finally of the request loop; the engine may have published nothing.
End ==
  /\ Free /\ request.stage = "serving"
  /\ IF manager.retired THEN UNCHANGED <<l2vars, found>> ELSE L2!EndRequest(server)
  /\ request' = NoRequest
  /\ UNCHANGED <<l1vars, manager, call, reply>>

\* resident_snapshots, the least recently used first.
Residents == [n \in DOMAIN lru |-> entries[lru[n]]]

\* Mutant: the residents are not handed over.
Shutdown_Drops ==
  /\ Free /\ ~manager.complete
  /\ manager' = [manager EXCEPT !.retired = TRUE]
  /\ call' = [op |-> "close", todo |-> << >>]
  /\ UNCHANGED <<l1vars, l2vars, request, found, reply>>

\* shutdown, by another thread or for a new configuration; a request may be
\* half way.  One that failed can be called again.
Shutdown ==
  /\ Free /\ ~manager.complete
  /\ manager' = [manager EXCEPT !.retired = TRUE]
  /\ call' = [op |-> "close", todo |-> Residents]
  /\ UNCHANGED <<l1vars, l2vars, request, found, reply>>

CloseL2 ==
  /\ call.op = "close" /\ call.todo = << >>
  /\ L2!Shutdown(server)
  /\ call' = [NoCall EXCEPT !.op = "join"]
  /\ UNCHANGED <<l1vars, manager, request, reply>>

Complete ==
  /\ call.op = "join"
  /\ L2!Joined(server)
  /\ manager' = [manager EXCEPT !.complete = TRUE]
  /\ call' = NoCall
  /\ UNCHANGED <<l1vars, request, reply>>

Writer == L2!WriterStep(server) /\ UNCHANGED <<l1vars, manager, call, request, reply>>

-----------------------------------------------------------------------------

Next ==
  \/ Start \/ Crash
  \/ \E r \in Request : LookupExact(r) \/ LookupDeep(r)
  \/ Search \/ FallBack \/ Promote
  \/ \E s \in Snapshot : Publish(s) \/ PublishFrontier(s)
  \/ Spill \/ SpillRaises \/ Return
  \/ Begin \/ End
  \/ Shutdown \/ CloseL2 \/ Complete
  \/ Writer

\* The threads run: a call that holds the lock goes on, and so does the writer.
\* A request that has begun ends (the server ends it in a finally), between
\* whatever other calls.  The writer spends its wait inside Event.wait, where
\* an opening of the gate is not missed: it gets through a gate that opens
\* again and again.
Fairness ==
  /\ WF_vars(Search \/ FallBack \/ Promote \/ Spill \/ Return \/ CloseL2 \/ Complete)
  /\ SF_vars(Begin \/ End)
  /\ WF_vars(Writer) /\ SF_vars(L2!PassGate(server) /\ Writer)

Spec == Init /\ [][Next]_vars
FairSpec == Spec /\ Fairness

-----------------------------------------------------------------------------
(* Properties *)

\* The snapshot a lookup has found and not yet returned.
InTransit ==
  IF request.stage = "lookup" /\ client[server].pc = "idle"
  THEN {found.snap} \ {NoSnapshot} ELSE {}

\* Everything some part of the store holds.
Holding == L1!Held \cup L2!Stored \cup ToSet(call.todo) \cup InTransit

\* The two levels and the traffic between them keep the promise of one cache.
Promise == INSTANCE PrefixCacheSpec WITH held <- Holding
ImplementsPromise == Promise!Spec

\* What can still be served, now or by the next process: what L1 holds counts
\* until a shutdown has made its list.
Reachable ==
  (IF call.op \in {"close", "join"} \/ manager.complete THEN {} ELSE L1!Held)
    \cup L2!Stored \cup ToSet(call.todo)

\* The generation snapshot a lookup returns now, whole or its slice.
Spent ==
  {s \in L1!Held :
     /\ request.stage # "found" /\ request'.stage = "found"
     /\ s.kind = "generation" /\ reply'.snap \in {s, SliceAtBoundary(s)}}

\* What L2 is offered now and does not take: one snapshot when no slot is free,
\* all that were still to be offered when it raises.
Refused ==
  IF call.todo = << >> \/ call' = call THEN {}
  ELSE IF call'.op = "none" THEN ToSet(call.todo)
  ELSE IF L2!Accepts(server, Head(call.todo)) THEN {} ELSE {Head(call.todo)}

\* Two levels are never worse than one.  The answer of a search is at least as
\* long as L1's own, although L1 is only probed before it and looked up after
\* it.  And while the process lives a step gives up two kinds of snapshots
\* only: the generation snapshot it serves, and what it offers to an L2 that
\* has no free slot or raises.  Whatever L1 prunes, evicts, turns away, pushes
\* out for a promotion or still holds at a shutdown is offered.
NeverWorseThanL1 ==
  [][/\ call.op = "search" /\ call'.op # "search" /\ call'.op # "none" =>
          Len(found'.snap.tokens) > Matched(request.req)
     /\ proc'[server].up # "down" => Reachable \subseteq Reachable' \cup Spent \cup Refused]_vars

\* Outside a request the gate of the writer is open: brackets balance, also
\* around failures and a shutdown half way.
BracketsBalance ==
  proc[server].up = "up" /\ request.stage # "serving" /\ ~manager.retired
    => proc[server].active = 0 /\ proc[server].gate

\* A shutdown that has returned leaves nothing behind that will never happen:
\* no queued write, no writer at work, no temporary file, no lock.
NothingAfterShutdown ==
  manager.complete =>
    /\ L2!Ended(server) /\ ~proc[server].owner
    /\ writer[server].pc = "exited" => proc[server].queue = << >> /\ ~writer[server].tmp

\* A shutdown returns, a request under way or not: the writer it joins never
\* waits for a gate that the shutdown itself keeps from opening.
ShutdownReturns == (call.op \in {"close", "join"}) ~> (call.op = "none")

\* A queued snapshot reaches the directory, unless the process dies: neither
\* the gate of a request nor a shutdown strands it.
QueuedReachesDisk ==
  \A s \in Snapshot :
    s \in L2!Pending(server) ~> (L2!OnDisk(s) \/ proc[server].up = "down")

==============================================================================
