------------------------------ MODULE SpecDecode ------------------------------
(***************************************************************************)
(* The speculative decode loop of one request                              *)
(* (SpeculativeSession._run_decode_events, engine/spec_epoch.py) and the   *)
(* generation snapshot taken after it.  What stands before it, from the    *)
(* restored snapshot to the first token, is in the module Session.         *)
(*                                                                         *)
(* A cycle drafts a block of tokens, lets the target verify it in one      *)
(* forward pass, commits the drafted tokens the target agrees with and the *)
(* staged token before them, takes the rest back out of the target's       *)
(* caches, and launches the draft of the next cycle before the tokens of   *)
(* this one have been handed out.                                          *)
(*                                                                         *)
(* The target model is its greedy continuation of the prompt.  On any      *)
(* other text, or over caches that do not hold the text they should, it    *)
(* may answer any token.  The draft model may propose any tokens.  A cache *)
(* is the text it has read, a captured hidden feature the position it      *)
(* belongs to.                                                             *)
(*                                                                         *)
(*   run         the options of the request, fixed                         *)
(*   greedy      the target's continuation of the prompt, fixed            *)
(*   session     what the prefill has made of them: the tokens restored, the *)
(*               boundary of the prompt's snapshot, whether it is to be    *)
(*               published, the features frozen and the sidecar taken for  *)
(*               the answer's, and whether the loop collects for it        *)
(*   active      snapshot_service.active: the cache manager is not closed  *)
(*   pc, block   the place in the loop and the locals of the cycle         *)
(*   stream      the tokens yielded to the consumer                        *)
(*   generated   state.generated_token_ids                                 *)
(*   unskipped   first_token_yielded                                       *)
(*   start       state.start                                               *)
(*   staged      state.staged_first                                        *)
(*   cache       target_cache: the attention entries (kv), the recurrent   *)
(*               entries (rec) with their checkpoint and tape              *)
(*   hidden      feature_store.current_hidden, 0 where a restored snapshot *)
(*               has no feature                                            *)
(*   chunks      feature_store.generation_chunks                           *)
(*   context     the features the draft cache has absorbed                 *)
(*   prefetched  state.prefetched_draft                                    *)
(*   index       the tokens of copyspec_index                              *)
(*   copyOff     state.copyspec_disabled                                   *)
(*   policy, gate  the adaptive block policy and the copyspec gate         *)
(*   row         the text the last logits (state.prefill_logits, then      *)
(*               state.last_cycle_logits) were computed for, empty for None *)
(*   published   the snapshots given to the prefix cache                   *)
(***************************************************************************)
EXTENDS Integers, Sequences, SequencesExt, FiniteSetsExt

CONSTANTS Token, Stop, Suppressed,
          Prompt,
          Continuations,       \* the continuations the target may have
          Runs,                \* the options a request may come with
          FullBlock, MinBlock, WindowSize, Burst, LongBurst,
          ProbeCycles, EarlyProbeCycles, EarlyMin, EarlyWindow, EarlyAcceptance,
          DropAcceptance, ResumeAcceptance, TpcThreshold,
          CopyWindow, ProbeOff, ProbeOnCopies, ProbeOnCycles, Latch, BackoffCap,
          Sink, Window         \* the features the draft model attends to

VARIABLES run, greedy, session, active, pc, block, stream, generated, unskipped, start, staged, cache,
          hidden, chunks, context, prefetched, index, copyOff, policy, gate, row,
          published

request == <<run, greedy, active>>
fixed == <<request, session>>
emitted == <<stream, generated, unskipped>>
verified == <<start, cache, hidden, chunks, copyOff, row>>
steering == <<policy, gate, index>>
drafts == <<context, prefetched>>
vars == <<fixed, pc, block, emitted, verified, steering, drafts, staged, published>>

Adaptive == INSTANCE AdaptiveBlock
Copy == INSTANCE CopySpec

ASSUME BlockAssumption == FullBlock \in Nat \ {0} /\ MinBlock \in Nat \ {0, 1}
ASSUME PromptAssumption == Prompt \in Seq(Token) /\ Prompt # << >>
ASSUME WindowAssumption == Sink \in Nat /\ Window \in Nat /\ CopyWindow \in Nat \ {0}
ASSUME ContinuationAssumption ==
  \A r \in Runs : /\ r.max \in Nat /\ r.cap \in Nat
                   /\ \A g \in Continuations :
                         Len(g) >= r.max + FullBlock /\ g \in Seq(Token \ Suppressed)

-----------------------------------------------------------------------------
NoDraft == [len |-> 0, staged |-> Prompt[1], tokens |-> << >>, source |-> "none"]
NoBlock == [len |-> 0, source |-> "none", tokens |-> << >>, staged |-> Prompt[1],
            todo |-> << >>, committed |-> << >>, accepted |-> 0, next |-> Prompt[1]]
NoSidecar == [at |-> 0, rec |-> << >>, row |-> << >>]
NoCheckpoint == [armed |-> FALSE, rec |-> << >>]

Positions(from, to) == [i \in 1 .. to - from |-> from + i]

\* The text up to the n-th token of the continuation.
Text(n) == Prompt \o SubSeq(greedy, 1, n)

-----------------------------------------------------------------------------
\* RecurrentRollbackCache and the trimmable attention caches.

Arm(c) == [c EXCEPT !.saved = [armed |-> TRUE, rec |-> c.rec], !.tape = << >>]

Forward(c, tokens) ==
  [c EXCEPT !.kv = @ \o tokens, !.rec = @ \o tokens,
            !.tape = IF c.saved.armed THEN tokens ELSE @]

Rollback_DropsStaged(c, accepted) ==
  IF c.saved.armed THEN c.saved.rec \o SubSeq(c.tape, 1, accepted) ELSE c.rec

Rollback(c, accepted) ==
  IF c.saved.armed THEN c.saved.rec \o SubSeq(c.tape, 1, accepted + 1) ELSE c.rec

\* restore_after_acceptance: trims the attention entries to the committed text
\* and replays the accepted part of the tape over the checkpoint.
Restore(c, targetLen, accepted, drafted) ==
  [kv |-> IF Len(c.kv) > targetLen THEN SubSeq(c.kv, 1, targetLen) ELSE c.kv,
   rec |-> IF accepted = drafted THEN c.rec ELSE Rollback(c, accepted),
   saved |-> NoCheckpoint, tape |-> << >>]

ColdCache == [kv |-> << >>, rec |-> << >>, saved |-> NoCheckpoint, tape |-> << >>]

\* The target's answer after each token of a block: its own continuation if both
\* caches hold a text it continues, otherwise wrong.
Posterior(c, tokens, wrong) ==
  [i \in 1 .. Len(tokens) |->
     LET before == SubSeq(tokens, 1, i)
         n == Len(c.kv) + i - Len(Prompt)
     IN IF /\ c.kv \o before = Text(n) /\ c.rec \o before = Text(n)
        THEN greedy[n + 1] ELSE wrong]

AcceptanceLength_CountsAll(drafted, posterior) ==
  Cardinality({i \in 1 .. Len(drafted) : drafted[i] = posterior[i]})

\* match_acceptance_length: the drafted tokens before the first disagreement.
AcceptanceLength(drafted, posterior) ==
  Max({n \in 0 .. Len(drafted) : \A i \in 1 .. n : drafted[i] = posterior[i]})

-----------------------------------------------------------------------------
\* Drafting a block of len tokens of which the first is staged.

CopyDrafts_NoGate(first, len, tokens, g) ==
  IF run.copy = "off" \/ copyOff THEN {}
  ELSE Copy!DraftAfter(Prompt, tokens, first, len - 1, Suppressed)

CopyDrafts(first, len, tokens, g) ==
  IF run.copy = "off" \/ copyOff \/ ~Copy!EngageCopy(g) THEN {}
  ELSE Copy!DraftAfter(Prompt, tokens, first, len - 1, Suppressed)

\* _copy_draft_for_block, or else draft_greedy.
Drafts(first, len, tokens, g) ==
  LET copies == CopyDrafts(first, len, tokens, g)
  IN IF copies # {}
     THEN {[len |-> len, staged |-> first, tokens |-> d, source |-> "copyspec"] : d \in copies}
     ELSE {[len |-> len, staged |-> first, tokens |-> d, source |-> "dflash"] :
             d \in [1 .. len - 1 -> Token \ Suppressed]}

\* advance_context and draft_greedy alike absorb the current hidden features.
AbsorbContext == context' = context \o hidden

BlockLength(p, done) ==
  Max({1, Min({FullBlock, Adaptive!BlockLimit(p), run.max - done})})

\* verify_token_count_for_block: what the option verify_len_cap leaves of a block.
VerifyCount(len) == Max({1, Min({len, run.cap})})

-----------------------------------------------------------------------------
\* Snapshots of the session, for the prefix cache.

\* should_collect_generation_snapshot_hidden
ShouldCollect == run.supports /\ run.publish = "answer" /\ active

Covered_NoBoundary(total, boundary) ==
  IF run.full \/ total <= Sink + Window THEN 1 .. total
  ELSE 1 .. Sink \cup total - Window + 1 .. total

\* _build_target_hidden_chunks: the features kept are all of them, or the sink
\* and a window that reaches back to the window of the sidecar.
Covered(total, boundary) ==
  LET tail == IF boundary = 0 THEN total - Window
              ELSE Min({total - Window, Max({0, boundary - Window})})
  IN IF run.full \/ Sink + Window = 0 \/ total <= Sink + Window \/ tail <= Sink
     THEN 1 .. total
     ELSE 1 .. Sink \cup tail + 1 .. total

\* build_snapshot of the caches and logits as they stand.
Snapshot(kind, tokens, c, logits, features, sidecar) ==
  [kind |-> kind, tokens |-> tokens, kv |-> c.kv, rec |-> c.rec, row |-> logits,
   features |-> [i \in Covered(Len(tokens), sidecar.at) |-> features[i]],
   sidecar |-> sidecar]

\* A closed manager takes no snapshot.
Publish(s) == published' = IF active THEN published \cup {s} ELSE published

-----------------------------------------------------------------------------
StartSteering ==
  /\ policy = Adaptive!PolicyFromRuntime(run.adaptive, run.cap, run.long)
  /\ gate = IF run.copy = "auto" THEN Copy!FreshGate ELSE Copy!NoGate

\* What a yield returns to: the next step of the loop, or the generator's
\* finally clause when the consumer closes it.
Resume(next) == pc' \in {next, "closing"}

\* The first token is known from the prefill and yielded before the loop.
YieldFirst ==
  /\ pc = "first"
  /\ session' = [session EXCEPT !.collect = ShouldCollect]
  /\ IF run.max > 0
     THEN stream' = <<staged>> /\ unskipped' = TRUE /\ Resume("cycle")
     ELSE UNCHANGED <<stream, unskipped>> /\ pc' = "snapshot"
  /\ UNCHANGED <<request, block, generated, verified, steering, drafts, staged, published>>

Begin(d) ==
  /\ block' = [NoBlock EXCEPT !.len = d.len, !.staged = d.staged,
                              !.tokens = d.tokens, !.source = d.source]
  /\ pc' = "verify"
  /\ UNCHANGED <<fixed, emitted, verified, steering, staged, published>>

\* A block of one token drafts nothing.
BeginPlain ==
  /\ pc = "cycle" /\ Len(generated) < run.max
  /\ BlockLength(policy, Len(generated)) = 1
  /\ Begin([NoDraft EXCEPT !.len = 1, !.staged = staged])
  /\ UNCHANGED drafts

BeginPrefetched ==
  LET len == BlockLength(policy, Len(generated)) IN
  /\ pc = "cycle" /\ Len(generated) < run.max /\ len > 1
  /\ ~run.profile /\ prefetched # NoDraft /\ prefetched.len = len
  /\ Begin(prefetched)
  /\ prefetched' = NoDraft /\ UNCHANGED context

BeginDrafted ==
  LET len == BlockLength(policy, Len(generated)) IN
  /\ pc = "cycle" /\ Len(generated) < run.max /\ len > 1
  /\ run.profile \/ prefetched = NoDraft \/ prefetched.len # len
  /\ \E d \in Drafts(staged, len, index, gate) : Begin(d)
  /\ AbsorbContext
  /\ prefetched' = IF run.profile THEN prefetched ELSE NoDraft

\* The verify pass, what it accepts, and the rollback of the rest.
Verify ==
  /\ pc = "verify"
  /\ \E wrong \in Token \ Suppressed :
       LET count == VerifyCount(block.len)
           tokens == <<block.staged>> \o SubSeq(block.tokens, 1, count - 1)
           posterior == Posterior(Arm(cache), tokens, wrong)
           accepted == AcceptanceLength(Tail(tokens), posterior)
           committed == SubSeq(tokens, 1, 1 + accepted)
       IN /\ start' = start + Len(committed)
          /\ hidden' = Positions(start, start + Len(committed))
          /\ chunks' = IF session.collect THEN chunks \o hidden' ELSE chunks
          /\ row' = cache.kv \o SubSeq(tokens, 1, accepted + 1)
          /\ cache' = Restore(Forward(Arm(cache), tokens), start', accepted,
                              Max({0, count - 1}))
          /\ copyOff' = (copyOff \/ /\ run.copy = "conservative"
                                    /\ block.source = "copyspec" /\ accepted = 0)
          /\ block' = [block EXCEPT !.todo = committed, !.committed = committed,
                                    !.tokens = << >>, !.accepted = accepted,
                                    !.next = posterior[accepted + 1]]
  /\ pc' = "record"
  /\ UNCHANGED <<fixed, emitted, steering, drafts, staged, published>>

\* The gate and the policy learn of the cycle, the copy index of its tokens.
\* slower and faster are what the wall clock says of the windows compared.
Record ==
  /\ pc = "record"
  /\ \E slower, faster \in BOOLEAN :
       LET g == IF block.len > 1
                THEN Copy!RecordCycle(gate, block.source = "copyspec", slower)
                ELSE gate
           p == IF g.reset /\ policy.mode # "none"
                THEN Adaptive!PolicyFromRuntime(run.adaptive, run.cap, run.long)
                ELSE policy
       IN /\ gate' = [g EXCEPT !.reset = FALSE]
          /\ policy' = Adaptive!RecordBlock(p, block.len, block.accepted, faster)
  /\ index' = index \o block.committed
  /\ pc' = IF run.profile THEN "emit" ELSE "prefetch"
  /\ UNCHANGED <<fixed, block, emitted, verified, drafts, staged, published>>

Prefetch_StaleCount ==
  LET len == BlockLength(policy, Len(generated)) IN
  /\ pc = "prefetch"
  /\ IF run.max > Len(generated) + Len(block.committed) /\ len > 1
     THEN prefetched' \in Drafts(block.next, len, index, gate) /\ AbsorbContext
     ELSE prefetched' = NoDraft /\ UNCHANGED context
  /\ pc' = "emit"
  /\ UNCHANGED <<fixed, block, emitted, verified, steering, staged, published>>

\* The next cycle's draft is launched before this cycle's tokens are yielded.
Prefetch ==
  LET done == Len(generated) + Len(block.committed)
      len == BlockLength(policy, done) IN
  /\ pc = "prefetch"
  /\ IF run.max > done /\ len > 1
     THEN prefetched' \in Drafts(block.next, len, index, gate) /\ AbsorbContext
     ELSE prefetched' = NoDraft /\ UNCHANGED context
  /\ pc' = "emit"
  /\ UNCHANGED <<fixed, block, emitted, verified, steering, staged, published>>

\* Hands one committed token out; the very first one was yielded already.
Emit ==
  /\ pc = "emit" /\ block.todo # << >> /\ Len(generated) < run.max
  /\ generated' = Append(generated, Head(block.todo))
  /\ block' = [block EXCEPT !.todo = Tail(@)]
  /\ unskipped' = FALSE
  /\ IF unskipped
     THEN UNCHANGED <<stream, pc>>
     ELSE stream' = Append(stream, Head(block.todo)) /\ Resume("emit")
  /\ UNCHANGED <<fixed, verified, steering, drafts, staged, published>>

\* The end of a cycle: stop on a stop token, else stage the target's next token.
EndCycle ==
  /\ pc = "emit" /\ (block.todo = << >> \/ Len(generated) >= run.max)
  /\ IF ToSet(block.committed) \cap Stop # {}
     THEN pc' = "snapshot" /\ UNCHANGED staged
     ELSE pc' = "cycle" /\ staged' = block.next
  /\ block' = NoBlock
  /\ UNCHANGED <<fixed, emitted, verified, steering, drafts, published>>

LimitReached_OffByOne ==
  /\ pc = "cycle" /\ Len(generated) > run.max
  /\ pc' = "snapshot"
  /\ UNCHANGED <<fixed, block, emitted, verified, steering, drafts, staged, published>>

LimitReached ==
  /\ pc = "cycle" /\ Len(generated) >= run.max
  /\ pc' = "snapshot"
  /\ UNCHANGED <<fixed, block, emitted, verified, steering, drafts, staged, published>>

\* _run_generation_snapshot_events, then the summary.
PublishSnapshot ==
  /\ pc = "snapshot"
  /\ IF generated # << >> /\ ShouldCollect /\ session.frozen # << >> /\ chunks # << >>
     THEN Publish(Snapshot("generation", Prompt \o generated, cache, row,
                           session.frozen \o chunks, session.sidecar))
     ELSE UNCHANGED published
  /\ pc' \in {"ending", "closing"}
  /\ UNCHANGED <<fixed, block, emitted, verified, steering, drafts, staged>>

\* How the generator may be left, and what it is afterwards.
Endings == [ending |-> "finished", closing |-> "closed", raising |-> "raised"]

\* The finally clause: close() drops the caches.
Close ==
  /\ pc \in DOMAIN Endings
  /\ pc' = Endings[pc]
  /\ cache' = ColdCache
  /\ UNCHANGED <<fixed, block, emitted, start, hidden, chunks, copyOff, row, steering,
                 drafts, staged, published>>

\* Drafting and verifying, and what is around it.
LinearCycle ==
  BeginPlain \/ BeginPrefetched \/ BeginDrafted \/ Verify \/ Record \/ Prefetch
Stream ==
  YieldFirst \/ Emit \/ EndCycle \/ LimitReached \/ PublishSnapshot \/ Close

-----------------------------------------------------------------------------
\* The target alone hands out its first token before it looks at the limit.
Limit == IF run.mode = "target" /\ run.max = 0 THEN 1 ELSE run.max

\* What the consumer is given is the target's own greedy continuation, whatever
\* was drafted, accepted, rolled back, copied or prefetched, and unless it raises
\* the loop ends only where greedy decoding would.
Greedy == INSTANCE GreedyDecode
            WITH limit <- Limit, output <- stream, Overrun <- FullBlock - 1,
                 ended <- IF pc \in {"closing", "closed"} THEN "closed"
                          ELSE IF pc = "finished" THEN "finished"
                          ELSE IF pc \in {"raising", "raised"} THEN "failed" ELSE "no"
ImplementsGreedy == Greedy!Spec

\* The draft cache absorbs the features of every committed position once and in
\* order, and has them all whenever a drafted block goes to verification: a
\* prefetched draft is neither lost nor drafted a second time.  A feature that a
\* restored snapshot does not have is one the draft model does not attend to.
DraftContextInOrder ==
  /\ \A i \in DOMAIN context :
       context[i] # i => /\ context[i] = 0 /\ ~run.full
                         /\ i \in Sink + 1 .. Len(Prompt) - Window
  /\ pc = "verify" /\ block.len > 1 => Len(context) = start

\* Every published snapshot is of one text: its tokens, the attention and the
\* recurrent caches and the logits belong to exactly the prompt, a frontier of it,
\* or the prompt and the tokens generated, the ones after a stop token included.
\* The features it has are real and reach as far as a restore of it, or of its
\* slice at the sidecar, needs them, and the sidecar is of the text up to there.
SnapshotDescribesStream ==
  \A s \in published :
    LET n == Len(s.tokens)
        prefix == SubSeq(s.tokens, 1, s.sidecar.at)
    IN /\ IF s.kind = "generation" THEN s.tokens = Text(Len(generated))
          ELSE IsPrefix(s.tokens, Prompt)
       /\ s.kv = s.tokens /\ s.rec = s.tokens /\ s.row = s.tokens
       /\ s.sidecar.rec = prefix /\ s.sidecar.row = prefix
       /\ \A i \in DOMAIN s.features : s.features[i] = i
       /\ \A i \in 1 .. n :
            run.full \/ i <= Sink \/ i > n - Window
              \/ i \in s.sidecar.at - Window + 1 .. s.sidecar.at
            => i \in DOMAIN s.features

\* A request that comes to its end leaves something for the next one: the prompt
\* is not published when the answer is to be, and then the answer is.  Only a
\* prompt restored up to its boundary has nothing new to publish.
FinishedRequestIsCached ==
  pc = "finished" /\ run.mode # "target" /\ active /\ run.supports /\ run.publish # "none"
  => \/ published # {}
     \/ session.restored = session.boundary /\ ~(run.max > 0 /\ ShouldCollect)

\* The gate and the policy move together without disturbing each other.  A
\* copied block is verified only while copying is allowed, never after the one
\* strike of conservative mode, and with the gate only in the phases that count
\* it: its baseline is measured without copies.  And a probe that failed is
\* followed by a whole burst of reduced cycles, even when all of them are
\* accepted, unless the gate changes phase and has the policy started afresh.
GateAndPolicyAgree ==
  [][/\ pc' = "verify" /\ block'.source = "copyspec" =>
          run'.copy # "off" /\ ~copyOff' /\ gate'.phase \notin {"measure_off", "dormant"}
     /\ gate'.phase = gate.phase /\ policy'.mode # policy.mode =>
          /\ policy.mode = "probe" /\ policy'.mode = "reduced" => policy'.lockout
          /\ policy.mode = "reduced" /\ policy.lockout => policy.since + 1 >= policy.burst]_vars

\* Every cycle commits a token, so a decode that is pulled comes to its end.
EventuallyEnds == <>(pc \in {"finished", "closed", "raised"})

==============================================================================
