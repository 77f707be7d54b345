# A verification development of dflash-mlx

dflash-mlx serves language models on Apple silicon with speculative decoding: a
small draft model proposes a block of tokens, the target model verifies it in one
pass, and what both agree on is kept. Around that loop stand a two-level cache of
prefix snapshots, written to disk by a thread of its own, and an HTTP server with
one generation thread. The modules here model those parts, the arrays under
the caches and the configuration they start from; TLC checks them on small
instances, and TLAPS proves some of their properties for every instance.

The code is `src/dflash_mlx`; paths below are relative to it unless they start
with `docs/` or `tests/`. `PROJECT.json` maps every definition to its lines.

## 1. The system

### Components

| component | state | operations | modelled in |
|---|---|---|---|
| in-memory prefix cache, `cache/prefix_l1.py` | entries, LRU order, counters | lookup, probe, insert with pruning and eviction, clear | PrefixL1 |
| on-disk prefix cache, `cache/prefix_l2.py` | the directory, its lock, the byte count, the write queue and its slots, the gate, the epoch | lookup and load, insert_async, clear, shutdown, begin and end of a request; the writer thread's save and eviction | PrefixL2 |
| two-level store, its manager, the request flow, `cache/store.py`, `cache/manager.py`, `cache/snapshot_service.py`, `server/prefix_cache_flow.py` | the two levels, the manager's retired and complete flags | lookup, publish, frontier, spill, promote, shutdown | PrefixStore |
| decode loop, `engine/spec_epoch.py`, `engine/acceptance.py`, `engine/target_features.py`, `draft_backend.py`, `recurrent_rollback_cache.py` | target caches, draft context, staged token, prefetched draft, tokens yielded | draft, verify, accept, roll back, prefetch, emit, publish a snapshot, close | SpecDecode |
| adaptive block policy, `engine/spec_epoch.py` | mode, windows, burst, lockout | one transition a cycle | AdaptiveBlock |
| copying of earlier text, `engine/copyspec.py` | token history, gate | propose a copy, one gate transition a cycle | CopySpec |
| tree decode, `engine/ddtree.py` | candidates, tree | draft a tree or a batch, verify, keep one path | TreeDecode |
| request loop, `serve.py`, `server/request_loop.py`, `server/runtime.py`, `server/metrics.py` | request queue, reply queues, live request, totals, the cache bracket | submit, serve, answer, leave | RequestLoop |
| session and prefill, `engine/spec_epoch.py`, `engine/prefill.py`, `cache/codecs.py` | as the decode loop, and the boundary, the sidecar, the frozen features | open and restore, chunks and frontiers, seam, prompt snapshot, tail | Session |
| target-only generation, `engine/fallback.py` | target cache, staged token | prefill, a token a step | Session |
| runtime cache registry, `cache/manager.py`, the cache part of `server/metrics.py` | a manager per model, the one resolved last, the directory locks | resolve for a request, synchronize for the metrics, unload, tear down | Registry |
| configuration, `runtime/config.py`, `runtime/context.py`, `engine/config.py`, `metal_limits.py` | none: operators | resolve, validate, derive keys, strides, blocks and limits | RuntimeConfig |
| server threads and model provider, `serve.py`, `server/runtime.py`, `server/model_provider.py` | main thread, handlers and their attributes, the response generator's, the provider's fields, the queues | receive, queue, read, parse, complete or salvage; load, publish, serve; start and stop | Server |
| conversations, `server/tool_calls.py`, `server/responses_adapter.py`, `server/prefix_cache_manager.py`, `server/prefix_cache_flow.py` | none: operators | parse a tool call, translate a turn, find the stable prefix | Conversation |
| target and draft caches, `engine/target_qwen_gdn.py`, `engine/target_gemma4.py`, `recurrent_rollback_cache.py`, `model.py`, `cache/codecs.py`, `engine/ddtree.py` | arrays and who refers to them, offsets, ring indices, recurrent states, tapes | forward, trim, replay, commit a path, clone, select, serialize, hydrate, slice | CacheArrays, TargetCaches |
| kernels, observability, benchmarks, experiments | | | not modelled, see section 7 |

### How they interact

A handler thread queues a request and reads its reply queue. The generation
thread takes the request, looks its prompt up in the manager's store (which holds
the manager's lock for the call), tells the store that a request begins (the
writer thread then waits at its gate), pulls the decode engine, a Python
generator, and hands each token on. The engine publishes snapshots through a
service object while it runs. When the reply ends, the engine is closed and the
store is told, which opens the gate; the writer thread goes on with its queue.
So three kinds of thread meet: handlers and generation thread at queues, generation
thread and writer at the gate, the byte count and the directory, and several
processes at the directory's lock. The managers themselves are kept in a registry,
by model: the generation thread resolves the one of its request, the main thread
synchronizes it for `/metrics`, a host may unload a model or tear all down. The
handlers share the one response generator and the fields of the model provider,
which the generation thread empties and fills when a request names another model.
A snapshot shares arrays with the caches it was taken from and with those it is
restored into.

### What is hard

The complete list, each at its line, is `hazards` in `PROJECT.json`. In short:

- the byte count of the directory, its eviction and its files change under
  different locks, in two threads and in other processes;
- a clear, a shutdown and a crash meet a write in any of its stages;
- a lookup consumes the snapshot it serves, on the promise of a successor;
- a cycle of the decode loop changes five records of the same text (attention
  cache, recurrent cache, captured features, draft context, logits) which must
  not differ by a token after a partial acceptance, a stop in the middle of a
  block, or a prefetched draft of another length;
- the engine runs past the stop word the server found; whatever raises, the cache
  must be told that the request ended, and the client that it failed;
- arrays are written in place while snapshots, clones and branches hold references
  to them; rings rotate, offsets run ahead of what is valid, a recurrent state can
  only be replayed;
- a request keeps the cache manager it began with while another thread replaces it,
  with shutdowns that raise half way;
- handler threads read attributes that other requests overwrite, and a tool call
  that cannot be read may be found before or after the headers are out.

### What makes each component right

- A prefix cache may forget, never invent: what it returns was put in, is still
  held, fits and can restore the request (PrefixCacheSpec). It keeps to its
  budget, in the order of use, and keeps no entry another one makes useless.
- Decoding gives the target's own greedy continuation, whatever was drafted
  (GreedyDecode), and publishes snapshots of one text only.
- A reply is a prefix of the model's text with one end (ReplyPromise); every
  client is answered; the cache bracket covers exactly the decoding.
- A directory is never left locked with nobody to release it, and a manager counts
  exactly the requests that hold it, whatever is reconfigured meanwhile.
- Every cache stands for exactly the committed text, every snapshot for its own,
  for as long as it is kept.
- A connection gets one status and one well-formed end, but for two cases of the code (section 6); a conversation goes on in
  the words, calls and identities it had.

## 2. The modules

```
Collections                           (used by all the modules and proofs below)
Snapshots ── PrefixCacheSpec (abstract)
    ├── PrefixL1 ── PrefixL1Proofs
    ├── PrefixL2 ── PrefixL2Proofs
    └── PrefixStore = PrefixL1 + PrefixL2 + manager + request flow
            └── PrefixStoreProofs (cites PrefixL1Proofs and PrefixL2Proofs)
RuntimeConfig ── Registry ── RegistryProofs
AdaptiveBlock, CopySpec ── SpecDecode ── TreeDecode ── Session ── SessionProofs
                                                          implements GreedyDecode
CacheArrays ── TargetCaches ── TargetCachesProofs
                                    (what SpecDecode and Session take a cache to be)
RequestLoop (uses GreedyDecode as its engine)             implements ReplyPromise
    └── RequestLoopProofs
Conversation ── Server ── ServerProofs   (the threads around RequestLoop)
```

**Collections** has what the modules and the proofs share of sums, n-th elements
and sequences without some of their elements. The community
modules define these by recursion or by folds, of which the prover can show
nothing; here they are functions on an interval or the n-th element of a set, and
the proof modules that use one show what it computes.

**Snapshots** says what a snapshot is and which requests it can serve. The arrays
are reduced to what lookups test: key, kind, tokens, size, whether logits and all
draft features are present, the position of a sidecar, and what of the features
before it is there (all, the sink and the window, or less).

**PrefixL1.** Every method runs under the cache's lock and is one action.
`entries`, `lru`, `nextId` are the fields of that name; `reply` and `outcome` are
what the last lookup and the last insert returned; `lastUse` and `clock` are
history. An insert is whole: token cap, domination, pruning within and across
kinds, eviction.

**PrefixL2.** `proc[p]` holds the fields of the cache object of process p,
`writer[p]` and `client[p]` the program counters of its two threads. The request
thread's calls are split where it leaves the lock (a lookup loads one candidate
after the other, a failed one is unlinked and the directory recounted); the writer
has one action per stage: get a job, wait at the gate, check the epoch, save to a
temporary file, check the payload, replace, evict (walk, observe, unlink each, and
subtract afterwards). A crash at any point loses the process and leaves the
directory. Files and snapshots are one value, as the file name holds what tells
them apart. The directory lock belongs to whoever opened it first.

**PrefixStore** instantiates both. `call` is the call that holds the manager's
lock with the snapshots it has still to hand to L2; only the writer runs beside
it. The steps of a request are those of the server: look up (both levels,
promotion), begin, publish frontiers and snapshots, end; a shutdown may come in
between, retires the manager at once and completes when the request ends.

**SpecDecode.** The target model *is* its greedy continuation of the prompt; on any
other text, or over caches that do not hold the text they should, it may answer
anything. The draft model may propose any tokens. A cache is the text it has read,
a captured feature the position it belongs to. `_run_decode_events` is a loop of
Begin… (a plain step, a prefetched block, a fresh draft), Verify (arm, forward,
compare, roll back), Record (policy, gate, copy index), Prefetch, Emit (one token
a step, since each is a yield, at which the consumer may close the generator),
EndCycle, PublishSnapshot and Close. **AdaptiveBlock** and **CopySpec** are
transitions of values; the wall clock's comparisons are free bits.

**TreeDecode** extends it by the other loop of the same class. A target that can
verify trees gets one built by `build_flat_ddtree`; any other gets a batch of the
greedy draft and runner-up branches, each row over a clone of the caches.

**Session** puts a whole request around the two loops. Open restores the snapshot
the server found (or not: one with holes in its features does not serve a draft
model that attends to everything); Chunk reads the prompt up to the token before
the boundary, the part the next turn of a conversation repeats, and publishes a
frontier on the stride; Seam reads that token, or takes the logits that came with
the snapshot; PublishPrompt takes the snapshot of the prompt, or keeps the sidecar
of the answer's one; PrefillTail and Complete read the rest, keep the features for
the answer's snapshot and choose the first token. A request too long for the draft
model takes TargetPrefill, TargetToken and TargetStep instead. Retire is the cache
manager being shut down by somebody else meanwhile: `active` is its answer when a
snapshot is published. What may raise sets `pc` to "raising", so that the close of
the generator is modelled on that way too.

**RequestLoop.** The engine is GreedyDecode's own specification, so that the
server is checked against everything a correct engine may do. `worker` is the
generation thread's place with the locals of `consume_dflash_events` (it hands
out each token one late, since the finish reason belongs to the last). Every stage
that can raise has a disjunct for it. The target-only path of short requests,
which hides the draft model, is a second way through the same thread.

**RuntimeConfig** is the configuration as operators: the field table, how the text
of a variable is read, which source wins, what validation accepts and normalizes,
and what the cache manager, the decode loop and the allocator derive from it. A
step that may raise gives a set, empty if it does.

**Registry** uses it for the keys of its managers. The registry's lock is held for a
whole resolution and a manager's for a whole call, so each is one action; the
teardown of all managers is not, it visits them one after the other. A thread is a
request with the manager of its `PrefixCacheFlow` and the one of its
`SnapshotService`, which lookups, begins, publications and ends drop or keep as
the code does when a manager is closed. A shutdown completes or raises.

**Conversation** holds the pure parts of a turn: how a tool call parses (into calls,
a ToolCallParseError, a ValueError that leads to the JSON fallback, or an exception
of another kind), how `/v1/responses` becomes chat and a reply becomes items, and how much of a
prompt the next turn repeats. **Server** runs them on threads: handlers of keep-alive
connections with the attributes they keep from request to request, the one response
generator's `last_finish_reason`, the provider's fields, emptied and set one after
the other by the generation thread, and the main thread that polls them, serves,
and shuts down. mlx_lm's part of a completion is modelled as the source relies on it:
headers are set as soon as the context is there, those of a stream are sent, those of
any other reply stay in a buffer until its body comes. A load raises before it has
emptied the provider or after. The caches are shut down in a `finally`, so at
any time: behind `stop_and_join`, or when it raises. What a shutdown does while a
thread still generates is in Registry and PrefixStore.

**CacheArrays** has the arrays. A row is the request and the position of its token, a
rejected draft's row belongs to request 0. Full attention caches and rings are
references into a memory of arrays, written in place as mlx_lm writes them (in
steps, rotating, with an offset that a trim moves and rows beyond it that stay);
recurrent and convolution states are values, as the code only replaces them, with
the tape and the snapshot of an armed rollback. **TargetCaches** takes a request
through them: prefill in chunks, snapshots by clone or by adoption, sidecars,
drafts with a masked block, verification linear, by tree or by a batch of
branches, the restore after a partial acceptance for each family, the answer's
snapshot, the way of a snapshot through a file, hydration into the next request.
SpecDecode's cache, "the text it has read", is what CachesReadTheText establishes.

## 3. The runs

| run | configuration | shows |
|---|---|---|
| `l1_cache` | MCPrefixL1.cfg | 122,562 states. The cache keeps its budget, evicts in order of use, holds no dominated entry, reuses exact prompts, gives a prefill up for a generation only when there is no room for both and what was used since, and implements PrefixCacheSpec |
| `l2_cache` | MCPrefixL2.cfg | 274,569 states. One process, request thread against writer: no slot is lost or freed twice, what was cleared is not written, the gate follows the requests, no temporary file survives a quiet writer, and the cache implements PrefixCacheSpec |
| `l2_dir` | MCPrefixL2Dir.cfg | 168,690 states. Two processes: only the owner of the lock changes files, its count is exact, eviction removes what the budget asks and no more |
| `store` | MCPrefixStore.cfg | 105,788 states. Both levels and the request: brackets balance, nothing happens after a shutdown, the answer is never shorter than L1's own, a step gives up only the generation snapshot it serves and what a full or raising queue refuses; a shutdown returns, what is queued reaches the disk |
| `decode` | MCSpecDecode.cfg | 48,809 states. 26 kinds of request over four continuations, from what is restored to the close; linear, tree and target-only: the stream is the greedy continuation, the draft context is absorbed in order, every snapshot is of one text with the features that belong to it, a request that ends by itself leaves its answer in the cache, policy and gate keep their protocol, the loop ends |
| `request` | MCRequestLoop.cfg | 177,787 states. Six pairs of requests: the bracket covers the decoding, the live request is the served one, replies keep their promise, everyone is answered |
| `registry` | MCRegistry.cfg | 1,080,722 states. Two threads, two models, three managers, one directory, hosts of six configurations: nothing with a store to shut down is forgotten, a manager counts its requests, a successor owns its directory, every configuration keeps what the code takes for granted |
| `server` | MCServer.cfg | 996,116 states. Two connections, six kinds of request over two models: one status and a well-formed end each but for two named exceptions (section 6), the main thread announces what it saw whole, a conversation goes on, every request ends |
| `caches` | MCTargetCaches.cfg | 2,462,563 states. Three targets (linear attention, the same with an attention window, rotating attention), each with linear and tree decoding, two requests: snapshots keep their text, caches read the committed one |

Three runs show where the code fails what the repository says of it; each checks one
property and TLC prints the behaviour:

| run | what the trace shows |
|---|---|
| `l2_tracked` | the request thread recounts the directory between the unlink of an eviction and its subtraction, so the same bytes are subtracted twice (`cache/prefix_l2.py:994`) |
| `decode_capped` | with `verify_len_cap` 1 a tree target raises in its first drafted cycle (`engine/ddtree.py:462`); the option is documented as valid |
| `server_salvage` | a reply that is closed because its tool call cannot be read takes the finish reason of another request, which cleared or set the shared attribute meanwhile (`serve.py:469`) |

`CHECK_DEADLOCK FALSE` stands where the system may stop: recorded operations end at a
bound, generators finish, and clients that were answered ask no more. `registry` never
stops, and is checked for it.

### Bounds, and why they are enough

- `l1_cache`: eight snapshots (two keys, both kinds, two sidecar carriers of which one
  lacks the features before its boundary, a trimmed one, one over the token cap), three entries, five bytes, stride 2, five recorded
  operations. Three entries make every pair of kinds and an eviction possible at
  once; an entry can be served between its insert and its eviction.
- `l2_cache`: three snapshots of which two fit, one rotten file, one slot, two
  nested requests, one clear, both kinds of save error. A second clear or a third
  request meets the same writer stages again.
- `l2_dir`: two processes, sizes 1 and 2 against a budget of 2, the directory left
  empty, within or over budget by an earlier process.
- `store`: an L1 of one entry so that every insert spills, a token cap of 2 so that
  one prompt never fits, three recorded L1 operations, one write slot (the code's
  own default). Two prompts and an answer with a sidecar: what is promoted
  from the disk pushes out what L1 holds.
- `decode`: blocks of four (trees of three), windows, bursts and latches of one or
  two cycles, so a request of eight tokens passes through all phases of policy and
  gate; four continuations with a repeating text, one that does not repeat, an
  early stop token and one in the middle of a block; a prompt of four tokens,
  one of them suppressed in the output and so never copied. Chunks and stride of
  two tokens put a frontier on the way and the boundary off it; a sidecar is kept
  from a boundary of three, a trimmed snapshot keeps one feature at each end. The
  restored snapshot covers all of the prompt, all of it with a hole, a part, or
  all without logits (the server never finds this last one; the engine has a path
  for it, and the tests call it so).
- `request`: two clients, one after the other on the one thread; limits of up to
  five tokens, reached behind a stop token or not, stop words found before the engine stops; an engine that may run
  two tokens past the end.

- `registry`: two threads, so that one request is served while the other thread
  reconfigures, synchronizes or tears down; three managers are a manager, its
  successor and that of another model; one directory, for which both models
  contend. The hosts are two that cache differently, one with a window, one without
  L1, and two that are refused. KiB is 4, as 50 * 1024^3 is beyond TLC's integers.
- `server`: two handlers and two requests give every overlap of two replies and
  every request that follows another on its connection; the requests are a stream
  cut in its call, a call of an undeclared tool, two calls of which one has no
  identity, a parser that fails in its own way, a refused tool choice and a
  refused image. Two models, as a request may name one that is not loaded.
- `caches`: arrays grow by two rows, a ring holds three and a prompt of three or
  six tokens read in chunks of one to three fills and turns it; blocks of one and
  three tokens with an answer of three give each acceptance length and a second
  cycle; convolution keeps two rows, the draft's window a sink of one and two
  more, with sliding layers of two; one snapshot kept at a time, which the second
  request starts from, writes beside and evicts.

MaxClock (L1), MaxActive and MaxEpoch (L2) bound counters and appear in the guards
under these names.

### Fairness

- PrefixStore: weak fairness of the call that holds the lock and of the writer
  thread (both are threads that are never blocked for ever), strong fairness of
  Begin and End (the generation thread gets the lock in the end) and of PassGate
  (`Event.wait` returns once the event was set, even if it is cleared again before
  the thread runs).
- Session: weak fairness of Advance, the engine's own steps. The server pulls the
  generator to its end or closes it, in a `finally`. Nothing forces Retire.
- RequestLoop: weak fairness of the generation thread and of each reader. Nothing
  forces a client to submit or to leave.
- Server: weak fairness of the generation thread, of the main thread's waiting
  and of a handler that has a request. Nothing forces a client to ask
  or to leave, nor the server to stop.
- Registry and TargetCaches have safety properties only.

## 4. Refinement

Five implementations are shown to implement abstract specifications, by TLC on
the instances of section 3 and by proof for all constants:

| implementation | abstract | state of the abstract specification | theorem |
|---|---|---|---|
| PrefixL1 | PrefixCacheSpec | `held` is the resident entries | PrefixL1Proofs, `KeepsPromise` |
| PrefixL2 | PrefixCacheSpec | `held` is the files and the jobs queued or being written | PrefixL2Proofs, `DirectoryKeepsPromise` |
| PrefixStore | PrefixCacheSpec | both, and the snapshots on their way from one level to the other | PrefixStoreProofs, `StoreKeepsPromise` |
| Session with its two loops and the target alone | GreedyDecode | `output` is what was yielded | SessionProofs, `DecodesGreedily` |
| RequestLoop | ReplyPromise | what each reader has read, and whether the reply has ended | RequestLoopProofs, `PromiseIsKept` |

RequestLoop in turn uses GreedyDecode for its engine, which closes the chain from the
drafts to the reader. PrefixCacheSpec begins with any set of snapshots held, as an
earlier process may have left files in the directory.

## 5. The proofs

Proved by TLAPS for all values of the constants that meet the named assumptions
of the modules. Where a theorem has a hypothesis, the property is false without it, or
the run that checks it has the same one; each is named below.

**Assumptions.** L1Assumption, L2Assumption and StoreAssumption: snapshots and requests are
well formed, limits are naturals, there is a write slot, and the value for no
snapshot is none. BlockAssumption, PromptAssumption, WindowAssumption, StepAssumption,
TreeAssumption: blocks, chunks and copies have a length, a policy's smallest block
is two, a prompt is not empty, a tree's block is no longer than the draft's.
ContinuationAssumption: the target's continuation is given as far as a request can read, and
has no suppressed token in it. RunAssumption: what was restored is a part of the
prompt, at most its stable part, with the features its store guarantees (those
within the sink and the window, or whichever there are if the draft model attends to
everything, when sink and window are zero). AskedAssumption and NoneAssumption: a model's text reaches as far as the
limit, and the value for nothing is neither a client nor a token. OverrunAssumption: the
engine runs a bounded number of tokens past a stop. HostAssumption: what argparse and the readers of
variables let through. ModelAssumption, AskAssumption, BoundAssumption: what is asked for
names a model, has an item and ends with a reason the engine knows. SizeAssumption,
SlidingAssumption, TargetAssumption, RequestAssumption: allocation step, ring and window
hold a row, a sliding layer of the draft model reaches no further than its window,
only the first family has windowed targets, and a request has a block length.

**PrefixL1Proofs** (any snapshots, strides and budgets). Its first lemmas are of lists and
sums: a set of naturals has a smallest element and is listed by its n-th ones, what is left
of a sequence without some elements and in which order, and that a sum splits,
grows and shrinks with what it is taken over. PrefixL2Proofs has those of a queue.
- `NeverDominated`. The ids of `entries` are below `nextId`, entries are
  snapshots, and of two entries of one key and kind the newer does not extend
  the older, aligned frontiers apart; an insert keeps it because Doomed contains
  every entry it would break it with, and eviction only shrinks the set.
- `KeepsPromise`: step by step, with lemmas on what Hit returns and what remains
  after pruning and eviction.
- `OrderOfUse`. OrderInv: the list is sorted by the moments of last use, which are
  all in the past, and holds the resident ids; dropping ids and appending the
  newest keep it.
- `StaysWithinBudget`. The eviction takes the shortest prefix of the order whose
  loss meets both budgets; there is one, since the empty cache meets them.
- `PromptIsReused` needs NoMaskedPrompt: no generation entry stands before a prefill
  one of the same key that extends it, or the lookup would meet it first.
- `PrefillOutlives`: what an insert removes is doomed, which a prefill entry is not
  by a generation one, or a prefix of the order; and as that prefix is the shortest
  that meets the budgets, its entries do not fit beside the new one and those used since
  (EvictionsAreNeeded).

**PrefixL2Proofs** (any processes, snapshots and failures).
- `SlotsAlwaysAccounted`, `GateAlwaysMatches`. L2Inv says of each process that its writer has a
  job exactly between getting and ending one and a temporary file only then
  (Working), that slots, queue and that job add up (Counted), and that the gate
  mirrors the active requests until a shutdown opens it for good (Gated). A step of
  one process leaves the others alone, so there is one lemma per action.
- `DirectoryKeepsPromise`. DirInv adds that a lookup under way goes through files that
  fit its request (Asking). A walk of another process may remove any of them: then the
  load fails and nothing is returned.
- `OwnerAlone`, `ClearIsFinal`, if no writer outlasts the join of `shutdown()`
  (`SlowJoin = FALSE`; otherwise the next owner finds a writer beside its own).
  OwnerInv: one owner, and a process that is not has no job. WipedInv: of the owner's jobs, those
  of the present epoch were queued after the last clear.
- `CountIsExact`, `EvictionIsExact`, if besides nothing is cleared and no file rots (`Undisturbed`): clearing
  and recounting behind the writer's back is where `l2_tracked` shows the count to fail. TrackInv
  relates the count, the directory and the walk at each place of the writer.

**PrefixStoreProofs** (any processes' worth of files found, any snapshots and failures). The
store's steps are steps of one level, of both, or of the call between them, so the
invariants of the levels are cited through instances of their proof modules (Levels). Control
says where a call and its request can stand and what has ended in which order (Phases,
Ending), and that the L2 bracket is that of the request (Bracketed); Answering says what a
lookup between the levels has found so far.
- `BracketsAlwaysBalance`, `NothingIsLeft`: from Control.
- `StoreKeepsPromise`: what leaves L1 is with the call until it is queued or given
  up, and what L2 returns was held by it.
- `SecondLevelNeverHurts`, on a disk that has room and takes every save (`Unlimited`;
  otherwise a snapshot may be lost for another reason than those it names). What L1
  gives up by an insert is listed as removed (L1Takes), by a lookup it is the generation
  snapshot served (LookupSpends); what is listed is with the call, and what the call
  offers is queued, or the queue refuses it.

**RequestLoopProofs** (any clients, limits, texts and stop words).
- `BracketAlwaysCovers`: the bracket, the engine's end and the hidden draft model are
  functions of the worker's place.
- `LiveIsAlwaysServed`: the live request is the worker's client in exactly the
  places between begin and record (LiveInv), a queue holds nothing before its request
  is taken (FreshInv), a request is recorded once and in which places (CountInv),
  and an end is the last message of its queue (EndInv); the property alone is not
  inductive because it speaks of what a reader has read and not of what is queued.
- `TypeCorrect`: TypeOK, with the engine's own invariant for the lengths.
- `PromiseIsKept`. Every message that is queued has a place in the text: what was
  read, and the tokens before it in the queue. PInv says of each queue that a token
  is the one of its place, that it has a reason exactly where the text stops or reaches
  its limit, and that nothing but an end follows that (Readers); and of the one reply being
  served how many of the engine's tokens consume_dflash_events has looked at, that the
  last of them is held back, what is already decided of it, and that a stop found
  beforehand, or a reader who left, are the only reasons to stop pulling (Serving). The token held back is why
  places and reasons differ by one on the way. A reply that a stop ended may still be labelled
  `length`; then the engine went on to the limit behind the stop.

**SessionProofs** (any target, draft, prompt, block, tree, window and hit).
- `DecodesGreedily`. DecodeInv follows one request: before the first token the caches
  hold a part of the prompt, the recurrent state and the logits with them (PromptRead); afterwards
  caches, staged token and logits are of one text (TextRead), which in the middle
  of a cycle is that of the block's start (Between); a block begins with the
  staged token and fits (Planned); what a verified block commits is the continuation, and
  what of it is still to be yielded is its rest (Committed); a draft made ahead is
  for the block that follows (Ahead); the target alone is the same without blocks
  (Alone); an end is at the limit or a stop token (EndsRight). Emit and Finish map to
  the steps of GreedyDecode, all others to stutters. The heart is the acceptance: the longest
  accepted prefix of any draft, or path of any tree, is a part of the continuation and
  the token after it is the target's own.
- `SteeringAgrees`. Steered: a copied block, planned, waiting or verified, is only there while
  copying is allowed; gate and policy stay within their bounds.
- `DraftSeesContext`. FeaturesRead and Contexts: the features captured by the last pass are
  of the positions that follow those the draft has absorbed, or are absorbed
  already when a draft was made ahead of them.
- `SnapshotsAreOfOneText`. What is set aside during the prefill is of the prompt up to its
  boundary (SetAside), the chunks collected are the positions since (Collected), and what was
  published stays so (Described).
- `FinishedLeavesSnapshot`. Kept: a request that collects keeps its frozen features until its
  end; one that does not has published at the prompt, or had it all from the cache.

**RegistryProofs** (any threads, finitely many, and any models, managers,
directories and configurations).
- `RegistryForgetsNothing`, `SuccessorsOwnTheirDirectory`. RInv: the registry and the managers that
  are not closed name each other (Registered), a directory's lock is held by such
  a manager that writes to it (Locked), and a teardown still finds what it has to
  visit (Current).
- `ManagersCountTheirRequests` adds BInv: every thread's manager
  has been made and an open one's count is the number of threads inside their
  bracket. One lemma says what each way a shutdown ends leaves of RInv, and one
  what a new manager adds; every action is one of these.
- `ConfigurationsAreSound`: for every command line, environment and profile. Normalizing is
  followed field by field, from the kinds HostAssumption gives to the bounds the
  strides, blocks, windows and limits need.

**ServerProofs** (any handlers, models and requests, whatever clients ask for).
- `WholeModelAlways` follows the fields of the
  provider along the generation thread (Published), which is the order the loader
  sets them in.
- `RepliesAlwaysWellFormed` needs to know that a reply is only closed
  normally once a reason was read. That rests on the queues (QueueInv): each request is
  queued and served once (ServedOnce), the context is the first message of its queue
  and nothing but an error takes its place, and no end is in a queue that no reason is
  in or has come out of (Told). On top of it, the reply of a request still served is
  open, and its status is sent, or in the buffer if it is no stream, exactly when the
  flag of its handler says so (ReplyInv). The statement names the two ends the code
  gives a reply and should not (LateError, Headless) with what leads to them; without
  either of them TLC finds it violated.

**TargetCachesProofs** (any sizes of arrays, rings, sinks and windows, any prompts,
blocks and answers, any number of requests and snapshots). What is proved is an
invariant of aliasing: nothing the code writes in place is what a snapshot refers to.
- `SnapshotsStandAlways`. A full-attention array that a snapshot shares with the live cache is
  full (KVPrivate), so that the next append makes another one; a trim would undo this, but only
  follows an append that did (KVInv, at "restore"). A ring is
  cloned into a snapshot of the prompt and out of any, so that none the request still writes
  is a snapshot's (RingInv); only the answer's snapshot takes the ring itself, when the request is over. Recurrent states are values. The rows collected when
  nobody refers to an array any more are of arrays no cache and no snapshot has (Collected).
- `CachesStandAlways`. KVInv and RecInv say what the caches have read: the text, or
  in the middle of a cycle the text and what was accepted of the block, where the
  recurrent cache has its tape and its saved state to roll back to. RingInv is about the
  shape of a ring. It is *straight*, its rows up to the index the last of the
  text, or *rotated*, the oldest row behind the index; a straight one is *settled* if
  nothing but free room is behind the index. A pass of several rows reads any straight or
  rotated ring (Legible), a single token only a settled or rotated one (Ready). After a
  block the ring is straight and long enough that a trim of the
  rejected rows leaves it legible; for a windowed target of the first family it is no longer settled
  then (Cut), which is harmless as what follows is another block, or the last token of the
  answer, whose outcome is not used (Ending). UnreadInv bounds what the draft
  model has not been given yet by one block; WindowedInv says that the windowed draft cache holds the sink
  and the window of what it was given, at their positions.
- `CachesStandAlways` has the hypothesis `Roomy`: no block is longer than the draft's window, or
  the sink is at most one token. A prompt shorter than the sink leaves room in it that a
  later append longer than the window does not fill, as it is cut to the window first
  (section 6). The defaults (sink 64, window 1024, blocks of 16) have it.
- RingSize, Keep, Sink, Window, Step and the kinds of Targets are independent: no relation between
  a ring and a block is needed, because an append of several rows makes the ring
  straight whatever its length.

Types apart, the invariants were model-checked before they were proved. Two properties turned out to
be wrong at their edges while they were proved, where no instance had looked:
a request for no tokens that hits its whole prompt publishes nothing, as what it restored is
all there is (FinishedRequestIsCached now says so), and the gate's record of a
cycle had two cases that overlap.

### What is only model-checked

- Liveness, which is out of this prover's reach: ShutdownReturns and QueuedReachesDisk (store),
  EventuallyEnds (decode), EveryoneAnswered (request), EveryRequestEnds (server).
- TurnsContinue (server), the one safety invariant left: it compares given turns under given templates, which are
  data; what a conversation's words become is computed by recursion over them.

## 6. What the modules abstract

Token values, keys and sizes are model values or small numbers. The target model
is a function of its text; numerical differences between batched and single
forward passes, which real kernels have, are outside. The wall clock is a free
choice wherever the code compares times. Logging, traces, formatting, profiling
and memory clearing are left out. The L2 byte layout is a file that loads or does
not. Detokenization is left out: a stop word is a sequence of tokens.

In RequestLoop closing the engine and ending the bracket do not raise, though
`server/request_loop.py:324-328` prepares for it: the generator's `finally` only restores
what it changed and `end_request` sets an event under locks that are not held for ever.

In Registry a manager is its key, its directory and its count; what its store does
is in PrefixStore. In Server the generation of a reply is a number of items; how they come
about is in RequestLoop. In Conversation a text is its words and JSON a tagged record.

In TargetCaches one cache stands for all layers of its kind, which do the same, and
what a layer computes from its rows is left out: a row of the right token in the
right place is right. The last forward of an answer whose staged token is never
verified is not asked to read the text: its outcome is not used. Quantized
caches, the shared key-value layers of gemma4's smaller models and targets of full attention
alone (a special case of the first family, without recurrent layers) are left
out. Requests with token positions of their own (sparse prefill) take no snapshot
and decode by the same loops; no command or endpoint sets them.

### Observations without a run

What the models show beside the properties, at variance with the documents or worth
knowing:

- A shutdown offers all residents of L1 to a queue of one slot: all but the first are
  dropped (docs/architecture.md:223 says they spill).
- A sidecar hit consumes a carrier that the request's own answer may not extend
  (docs/architecture.md:219).
- A cold prefill writes no frontier when the request collects its answer for a
  snapshot, which the server's requests do (docs/runtime-flags.md:106); a
  client that leaves before the end then leaves nothing cached of a prompt
  that was read (docs/architecture.md:212).
- A tree target never verifies a branch: the chain uses up the node budget
  (docs/runtime-flags.md:72).
- A snapshot that L1 prunes or evicts goes to the write queue at once, so it may reach
  the disk while the server runs; docs/architecture.md:224 speaks of shutdown only.
- A write that has passed the gate, or a writer that an opening woke, goes on beside
  the next request (docs/architecture.md:222 says writes pause).
- `stream_baseline_generate` yields its first token even for
  `max_new_tokens = 0`, which the speculative loop does not.
- A ValueError of the engine that reaches the handler after a reply over
  `/v1/responses` has begun is answered with a 400 behind the 200 (`serve.py:322`). These
  replies are no streams, so both status lines go out together. `serve.py:459` and
  tests/test_serve_state_machine.py:619 say of the same situation that no late 400 may be
  written; they speak of tool calls only. LateError names it.
- A reply that is no stream and whose tool call cannot be read is closed by writing its
  body alone (`serve.py:493`); the 200 and the headers are still in the buffer, as nothing
  calls `end_headers`. The test of the salvage has a stream. Headless names it.
- A reply that a stop word ended, or a stop token with more of its block behind it, is
  labelled `length` when the engine reaches the limit before the loop looks again
  (`server/request_loop.py:213-222`, `360`). ReplyPromise permits it in this case only.
- `handle_completion` never answers a ToolCallParseError with 400 (`serve.py:464`) while
  mlx_lm sets the headers before it parses; the model keeps the branch.
- A parser's exception that is neither a ToolCallParseError nor a ValueError drops the
  connection instead of being answered.
- A reply is labelled with the model that is loaded when it is written, which may be
  that of another request (`serve.py:501`).
- The items of a stream carry no token counts, so a salvaged reply reports zero of both.
- A windowed draft cache does not always have the first tokens in its sink: after a prompt
  shorter than the sink, features that come in one append longer than the window lose all but
  its last rows, those the sink had room for included (`model.py:115-117`). With
  Sink = 3, Window = 2, MaxPrompt = 1, Blocks = {1, 3} and Answer = 6 TLC shows it as a
  violation of CachesReadTheText; what the layers attend to is still in order.
- A ring of the windowed first family keeps rejected rows behind its index after a
  partial acceptance; the only forward that would attend to them is that of a single
  last token, whose answer nobody uses.

## 7. Not modelled

- *Kernels and quantized matmul* (`kernels.py`, `verify_qmm.py`, `verify_linear.py`,
  `runtime/prism_*.py`): floating-point code without state; that a batched pass
  computes what single ones do is what the other modules assume of it.
- *Forward passes* of `model.py`, `draft/dflash2.py` and the two target backends, beyond
  what they do to their caches.
- *Loading* (`runtime/loading.py`, `runtime/bundle.py`, `runtime/registry.py`): files in, a
  bundle out, or an exception, which is all Server needs of it.
- *Metrics payloads, traces and the memory waterfall* (`server/metrics.py`,
  `observability`, `engine/events.py`): they read the state that RequestLoop and
  Registry change and format it.
- *Command line, doctor, benchmarks and reports*: drive the engine one request after
  the other, or print.
- *Experiments* (`lab`, `tools`, `benchmark`, `examples`): scripts and recorded results.

## 8. Plan

1. TurnsContinue, with the words a template prints taken from the source.
2. The files of a process that died, in PrefixL2, with what clear and the budget
   make of them.
3. Session with positions of its own and quantized caches.
