----------------------------- MODULE TargetCaches -----------------------------
(***************************************************************************)
(* The caches of a request from the first token of its prompt to the       *)
(* snapshot of its answer, and the snapshots that share arrays with them   *)
(* (engine/target_qwen_gdn.py, engine/target_gemma4.py, cache/codecs.py,   *)
(* engine/ddtree.py, draft_backend.py and the cycles of                    *)
(* engine/spec_epoch.py that call them).                                   *)
(*                                                                         *)
(* SpecDecode and Session take a cache to be the text it has read; here is *)
(* why it may: arrays are written in place, trimmed, replayed, copied for  *)
(* branches and handed to snapshots by reference, and every row stays that *)
(* of the token it stands for.                                             *)
(*                                                                         *)
(*   target    the process: the family of its target model, whether its    *)
(*             attention has a window, and whether it decodes with trees   *)
(*   request   the request served and what its last verification accepted  *)
(*   text      the tokens of the request committed so far, by their rows   *)
(*   kv, ring, rec     the caches of the target model, as far as it has    *)
(*             layers of the kind                                          *)
(*   full, windowed    the caches of the draft model                       *)
(*   snaps     the snapshots kept                                          *)
(***************************************************************************)
EXTENDS CacheArrays

CONSTANTS Targets, MaxRequests, MaxSnapshots, MaxPrompt,
          MaxChunk,        \* tokens of a prefill chunk
          Answer,          \* max_new_tokens
          Blocks           \* block lengths of requests

ASSUME TargetAssumption ==
  Targets \subseteq {t \in [model : {"qwen_gdn", "gemma4"}, window : BOOLEAN, ddtree : BOOLEAN] :
                      t.model = "gemma4" => ~t.window}
ASSUME RequestAssumption ==
  /\ MaxRequests \in Nat /\ MaxSnapshots \in Nat /\ MaxPrompt \in Nat
  /\ MaxChunk \in Nat \ {0} /\ Answer \in Nat
  /\ IsFiniteSet(Blocks) /\ Blocks # {} /\ Blocks \subseteq Nat \ {0}

VARIABLES target, request, text, kv, ring, rec, full, windowed, snaps

vars == <<target, request, text, kv, ring, rec, full, windowed, snaps>>

None == [at |-> 0, state |-> << >>, conv |-> << >>]
NoRequest == [id |-> 0, pc |-> "none", block |-> 0, left |-> 0, size |-> 0, accepted |-> 0,
              sidecar |-> None]

\* make_cache: which layers a target has, and what it can do with them.
HasKV == ~target.window
HasRing == target.model = "gemma4" \/ target.window
HasRec == target.model = "qwen_gdn"
Restorable == ~target.window
SupportsTreeCache == target.model = "qwen_gdn" /\ ~target.window

At(pc) == request.pc = pc
Goto(pc) == request' = [request EXCEPT !.pc = pc]

\* The next n tokens of the request, and a block of which the first n are.
NextRows(n) == [i \in 1 .. n |-> Row(request.id, Len(text) + i)]
Block(size, n) ==
  [i \in 1 .. size |-> Row(IF i <= n THEN request.id ELSE 0, Len(text) + i)]

KVReferences(kept) == {s.kv : s \in kept}
RingReferences(kept) == {s.ring.keys : s \in kept}

\* Entries that take the place of the caches; what they let go is freed.
Become(newKV, newRing, newRec) ==
  /\ kv' = Collected(newKV, KVReferences(snaps))
  /\ ring' = Collected(newRing, RingReferences(snaps))
  /\ rec' = newRec

-----------------------------------------------------------------------------
(* A request opens, with empty caches or with those of a snapshot. *)

Opens(start, newKV, newRing, newRec) ==
  /\ At("none") /\ request.id < MaxRequests
  /\ request' = [NoRequest EXCEPT !.id = request.id + 1, !.pc = "prefill"]
  /\ text' = start
  /\ Become(newKV, newRing, newRec)
  /\ full' = EmptyFull /\ windowed' = EmptyWindowed
  /\ UNCHANGED <<target, snaps>>

Open ==
  Opens(<< >>, [EmptyKV EXCEPT !.mem = kv.mem], [EmptyRing EXCEPT !.mem = ring.mem], EmptyRec)

\* hydrate_target_cache: the arrays of full attention are adopted, which
\* raises unless they are of the exact length; the rotating ones are cloned.
AdoptedKV(s) == [mem |-> kv.mem, keys |-> s.kv, offset |-> Len(s.text)]

\* Mutant: the rotating arrays are adopted as well.
HydratedRing_Adopts(s) ==
  [mem |-> ring.mem, keys |-> s.ring.keys, offset |-> s.ring.offset, idx |-> s.ring.idx]

HydratedRing(s) ==
  Refer([mem |-> ring.mem, keys |-> Nowhere, offset |-> s.ring.offset, idx |-> s.ring.idx],
        ring.mem[s.ring.keys])

Hydrate(s) ==
  /\ s.kv # Nowhere => Len(kv.mem[s.kv]) = Len(s.text)
  /\ Opens(s.text,
           AdoptedKV(s),
           IF s.ring.keys = Nowhere THEN [EmptyRing EXCEPT !.mem = ring.mem] ELSE HydratedRing(s),
           [EmptyRec EXCEPT !.state = s.state, !.conv = s.conv])

\* slice_snapshot_at_sidecar_boundary, and the hydration of the slice.
HydrateAtSidecar(s) ==
  LET n == s.sidecar.at IN
  /\ n > 0
  /\ Opens(FirstN(s.text, n),
           [Refer([EmptyKV EXCEPT !.mem = kv.mem], FirstN(kv.mem[s.kv], n)) EXCEPT !.offset = n],
           ring,
           [EmptyRec EXCEPT !.state = s.sidecar.state, !.conv = s.sidecar.conv])

-----------------------------------------------------------------------------
(* The prompt. *)

\* forward_with_hidden_capture of the two families: every layer reads the rows.
ForwardQwen(rows, recurrent) ==
  Become(IF HasKV THEN KVUpdate(kv, rows) ELSE kv,
         IF HasRing THEN RingUpdate(ring, rows) ELSE ring,
         RecUpdate(recurrent, rows))

ForwardGemma4(rows) == Become(KVUpdate(kv, rows), RingUpdate(ring, rows), rec)

Forward(rows, recurrent) ==
  IF HasRec THEN ForwardQwen(rows, recurrent) ELSE ForwardGemma4(rows)

Prefill(n) ==
  /\ At("prefill") /\ Len(text) + n <= MaxPrompt * request.id
  /\ text' = text \o NextRows(n)
  /\ Forward(NextRows(n), rec)
  /\ UNCHANGED <<target, request, full, windowed, snaps>>

\* serialize_target_cache of entries that hold these arrays.
Snapshot(kvEntry, ringEntry, sidecar) ==
  [text |-> text, kv |-> kvEntry.keys,
   ring |-> [keys |-> ringEntry.keys, offset |-> ringEntry.offset, idx |-> ringEntry.idx],
   state |-> rec.state, conv |-> rec.conv, sidecar |-> sidecar]

\* build_snapshot raises unless the offsets are those of the tokens.
Keeps(kvEntry, ringEntry, sidecar) ==
  LET s == Snapshot(kvEntry, ringEntry, sidecar) IN
  /\ Restorable /\ text # << >> /\ Cardinality(snaps) < MaxSnapshots
  /\ HasKV => kvEntry.offset = Len(text)
  /\ HasRing => ringEntry.offset = Len(text)
  /\ snaps' = snaps \cup {s}
  /\ kv' = Collected([kvEntry EXCEPT !.keys = kv.keys], KVReferences(snaps'))
  /\ ring' = Collected([ringEntry EXCEPT !.keys = ring.keys], RingReferences(snaps'))
  /\ UNCHANGED <<target, text, rec, full, windowed>>

\* A frontier or the whole prompt: the arrays are cloned.
PublishPrompt ==
  /\ At("prefill")
  /\ Keeps(Refer(kv, KVText(kv)),
           IF HasRing THEN Refer(ring, ArrayOf(ring)) ELSE ring, None)
  /\ UNCHANGED request

\* capture_gdn_sidecar: only where nothing rotates.
CaptureSidecar ==
  /\ At("prefill") /\ text # << >> /\ Restorable /\ ~HasRing
  /\ request' = [request EXCEPT
       !.sidecar = [at |-> Len(text), state |-> rec.state, conv |-> rec.conv]]
  /\ UNCHANGED <<target, text, kv, ring, rec, full, windowed, snaps>>

Start(block) ==
  /\ At("prefill") /\ text # << >>
  /\ request' = [request EXCEPT !.pc = "draft", !.block = block, !.left = Answer]
  /\ UNCHANGED <<target, text, kv, ring, rec, full, windowed, snaps>>

-----------------------------------------------------------------------------
(* A cycle: draft, verify, restore. *)

\* The block, the reduced block of the adaptive policy, or what is left.
Sizes == {Min({request.block, request.left}), Min({2, request.block, request.left})}

Unread == SubSeq(text, full.offset + 1, Len(text))
Noise(size) == [i \in 1 .. size |-> Row(0, Len(text) + i)]

\* The draft model reads the features it has not read and a masked block, or,
\* for a block that is copied, the features alone.
Advanced(c) == FullAppend(c, Unread)
DraftFull(c, block) == FullFetchWithBlock(Advanced(c), block)

Draft(size) ==
  /\ At("draft") /\ size > 1
  /\ \E block \in {<< >>, Noise(size)} : full' = Collected(DraftFull(full, block), {})
  /\ windowed' = WindowedAppend(windowed, Unread)
  /\ Goto("verify")
  /\ UNCHANGED <<target, text, kv, ring, rec, snaps>>

\* A block of the staged token needs no draft: the features are left unread.
DraftNothing(size) ==
  /\ At("draft") /\ size = 1
  /\ Goto("verify")
  /\ UNCHANGED <<target, text, kv, ring, rec, full, windowed, snaps>>

\* snapshot_cache and restore_cache keep the fields of an entry, not its
\* arrays: one branch writes where the greedy draft wrote, several have copies.
DraftBranches(size, branches) ==
  LET greedy == DraftFull(full, Noise(size))
      branch == DraftFull([full EXCEPT !.mem = greedy.mem], Noise(size))
  IN /\ At("draft") /\ target.ddtree /\ ~SupportsTreeCache /\ size > 1
     /\ full' = Collected(IF branches = 1 THEN [greedy EXCEPT !.mem = branch.mem] ELSE greedy, {})
     /\ windowed' = WindowedAppend(windowed, Unread)
     /\ Goto("verify")
     /\ UNCHANGED <<target, text, kv, ring, rec, snaps>>

Verified(size, accepted, pc) ==
  /\ request' = [request EXCEPT !.pc = pc, !.size = size, !.accepted = accepted]
  /\ UNCHANGED <<target, text, full, windowed, snaps>>

\* arm_rollback and verify_block
Verify(size, accepted) ==
  /\ At("verify") /\ ~target.ddtree
  /\ Forward(Block(size, accepted + 1), ArmRollback(rec))
  /\ Verified(size, accepted, "restore")

\* clone_cache_for_batch repeats the arrays unless there is one row only;
\* copy_selected_cache takes the row of the best candidate.
Copy(c) == IF c.keys = Nowhere THEN c ELSE Refer(c, ArrayOf(c))
Repeated(c, rows) == IF rows = 1 THEN c ELSE Copy(c)

VerifyBatch(size, accepted) ==
  LET n == Len(accepted)
      best == CHOOSE i \in 1 .. n : \A j \in 1 .. n :
                accepted[j] <= accepted[i] /\ (accepted[j] = accepted[i] => i <= j)
      rows == Block(size, accepted[best] + 1)
  IN /\ At("verify") /\ target.ddtree /\ ~SupportsTreeCache
     /\ Become(IF HasKV THEN Copy(KVUpdate(Repeated(kv, n), rows)) ELSE kv,
               IF HasRing THEN Copy(RingUpdate(Repeated(ring, n), rows)) ELSE ring,
               IF HasRec THEN RecUpdate(ArmRollback(rec), rows) ELSE rec)
     /\ Verified(size, accepted[best], "restore")

\* restore_after_acceptance
RestoredRec ==
  IF request.accepted = request.size - 1 THEN Cleared(rec) ELSE Rollback(rec, request.accepted)

Committed(n) ==
  /\ text' = text \o NextRows(n)
  /\ \E pc \in {"done"} \cup (IF request.left > n THEN {"draft"} ELSE {}) :
       request' = [request EXCEPT !.pc = pc, !.left = @ - n, !.size = 0, !.accepted = 0]
  /\ UNCHANGED <<target, full, windowed, snaps>>

\* Of the ring, gemma4 brings what it trims into order first.
RestoredRing(length) ==
  LET n == ring.offset - length IN
  IF n <= 0 THEN ring
  ELSE IF target.model = "gemma4" THEN RingTrimRecent(ring, n) ELSE RingTrim(ring, n)

RestoredKV(length) == IF kv.offset > length THEN KVTrim(kv, kv.offset - length) ELSE kv

Restore ==
  LET length == Len(text) + request.accepted + 1 IN
  /\ At("restore")
  /\ Become(RestoredKV(length), RestoredRing(length), RestoredRec)
  /\ Committed(request.accepted + 1)

\* verify_tree_block and restore_after_tree_acceptance: the path leads from
\* the root through slots in their order.
Paths(size) ==
  {path \in UNION {[1 .. n -> 1 .. size] : n \in 1 .. size} :
     path[1] = 1 /\ \A i, j \in DOMAIN path : i < j => path[i] < path[j]}

\* What the layers read of a tree; _tree_recurrent_call keeps it beside the
\* cache, _tree_attention_call appends it.
TreeSlots(size, path) ==
  [i \in 1 .. size |->
     IF i \in Range(path)
     THEN Row(request.id, Len(text) + (CHOOSE k \in DOMAIN path : path[k] = i))
     ELSE Row(0, Len(text) + i)]

TreeAttention(slots) == KVUpdate(kv, slots)

VerifyTree(size, path) ==
  LET slots == TreeSlots(size, path) IN
  /\ At("verify") /\ target.ddtree /\ SupportsTreeCache
  /\ Len(path) <= request.left
  /\ Become(KVCommitTree(TreeAttention(slots), size, path), ring, RecCommitTree(rec, slots, path))
  /\ Committed(Len(path))

-----------------------------------------------------------------------------
(* The end. *)

\* The arrays of the answer's snapshot are those of the caches.
PublishAnswer ==
  /\ At("done")
  /\ Keeps(KVState(kv), ring, IF request.sidecar.at < Len(text) THEN request.sidecar ELSE None)
  /\ Goto("published")

\* cleanup_generation_caches, at the end or when the request is given up.
Close ==
  /\ ~At("none")
  /\ request' = [NoRequest EXCEPT !.id = request.id]
  /\ text' = << >>
  /\ Become([EmptyKV EXCEPT !.mem = kv.mem], [EmptyRing EXCEPT !.mem = ring.mem], EmptyRec)
  /\ full' = EmptyFull /\ windowed' = EmptyWindowed
  /\ UNCHANGED <<target, snaps>>

Evict(s) ==
  /\ snaps' = snaps \ {s}
  /\ kv' = Collected(kv, KVReferences(snaps'))
  /\ ring' = Collected(ring, RingReferences(snaps'))
  /\ UNCHANGED <<target, request, text, rec, full, windowed>>

\* A snapshot that was written to disk and read back from there: _serialize
\* names every array and writes down which entries have one, with the offset
\* and the index of a ring; _deserialize makes arrays of its own.
Serialized(s) ==
  [arrays |-> [n \in {"kv" : x \in {s.kv} \ {Nowhere}} \cup {"ring" : x \in {s.ring.keys} \ {Nowhere}} |->
                 IF n = "kv" THEN kv.mem[s.kv] ELSE ring.mem[s.ring.keys]],
   text |-> s.text, offset |-> s.ring.offset, idx |-> s.ring.idx,
   state |-> s.state, conv |-> s.conv,
   sidecar |-> IF s.sidecar.at > 0 THEN s.sidecar ELSE None]

Deserialized(file) ==
  [text |-> file.text,
   kv |-> IF "kv" \in DOMAIN file.arrays THEN Unused(kv.mem) ELSE Nowhere,
   ring |-> [keys |-> IF "ring" \in DOMAIN file.arrays THEN Unused(ring.mem) ELSE Nowhere,
             offset |-> file.offset, idx |-> file.idx],
   state |-> file.state, conv |-> file.conv, sidecar |-> file.sidecar]

\* The copy on disk takes the place of the one in memory before a request.
Reload(s) ==
  LET file == Serialized(s)
      Loaded(c, name) ==
        IF name \in DOMAIN file.arrays THEN [c EXCEPT !.mem = With(@, file.arrays[name])] ELSE c
  IN /\ At("none")
     /\ snaps' = (snaps \ {s}) \cup {Deserialized(file)}
     /\ kv' = Collected(Loaded(kv, "kv"), KVReferences(snaps'))
     /\ ring' = Collected(Loaded(ring, "ring"), RingReferences(snaps'))
     /\ UNCHANGED <<target, request, text, rec, full, windowed>>

-----------------------------------------------------------------------------
Init ==
  /\ target \in Targets
  /\ request = NoRequest /\ text = << >>
  /\ kv = EmptyKV /\ ring = EmptyRing /\ rec = EmptyRec
  /\ full = EmptyFull /\ windowed = EmptyWindowed
  /\ snaps = {}

Cycle ==
  \E size \in Sizes :
    \/ Draft(size) \/ DraftNothing(size)
    \/ \E branches \in 1 .. 2 : DraftBranches(size, branches)
    \/ \E accepted \in 0 .. size - 1 : Verify(size, accepted)
    \/ \E n \in 1 .. 2 : \E accepted \in [1 .. n -> 0 .. size - 1] : VerifyBatch(size, accepted)
    \/ \E path \in Paths(size) : VerifyTree(size, path)

Next ==
  \/ Open
  \/ \E s \in snaps : Hydrate(s) \/ HydrateAtSidecar(s) \/ Evict(s) \/ Reload(s)
  \/ \E n \in 1 .. MaxChunk : Prefill(n)
  \/ PublishPrompt \/ CaptureSidecar
  \/ \E block \in Blocks : Start(block)
  \/ Cycle
  \/ Restore
  \/ PublishAnswer \/ Close

Spec == Init /\ [][Next]_vars

-----------------------------------------------------------------------------

RecReads(state, conv, t) == state = t /\ conv = LastN(Zeros(Keep) \o t, Keep)

\* What the attention of a rotating cache sees while it reads rows.
Attended(c, rows) ==
  LET read == RingUpdate(c, rows) IN
  IF Len(rows) = 1 THEN Range(FirstN(ArrayOf(read), Min({read.offset, Len(ArrayOf(read))})))
  ELSE Range(LastN(ArrayOf(read), Min({RingSize - 1, c.offset}) + Len(rows)))

Reads(c, t, rows) ==
  Attended(c, rows) =
    Range(LastN(t \o rows, IF Len(rows) = 1 THEN RingSize ELSE RingSize - 1 + Len(rows)))

\* A snapshot is the state after its tokens for as long as it is kept, whoever
\* decodes on the arrays it shares, and so is its sidecar.  codecs.py:421
\* argues it ("Adopting is safe"); the L2 writer and every later request of
\* the same prefix rely on it.
SnapshotsKeepTheirText ==
  \A s \in snaps :
    /\ HasKV => kv.mem[s.kv] = s.text
    /\ HasRing =>
         \A n \in 1 .. MaxChunk :
           Reads([mem |-> ring.mem, keys |-> s.ring.keys, offset |-> s.ring.offset, idx |-> s.ring.idx],
                 s.text, Noise(n))
    /\ HasRec => RecReads(s.state, s.conv, s.text)
    /\ s.sidecar.at > 0 =>
         RecReads(s.sidecar.state, s.sidecar.conv, FirstN(s.text, s.sidecar.at))

\* Before every pass whose outcome is used, each cache of the target stands
\* for exactly the committed text, and those of the draft model for the part
\* of it they have read: no row of a rejected draft, none missing or twice, and
\* the window of a draft cache hides nothing a sliding layer would attend to.
CachesReadTheText ==
  request.pc \in {"prefill", "draft", "verify"} =>
    /\ HasKV => KVText(kv) = text
    /\ HasRec => RecReads(rec.state, rec.conv, text)
    /\ HasRing =>
         \A n \in IF At("prefill") THEN 1 .. MaxChunk ELSE Sizes :
           request.left # 1 => Reads(ring, text, NextRows(n))
    /\ FullText(full) = FirstN(text, full.offset)
    /\ LET read == FirstN(text, windowed.offset) IN
       /\ windowed.rows = IF Len(read) <= Sink + Window THEN read
                          ELSE FirstN(read, Sink) \o LastN(read, Window)
       /\ \A query \in windowed.offset + 1 .. windowed.offset + Max(Blocks) :
            DraftAttends(windowed, query)
              = Range(SubSeq(read, Max({0, query - Sliding}) + 1, Len(read)))

=============================================================================
