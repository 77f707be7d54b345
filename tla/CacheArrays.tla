----------------------------- MODULE CacheArrays -----------------------------
(***************************************************************************)
(* The caches of one target and one draft model and the arrays they keep   *)
(* (recurrent_rollback_cache.py, the draft caches of model.py, the commits *)
(* of engine/target_qwen_gdn.py and engine/target_gemma4.py, and KVCache   *)
(* and RotatingKVCache of mlx_lm, which the source extends and trims).     *)
(*                                                                         *)
(* An array is a sequence of rows, a row the keys and values of one token: *)
(* the request whose text it belongs to, 0 for a draft that was rejected,  *)
(* and its position.  Assigning to a slice changes an array where it is,   *)
(* for everyone who refers to it; slices, concatenations and selections    *)
(* are new arrays.  So a cache that is written in place is a reference     *)
(* into a memory of arrays (mem), and sharing is a reference held twice.   *)
(* The arrays of the other caches are only ever replaced: they are values. *)
(*                                                                         *)
(* One cache stands for the layers of its kind, which do the same.         *)
(***************************************************************************)
EXTENDS Integers, Sequences, SequencesExt, FiniteSetsExt

CONSTANTS Step,          \* rows a growing array grows by
          RingSize,      \* max_size of a rotating cache
          Keep,          \* conv_kernel_size - 1
          Sink, Window,  \* of a windowed draft cache
          Sliding        \* sliding_window of the draft's sliding layers

ASSUME SizeAssumption ==
  /\ Step \in Nat \ {0} /\ RingSize \in Nat \ {0} /\ Keep \in Nat
  /\ Sink \in Nat /\ Window \in Nat \ {0}

\* resolve_draft_window never makes the window smaller.
ASSUME SlidingAssumption == Sliding \in 1 .. Window

Row(request, position) == <<request, position>>
Blank == Row(0, 0)
Zeros(n) == [i \in 1 .. n |-> Blank]
FirstN(s, n) == SubSeq(s, 1, n)
LastN(s, n) == SubSeq(s, Max({0, Len(s) - n}) + 1, Len(s))

Nowhere == 0
Unused(mem) == CHOOSE a \in 1 .. Cardinality(DOMAIN mem) + 1 : a \notin DOMAIN mem
With(mem, array) ==
  [a \in DOMAIN mem \cup {Unused(mem)} |-> IF a = Unused(mem) THEN array ELSE mem[a]]
RoundedUp(n) == ((n + Step - 1) \div Step) * Step

\* array[..., from:from + len(rows), :] = rows
Written(array, from, rows) ==
  [i \in DOMAIN array |-> IF i - from \in DOMAIN rows THEN rows[i - from] ELSE array[i]]

\* cache.keys = array
Refer(c, array) == [c EXCEPT !.mem = With(@, array), !.keys = Unused(c.mem)]
WriteAt(c, from, rows) == [c EXCEPT !.mem[c.keys] = Written(@, from, rows)]
ArrayOf(c) == IF c.keys = Nowhere THEN << >> ELSE c.mem[c.keys]

\* Memory nobody refers to is gone.
Collected(c, references) ==
  [c EXCEPT !.mem = [a \in DOMAIN @ \cap (references \cup {c.keys}) |-> @[a]]]

-----------------------------------------------------------------------------
(* KVCache *)

EmptyKV == [mem |-> << >>, keys |-> Nowhere, offset |-> 0]

\* update_and_fetch: in place while there is room.
KVUpdate(c, rows) ==
  LET old == ArrayOf(c)
      room == c.offset + Len(rows) <= Len(old)
      kept == IF c.offset % Step = 0 THEN old ELSE FirstN(old, c.offset)
      grown == IF room THEN c ELSE Refer(c, kept \o Zeros(RoundedUp(Len(rows))))
  IN [WriteAt(grown, c.offset, rows) EXCEPT !.offset = @ + Len(rows)]

KVTrim(c, n) == [c EXCEPT !.offset = @ - Min({n, @})]

\* state: the array itself when it is full, else the part in use.
KVState(c) ==
  IF c.offset = Len(ArrayOf(c)) THEN c ELSE Refer(c, FirstN(ArrayOf(c), c.offset))

KVText(c) == FirstN(ArrayOf(c), c.offset)

\* _commit_kv_tree_path: the prefix and the accepted slots, nothing else.
KVCommitTree(c, size, path) ==
  LET prefix == c.offset - size
      kept == FirstN(ArrayOf(c), prefix) \o [i \in DOMAIN path |-> ArrayOf(c)[prefix + path[i]]]
  IN [Refer(c, kept) EXCEPT !.offset = Len(kept)]

-----------------------------------------------------------------------------
(* RotatingKVCache *)

EmptyRing == [mem |-> << >>, keys |-> Nowhere, offset |-> 0, idx |-> 0]

\* _temporal_order
Ordered(array, offset, idx) ==
  IF idx = Len(array) THEN array
  ELSE IF idx < offset THEN SubSeq(array, idx + 1, Len(array)) \o FirstN(array, idx)
  ELSE FirstN(array, idx)
RingText(c) == Ordered(ArrayOf(c), c.offset, c.idx)

\* Several tokens: the oldest are cut and the rest are concatenated.
RingConcat(c, rows) ==
  LET old == RingText(c)
      cut == Max({0, Len(old) - RingSize + 1})
      new == SubSeq(old, cut + 1, Len(old)) \o rows
  IN [Refer(c, new) EXCEPT !.offset = @ + Len(rows), !.idx = Len(new)]

\* One token: the array grows to the size of the ring, is cut to it if it is
\* longer, and is then written round and round.
RingGrow(c) ==
  LET array == ArrayOf(c) IN
  IF c.offset >= Len(array) /\ Len(array) < RingSize
  THEN [Refer(c, array \o Zeros(Min({Step, RingSize - c.offset}))) EXCEPT !.idx = c.offset]
  ELSE c
RingCut(c) ==
  LET array == ArrayOf(c) IN
  IF Len(array) > RingSize
  THEN [Refer(c, LastN(array, RingSize)) EXCEPT !.idx = RingSize] ELSE c
RingWrite(c, row) ==
  LET ready == RingCut(RingGrow(c))
      at == IF ready.idx = RingSize THEN 0 ELSE ready.idx
  IN [WriteAt(ready, at, <<row>>) EXCEPT !.offset = @ + 1, !.idx = at + 1]

RingUpdate(c, rows) ==
  IF Len(rows) = 1 THEN RingWrite(c, rows[1]) ELSE RingConcat(c, rows)

\* trim of mlx_lm: the indices alone.
RingTrim(c, n) ==
  LET m == Min({n, c.offset}) IN [c EXCEPT !.offset = @ - m, !.idx = @ - m]

\* _trim_recent_cache of target_gemma4: brought into order, then cut.
RingTrimRecent(c, n) ==
  LET m == Min({n, c.offset})
      kept == FirstN(RingText(c), Max({0, Len(RingText(c)) - m}))
  IN IF m <= 0 THEN c
     ELSE [Refer(c, kept) EXCEPT !.offset = @ - m, !.idx = Len(kept)]

\* The rows a next token may attend: all but the one it replaces.
RingSeen(c) == LastN(RingText(c), RingSize - 1)

-----------------------------------------------------------------------------
(* RecurrentRollbackCache: what its recurrent state has read, the inputs of *)
(* its convolution, and what is kept to undo a verification.                *)

EmptyRec == [state |-> << >>, conv |-> Zeros(Keep), armed |-> FALSE,
             saved |-> << >>, tape |-> << >>]

Cleared(c) == [c EXCEPT !.armed = FALSE, !.saved = << >>, !.tape = << >>]

ArmRollback(c) ==
  [c EXCEPT !.armed = TRUE, !.tape = << >>,
            !.saved = <<[state |-> c.state, conv |-> c.conv]>>]

\* The hooked layer; only an armed one records its tape.
RecUpdate(c, rows) ==
  [c EXCEPT !.state = @ \o rows, !.conv = LastN(@ \o rows, Keep),
            !.tape = IF c.armed THEN rows ELSE @]

\* Mutant: the window of the convolution starts one step early.
RebuildConvState_Early(saved, tape, steps) ==
  SubSeq(saved.conv \o tape, steps, steps + Keep - 1)

RebuildConvState(saved, tape, steps) ==
  SubSeq(saved.conv \o tape, steps + 1, Min({steps + Keep, Keep + Len(tape)}))

\* rollback
Rollback(c, accepted) ==
  IF c.saved = << >> THEN Cleared(c)
  ELSE LET saved == c.saved[1]
           back == [c EXCEPT !.state = saved.state, !.conv = saved.conv]
       IN Cleared(IF c.tape = << >> THEN back
                  ELSE [back EXCEPT
                         !.state = saved.state \o FirstN(c.tape, accepted + 1),
                         !.conv = RebuildConvState(saved, c.tape, accepted + 1)])

\* _tree_recurrent_call leaves the state alone and _commit_recurrent_tree_path
\* replays the accepted slots.
RecCommitTree(c, slots, path) ==
  LET rows == [i \in DOMAIN path |-> slots[path[i]]]
  IN [c EXCEPT !.state = @ \o rows, !.conv = LastN(@ \o rows, Keep)]

-----------------------------------------------------------------------------
(* ContextOnlyDraftKVCache: a sink and a window of the context. *)

EmptyWindowed == [rows |-> << >>, positions |-> << >>, offset |-> 0]

\* context_spans_to_append: the features of n positions that are projected.
Span(from, to) == [i \in 1 .. to - from |-> from + i]
SpansToAppend(c, n) ==
  IF c.rows # << >> THEN Span(Max({0, n - Window}), n)
  ELSE IF n <= Sink + Window THEN Span(0, n)
  ELSE Span(0, Sink) \o Span(Max({Sink, n - Window}), n)

\* _context_segments_for_cache: those of rows that are projected.
Selected(c, rows) ==
  LET spans == SpansToAppend(c, Len(rows))
  IN [i \in DOMAIN spans |-> rows[spans[i]]]

\* _rope_context_segments: the positions they are rotated to.
RopePositions(c, n) ==
  LET spans == SpansToAppend(c, n)
  IN [i \in DOMAIN spans |-> c.offset + spans[i]]

\* _apply_window
Windowed(rows) ==
  IF Len(rows) <= Sink + Window THEN rows ELSE FirstN(rows, Sink) \o LastN(rows, Window)

\* append_context
WindowedAppend(c, rows) ==
  IF rows = << >> THEN c
  ELSE [rows |-> Windowed(c.rows \o Selected(c, rows)),
        positions |-> Windowed(c.positions \o RopePositions(c, Len(rows))),
        offset |-> c.offset + Len(rows)]

\* _attention_mask of a sliding layer: what a query of the block reads of it.
DraftAttends(c, query) ==
  {c.rows[i] : i \in {i \in DOMAIN c.rows : c.positions[i] <= query /\ query < c.positions[i] + Sliding}}

-----------------------------------------------------------------------------
(* FullContextDraftKVCache: a buffer that is written in place. *)

EmptyFull == [mem |-> << >>, keys |-> Nowhere, length |-> 0, offset |-> 0]

\* Room for needed rows (_grow), and rows behind those in use.
FullPut(c, rows) ==
  LET needed == c.length + Len(rows)
      grown == IF needed <= Len(ArrayOf(c)) THEN c
               ELSE Refer(c, FirstN(ArrayOf(c), c.length) \o Zeros(RoundedUp(needed) - c.length))
  IN WriteAt(grown, c.length, rows)

\* append_context
FullAppend(c, rows) ==
  IF rows = << >> THEN c
  ELSE [FullPut(c, rows) EXCEPT !.length = @ + Len(rows), !.offset = @ + Len(rows)]

\* fetch_with_block: the block is put behind the context and not kept.
FullFetchWithBlock(c, block) == IF c.length = 0 THEN c ELSE FullPut(c, block)

FullText(c) == FirstN(ArrayOf(c), c.length)

=============================================================================
