------------------------------- MODULE Session -------------------------------
(***************************************************************************)
(* One request to the engine from its start (stream_dflash_generate_impl   *)
(* and SpeculativeSession.open, engine/spec_epoch.py): the snapshot it     *)
(* restores, the prefill of the rest of the prompt                         *)
(* (_run_prefill_events), the snapshots taken on the way, and then the     *)
(* decode loops of SpecDecode and TreeDecode.  A request too long for the  *)
(* draft model is decoded by the target alone (engine/fallback.py).        *)
(*                                                                         *)
(* The prompt is read in chunks up to the token before the boundary, the   *)
(* part that the next turn of a conversation repeats; then that token,     *)
(* where a snapshot of the prompt may be taken, then the rest.             *)
(*                                                                         *)
(* run.hit is the snapshot the server found, run.stable the part of the    *)
(* prompt it looked up, 0 for all of it.  Requests with token positions of *)
(* their own (sparse prefill) are left out, and so are quantized and       *)
(* rotating caches, which take no snapshots or no sidecar.                 *)
(***************************************************************************)
EXTENDS TreeDecode

CONSTANTS Step,          \* prefill_step_size
          Stride,        \* the frontier stride of the prefix store, 0: none
          SidecarMin     \* _SIDECAR_MIN_BOUNDARY

\* A snapshot found is of a part of the text that was looked up.  It has the
\* features of that part: of the sink and the window, or where there are none of all of it.
ASSUME RunAssumption ==
  \A r \in Runs :
    LET n == r.hit.len IN
    /\ r.mode \in {"dflash", "ddtree", "target"}
    /\ r.supports \in BOOLEAN /\ r.full \in BOOLEAN /\ r.profile \in BOOLEAN
    /\ n \in 0 .. (IF r.stable \in 1 .. Len(Prompt) THEN r.stable ELSE Len(Prompt))
    /\ r.hit.features \subseteq 1 .. n
    /\ \A i \in 1 .. n : Sink + Window = 0 \/ i <= Sink \/ i > n - Window => i \in r.hit.features
ASSUME StepAssumption == Step \in Nat \ {0} /\ Stride \in Nat /\ SidecarMin \in Nat \ {0}

NoSession == [restored |-> 0, boundary |-> 0, publish |-> FALSE, frozen |-> << >>,
              sidecar |-> NoSidecar, collect |-> FALSE]

prefilled == <<cache, hidden, row>>
decoding == <<block, emitted, start, chunks, copyOff, steering, drafts, proposed>>

Init ==
  /\ run \in Runs /\ greedy \in Continuations
  /\ session = NoSession /\ active = TRUE
  /\ pc = "open" /\ block = NoBlock
  /\ stream = << >> /\ generated = << >> /\ unskipped = FALSE
  /\ start = Len(Prompt) /\ staged = Prompt[1]
  /\ cache = ColdCache /\ hidden = << >> /\ chunks = << >> /\ context = << >>
  /\ prefetched = NoDraft /\ index = Prompt /\ copyOff = FALSE
  /\ row = << >> /\ published = {}
  /\ StartDecode

-----------------------------------------------------------------------------
\* compute_snapshot_boundary
Boundary ==
  IF ~run.supports THEN 0
  ELSE IF run.stable \in 1 .. Len(Prompt) THEN run.stable ELSE Len(Prompt)

\* snap_prefix_len: a snapshot with holes does not serve a draft model that
\* attends to everything.
Restored_AnyHit == IF run.supports THEN run.hit.len ELSE 0

Restored ==
  IF run.supports /\ (run.full => 1 .. run.hit.len \subseteq run.hit.features)
  THEN run.hit.len ELSE 0

PublishesPrompt_AnyLimit == run.supports /\ run.publish # "none" /\ ~ShouldCollect

\* publish_prefix_snapshots: not when the answer's snapshot is to follow.
PublishesPrompt ==
  run.supports /\ run.publish # "none" /\ ~(run.max > 0 /\ ShouldCollect)

Exact == session.restored > 0 /\ session.restored = session.boundary

Open ==
  /\ pc = "open" /\ run.mode # "target"
  /\ session' = [NoSession EXCEPT
       !.restored = Restored, !.boundary = Boundary, !.publish = PublishesPrompt]
  /\ cache' = [ColdCache EXCEPT !.kv = SubSeq(Prompt, 1, Restored),
                                !.rec = SubSeq(Prompt, 1, Restored)]
  /\ hidden' = IF Restored = 0 THEN << >>
               ELSE [i \in 1 .. Len(Prompt) |-> IF i \in run.hit.features THEN i ELSE 0]
  /\ pc' = "chunks"
  /\ UNCHANGED <<request, row, staged, published, decoding>>

\* Forwards the tokens after from, up to the token to, and writes their features.
Feed(from, to) ==
  /\ cache' = Forward(cache, SubSeq(Prompt, from + 1, to))
  /\ hidden' = [i \in 1 .. Len(Prompt) |->
                  IF i \in from + 1 .. to THEN i ELSE IF hidden = << >> THEN 0 ELSE hidden[i]]
  /\ row' = cache'.kv

\* One chunk; on the stride a frontier is published for the second level.
Chunk ==
  LET from == Len(cache.kv)
      to == Min({from + Step, session.boundary - 1}) IN
  /\ pc = "chunks" /\ from < session.boundary - 1
  /\ Feed(from, to)
  /\ IF session.publish /\ Stride > 0 /\ to % Stride = 0
     THEN Publish(Snapshot("frontier", SubSeq(Prompt, 1, to), cache', row', hidden', NoSidecar))
     ELSE UNCHANGED published
  /\ Resume("chunks")
  /\ UNCHANGED <<fixed, staged, decoding>>

\* The last token before the boundary, or the logits that were restored with it.
Seam ==
  /\ pc = "chunks" /\ Len(cache.kv) >= session.boundary - 1
  /\ IF session.restored < session.boundary
     THEN Feed(session.boundary - 1, session.boundary)
     ELSE /\ row' = IF Exact /\ run.hit.logits THEN SubSeq(Prompt, 1, session.boundary)
                    ELSE << >>
          /\ UNCHANGED <<cache, hidden>>
  /\ Resume("prompt")
  /\ UNCHANGED <<fixed, staged, published, decoding>>

\* The snapshot of the prompt, or the sidecar of the answer's snapshot: the
\* recurrent state cannot be taken back to the boundary later.
PublishPrompt ==
  /\ pc = "prompt"
  /\ IF Exact /\ ~run.hit.logits /\ run.publish # "none"
     THEN pc' = "raising" /\ UNCHANGED <<session, published>>
     ELSE /\ IF session.publish /\ ~Exact
             THEN /\ Publish(Snapshot("prefill", SubSeq(Prompt, 1, session.boundary),
                                      cache, row, hidden, NoSidecar))
                  /\ Resume("tail")
             ELSE pc' = "tail" /\ UNCHANGED published
          /\ session' = IF /\ session.boundary >= SidecarMin /\ run.max > 0
                           /\ ShouldCollect /\ row # << >>
                        THEN [session EXCEPT !.sidecar = [at |-> session.boundary,
                                                          rec |-> cache.rec, row |-> row]]
                        ELSE session
  /\ UNCHANGED <<request, prefilled, staged, decoding>>

\* The part of the prompt after the boundary.
PrefillTail ==
  /\ pc = "tail"
  /\ IF session.boundary < Len(Prompt)
     THEN Feed(session.boundary, Len(Prompt)) /\ Resume("complete")
     ELSE pc' = "complete" /\ UNCHANGED prefilled
  /\ UNCHANGED <<fixed, staged, published, decoding>>

\* The features are kept for the answer's snapshot, the first token is chosen.
Complete ==
  /\ pc = "complete"
  /\ session' = [session EXCEPT !.frozen = IF ShouldCollect THEN hidden ELSE << >>]
  /\ IF row = << >> THEN pc' = "raising" /\ UNCHANGED staged
     ELSE /\ \E wrong \in Token \ Suppressed :
               staged' = IF row = Prompt /\ cache.kv = Prompt /\ cache.rec = Prompt
                         THEN greedy[1] ELSE wrong
          /\ Resume("first")
  /\ UNCHANGED <<request, prefilled, published, decoding>>

Prefill == Open \/ Chunk \/ Seam \/ PublishPrompt \/ PrefillTail \/ Complete

-----------------------------------------------------------------------------
\* stream_baseline_generate: the target alone, a token a step.

TargetPrefill ==
  /\ pc = "open" /\ run.mode = "target"
  /\ cache' = Forward(ColdCache, Prompt) /\ row' = Prompt /\ staged' = greedy[1]
  /\ Resume("token")
  /\ UNCHANGED <<fixed, hidden, published, decoding>>

TargetToken ==
  /\ pc = "token"
  /\ stream' = Append(stream, staged) /\ generated' = Append(generated, staged)
  /\ Resume("step")
  /\ UNCHANGED <<fixed, prefilled, staged, published, block, unskipped, start, chunks, copyOff,
                 steering, drafts, proposed>>

TargetStep ==
  /\ pc = "step"
  /\ IF Len(generated) < run.max /\ staged \notin Stop
     THEN /\ \E wrong \in Token \ Suppressed : staged' = Posterior(cache, <<staged>>, wrong)[1]
          /\ cache' = Forward(cache, <<staged>>) /\ row' = cache'.kv
          /\ pc' = "token"
     ELSE UNCHANGED <<staged, cache, row>> /\ pc' \in {"ending", "closing"}
  /\ UNCHANGED <<fixed, hidden, published, decoding>>

TargetOnly == TargetPrefill \/ TargetToken \/ TargetStep

-----------------------------------------------------------------------------
\* A reconfiguration or a shutdown may close the cache manager meanwhile.
Retire ==
  /\ run.retires /\ active /\ pc \notin {"finished", "closed", "raised"}
  /\ active' = FALSE
  /\ UNCHANGED <<run, greedy, session, pc, prefilled, staged, published, decoding>>

Advance == Prefill \/ TargetOnly \/ Decode

Next == Advance \/ Retire

Spec == Init /\ [][Next]_treeVars

\* The server pulls the generator to its end or closes it.
FairSpec == Spec /\ WF_treeVars(Advance)

-----------------------------------------------------------------------------
==============================================================================
