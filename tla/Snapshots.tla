------------------------------ MODULE Snapshots ------------------------------
(***************************************************************************)
(* What a prefix snapshot is and when it can serve a request               *)
(* (cache/snapshot.py, cache/codecs.py, engine/prefill.py and the          *)
(* per-entry tests of the L1 and L2 lookups).                              *)
(*                                                                         *)
(* A snapshot is the state of the target model after a sequence of         *)
(* tokens.  Its arrays are abstracted to the facts a lookup depends on:    *)
(*   key       everything the state depends on besides the tokens          *)
(*   kind      "prefill" (a prompt) or "generation" (prompt and answer)    *)
(*   tokens    the prefix the state stands for                             *)
(*   size      its bytes                                                   *)
(*   logits    whether the logits after the last token are kept            *)
(*   full      whether the draft features cover the whole prefix, or only  *)
(*             the sink and the window                                     *)
(*   boundary  the position of the sidecar, 0 without one: the recurrent   *)
(*             state and the logits captured inside a generation snapshot  *)
(*   context   what of the features before the boundary is there: all, the *)
(*             sink and the window a draft model attends to there, or less *)
(* A request has the key, the tokens it wants restored, and full when the  *)
(* draft model needs every feature.                                        *)
(***************************************************************************)
EXTENDS Collections

Kinds == {"prefill", "generation"}

\* What build_snapshot accepts: a sidecar only inside a generation snapshot.
IsSnapshot(s) ==
  /\ s.kind \in Kinds
  /\ s.tokens \in Seq(Nat) /\ s.tokens # <<>>
  /\ s.size \in Nat
  /\ s.logits \in BOOLEAN /\ s.full \in BOOLEAN
  /\ s.boundary \in 0 .. (Len(s.tokens) - 1)
  /\ s.context \in {"all", "window", "none"}
  /\ IF s.boundary > 0 THEN s.kind = "generation" /\ (s.full => s.context = "all")
     ELSE s.context = "none"

IsRequest(r) == r.tokens \in Seq(Nat) /\ r.tokens # <<>> /\ r.full \in BOOLEAN

\* Snapshots the arrays of which a request may read: same key, and every
\* feature there when the request needs every feature.
Fits(s, r) == s.key = r.key /\ (r.full => s.full)

\* The whole snapshot is a prefix of the request.
CoversPrefix(s, r) == IsPrefix(s.tokens, r.tokens)

UsableWhole(s, r) == Fits(s, r) /\ CoversPrefix(s, r)

\* Mutant: the features before the boundary are not looked at.
UsableAtBoundary_AnyContext(s, r) ==
  /\ s.key = r.key
  /\ ~CoversPrefix(s, r)
  /\ s.boundary \in 1 .. Len(r.tokens)
  /\ SubSeq(s.tokens, 1, s.boundary) = SubSeq(r.tokens, 1, s.boundary)

\* The request leaves the snapshot after its sidecar boundary, and the features
\* the draft model reads there are in it.
UsableAtBoundary(s, r) ==
  /\ s.key = r.key
  /\ s.context # "none" /\ (r.full => s.context = "all")
  /\ ~CoversPrefix(s, r)
  /\ s.boundary \in 1 .. Len(r.tokens)
  /\ SubSeq(s.tokens, 1, s.boundary) = SubSeq(r.tokens, 1, s.boundary)

\* The prefill snapshot cut out of a generation snapshot at its boundary.
SliceAtBoundary(s) ==
  [key |-> s.key, kind |-> "prefill", tokens |-> SubSeq(s.tokens, 1, s.boundary),
   size |-> s.size, logits |-> TRUE, full |-> s.context = "all",
   boundary |-> 0, context |-> "none"]

\* Restoring the whole request needs the logits after its last token, which
\* only a prefill snapshot is trusted for.
Answers(s, r) ==
  Len(s.tokens) = Len(r.tokens) => s.kind = "prefill" /\ s.logits

==============================================================================
