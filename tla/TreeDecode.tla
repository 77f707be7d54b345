------------------------------ MODULE TreeDecode ------------------------------
(***************************************************************************)
(* The decode loop with verify_mode "ddtree"                               *)
(* (SpeculativeSession._run_ddtree_decode_events, engine/spec_epoch.py,    *)
(* with engine/ddtree.py and the tree passes of engine/target_qwen_gdn.py) *)
(* beside the linear loop of SpecDecode, from which _run_decode_events     *)
(* branches off to it.                                                     *)
(*                                                                         *)
(* A target that can verify trees is given one: the drafted tokens hang    *)
(* below the staged one, every slot of the tree sees its ancestors only,   *)
(* and the caches keep the slots on the accepted path.  Any other target   *)
(* is given a batch: the greedy draft and variants that take the           *)
(* runner-up at one of the first positions, each row with a copy of the    *)
(* caches, of which the row with the longest acceptance is kept.           *)
(*                                                                         *)
(* There is no adaptive policy, no gate and no prefetching here.  The      *)
(* scores of the draft model may order its candidates in any way.          *)
(*                                                                         *)
(*   candidates  candidate_ids_list with candidate_sources                 *)
(*   tree        the slots of a FlatDDTree, each as its path from the root *)
(***************************************************************************)
EXTENDS SpecDecode

CONSTANT TreeBlock       \* effective_block_tokens of a request with a tree

ASSUME TreeAssumption == TreeBlock \in 1 .. FullBlock

VARIABLES candidates, tree

proposed == <<candidates, tree>>
treeVars == <<vars, proposed>>

TopWidth == 2            \* _DDTREE_TOP_WIDTH

TreeBlockLength == Max({1, Min({TreeBlock, run.max - Len(generated)})})

\* What may be drafted for len positions, and the best tokens of one position.
Drafted(len) == [1 .. len -> Token \ Suppressed]
TopTokens == {t \in [1 .. TopWidth -> Token \ Suppressed] : t[1] # t[2]}

-----------------------------------------------------------------------------
\* build_flat_ddtree: the chain of the best tokens, then, while the budget
\* lasts, further nodes, none before its parent and its better sibling.

ChainSeed(rows, budget) ==
  [i \in 1 .. Min({Len(rows), budget}) |-> [j \in 1 .. i |-> rows[j][1]]]

TreeNodes(rows) ==
  UNION {{p \in [1 .. n -> Token] : \A i \in 1 .. n : p[i] \in Range(rows[i])} :
           n \in 1 .. Len(rows)}

BestFirst(rows, nodes) ==
  \A k \in DOMAIN nodes :
    LET p == nodes[k]
        n == Len(p)
        earlier == {nodes[i] : i \in 1 .. k - 1} \cup {<< >>}
    IN /\ p \notin earlier /\ Front(p) \in earlier
       /\ p[n] # rows[n][1] => Append(Front(p), rows[n][1]) \in earlier

FlatTrees(rows, budget) ==
  LET chain == ChainSeed(rows, budget)
      room == Min({budget, Cardinality(TreeNodes(rows))}) - Len(chain)
      grown == {chain \o more : more \in [1 .. room -> TreeNodes(rows)]}
  IN {<< << >> >> \o nodes : nodes \in {g \in grown : BestFirst(rows, g)}}

\* follow_verified_tree: from the root along the target's answers.
AcceptedPath(slots, answer) ==
  LET agreed == {p \in Range(slots) :
                   \A i \in 1 .. Len(p) : p[i] = answer[SubSeq(p, 1, i - 1)]}
  IN CHOOSE p \in agreed : \A q \in agreed : Len(q) <= Len(p)

SlotsOf(slots, path) ==
  [i \in 1 .. Len(path) + 1 |->
     CHOOSE s \in DOMAIN slots : slots[s] = SubSeq(path, 1, i - 1)]

-----------------------------------------------------------------------------
\* The candidates of a batch.

\* The branches at one of _DDTREE_MAX_BRANCH_POSITIONS = 2 positions: the greedy draft up to it, another of the best
\* tokens there, and a new draft after it.  Among equal scores the best tokens
\* need not include the greedy one.
BranchSets(ids, i) ==
  LET runnersUp == {Range(top) \ {ids[i + 1]} : top \in TopTokens}
      Rows(rest) == {[ids |-> SubSeq(ids, 1, i) \o <<t>> \o rest[t], source |-> "branch"] :
                       t \in DOMAIN rest}
  IN IF i >= Len(ids) THEN {{}}
     ELSE UNION {{Rows(rest) : rest \in [others -> Drafted(Len(ids) - i - 1)]} :
                   others \in runnersUp}

Truncated(rows, len) ==
  {[r EXCEPT !.ids = SubSeq(r.ids, 1, Min({len, Len(r.ids)}))] : r \in rows}

-----------------------------------------------------------------------------
Launch(rows, slots, source) ==
  /\ pc = "cycle" /\ Len(generated) < run.max
  /\ block' = [NoBlock EXCEPT !.len = TreeBlockLength, !.staged = staged,
                              !.source = source]
  /\ candidates' = rows /\ tree' = slots
  /\ pc' = "verify"
  /\ UNCHANGED <<fixed, emitted, verified, steering, prefetched, staged, published>>

Copies == CopyDrafts(staged, TreeBlockLength, index, Copy!NoGate)

\* The last token of the limit is verified alone.
BeginSingle ==
  /\ TreeBlockLength = 1
  /\ Launch({[ids |-> <<staged>>, source |-> "greedy"]}, << >>, "none")
  /\ UNCHANGED context

BeginCopied ==
  /\ TreeBlockLength > 1
  /\ \E copy \in Copies :
       Launch(Truncated({[ids |-> <<staged>> \o copy, source |-> "copyspec"]},
                        VerifyCount(TreeBlockLength)), << >>, "copyspec")
  /\ AbsorbContext

\* The features of a prompt restored from a whole snapshot are in spans, which
\* the batched drafting of branches cannot repeat.
SpansOnly == session.restored = Len(Prompt) /\ start = Len(Prompt)

BeginBatch ==
  LET len == TreeBlockLength IN
  /\ len > 1 /\ Copies = {} /\ ~run.trees /\ ~SpansOnly
  /\ \E d \in Drafted(len - 1) :
       LET ids == <<staged>> \o d
       IN \E first \in BranchSets(ids, 1), second \in BranchSets(ids, 2) :
            Launch(Truncated({[ids |-> ids, source |-> "greedy"]} \cup first \cup second,
                             VerifyCount(len)), << >>, "dflash")
  /\ AbsorbContext

\* A tree is drafted only as deep as it is verified.
BeginTree ==
  LET budget == VerifyCount(TreeBlockLength) - 1 IN
  /\ TreeBlockLength > 1 /\ Copies = {} /\ run.trees /\ budget > 0
  /\ \E rows \in [1 .. budget -> TopTokens] : \E slots \in FlatTrees(rows, budget) :
       Launch({}, slots, "dflash")
  /\ AbsorbContext

\* draft_block_with_topk has no logits for a draft of the staged token alone,
\* and draft_branch_blocks_batch no way to repeat spans.
DraftRaises ==
  /\ pc = "cycle" /\ Len(generated) < run.max
  /\ TreeBlockLength > 1 /\ Copies = {}
  /\ IF run.trees THEN VerifyCount(TreeBlockLength) = 1 ELSE SpansOnly
  /\ IF run.trees THEN AbsorbContext ELSE UNCHANGED context
  /\ pc' = "raising"
  /\ UNCHANGED <<fixed, block, emitted, verified, steering, prefetched, staged, published,
                 proposed>>

-----------------------------------------------------------------------------
\* One row of the batch: its copy of the caches after the pass, what the target
\* answers, how much of the row it agrees with.
Result(c, wrong) ==
  LET posterior == Posterior(Arm(cache), c.ids, wrong)
  IN [source |-> c.source, ids |-> c.ids, posterior |-> posterior,
      accepted |-> AcceptanceLength(Tail(c.ids), posterior),
      cache |-> Forward(Arm(cache), c.ids)]

Best_SharedCache(results) ==
  LET longest == {r \in results : \A q \in results : q.accepted <= r.accepted}
  IN {[r EXCEPT !.cache = q.cache] : r \in longest, q \in results}

Best(results) ==
  LET longest == {r \in results : \A q \in results : q.accepted <= r.accepted}
      plain == {r \in longest : r.source = "greedy"}
  IN IF plain # {} THEN plain ELSE longest

Commit(committed, accepted, next, features) ==
  /\ start' = start + Len(committed)
  /\ hidden' = features
  /\ chunks' = IF session.collect THEN chunks \o hidden' ELSE chunks
  /\ row' = cache.kv \o committed
  /\ index' = index \o committed
  /\ block' = [block EXCEPT !.todo = committed, !.committed = committed,
                            !.accepted = accepted, !.next = next]
  /\ candidates' = {} /\ tree' = << >>
  /\ pc' = "emit"
  /\ UNCHANGED <<fixed, emitted, policy, gate, drafts, staged, published>>

VerifyBatch ==
  /\ pc = "verify" /\ candidates # {}
  /\ \E wrong \in Token \ Suppressed :
     \E best \in Best({Result(c, wrong) : c \in candidates}) :
       LET committed == SubSeq(best.ids, 1, 1 + best.accepted)
       IN /\ Commit(committed, best.accepted, best.posterior[best.accepted + 1],
                    Positions(start, start + Len(committed)))
          /\ cache' = Restore(best.cache, start', best.accepted, Len(best.ids) - 1)
          /\ copyOff' = (copyOff \/ /\ run.copy \in {"conservative", "auto"}
                                    /\ best.source = "copyspec" /\ best.accepted = 0)

KeepSlots_All(c, tokens, slots) == [c EXCEPT !.kv = @ \o tokens, !.rec = @ \o tokens]

\* restore_after_tree_acceptance: both kinds of cache keep the accepted slots.
KeepSlots(c, tokens, slots) ==
  LET kept == [i \in DOMAIN slots |-> tokens[slots[i]]]
  IN [c EXCEPT !.kv = @ \o kept, !.rec = @ \o kept]

VerifyTree ==
  /\ pc = "verify" /\ tree # << >>
  /\ \E wrong \in Token \ Suppressed :
       LET answer == [p \in Range(tree) |-> Last(Posterior(cache, <<staged>> \o p, wrong))]
           path == AcceptedPath(tree, answer)
           slots == SlotsOf(tree, path)
           tokens == [s \in DOMAIN tree |-> IF tree[s] = << >> THEN staged ELSE Last(tree[s])]
       IN /\ Commit(<<staged>> \o path, Len(path), answer[path],
                    [i \in DOMAIN slots |-> start + Len(tree[slots[i]]) + 1])
          /\ cache' = KeepSlots(cache, tokens, slots)
  /\ UNCHANGED copyOff

TreeCycle ==
  BeginSingle \/ BeginCopied \/ BeginBatch \/ BeginTree \/ DraftRaises
    \/ VerifyBatch \/ VerifyTree

-----------------------------------------------------------------------------
\* _run_decode_events: verify_mode chooses the loop.
StartDecode ==
  /\ IF run.mode = "ddtree"
     THEN policy = Adaptive!NoPolicy /\ gate = Copy!NoGate
     ELSE StartSteering
  /\ candidates = {} /\ tree = << >>

Decode ==
  \/ run.mode = "ddtree" /\ TreeCycle
  \/ run.mode = "dflash" /\ LinearCycle /\ UNCHANGED proposed
  \/ Stream /\ UNCHANGED proposed

-----------------------------------------------------------------------------
\* docs/runtime-flags.md lists verify_len_cap >= 0 among the valid settings and
\* calls it the most tokens of a verify pass: with any such value a request is
\* decoded.  A cap of one makes every drafted tree raise.
NeverRaises == pc # "raised"

==============================================================================
