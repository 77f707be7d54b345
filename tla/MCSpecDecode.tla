----------------------------- MODULE MCSpecDecode -----------------------------
(***************************************************************************)
(* SpecDecode over two texts, a stop token and a suppressed one.  Blocks   *)
(* of four tokens and requests of up to eight leave room for several        *)
(* cycles; the windows, bursts and latches of the policy and the gate are  *)
(* cut to one or two cycles, so that a request sees all of their phases.   *)
(***************************************************************************)
EXTENDS Session

TokenDef == {"a", "b", "end", "x"}
PromptDef == <<"a", "b", "x", "a">>

\* A text that repeats, one that does not, and stop tokens early and mid-block.
ContinuationsDef ==
  {<<"a", "a", "a", "a", "a", "a", "a", "a", "a", "a", "a", "a">>,
   <<"b", "a", "b", "a", "b", "b", "a", "b", "a", "a", "b", "b">>,
   <<"b", "end", "a", "b", "a", "b", "a", "b", "a", "a", "b", "b">>,
   <<"b", "a", "a", "a", "a", "a", "end", "a", "b", "a", "a", "a">>}

\* Nothing restored; a snapshot of all the prompt; one with a hole; one of a part
\* of the prompt; one without logits.
NoHit == [len |-> 0, features |-> {}, logits |-> FALSE]
WholeHit == [len |-> 4, features |-> 1 .. 4, logits |-> TRUE]
TrimmedHit == [len |-> 3, features |-> {1, 3}, logits |-> TRUE]
PartHit == [len |-> 2, features |-> 1 .. 2, logits |-> TRUE]
BareHit == [len |-> 4, features |-> {1, 4}, logits |-> FALSE]

Options(copy, profile, adaptive, cap, long, max) ==
  [mode |-> "dflash", copy |-> copy, profile |-> profile, adaptive |-> adaptive,
   cap |-> cap, long |-> long, max |-> max, trees |-> FALSE,
   hit |-> NoHit, stable |-> 0, full |-> FALSE, supports |-> TRUE, retires |-> FALSE,
   publish |-> IF long THEN "prompt" ELSE "answer"]

TreeOptions(copy, trees, hit, cap, max) ==
  [Options(copy, FALSE, FALSE, cap, FALSE, max) EXCEPT
     !.mode = "ddtree", !.trees = trees, !.hit = hit]

\* Short requests that differ in what is restored and published.
Short(hit, stable, full, publish) ==
  [Options("off", FALSE, FALSE, 4, FALSE, 2) EXCEPT
     !.hit = hit, !.stable = stable, !.full = full, !.publish = publish]

RunsDef ==
  {Options("off", FALSE, FALSE, 4, FALSE, 0),
   Options("off", FALSE, FALSE, 1, FALSE, 3),
   Options("conservative", FALSE, FALSE, 3, FALSE, 8),
   Options("conservative", TRUE, TRUE, 4, FALSE, 8),
   Options("auto", FALSE, TRUE, 4, FALSE, 8),
   Options("auto", FALSE, TRUE, 4, TRUE, 8),
   TreeOptions("off", TRUE, NoHit, 3, 6),
   TreeOptions("auto", TRUE, NoHit, 2, 6),
   TreeOptions("conservative", TRUE, NoHit, 1, 4),
   TreeOptions("auto", FALSE, NoHit, 3, 6),
   TreeOptions("off", FALSE, NoHit, 2, 4),
   TreeOptions("off", FALSE, WholeHit, 3, 3),
   Short(TrimmedHit, 3, FALSE, "answer"),
   Short(TrimmedHit, 0, TRUE, "answer"),
   Short(TrimmedHit, 0, FALSE, "answer"),
   Short(PartHit, 3, TRUE, "prompt"),
   Short(WholeHit, 0, FALSE, "prompt"),
   Short(BareHit, 0, FALSE, "answer"),
   [Short(WholeHit, 0, FALSE, "answer") EXCEPT !.max = 0],
   Short(BareHit, 0, FALSE, "none"),
   Short(NoHit, 3, FALSE, "none"),
   [Short(NoHit, 0, FALSE, "answer") EXCEPT !.supports = FALSE],
   [Short(PartHit, 3, FALSE, "prompt") EXCEPT !.retires = TRUE],
   [Short(NoHit, 3, FALSE, "answer") EXCEPT !.retires = TRUE],
   [Options("off", FALSE, FALSE, 4, FALSE, 8) EXCEPT !.mode = "target"],
   [Options("off", FALSE, FALSE, 4, FALSE, 0) EXCEPT !.mode = "target"]}

\* One request with a verify_len_cap of one.
CappedRunsDef == {TreeOptions("off", TRUE, NoHit, 1, 3)}

EarlyAcceptanceDef == <<3, 4>>
DropAcceptanceDef == <<1, 2>>
ResumeAcceptanceDef == <<1, 2>>
TpcThresholdDef == <<2, 1>>

==============================================================================
