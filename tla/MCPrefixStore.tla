----------------------------- MODULE MCPrefixStore -----------------------------
(* The prompt <<1, 2>>, its answer with a sidecar at 1, and two prompts that   *)
(* go on from it: <<1, 2, 3>> parts from the answer, has <<1, 2>> as a         *)
(* frontier and is too long for L1; <<1, 2, 1, 1>> extends the answer.         *)
EXTENDS PrefixStore

CONSTANT none

Snap(kind, tokens, size, boundary) ==
  [key |-> "k", kind |-> kind, tokens |-> tokens, size |-> size,
   logits |-> kind = "prefill", full |-> TRUE, boundary |-> boundary,
   context |-> IF boundary > 0 THEN "all" ELSE "none"]

Prompt1 == Snap("prefill", <<1, 2>>, 1, 0)
Answer1 == Snap("generation", <<1, 2, 1>>, 1, 1)
Prompt2 == Snap("prefill", <<1, 2, 3>>, 2, 0)

Req(tokens) == [key |-> "k", tokens |-> tokens, full |-> FALSE]

TalkRequest == {Req(<<1, 2>>), Req(<<1, 2, 3>>), Req(<<1, 2, 1, 1>>)}
Start2 == {Prompt1, Answer1, Prompt2}
Empty == { << >> }

==============================================================================
