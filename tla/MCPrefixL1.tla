------------------------------ MODULE MCPrefixL1 ------------------------------
(* Two keys, prompts over two tokens, both kinds, two sidecar carriers.      *)
EXTENDS PrefixL1

CONSTANT none

Snap(key, kind, tokens, size, full, boundary, context) ==
  [key |-> key, kind |-> kind, tokens |-> tokens, size |-> size, logits |-> kind = "prefill",
   full |-> full, boundary |-> boundary, context |-> context]

Req(key, tokens, full) == [key |-> key, tokens |-> tokens, full |-> full]

MCSnapshot ==
  { Snap("k", "prefill",    <<1>>,          1, TRUE,  0, "none"),
    Snap("k", "prefill",    <<1, 2>>,       1, TRUE,  0, "none"),
    Snap("k", "prefill",    <<1, 2, 1>>,    3, FALSE, 0, "none"),
    Snap("k", "generation", <<1, 2>>,       2, TRUE,  0, "none"),
    Snap("k", "generation", <<1, 2, 1, 1>>, 3, FALSE, 2, "window"),
    Snap("j", "generation", <<1, 2, 2>>,    2, FALSE, 2, "none"),
    Snap("k", "prefill",    <<2, 1, 1, 2>>, 1, TRUE,  0, "none"),
    Snap("j", "prefill",    <<1, 2>>,       1, TRUE,  0, "none") }

MCRequest ==
  { Req("k", <<1, 2>>, FALSE), Req("k", <<1, 2, 1>>, TRUE),
    Req("k", <<1, 2, 2>>, FALSE), Req("k", <<1, 2, 1, 1, 2>>, FALSE),
    Req("j", <<1, 2, 1>>, FALSE) }

==============================================================================
