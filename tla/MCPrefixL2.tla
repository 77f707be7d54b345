------------------------------ MODULE MCPrefixL2 ------------------------------
(* Four snapshots of one key: a prompt, a longer prompt with every feature    *)
(* and its trimmed twin, a generation; one of them may be rotten.             *)
EXTENDS PrefixL2

CONSTANT none

Snap(kind, tokens, size, full) ==
  [key |-> "k", kind |-> kind, tokens |-> tokens, size |-> size,
   logits |-> kind = "prefill", full |-> full, boundary |-> 0,
   context |-> "none"]

Short == Snap("prefill", <<1>>, 1, TRUE)
Long == Snap("prefill", <<1, 2>>, 2, TRUE)
Trimmed == Snap("prefill", <<1, 2>>, 1, FALSE)
Answer == Snap("generation", <<1, 2>>, 2, TRUE)

Three == {Short, Trimmed, Answer}
Sized == {Short, Long}
RottenOne == {Answer}

MCRequest == { [key |-> "k", tokens |-> <<1, 2>>, full |-> TRUE],
               [key |-> "k", tokens |-> <<1, 2, 1>>, full |-> FALSE] }
OneRequest == { [key |-> "k", tokens |-> <<1, 2, 1>>, full |-> TRUE] }

\* An empty directory, and two left by earlier processes.
Empty == { << >> }
Full == { << >>, <<Long>>, <<Long, Short>> }

==============================================================================
