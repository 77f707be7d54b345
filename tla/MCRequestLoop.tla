---------------------------- MODULE MCRequestLoop ----------------------------
(***************************************************************************)
(* RequestLoop for two clients.  A reply ends in a stop token with tokens  *)
(* of its block behind it, up to its limit or not, in its very first       *)
(* token, at its limit, in a stop word of two tokens, or before any token; *)
(* and one is served by the target alone.                                  *)
(***************************************************************************)
EXTENDS RequestLoop

Ask(mode, max, word, text) ==
  [mode |-> mode, limit |-> max, word |-> word, text |-> text]

Overrunning == Ask("dflash", 5, << >>, <<"a", "end", "b", "b", "b">>)
Reaching == Ask("dflash", 4, << >>, <<"a", "end", "b", "b">>)
FirstToken == Ask("dflash", 2, << >>, <<"end", "a">>)
Limited == Ask("dflash", 3, << >>, <<"a", "b", "a">>)
Worded == Ask("dflash", 4, <<"a", "b">>, <<"a", "b", "a", "a">>)
Empty == Ask("dflash", 0, << >>, <<"a">>)
Target == Ask("target", 2, << >>, <<"a", "end">>)

AskedDef ==
  {[c |-> first, d |-> second] :
     <<first, second>> \in {<<Overrunning, Target>>, <<Limited, Worded>>,
                            <<FirstToken, Reaching>>, <<Target, Empty>>,
                            <<Empty, Worded>>, <<Target, Target>>}}

==============================================================================
