---------------------------- MODULE MCTargetCaches ----------------------------
(* Instance of TargetCaches for TLC: the targets of the source, each decoding *)
(* linearly and with trees or branches, and two requests, of which the second *)
(* may start from what the first has left.                                    *)
EXTENDS TargetCaches

MCTargets ==
  {[model |-> m.model, window |-> m.window, ddtree |-> ddtree] :
     m \in {[model |-> "qwen_gdn", window |-> FALSE], [model |-> "qwen_gdn", window |-> TRUE],
            [model |-> "gemma4", window |-> FALSE]},
     ddtree \in BOOLEAN}
==============================================================================
