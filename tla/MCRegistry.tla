------------------------------ MODULE MCRegistry ------------------------------
(* Instance of Registry for TLC: two threads, two models, and hosts started   *)
(* with one L2 directory and different limits, with a window, without L1, and *)
(* with variables that are refused.                                           *)
EXTENDS Registry, TLC

CONSTANTS t1, t2, m1, m2, m3

MCThread == {t1, t2}
MCManager == {m1, m2, m3}
MCModel == {"a", "b"}
MCDir == {"shared"}

Host(args, env, diagnostics, wired, cache) ==
  [args |-> args, env |-> env, diagnostics |-> diagnostics, dir |-> "none",
   wired |-> wired, cache |-> cache, recommended |-> {96}, blocks |-> {1, 4, 16, 32},
   draft |-> [block_size |-> 16, max_block |-> 8, sliding_window |-> 0,
              layers |-> {"full_attention"}, full_context_allowed |-> TRUE]]

Shared == [prefix_cache_l2_dir |-> Word("shared"), prefix_cache_max_bytes |-> Number(2, "g")]

MCStart == [
  plain |-> Host([prefix_cache_max_entries |-> 2, prefill_step_size |-> 4096],
                 Shared @@ [prefix_cache_l2_frontier_stride |-> Number(9000, "")],
                 "full", Word("auto"), Word("auto")),
  more |-> Host([prefix_cache_max_entries |-> 7, verify_len_cap |-> 3], Shared,
                "off", Word("none"), Word("auto")),
  window |-> Host([target_fa_window |-> 512], Shared @@ [quantize_kv_cache |-> Word("off")],
                  "basic", Number(64, ""), Word("none")),
  uncached |-> Host([prefix_cache |-> FALSE], Shared, "off", Word("none"), Word("none")),
  quantized |-> Host([target_fa_window |-> 512, quantize_kv_cache |-> TRUE], Shared,
                     "off", Word("auto"), Word("auto")),
  unclear |-> Host(<< >>, [prefix_cache |-> Word("maybe"), verify_mode |-> Blank],
                   "off", Word("auto"), Word("auto"))]

MCSymmetry == Permutations(MCThread) \cup Permutations(MCManager)
==============================================================================
