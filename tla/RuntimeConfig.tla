----------------------------- MODULE RuntimeConfig -----------------------------
(***************************************************************************)
(* The effective configuration of a process (runtime/config.py,            *)
(* runtime/context.py, engine/config.py, server/config.py), as operators.  *)
(*                                                                         *)
(* A command line is a function from the fields it gives to values argparse*)
(* has parsed; an environment is a function from the fields whose variable *)
(* is set to its text.  What may raise is a set: empty if it raises, and   *)
(* otherwise the one result.                                               *)
(***************************************************************************)
EXTENDS Integers, FiniteSets

CONSTANT KiB      \* 1024; small for TLC, whose integers have 32 bits

Largest(S) == CHOOSE n \in S : \A m \in S : n >= m
Smallest(S) == CHOOSE n \in S : \A m \in S : n <= m

-----------------------------------------------------------------------------
\* RUNTIME_CONFIG_SPEC: how the text of each field is read.
Kind == [
  prefill_step_size |-> "int", draft_sink_size |-> "int", draft_window_size |-> "int",
  draft_full_context_min_ctx |-> "int", verify_len_cap |-> "int", prefix_cache |-> "bool",
  prefix_cache_max_entries |-> "int", prefix_cache_max_bytes |-> "bytes",
  clear_cache_boundaries |-> "bool", max_snapshot_tokens |-> "int",
  prefix_cache_l2 |-> "bool", prefix_cache_l2_dir |-> "str",
  prefix_cache_l2_max_bytes |-> "bytes", target_fa_window |-> "int",
  dflash_max_ctx |-> "int", verify_mode |-> "str", copyspec_mode |-> "str",
  quantize_kv_cache |-> "bool", prefix_cache_l2_frontier_stride |-> "int"]

Field == DOMAIN Kind

\* The fields the generate and benchmark commands have.
OfflineField == {"prefill_step_size", "draft_sink_size", "draft_window_size",
  "draft_full_context_min_ctx", "verify_len_cap", "verify_mode", "copyspec_mode",
  "target_fa_window", "quantize_kv_cache"}

\* DEFAULT_RUNTIME_CONFIG
Defaults == [
  prefill_step_size |-> 2048, draft_sink_size |-> 64, draft_window_size |-> 1024,
  draft_full_context_min_ctx |-> 16384, verify_len_cap |-> 0, prefix_cache |-> TRUE,
  prefix_cache_max_entries |-> 8, prefix_cache_max_bytes |-> 8 * KiB ^ 3,
  clear_cache_boundaries |-> TRUE, max_snapshot_tokens |-> 32000,
  prefix_cache_l2 |-> TRUE, prefix_cache_l2_dir |-> "default",
  prefix_cache_l2_max_bytes |-> 50 * KiB ^ 3, target_fa_window |-> 0,
  dflash_max_ctx |-> 0, verify_mode |-> "adaptive", copyspec_mode |-> "conservative",
  quantize_kv_cache |-> FALSE, prefix_cache_l2_frontier_stride |-> 0]

-----------------------------------------------------------------------------
\* The text of a variable: blank, a number with a unit, or a word.
Blank == [is |-> "blank"]
Number(n, unit) == [is |-> "number", value |-> n, unit |-> unit]
Word(w) == [is |-> "word", value |-> w]

\* _parse_byte_count; parse_memory_limit reads a size in the same way
ByteCount(text) ==
  LET Power == [b |-> 0, k |-> 1, m |-> 2, g |-> 3, t |-> 4]
  IN IF text.is = "number" /\ text.unit \in DOMAIN Power \cup {""}
     THEN {text.value * KiB ^ (IF text.unit = "" THEN 0 ELSE Power[text.unit])}
     ELSE {}

\* int(raw)
ParsedInt(text) ==
  IF text.is = "number" /\ text.unit = "" THEN {text.value} ELSE {}

\* _resolve_bool
ParsedBool(text) ==
  LET Yes == {Number(1, ""), Word("true"), Word("yes"), Word("on")}
      No == {Number(0, ""), Word("false"), Word("no"), Word("off")}
  IN {b \in BOOLEAN : text \in IF b THEN Yes ELSE No}

Parsed(kind, text) ==
  CASE kind = "int" -> ParsedInt(text)
    [] kind = "bool" -> ParsedBool(text)
    [] kind = "bytes" -> ByteCount(text)
    [] kind = "str" -> {text.value}

\* A blank variable counts as unset.
FromEnvironment(env, field) == field \in DOMAIN env /\ env[field] # Blank

\* The command line wins over the environment, the environment over the default.
Resolved(args, env, field) ==
  IF field \in DOMAIN args THEN {args[field]}
  ELSE IF FromEnvironment(env, field) THEN Parsed(Kind[field], env[field])
  ELSE {Defaults[field]}

\* runtime_config_sources
SourceFor(args, env, field) ==
  IF field \in DOMAIN args THEN "cli"
  ELSE IF FromEnvironment(env, field) THEN "env"
  ELSE "default"

-----------------------------------------------------------------------------
\* What validate_runtime_config accepts.
Valid(cfg) ==
  /\ cfg.prefill_step_size > 0 /\ cfg.draft_window_size > 0
  /\ cfg.prefix_cache_max_entries > 0
  /\ \A f \in {"draft_sink_size", "draft_full_context_min_ctx", "verify_len_cap",
               "prefix_cache_max_bytes", "max_snapshot_tokens", "target_fa_window",
               "dflash_max_ctx", "prefix_cache_l2_frontier_stride"} : cfg[f] >= 0
  /\ ~(cfg.quantize_kv_cache /\ cfg.target_fa_window > 0)
  /\ cfg.prefix_cache_l2 => cfg.prefix_cache_l2_dir # "" /\ cfg.prefix_cache_l2_max_bytes >= 0
  /\ cfg.verify_mode \in {"dflash", "adaptive", "ddtree", "off"}
  /\ cfg.copyspec_mode \in {"conservative", "off", "auto"}

\* Mutant: an L2 may be left without an L1.
Normal_KeepsL2(cfg) ==
  IF cfg.target_fa_window > 0 /\ (cfg.prefix_cache \/ cfg.prefix_cache_l2)
  THEN [cfg EXCEPT !.prefix_cache = FALSE, !.prefix_cache_l2 = FALSE]
  ELSE cfg

\* Its last three returns: a window turns both caches off, no L2 without L1.
Normal(cfg) ==
  IF ~cfg.prefix_cache /\ cfg.prefix_cache_l2 THEN [cfg EXCEPT !.prefix_cache_l2 = FALSE]
  ELSE IF cfg.target_fa_window > 0 /\ cfg.prefix_cache
       THEN [cfg EXCEPT !.prefix_cache = FALSE, !.prefix_cache_l2 = FALSE]
  ELSE IF cfg.target_fa_window > 0 /\ cfg.prefix_cache_l2
       THEN [cfg EXCEPT !.prefix_cache_l2 = FALSE]
  ELSE cfg

Validate(cfg) == {Normal(c) : c \in {c \in {cfg} : Valid(c)}}

\* runtime_config_from_defaults, for the fields a caller gives.
FromDefaults(given) ==
  Validate([f \in Field |-> IF f \in DOMAIN given THEN given[f] ELSE Defaults[f]])

\* resolve_runtime_config
Resolve(args, env) ==
  IF \E f \in Field : Resolved(args, env, f) = {} THEN {}
  ELSE FromDefaults([f \in Field |-> CHOOSE v \in Resolved(args, env, f) : TRUE])

\* build_offline_runtime_config: no cache, whatever the caller asks for.
Offline(args) ==
  LET kept == OfflineField \cap DOMAIN args
      off == {"prefix_cache", "prefix_cache_l2"}
      given == [f \in kept \cup off |-> IF f \in off THEN FALSE ELSE args[f]]
  IN UNION {Validate(cfg) : cfg \in FromDefaults(given)}

\* build_runtime_context validates once more.
Context(cfg) == Validate(cfg)

\* normalize_cli_args, and what it makes of diagnostics.
Normalized(args, env, mode, dir) ==
  IF mode = "off" /\ dir # "none" THEN {}
  ELSE {[runtime |-> c,
         memory_waterfall |-> mode = "full",
         trace |-> mode # "off",
         cycle_events |-> mode = "full"] : c \in UNION {Context(cfg) : cfg \in Resolve(args, env)}}

-----------------------------------------------------------------------------
(* What the cache manager derives from a configuration (cache/manager.py). *)

MinFrontierStride == 8192

Disabled(cfg) == cfg.target_fa_window > 0 \/ ~cfg.prefix_cache

\* Whole prefill steps, and at least the configured distance.
FrontierStride(cfg) ==
  LET step == cfg.prefill_step_size
      asked == Largest({MinFrontierStride, cfg.prefix_cache_l2_frontier_stride})
  IN IF ~cfg.prefix_cache_l2 THEN 0
     ELSE Largest({1, (asked + step - 1) \div step}) * step

ConfigKey(cfg) ==
  <<cfg.prefix_cache_max_entries, cfg.prefix_cache_max_bytes, cfg.max_snapshot_tokens,
    FrontierStride(cfg), cfg.prefix_cache_l2, cfg.prefix_cache_l2_dir,
    cfg.prefix_cache_l2_max_bytes>>

-----------------------------------------------------------------------------
(* What the decode loop derives from it (engine/config.py). *)

\* resolve_verify_len_cap
VerifyLenCap(cfg, block) ==
  IF cfg.verify_len_cap <= 0 THEN block
  ELSE Largest({1, Smallest({block, cfg.verify_len_cap})})

\* resolve_speculative_cycle_config: `requested` is at most the draft's block.
CycleConfig(cfg, draft, requested) ==
  LET effective == Largest({1, Smallest({requested, draft.block_size, draft.max_block})})
  IN [block |-> effective, cap |-> VerifyLenCap(cfg, effective)]

\* _effective_draft_window_size: a draft that attends to everything sees all of it.
DraftWindow(cfg, draft, context) ==
  LET window == Largest({1, cfg.draft_window_size, draft.sliding_window})
      unwindowed == draft.sliding_window <= 0 /\ draft.layers = {"full_attention"}
  IN IF draft.full_context_allowed /\ unwindowed THEN Largest({window, context}) ELSE window

-----------------------------------------------------------------------------
(* The limits of the allocator (metal_limits.py, configure_metal_limits). *)

\* parse_memory_limit
MemoryLimit(text) ==
  IF text \in {Word("auto"), Word("none")} THEN {text}
  ELSE {Number(n, "") : n \in {n \in ByteCount(text) : n > 0}}

\* apply_metal_limits: the wired and the cache limit set, {} for none.
MetalLimits(wired, cache, recommended) ==
  LET Wanted(request, auto) ==
        CASE request = Word("auto") -> auto
          [] request = Word("none") -> {}
          [] OTHER -> {request.value}
      wiredBytes == Wanted(wired, recommended)
      basis == IF wiredBytes # {} THEN wiredBytes ELSE recommended
  IN [wired |-> wiredBytes, cache |-> Wanted(cache, {b \div 4 : b \in basis})]

==============================================================================
