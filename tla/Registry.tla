------------------------------- MODULE Registry -------------------------------
(***************************************************************************)
(* The cache managers of one process and the threads that use them         *)
(* (cache/manager.py, server/prefix_cache_flow.py,                         *)
(* cache/snapshot_service.py, the cache part of server/metrics.py).        *)
(*                                                                         *)
(* The registry keeps one manager for each loaded model.  Its lock is held *)
(* for the whole of a resolution, a manager's lock for the whole of a call *)
(* on it, so each of these is one step; only the teardown of all managers  *)
(* is several, because requests may call the others meanwhile.             *)
(*                                                                         *)
(*   registry   the manager registered for each model, if any              *)
(*   current    the model resolved last                                    *)
(*   manager    of each manager: its key, its L2 directory and whether it  *)
(*              may write there, the requests begun and not ended, and how *)
(*              far its shutdown got                                       *)
(*   owner      who holds the lock of each L2 directory                    *)
(*   thread     what each thread of the host does: its request, and the    *)
(*              manager of its PrefixCacheFlow and of its SnapshotService  *)
(*   sweep      the models a teardown has yet to visit                     *)
(***************************************************************************)
EXTENDS RuntimeConfig

CONSTANTS Thread, Model, Manager, Dir,
          Start        \* what hosts start with, by name: a command line, an
                       \* environment, the diagnostics and the limits asked for

VARIABLES registry, current, manager, owner, thread, sweep

vars == <<registry, current, manager, owner, thread, sweep>>

None == "none"
ASSUME NoneAssumption == None \notin Manager \cup Model \cup Dir

Line == DOMAIN Start

\* The context a host has got from a line: none if it was refused.
ContextOf(line) ==
  Normalized(Start[line].args, Start[line].env, Start[line].diagnostics, Start[line].dir)
Started == {line \in Line : ContextOf(line) # {}}
Runtimes == [line \in Started |-> (CHOOSE context \in ContextOf(line) : TRUE).runtime]
Runtime(line) == Runtimes[line]

ASSUME DirAssumption ==
  \A line \in Started : Runtime(line).prefix_cache_l2 => Runtime(line).prefix_cache_l2_dir \in Dir
ASSUME ThreadAssumption == IsFiniteSet(Thread)

\* argparse gives a field a value of its kind, and what reads the text of a
\* variable as a number reads a whole one.  A draft has a block.  A memory limit
\* is what parse_memory_limit makes of it; a device recommends one, or none.
ASSUME HostAssumption ==
  \A line \in Line :
    LET host == Start[line] IN
    /\ DOMAIN host.args \subseteq Field
    /\ \A f \in DOMAIN host.args :
         /\ Kind[f] \in {"int", "bytes"} => host.args[f] \in Int
         /\ Kind[f] = "bool" => host.args[f] \in BOOLEAN
    /\ \A f \in DOMAIN host.env : host.env[f].is = "number" => host.env[f].value \in Int
    /\ host.blocks \subseteq Int
    /\ host.draft.block_size \in Nat \ {0} /\ host.draft.max_block \in Nat
    /\ host.draft.sliding_window \in Int
    /\ \A limit \in {host.wired, host.cache} :
         limit \in {Word("auto"), Word("none")} \/ limit.value \in Nat \ {0}
    /\ host.recommended \subseteq Nat /\ \A a, b \in host.recommended : a = b

\* build_prefix_key: what a model is loaded from decides the rest of it.
PrefixKey(model, line) ==
  <<model, Runtime(line).draft_sink_size, Runtime(line).draft_window_size,
    Runtime(line).target_fa_window>>

\* _prefix_cache_config_key of a request: the identity it gives is the prefix
\* key, or the two names alone while no draft model is loaded.
KeyOf(model, line, bare) ==
  [identity |-> IF bare THEN <<model>> ELSE PrefixKey(model, line),
   config |-> ConfigKey(Runtime(line))]

Unmade == [status |-> "unmade", model |-> None, key |-> None, dir |-> None,
           writable |-> FALSE, active |-> 0]
Idle == [pc |-> "idle", manager |-> None, service |-> None]

\* status: "open", "retired" (a shutdown began and raised), "closed"
Open(m) == manager[m].status = "open"
Live(m) == manager[m].status \in {"open", "retired"}

Free == sweep = {}
Goto(t, pc) == thread' = [thread EXCEPT ![t].pc = pc]

-----------------------------------------------------------------------------
\* RuntimeCacheManager.shutdown: retired first, complete only if the store
\* could be shut down; only then is the directory released.
ShutDown(m) ==
  /\ manager' = [manager EXCEPT ![m].status = "closed"]
  /\ owner' = [d \in Dir |-> IF owner[d] = m THEN None ELSE owner[d]]

ShutdownRaises(m) ==
  /\ manager' = [manager EXCEPT ![m].status = "retired"]
  /\ UNCHANGED owner

\* _clear_runtime_cache_identity, also of a model without a manager.
ClearIdentity(model) ==
  LET m == registry[model] IN
  IF m = None THEN UNCHANGED <<registry, current, manager, owner>>
  ELSE \/ /\ ShutDown(m)
          /\ registry' = [registry EXCEPT ![model] = None]
          /\ current' = IF current = model THEN None ELSE current
       \/ ShutdownRaises(m) /\ UNCHANGED <<registry, current>>

\* _make_prefix_store: the directory may be unusable, or held by another.
NewManager(model, key, dir, owners) ==
  [status |-> "open", model |-> model, key |-> key, dir |-> dir,
   writable |-> dir # None /\ owners[dir] = None, active |-> 0]

Make(model, key, line, m, owners, managers) ==
  \E dir \in {None} \cup (IF Runtime(line).prefix_cache_l2
                          THEN {Runtime(line).prefix_cache_l2_dir} ELSE {}) :
    LET new == NewManager(model, key, dir, owners) IN
    /\ manager' = [managers EXCEPT ![m] = new]
    /\ owner' = IF new.writable THEN [owners EXCEPT ![dir] = m] ELSE owners
    /\ registry' = [registry EXCEPT ![model] = m]
    /\ current' = model

Fits(m, key) == m # None /\ manager[m].key = key /\ Open(m)

-----------------------------------------------------------------------------
\* get_runtime_cache_manager for a request, as PrefixCacheFlow.for_request
\* calls it.

Request(m) == [pc |-> IF m = None THEN "run" ELSE "lookup", manager |-> m, service |-> None]

Begins(t) == thread[t].pc = "idle" /\ Free

\* No cache for this configuration: the one the model had goes; the request
\* fails if it does not.
ResolveNone(t, model, line) ==
  /\ Begins(t) /\ Disabled(Runtime(line))
  /\ ClearIdentity(model)
  /\ thread' = IF registry'[model] = None
               THEN [thread EXCEPT ![t] = Request(None)] ELSE thread
  /\ UNCHANGED sweep

ResolveSame(t, model, line) ==
  /\ Begins(t) /\ ~Disabled(Runtime(line))
  /\ Fits(registry[model], KeyOf(model, line, FALSE))
  /\ current' = model
  /\ thread' = [thread EXCEPT ![t] = Request(registry[model])]
  /\ UNCHANGED <<registry, manager, owner, sweep>>

ResolveNew(t, model, line) ==
  /\ Begins(t) /\ ~Disabled(Runtime(line))
  /\ registry[model] = None
  /\ \E m \in Manager :
       /\ manager[m].status = "unmade"
       /\ Make(model, KeyOf(model, line, FALSE), line, m, owner, manager)
       /\ thread' = [thread EXCEPT ![t] = Request(m)]
  /\ UNCHANGED sweep

Misfit(model, line) ==
  registry[model] # None /\ ~Fits(registry[model], KeyOf(model, line, FALSE))

\* Mutant: the new store is made before the old one is shut down.
ResolveOther_MakesFirst(t, model, line) ==
  /\ Begins(t) /\ ~Disabled(Runtime(line)) /\ Misfit(model, line)
  /\ \E m \in Manager :
       LET old == registry[model] IN
       /\ manager[m].status = "unmade"
       /\ Make(model, KeyOf(model, line, FALSE), line, m, owner,
               [manager EXCEPT ![old].status = "closed"])
       /\ thread' = [thread EXCEPT ![t] = Request(m)]
  /\ UNCHANGED sweep

\* The old manager is shut down before the new one takes its place.
ResolveOther(t, model, line) ==
  /\ Begins(t) /\ ~Disabled(Runtime(line)) /\ Misfit(model, line)
  /\ \E m \in Manager :
       LET old == registry[model] IN
       /\ manager[m].status = "unmade"
       /\ Make(model, KeyOf(model, line, FALSE), line, m,
               [d \in Dir |-> IF owner[d] = old THEN None ELSE owner[d]],
               [manager EXCEPT ![old].status = "closed"])
       /\ thread' = [thread EXCEPT ![t] = Request(m)]
  /\ UNCHANGED sweep

\* Mutant: the entry goes although the shutdown raised.
ResolveRaises_Forgets(t, model, line) ==
  /\ Begins(t) /\ ~Disabled(Runtime(line)) /\ Misfit(model, line)
  /\ ShutdownRaises(registry[model])
  /\ registry' = [registry EXCEPT ![model] = None]
  /\ UNCHANGED <<current, thread, sweep>>

\* Its shutdown raises: so does the request, and the entry stays.
ResolveRaises(t, model, line) ==
  /\ Begins(t) /\ ~Disabled(Runtime(line)) /\ Misfit(model, line)
  /\ ShutdownRaises(registry[model])
  /\ UNCHANGED <<registry, current, thread, sweep>>

Resolve_(t, model, line) ==
  \/ ResolveNone(t, model, line) \/ ResolveSame(t, model, line)
  \/ ResolveNew(t, model, line) \/ ResolveOther(t, model, line)
  \/ ResolveRaises(t, model, line)

-----------------------------------------------------------------------------
\* The calls of a request on its manager; each raises once it is retired.

\* manager.lookup: a request whose manager is gone goes on without a cache.
Lookup(t) ==
  /\ thread[t].pc = "lookup"
  /\ thread' = IF Open(thread[t].manager)
               THEN [thread EXCEPT ![t].pc = "log"]
               ELSE [thread EXCEPT ![t].pc = "run", ![t].manager = None]
  /\ UNCHANGED <<registry, current, manager, owner, sweep>>

\* log_stats: the snapshot found is kept, the manager is not.
LogStats(t) ==
  /\ thread[t].pc = "log"
  /\ LET m == IF Open(thread[t].manager) THEN thread[t].manager ELSE None IN
     thread' = [thread EXCEPT ![t].pc = "run", ![t].manager = m, ![t].service = m]
  /\ UNCHANGED <<registry, current, manager, owner, sweep>>

BeginRequest(t) ==
  /\ thread[t].pc = "run"
  /\ LET m == thread[t].manager IN
     manager' = IF m # None /\ Open(m) THEN [manager EXCEPT ![m].active = @ + 1] ELSE manager
  /\ Goto(t, "decode")
  /\ UNCHANGED <<registry, current, owner, sweep>>

\* A call of the snapshot service, to publish or to ask for the stride.
Publish(t) ==
  /\ thread[t].pc = "decode" /\ thread[t].service # None /\ ~Open(thread[t].service)
  /\ thread' = [thread EXCEPT ![t].service = None]
  /\ UNCHANGED <<registry, current, manager, owner, sweep>>

\* current_runtime_cache_manager, which /metrics takes its statistics from.
CurrentManager ==
  LET m == IF current = None THEN None ELSE registry[current] IN
  IF m # None /\ Open(m) THEN m ELSE None

\* Mutant: the end goes to the manager resolved last.
EndRequest_Current(t) ==
  /\ thread[t].pc = "decode"
  /\ LET m == IF thread[t].manager = None THEN None ELSE CurrentManager IN
     manager' = IF m # None /\ Open(m) THEN [manager EXCEPT ![m].active = @ - 1] ELSE manager
  /\ thread' = [thread EXCEPT ![t] = Idle]
  /\ UNCHANGED <<registry, current, owner, sweep>>

\* The finally clause, on the manager the flow has carried.
EndRequest(t) ==
  /\ thread[t].pc = "decode"
  /\ LET m == thread[t].manager IN
     manager' = IF m # None /\ Open(m) THEN [manager EXCEPT ![m].active = @ - 1] ELSE manager
  /\ thread' = [thread EXCEPT ![t] = Idle]
  /\ UNCHANGED <<registry, current, owner, sweep>>

-----------------------------------------------------------------------------
\* The metrics, and the host.

\* sync_runtime_cache_manager, which never makes one.
Sync(t, model, line, bare) ==
  /\ Begins(t)
  /\ IF Disabled(Runtime(line)) \/ ~Fits(registry[model], KeyOf(model, line, bare))
     THEN ClearIdentity(model)
     ELSE current' = model /\ UNCHANGED <<registry, manager, owner>>
  /\ UNCHANGED <<thread, sweep>>

\* shutdown_runtime_cache_manager(cache_identity=...)
Unload(t, model) ==
  /\ thread[t].pc = "idle" /\ Free
  /\ ClearIdentity(model)
  /\ UNCHANGED <<thread, sweep>>

\* shutdown_runtime_cache_manager(): one manager after the other, and an entry
\* whose shutdown raised stays.
StartSweep(t) ==
  /\ thread[t].pc = "idle" /\ Free
  /\ sweep' = {model \in Model : registry[model] # None}
  /\ sweep' # {}
  /\ Goto(t, "sweep")
  /\ UNCHANGED <<registry, current, manager, owner>>

SweepOne(t) ==
  /\ thread[t].pc = "sweep"
  /\ \E model \in sweep :
       /\ \/ ShutDown(registry[model]) /\ registry' = [registry EXCEPT ![model] = None]
          \/ ShutdownRaises(registry[model]) /\ UNCHANGED registry
       /\ sweep' = sweep \ {model}
       /\ IF sweep' = {} THEN current' = None /\ Goto(t, "idle")
          ELSE UNCHANGED <<current, thread>>

-----------------------------------------------------------------------------
Init ==
  /\ registry = [model \in Model |-> None] /\ current = None
  /\ manager = [m \in Manager |-> Unmade] /\ owner = [d \in Dir |-> None]
  /\ thread = [t \in Thread |-> Idle] /\ sweep = {}

Next ==
  \E t \in Thread :
    \/ \E model \in Model, line \in Started :
         Resolve_(t, model, line) \/ \E bare \in BOOLEAN : Sync(t, model, line, bare)
    \/ Lookup(t) \/ LogStats(t) \/ BeginRequest(t) \/ Publish(t) \/ EndRequest(t)
    \/ \E model \in Model : Unload(t, model)
    \/ StartSweep(t) \/ SweepOne(t)

Spec == Init /\ [][Next]_vars

-----------------------------------------------------------------------------
\* Whatever still has a store to shut down is registered for its model, and the
\* lock of a directory is held by such a manager alone: no shutdown that raises,
\* no reconfiguration and no teardown leaves a directory locked with nobody to
\* release it, and a model never has two caches open.  What /metrics looks at is
\* registered, except during a teardown.
NothingForgotten ==
  /\ \A m \in Manager : Live(m) => registry[manager[m].model] = m
  /\ \A d \in Dir : owner[d] # None =>
       Live(owner[d]) /\ manager[owner[d]].writable /\ manager[owner[d]].dir = d
  /\ Free /\ current # None => registry[current] # None

\* A manager that replaces another of its model can write to its directory, and
\* only a directory another model holds leaves it read-only.
SuccessorOwnsDirectory ==
  [][\A m \in Manager :
       ~Live(m) /\ Open(m)' /\ manager'[m].dir # None =>
         \/ owner'[manager'[m].dir] = m
         \/ LET holder == owner[manager'[m].dir] IN
            holder # None /\ manager[holder].model # manager'[m].model]_vars

\* The requests an open manager counts are those between their begin and their
\* end, however often the model was reconfigured under them: neither does a
\* writer wait for a request that has ended, nor does it run beside one.
BracketsMatch ==
  \A m \in Manager : Open(m) =>
    manager[m].active = Cardinality({t \in Thread : thread[t].pc = "decode" /\ thread[t].manager = m})

\* What a line has to give: see ConfigIsSound.
Sound == [line \in Started |->
  LET host == Start[line]
      cfg == Runtime(line)
      stride == FrontierStride(cfg)
      limits == MetalLimits(host.wired, host.cache, host.recommended)
  IN /\ Validate(cfg) = {cfg}
     /\ cfg.prefix_cache_l2 => cfg.prefix_cache
     /\ cfg.target_fa_window > 0 => ~cfg.prefix_cache /\ ~cfg.quantize_kv_cache
     /\ cfg.prefix_cache_l2 =>
          stride % cfg.prefill_step_size = 0 /\ stride >= cfg.prefix_cache_l2_frontier_stride
     /\ \A f \in DOMAIN host.args : cfg[f] # host.args[f] =>
          \/ f = "prefix_cache" /\ cfg.target_fa_window > 0
          \/ f = "prefix_cache_l2" /\ ~cfg.prefix_cache
     /\ \A wanted \in host.blocks :
          LET cycle == CycleConfig(cfg, host.draft, wanted) IN
          cycle.cap \in 1 .. cycle.block /\ cycle.block <= host.draft.block_size
     /\ DraftWindow(cfg, host.draft, 2 * cfg.draft_window_size) >= cfg.draft_window_size
     /\ host.cache = Word("auto") =>
          \A c \in limits.cache : \A w \in limits.wired : c <= w]

\* Any configuration a process can start with keeps what the rest of the code
\* takes for granted: no L2 without L1, no cache with a window and no window on
\* quantized keys, frontiers on prefill steps and not closer than asked, and a
\* second validation, as a context does it, changes nothing.  The command line is
\* overridden only where it asks for a cache with a window or an L2 without L1.
\* The draft keeps at least one token of a block and its window, and the
\* allocator's cache stays within its limit.  And every manager with something to
\* shut down was made for a configuration that has a cache, and has a directory
\* only if that configuration has an L2.
ConfigIsSound ==
  /\ \A line \in Started : Sound[line]
  /\ \A m \in Manager : Live(m) =>
       \E line \in Started :
         /\ manager[m].key.config = ConfigKey(Runtime(line)) /\ ~Disabled(Runtime(line))
         /\ manager[m].dir # None => Runtime(line).prefix_cache_l2

==============================================================================
