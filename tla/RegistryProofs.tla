---------------------------- MODULE RegistryProofs ----------------------------
(***************************************************************************)
(* Proofs about the registry of cache managers, for any number of threads, *)
(* models, managers and directories, and any configurations.               *)
(***************************************************************************)
EXTENDS Registry, FiniteSetTheorems, TLAPS

\* A manager is a record of exactly these fields.
Records ==
  manager = [m \in Manager |->
               [status |-> manager[m].status, model |-> manager[m].model,
                key |-> manager[m].key, dir |-> manager[m].dir,
                writable |-> manager[m].writable, active |-> manager[m].active]]

Types ==
  /\ registry \in [Model -> Manager \cup {None}]
  /\ owner \in [Dir -> Manager \cup {None}]
  /\ sweep \subseteq Model
  /\ current \in Model \cup {None}

\* The registry and the managers that are not yet closed name each other.
Registered ==
  /\ \A model \in Model : registry[model] # None =>
       Live(registry[model]) /\ manager[registry[model]].model = model
  /\ \A m \in Manager : Live(m) => manager[m].model \in Model /\ registry[manager[m].model] = m

Locked ==
  \A d \in Dir : owner[d] # None =>
    Live(owner[d]) /\ manager[owner[d]].writable /\ manager[owner[d]].dir = d

Current ==
  /\ \A model \in sweep : registry[model] # None
  /\ Free /\ current # None => registry[current] # None

RInv == Records /\ Types /\ Registered /\ Locked /\ Current

LEMMA RInvInit == Init => RInv
  BY NoneAssumption
  DEF Init, RInv, Records, Types, Registered, Locked, Current, Unmade, Live, Free

-----------------------------------------------------------------------------
(* What the two ways a shutdown ends leave of a registered manager. *)

LEMMA ShutDownEffect ==
  ASSUME RInv, NEW model \in Model, NEW old \in Manager, registry[model] = old,
         ShutDown(old), registry' = [registry EXCEPT ![model] = None],
         sweep' \subseteq sweep, model \notin sweep', current' \in Model \cup {None},
         sweep' = {} /\ current' # None => current' # model /\ current' = current /\ Free
  PROVE  RInv'
<1>1. Live(old) /\ manager[old].model = model /\ old # None
  BY NoneAssumption DEF RInv, Types, Registered
<1>2. /\ \A m \in Manager : m # old => manager'[m] = manager[m]
      /\ manager'[old].status = "closed"
      /\ Records'
  BY DEF RInv, Records, ShutDown
<1>3. ~Live(old)' /\ \A m \in Manager : m # old => (Live(m)' <=> Live(m))
  BY <1>2 DEF Live
<1>4. Types'
  BY DEF RInv, Types, ShutDown
<1>5. /\ \A n \in Model : n # model => registry'[n] = registry[n]
      /\ registry'[model] = None
  BY DEF RInv, Types
<1>6. \A n \in Model : registry'[n] # None =>
        registry'[n] \in Manager /\ registry'[n] # old /\ registry'[n] = registry[n]
  BY <1>1, <1>4, <1>5 DEF RInv, Registered, Types
<1>7. Registered'
  BY <1>1, <1>2, <1>3, <1>5, <1>6, NoneAssumption DEF RInv, Registered, Live
<1>8. Locked'
  <2>1. \A d \in Dir : owner'[d] # None =>
          owner'[d] = owner[d] /\ owner[d] # old /\ owner[d] \in Manager
    BY DEF ShutDown, RInv, Types
  <2> QED
    BY <1>2, <2>1 DEF RInv, Locked, Live
<1>9. Current'
  BY <1>5, NoneAssumption DEF RInv, Types, Current, Free
<1> QED
  BY <1>2, <1>4, <1>7, <1>8, <1>9 DEF RInv

LEMMA RaisesEffect ==
  ASSUME RInv, NEW model \in Model, NEW old \in Manager, registry[model] = old,
         ShutdownRaises(old), registry' = registry,
         sweep' \subseteq sweep, current' \in {current, None},
         sweep' = {} => current' = None \/ Free
  PROVE  RInv'
<1>1. Live(old)
  BY NoneAssumption DEF RInv, Types, Registered
<1>2. /\ \A m \in Manager : m # old => manager'[m] = manager[m]
      /\ manager'[old] = [manager[old] EXCEPT !.status = "retired"]
      /\ Records'
  BY DEF RInv, Records, ShutdownRaises
<1>3. /\ manager'[old].status = "retired" /\ manager'[old].model = manager[old].model
      /\ manager'[old].dir = manager[old].dir /\ manager'[old].writable = manager[old].writable
  BY DEF RInv, Records, ShutdownRaises
<1>4. \A m \in Manager :
        /\ manager'[m].model = manager[m].model /\ manager'[m].dir = manager[m].dir
        /\ manager'[m].writable = manager[m].writable
        /\ manager'[m].status \in {"open", "retired"} <=> manager[m].status \in {"open", "retired"}
  BY <1>1, <1>2, <1>3 DEF Live
<1>5. Types'
  BY DEF RInv, Types, ShutdownRaises
<1>6. Registered'
  BY <1>4, <1>5 DEF RInv, Types, Registered, Live
<1>7. Locked'
  BY <1>4, <1>5 DEF RInv, Types, Locked, Live, ShutdownRaises
<1>8. Current'
  BY DEF RInv, Current, Free
<1> QED
  BY <1>2, <1>5, <1>6, <1>7, <1>8 DEF RInv

LEMMA ClearEffect ==
  ASSUME RInv, NEW model \in Model, Free, ClearIdentity(model), sweep' = sweep
  PROVE  RInv'
<1>1. CASE registry[model] = None
  BY <1>1 DEF ClearIdentity, RInv, Records, Types, Registered, Locked, Current, Live, Free
<1>2. CASE registry[model] # None
  <2> DEFINE old == registry[model]
  <2>1. PICK m \in Manager : registry[model] = m
    BY <1>2 DEF RInv, Types
  <2>2. CASE ShutDown(m) /\ registry' = [registry EXCEPT ![model] = None]
             /\ current' = IF current = model THEN None ELSE current
    BY <2>1, <2>2, ShutDownEffect DEF RInv, Types, Free
  <2>3. CASE ShutdownRaises(m) /\ UNCHANGED <<registry, current>>
    BY <2>1, <2>3, RaisesEffect DEF Free
  <2> QED
    BY <1>2, <2>1, <2>2, <2>3 DEF ClearIdentity
<1> QED
  BY <1>1, <1>2

-----------------------------------------------------------------------------
(* A manager that takes the place of none, or of one just shut down. *)

\* What is left of the managers and the locks when the place is free.
Vacated(model, owners, managers) ==
  /\ owners \in [Dir -> Manager \cup {None}]
  /\ \A d \in Dir : owners[d] # None => owners[d] = owner[d] /\ owner[d] # registry[model]
  /\ managers = [m \in Manager |->
                   [status |-> managers[m].status, model |-> managers[m].model,
                    key |-> managers[m].key, dir |-> managers[m].dir,
                    writable |-> managers[m].writable, active |-> managers[m].active]]
  /\ \A m \in Manager : IF m = registry[model] THEN managers[m].status = "closed"
                        ELSE managers[m] = manager[m]

LEMMA NoneVacates ==
  ASSUME RInv, NEW model \in Model, registry[model] = None
  PROVE  Vacated(model, owner, manager)
  BY NoneAssumption DEF Vacated, RInv, Types, Records

LEMMA CloseVacates ==
  ASSUME RInv, NEW model \in Model, NEW old \in Manager, registry[model] = old
  PROVE  Vacated(model, [d \in Dir |-> IF owner[d] = old THEN None ELSE owner[d]],
                 [manager EXCEPT ![old].status = "closed"])
  BY DEF Vacated, RInv, Types, Records

LEMMA MakeEffect ==
  ASSUME RInv, Free, NEW model \in Model, NEW line \in Started, NEW key, NEW m \in Manager,
         manager[m].status = "unmade", NEW owners, NEW managers,
         Vacated(model, owners, managers), Make(model, key, line, m, owners, managers),
         sweep' = sweep
  PROVE  RInv' /\ ~Live(m) /\ Open(m)' /\ manager'[m].model = model /\ manager'[m].active = 0
<1>1. PICK dir \in {None} \cup (IF Runtime(line).prefix_cache_l2
                                THEN {Runtime(line).prefix_cache_l2_dir} ELSE {}) :
        LET new == NewManager(model, key, dir, owners) IN
        /\ manager' = [managers EXCEPT ![m] = new]
        /\ owner' = IF new.writable THEN [owners EXCEPT ![dir] = m] ELSE owners
        /\ registry' = [registry EXCEPT ![model] = m]
        /\ current' = model
  BY DEF Make
<1> DEFINE new == NewManager(model, key, dir, owners)
<1>2. dir = None \/ dir \in Dir
  BY DirAssumption
<1>3. m # registry[model] /\ ~Live(m)
  BY NoneAssumption DEF RInv, Registered, Live
<1>4. /\ manager'[m] = new
      /\ \A n \in Manager : n # m => manager'[n] = managers[n]
      /\ Records'
  BY <1>1 DEF Records, Vacated, NewManager
<1>5. /\ new.status = "open" /\ new.model = model /\ new.dir = dir /\ new.active = 0
      /\ new.writable <=> dir # None /\ owners[dir] = None
  BY DEF NewManager
<1>6. Types'
  BY <1>1, <1>2, <1>5 DEF RInv, Types, Vacated
<1>7. \A n \in Manager : n # m =>
        /\ n = registry[model] => manager'[n].status = "closed"
        /\ n # registry[model] => manager'[n] = manager[n]
  BY <1>4 DEF Vacated
<1>8. /\ registry'[model] = m
      /\ \A n \in Model : n # model => registry'[n] = registry[n]
  BY <1>1 DEF RInv, Types
<1>9. \A n \in Model : n # model /\ registry[n] # None =>
        registry[n] \in Manager /\ registry[n] # registry[model] /\ registry[n] # m
  BY <1>3 DEF RInv, Types, Registered
<1>10. Registered'
  <2>1. ASSUME NEW n \in Model, registry'[n] # None
        PROVE  Live(registry[n])' /\ manager'[registry'[n]].model = n
    <3>1. CASE n = model
      BY <1>4, <1>5, <1>8, <3>1 DEF Live
    <3>2. CASE n # model
      BY <1>7, <1>8, <1>9, <2>1, <3>2 DEF Live, RInv, Registered
    <3> QED
      BY <3>1, <3>2
  <2>2. ASSUME NEW n \in Manager, Live(n)'
        PROVE  manager'[n].model \in Model /\ registry'[manager'[n].model] = n
    <3>1. CASE n = m
      BY <1>4, <1>5, <1>8, <3>1
    <3>2. CASE n # m
      <4>1. n # registry[model] /\ manager'[n] = manager[n]
        BY <1>7, <2>2, <3>2 DEF Live
      <4>2. Live(n)
        BY <2>2, <4>1 DEF Live
      <4>3. manager[n].model \in Model /\ registry[manager[n].model] = n
        BY <4>2 DEF RInv, Registered
      <4> QED
        BY <1>8, <4>1, <4>3
    <3> QED
      BY <3>1, <3>2
  <2> QED
    BY <2>1, <2>2 DEF Registered
<1>11. Locked'
  <2> SUFFICES ASSUME NEW d \in Dir, owner'[d] # None
               PROVE  Live(owner[d])' /\ manager'[owner'[d]].writable /\ manager'[owner'[d]].dir = d
    BY DEF Locked
  <2>1. CASE new.writable /\ d = dir
    BY <1>1, <1>4, <1>5, <2>1 DEF Live, Vacated
  <2>2. CASE ~(new.writable /\ d = dir)
    <3>1. owner'[d] = owners[d]
      BY <1>1, <1>2, <1>5, <2>2 DEF Vacated
    <3>2. owner'[d] = owner[d] /\ owner[d] # registry[model] /\ owner[d] \in Manager
      BY <3>1 DEF Vacated
    <3>3. Live(owner[d]) /\ manager[owner[d]].writable /\ manager[owner[d]].dir = d
      BY <3>2 DEF RInv, Locked
    <3>4. owner[d] # m
      BY <1>3, <3>3
    <3> QED
      BY <1>7, <3>2, <3>3, <3>4 DEF Live
  <2> QED
    BY <2>1, <2>2
<1>12. Current'
  BY <1>1, <1>8, NoneAssumption DEF RInv, Current, Free
<1> QED
  BY <1>3, <1>4, <1>5, <1>6, <1>10, <1>11, <1>12 DEF RInv, Open

-----------------------------------------------------------------------------
(* Every step keeps the registry and the managers together. *)

\* Steps that leave everything as it is but threads and counts.
LEMMA CountEffect ==
  ASSUME RInv, UNCHANGED <<registry, current, owner, sweep>>,
         manager' = manager \/ \E m \in Manager, n \in Int :
                                 manager' = [manager EXCEPT ![m].active = n]
  PROVE  RInv'
<1>1. /\ Records'
      /\ \A m \in Manager :
           /\ manager'[m].model = manager[m].model /\ manager'[m].dir = manager[m].dir
           /\ manager'[m].writable = manager[m].writable /\ manager'[m].status = manager[m].status
  <2>1. CASE manager' = manager
    BY <2>1 DEF RInv, Records
  <2>2. ASSUME NEW n \in Manager, NEW count \in Int, manager' = [manager EXCEPT ![n].active = count]
        PROVE  <1>1!1 /\ <1>1!2
    BY <2>2 DEF RInv, Records
  <2> QED
    BY <2>1, <2>2
<1> QED
  BY <1>1 DEF RInv, Types, Registered, Locked, Current, Live, Free

\* What the requests count, and who is between begin and end.
Inside(m) == {t \in Thread : thread[t].pc = "decode" /\ thread[t].manager = m}

ThreadType ==
  [Thread -> [pc : {"idle", "lookup", "log", "run", "decode", "sweep"},
              manager : Manager \cup {None}, service : Manager \cup {None}]]

Threads ==
  /\ thread \in ThreadType
  /\ \A t \in Thread : thread[t].manager # None =>
       thread[t].manager \in Manager /\ manager[thread[t].manager].status # "unmade"

BInv ==
  /\ Threads
  /\ \A m \in Manager : Open(m) => manager[m].active = Cardinality(Inside(m))

LEMMA InsideCount == \A m \in Manager : IsFiniteSet(Inside(m)) /\ Cardinality(Inside(m)) \in Nat
<1> TAKE m \in Manager
<1>1. IsFiniteSet(Inside(m))
  BY ThreadAssumption, FS_Subset DEF Inside
<1> QED
  BY <1>1, FS_CardinalityType

LEMMA ClearManagers ==
  ASSUME RInv, NEW model \in Model, ClearIdentity(model)
  PROVE  \A m \in Manager :
           /\ manager'[m].active = manager[m].active
           /\ Open(m)' => Open(m)
           /\ manager[m].status # "unmade" => manager'[m].status # "unmade"
<1>1. CASE registry[model] = None
  BY <1>1 DEF ClearIdentity, Open
<1>2. CASE registry[model] # None
  <2>1. registry[model] \in Manager
    BY <1>2 DEF RInv, Types
  <2> QED
    BY <1>2, <2>1 DEF ClearIdentity, ShutDown, ShutdownRaises, Open, RInv, Records
<1> QED
  BY <1>1, <1>2

\* Nobody is let in or out.
ThreadsQuiet ==
  /\ thread' \in ThreadType
  /\ \A t \in Thread :
       /\ thread[t].pc = "decode" <=> thread'[t].pc = "decode"
       /\ thread[t].pc = "decode" => thread'[t].manager = thread[t].manager
       /\ \/ thread'[t].manager \in {thread[t].manager, None}
          \/ thread'[t].manager \in Manager /\ manager'[thread'[t].manager].status = "open"

\* No manager is reopened, and a new one has counted nobody.
ManagersQuiet ==
  \A m \in Manager :
    /\ manager[m].status # "unmade" => manager'[m].status # "unmade"
    /\ Open(m)' => \/ Open(m) /\ manager'[m].active = manager[m].active
                   \/ manager[m].status = "unmade" /\ manager'[m].active = 0

LEMMA QuietEffect ==
  ASSUME BInv, ThreadsQuiet, ManagersQuiet
  PROVE  BInv'
<1>1. Threads'
  <2>1. ASSUME NEW t \in Thread, thread'[t].manager # None
        PROVE  thread'[t].manager \in Manager /\ manager'[thread'[t].manager].status # "unmade"
    <3>1. CASE thread'[t].manager = thread[t].manager
      <4>1. thread[t].manager \in Manager /\ manager[thread[t].manager].status # "unmade"
        BY <2>1, <3>1 DEF BInv, Threads
      <4> QED
        BY <3>1, <4>1 DEF ManagersQuiet
    <3>2. CASE thread'[t].manager \in Manager /\ manager'[thread'[t].manager].status = "open"
      BY <3>2 DEF Open
    <3> QED
      BY <2>1, <3>1, <3>2 DEF ThreadsQuiet
  <2> QED
    BY <2>1 DEF Threads, ThreadType, ThreadsQuiet
<1>2. \A m \in Manager : Inside(m)' = Inside(m)
  BY DEF Inside, ThreadsQuiet
<1>3. \A m \in Manager : manager[m].status = "unmade" => Inside(m) = {}
  BY NoneAssumption DEF Inside, BInv, Threads, ThreadType
<1>4. ASSUME NEW m \in Manager, Open(m)'
      PROVE  manager'[m].active = Cardinality(Inside(m)')
  BY <1>2, <1>3, <1>4, FS_EmptySet DEF BInv, ManagersQuiet
<1> QED
  BY <1>1, <1>4 DEF BInv

LEMMA SameThreads ==
  ASSUME BInv, thread' = thread
  PROVE  ThreadsQuiet
  BY DEF BInv, Threads, ThreadType, ThreadsQuiet

LEMMA RequestThreads ==
  ASSUME BInv, NEW t \in Thread, thread[t].pc = "idle", NEW m \in Manager \cup {None},
         m # None => Open(m)', thread' = [thread EXCEPT ![t] = Request(m)]
  PROVE  ThreadsQuiet
<1>1. Request(m).pc # "decode" /\ Request(m).manager = m
  BY DEF Request
<1>2. /\ thread'[t] = Request(m)
      /\ \A u \in Thread : u # t => thread'[u] = thread[u]
  BY DEF BInv, Threads, ThreadType
<1>3. thread' \in ThreadType
  BY DEF BInv, Threads, ThreadType, Request
<1>4. ASSUME NEW u \in Thread
      PROVE  /\ thread[u].pc = "decode" <=> thread'[u].pc = "decode"
             /\ thread[u].pc = "decode" => thread'[u].manager = thread[u].manager
             /\ \/ thread'[u].manager \in {thread[u].manager, None}
                \/ thread'[u].manager \in Manager /\ manager'[thread'[u].manager].status = "open"
  <2>1. CASE u = t
    <3>1. CASE m = None
      BY <1>1, <1>2, <2>1, <3>1
    <3>2. CASE m # None
      BY <1>1, <1>2, <2>1, <3>2 DEF Open
    <3> QED
      BY <3>1, <3>2
  <2>2. CASE u # t
    BY <1>2, <2>2
  <2> QED
    BY <2>1, <2>2
<1> QED
  BY <1>3, <1>4 DEF ThreadsQuiet

LEMMA ClearQuiet ==
  ASSUME RInv, NEW model \in Model, ClearIdentity(model)
  PROVE  ManagersQuiet
  BY ClearManagers DEF ManagersQuiet

-----------------------------------------------------------------------------
LEMMA ResolveStep ==
  ASSUME RInv, BInv, NEW t \in Thread, NEW model \in Model, NEW line \in Started,
         Resolve_(t, model, line)
  PROVE  RInv' /\ BInv'
<1>1. CASE ResolveNone(t, model, line)
  <2>1. RInv'
    BY <1>1, ClearEffect DEF ResolveNone, Begins
  <2>2. BInv'
    <3>1. ThreadsQuiet
      BY <1>1, SameThreads, RequestThreads DEF ResolveNone, Begins
    <3> QED
      BY <1>1, <3>1, ClearQuiet, QuietEffect DEF ResolveNone
  <2> QED
    BY <2>1, <2>2
<1>2. CASE ResolveSame(t, model, line)
  <2>1. registry[model] \in Manager /\ Open(registry[model])
    BY <1>2, NoneAssumption DEF ResolveSame, Fits, RInv, Types
  <2>2. RInv'
    BY <1>2, <2>1, NoneAssumption
    DEF ResolveSame, RInv, Records, Types, Registered, Locked, Current, Live, Free
  <2>3. BInv'
    <3>1. Open(registry[model])'
      BY <1>2, <2>1 DEF ResolveSame, Open
    <3>2. ThreadsQuiet
      BY <1>2, <2>1, <3>1, RequestThreads DEF ResolveSame, Begins, Open
    <3>3. ManagersQuiet
      BY <1>2 DEF ResolveSame, ManagersQuiet, Open
    <3> QED
      BY <3>2, <3>3, QuietEffect
  <2> QED
    BY <2>2, <2>3
<1>3. CASE ResolveNew(t, model, line)
  <2>1. PICK m \in Manager :
          /\ manager[m].status = "unmade"
          /\ Make(model, KeyOf(model, line, FALSE), line, m, owner, manager)
          /\ thread' = [thread EXCEPT ![t] = Request(m)]
    BY <1>3 DEF ResolveNew
  <2>2. Vacated(model, owner, manager) /\ thread[t].pc = "idle" /\ Free
    BY <1>3, NoneVacates DEF ResolveNew, Begins
  <2>3. RInv' /\ Open(m)' /\ manager'[m].active = 0
    <3> DEFINE key == KeyOf(model, line, FALSE)
    <3>1. sweep' = sweep
      BY <1>3 DEF ResolveNew
    <3> HIDE DEF key
    <3> QED
      BY <2>1, <2>2, <3>1, MakeEffect DEF key
  <2>4. \A n \in Manager : n # m => manager'[n] = manager[n]
    BY <2>1, NoneAssumption DEF Make, RInv, Records
  <2>5. BInv'
    <3>1. ThreadsQuiet
      BY <2>1, <2>2, <2>3, RequestThreads
    <3>2. ManagersQuiet
      BY <2>1, <2>3, <2>4 DEF ManagersQuiet, Open
    <3> QED
      BY <3>1, <3>2, QuietEffect
  <2> QED
    BY <2>3, <2>5
<1>4. CASE ResolveOther(t, model, line)
  <2>1. PICK old \in Manager : registry[model] = old
    BY <1>4, NoneAssumption DEF ResolveOther, Misfit, RInv, Types
  <2> DEFINE owners == [d \in Dir |-> IF owner[d] = old THEN None ELSE owner[d]]
             managers == [manager EXCEPT ![old].status = "closed"]
  <2>2. PICK m \in Manager :
          /\ manager[m].status = "unmade"
          /\ Make(model, KeyOf(model, line, FALSE), line, m, owners, managers)
          /\ thread' = [thread EXCEPT ![t] = Request(m)]
    BY <1>4, <2>1 DEF ResolveOther
  <2>3. Vacated(model, owners, managers) /\ thread[t].pc = "idle" /\ Free
    BY <1>4, <2>1, CloseVacates DEF ResolveOther, Begins
  <2>4. sweep' = sweep
    BY <1>4 DEF ResolveOther
  <2> DEFINE key == KeyOf(model, line, FALSE)
  <2>5. RInv' /\ Open(m)' /\ manager'[m].active = 0
    <3> HIDE DEF owners, managers, key
    <3> QED
      BY <2>2, <2>3, <2>4, MakeEffect DEF key
  <2>6. Live(old)
    BY <2>1, NoneAssumption DEF RInv, Registered, Types
  <2>7. \A n \in Manager : n # m =>
          manager'[n] = manager[n] \/ (n = old /\ manager'[n].status = "closed")
    BY <2>2, <2>3 DEF Make, Vacated, RInv, Records
  <2>8. BInv'
    <3>1. ThreadsQuiet
      BY <2>2, <2>3, <2>5, RequestThreads
    <3>2. ManagersQuiet
      BY <2>2, <2>5, <2>7 DEF ManagersQuiet, Open
    <3> QED
      BY <3>1, <3>2, QuietEffect
  <2> QED
    BY <2>5, <2>8
<1>5. CASE ResolveRaises(t, model, line)
  <2>1. PICK old \in Manager : registry[model] = old
    BY <1>5, NoneAssumption DEF ResolveRaises, Misfit, RInv, Types
  <2>2. RInv'
    BY <1>5, <2>1, RaisesEffect DEF ResolveRaises, Begins, Free
  <2>3. \A m \in Manager : /\ manager'[m].status # "unmade" \/ manager'[m] = manager[m]
                           /\ Open(m)' => manager'[m] = manager[m]
    BY <1>5, <2>1 DEF ResolveRaises, ShutdownRaises, RInv, Records, Open
  <2>4. BInv'
    <3>1. ManagersQuiet
      BY <2>3 DEF ManagersQuiet, Open
    <3> QED
      BY <1>5, <3>1, SameThreads, QuietEffect DEF ResolveRaises
  <2> QED
    BY <2>2, <2>4
<1> QED
  BY <1>1, <1>2, <1>3, <1>4, <1>5 DEF Resolve_

LEMMA CallStep ==
  ASSUME RInv, BInv, NEW t \in Thread,
         Lookup(t) \/ LogStats(t) \/ BeginRequest(t) \/ Publish(t) \/ EndRequest(t)
  PROVE  RInv' /\ BInv'
<1> DEFINE m == thread[t].manager
<1>1. m # None => m \in Manager /\ manager[m].status # "unmade"
  BY DEF BInv, Threads, ThreadType
<1>2. thread[t] = [pc |-> thread[t].pc, manager |-> m, service |-> thread[t].service]
  BY DEF BInv, Threads, ThreadType
<1>3. RInv'
  <2>1. CASE manager' = manager
    BY <2>1, CountEffect DEF Lookup, LogStats, BeginRequest, Publish, EndRequest
  <2>2. CASE manager' # manager
    <3>1. PICK n \in Manager : n = m /\ Open(n) /\ manager[n].active \in Int /\
            (manager' = [manager EXCEPT ![n].active = manager[n].active + 1] \/
             manager' = [manager EXCEPT ![n].active = manager[n].active - 1])
      BY <1>1, <2>2, InsideCount DEF Lookup, LogStats, BeginRequest, Publish, EndRequest, BInv
    <3>2. \E count \in Int : manager' = [manager EXCEPT ![n].active = count]
      <4>1. manager[n].active + 1 \in Int /\ manager[n].active - 1 \in Int
        BY <3>1
      <4> QED
        BY <3>1, <4>1, Zenon
    <3> QED
      BY <3>2, CountEffect, <2>2 DEF Lookup, LogStats, BeginRequest, Publish, EndRequest
  <2> QED
    BY <2>1, <2>2
<1>4. CASE Lookup(t)
  <2>1. ManagersQuiet
    BY <1>4 DEF Lookup, ManagersQuiet, Open
  <2>2. ThreadsQuiet
    BY <1>4 DEF Lookup, ThreadsQuiet, Open, BInv, Threads, ThreadType
  <2> QED
    BY <1>3, <2>1, <2>2, QuietEffect
<1>5. CASE LogStats(t)
  <2>1. ManagersQuiet
    BY <1>5 DEF LogStats, ManagersQuiet, Open
  <2>2. ThreadsQuiet
    <3>1. PICK n \in {m, None} :
            thread' = [thread EXCEPT ![t].pc = "run", ![t].manager = n, ![t].service = n]
      BY <1>5 DEF LogStats
    <3>2. /\ thread' \in ThreadType /\ thread'[t].pc = "run" /\ thread'[t].manager = n
          /\ \A u \in Thread : u # t => thread'[u] = thread[u]
      BY <3>1 DEF BInv, Threads, ThreadType
    <3> QED
      BY <1>5, <3>2 DEF LogStats, ThreadsQuiet
  <2> QED
    BY <1>3, <2>1, <2>2, QuietEffect
<1>6. CASE Publish(t)
  <2>1. ManagersQuiet
    BY <1>6 DEF Publish, ManagersQuiet, Open
  <2>2. ThreadsQuiet
    BY <1>6 DEF Publish, ThreadsQuiet, BInv, Threads, ThreadType
  <2> QED
    BY <1>3, <2>1, <2>2, QuietEffect
<1>7. CASE BeginRequest(t)
  <2>1. Threads'
    <3>1. thread' = [thread EXCEPT ![t].pc = "decode"]
      BY <1>7 DEF BeginRequest, Goto
    <3>2. \A n \in Manager : manager'[n].status = manager[n].status
      BY <1>7 DEF BeginRequest, RInv, Records
    <3> QED
      BY <1>1, <3>1, <3>2 DEF BInv, Threads, ThreadType
  <2>2. \A n \in Manager : Inside(n)' = IF n = m THEN Inside(n) \cup {t} ELSE Inside(n)
    BY <1>7 DEF BeginRequest, Goto, Inside, BInv, Threads, ThreadType
  <2>3. t \notin Inside(m)
    BY <1>7 DEF BeginRequest, Inside
  <2>4. ASSUME NEW n \in Manager, Open(n)'
        PROVE  manager'[n].active = Cardinality(Inside(n)')
    <3>1. CASE n = m
      <4>1. Open(m) /\ manager'[m].active = manager[m].active + 1 /\ m # None
        BY <1>7, <2>4, <3>1, NoneAssumption DEF BeginRequest, Open, RInv, Records
      <4>2. Cardinality(Inside(m) \cup {t}) = Cardinality(Inside(m)) + 1
        BY <2>3, <3>1, InsideCount, FS_AddElement
      <4> QED
        BY <2>2, <3>1, <4>1, <4>2 DEF BInv
    <3>2. CASE n # m
      BY <1>7, <2>2, <2>4, <3>2 DEF BeginRequest, Open, RInv, Records, BInv
    <3> QED
      BY <3>1, <3>2
  <2> QED
    BY <1>3, <2>1, <2>4 DEF BInv
<1>8. CASE EndRequest(t)
  <2>1. Threads'
    <3>1. \A n \in Manager : manager'[n].status = manager[n].status
      BY <1>8 DEF EndRequest, RInv, Records
    <3> QED
      BY <1>8, <3>1 DEF EndRequest, Idle, BInv, Threads, ThreadType
  <2>2. \A n \in Manager : Inside(n)' = IF n = m THEN Inside(n) \ {t} ELSE Inside(n)
    BY <1>8 DEF EndRequest, Idle, Inside, BInv, Threads, ThreadType
  <2>3. t \in Inside(m)
    BY <1>8 DEF EndRequest, Inside
  <2>4. ASSUME NEW n \in Manager, Open(n)'
        PROVE  manager'[n].active = Cardinality(Inside(n)')
    <3>1. CASE n = m
      <4>1. Open(m) /\ manager'[m].active = manager[m].active - 1 /\ m # None
        BY <1>8, <2>4, <3>1, NoneAssumption DEF EndRequest, Open, RInv, Records
      <4>2. Cardinality(Inside(m) \ {t}) = Cardinality(Inside(m)) - 1
        BY <2>3, <3>1, InsideCount, FS_RemoveElement
      <4> QED
        BY <2>2, <3>1, <4>1, <4>2 DEF BInv
    <3>2. CASE n # m
      BY <1>8, <2>2, <2>4, <3>2 DEF EndRequest, Open, RInv, Records, BInv
    <3> QED
      BY <3>1, <3>2
  <2> QED
    BY <1>3, <2>1, <2>4 DEF BInv
<1> QED
  BY <1>3, <1>4, <1>5, <1>6, <1>7, <1>8

LEMMA HostStep ==
  ASSUME RInv, BInv, NEW t \in Thread,
         \/ \E model \in Model, line \in Started, bare \in BOOLEAN : Sync(t, model, line, bare)
         \/ \E model \in Model : Unload(t, model)
         \/ StartSweep(t) \/ SweepOne(t)
  PROVE  RInv' /\ BInv'
<1>2. ASSUME NEW model \in Model, NEW line \in Started, NEW bare \in BOOLEAN,
             Sync(t, model, line, bare)
      PROVE  RInv' /\ BInv'
  <2>1. ThreadsQuiet /\ sweep' = sweep /\ Free
    BY <1>2, SameThreads DEF Sync, Begins
  <2>2. CASE ClearIdentity(model)
    BY <2>1, <2>2, ClearEffect, ClearQuiet, QuietEffect
  <2>3. CASE /\ Fits(registry[model], KeyOf(model, line, bare))
             /\ current' = model /\ UNCHANGED <<registry, manager, owner>>
    <3>1. RInv'
      BY <2>1, <2>3, NoneAssumption
      DEF Fits, RInv, Records, Types, Registered, Locked, Current, Live, Free
    <3>2. ManagersQuiet
      BY <2>3 DEF ManagersQuiet, Open
    <3> QED
      BY <2>1, <3>1, <3>2, QuietEffect
  <2> QED
    BY <1>2, <2>2, <2>3 DEF Sync
<1>3. ASSUME NEW model \in Model, Unload(t, model)
      PROVE  RInv' /\ BInv'
  <2>1. ThreadsQuiet /\ sweep' = sweep /\ Free /\ ClearIdentity(model)
    BY <1>3, SameThreads DEF Unload
  <2> QED
    BY <2>1, ClearEffect, ClearQuiet, QuietEffect
<1>4. CASE StartSweep(t)
  <2>1. RInv'
    BY <1>4 DEF StartSweep, RInv, Records, Types, Registered, Locked, Current, Live, Free
  <2>2. ManagersQuiet
    BY <1>4 DEF StartSweep, ManagersQuiet, Open
  <2>3. ThreadsQuiet
    BY <1>4 DEF StartSweep, Goto, ThreadsQuiet, BInv, Threads, ThreadType
  <2> QED
    BY <2>1, <2>2, <2>3, QuietEffect
<1>5. CASE SweepOne(t)
  <2>1. PICK model \in sweep :
          /\ \/ ShutDown(registry[model]) /\ registry' = [registry EXCEPT ![model] = None]
             \/ ShutdownRaises(registry[model]) /\ UNCHANGED registry
          /\ sweep' = sweep \ {model}
          /\ IF sweep' = {} THEN current' = None /\ Goto(t, "idle")
             ELSE UNCHANGED <<current, thread>>
    BY <1>5 DEF SweepOne
  <2>2. PICK old \in Manager : registry[model] = old
    BY <2>1 DEF RInv, Types, Current
  <2>3. RInv'
    <3>1. model \in Model /\ (sweep' = {} => current' = None) /\ current' \in {current, None}
      BY <2>1 DEF RInv, Types
    <3>2. CASE ShutDown(old) /\ registry' = [registry EXCEPT ![model] = None]
      BY <2>1, <2>2, <3>1, <3>2, ShutDownEffect DEF RInv, Types
    <3>3. CASE ShutdownRaises(old) /\ UNCHANGED registry
      BY <2>1, <2>2, <3>1, <3>3, RaisesEffect
    <3> QED
      BY <2>1, <2>2, <3>2, <3>3
  <2>4. \A m \in Manager :
          /\ manager'[m].active = manager[m].active
          /\ Open(m)' => Open(m)
          /\ manager[m].status # "unmade" => manager'[m].status # "unmade"
    BY <2>1, <2>2 DEF ShutDown, ShutdownRaises, Open, RInv, Records
  <2>5. BInv'
    <3>1. ManagersQuiet
      BY <2>4 DEF ManagersQuiet
    <3>2. thread' = thread \/ thread' = [thread EXCEPT ![t].pc = "idle"]
      BY <2>1 DEF Goto
    <3>3. ThreadsQuiet
      BY <1>5, <3>2 DEF SweepOne, ThreadsQuiet, BInv, Threads, ThreadType
    <3> QED
      BY <3>1, <3>3, QuietEffect
  <2> QED
    BY <2>3, <2>5
<1> QED
  BY <1>2, <1>3, <1>4, <1>5

-----------------------------------------------------------------------------
LEMMA NextStep == RInv /\ BInv /\ [Next]_vars => RInv' /\ BInv'
<1> SUFFICES ASSUME RInv, BInv, [Next]_vars PROVE RInv' /\ BInv'
  OBVIOUS
<1>1. CASE UNCHANGED vars
  <2>1. RInv'
    BY <1>1, CountEffect DEF vars
  <2>2. ManagersQuiet
    BY <1>1 DEF vars, ManagersQuiet, Open
  <2> QED
    BY <1>1, <2>1, <2>2, SameThreads, QuietEffect DEF vars
<1>2. CASE Next
  BY <1>2, ResolveStep, CallStep, HostStep DEF Next
<1> QED
  BY <1>1, <1>2

LEMMA BInvInit == Init => BInv
  BY NoneAssumption DEF Init, BInv, Threads, ThreadType, Unmade, Idle, Open

LEMMA Invariance == Spec => [](RInv /\ BInv)
  BY RInvInit, BInvInit, NextStep, PTL DEF Spec

\* Whatever still has a store to shut down is registered for its model and the
\* holders of directories are among them, in any interleaving of resolutions,
\* reconfigurations, unloads, teardowns and shutdowns that raise.
THEOREM RegistryForgetsNothing == Spec => []NothingForgotten
<1>1. RInv => NothingForgotten
  BY DEF RInv, Registered, Locked, Current, NothingForgotten
<1> QED
  BY <1>1, Invariance, PTL

\* An open manager counts exactly the requests between their begin and their
\* end that carry it.
THEOREM ManagersCountTheirRequests == Spec => []BracketsMatch
<1>1. BInv => BracketsMatch
  BY DEF BInv, BracketsMatch, Inside
<1> QED
  BY <1>1, Invariance, PTL

\* Only these two open a manager.
Opening(t, model, line) == ResolveNew(t, model, line) \/ ResolveOther(t, model, line)

LEMMA OthersOpenNothing ==
  ASSUME RInv, BInv, [Next]_vars,
         \A t \in Thread, model \in Model, line \in Started : ~Opening(t, model, line)
  PROVE  \A m \in Manager : Open(m)' => Open(m)
<1>1. CASE UNCHANGED vars
  BY <1>1 DEF vars, Open
<1> SUFFICES ASSUME NEW t \in Thread,
                    \/ \E model \in Model, line \in Started :
                         Resolve_(t, model, line) \/ \E bare \in BOOLEAN : Sync(t, model, line, bare)
                    \/ Lookup(t) \/ LogStats(t) \/ BeginRequest(t) \/ Publish(t) \/ EndRequest(t)
                    \/ \E model \in Model : Unload(t, model)
                    \/ StartSweep(t) \/ SweepOne(t)
             PROVE  \A m \in Manager : Open(m)' => Open(m)
  BY <1>1 DEF Next
<1>2. ASSUME NEW model \in Model, ClearIdentity(model)
      PROVE  \A m \in Manager : Open(m)' => Open(m)
  BY <1>2, ClearManagers
<1>3. ASSUME UNCHANGED manager
      PROVE  \A m \in Manager : Open(m)' => Open(m)
  BY <1>3 DEF Open
<1>4. ASSUME NEW model \in Model, NEW line \in Started, Resolve_(t, model, line)
      PROVE  \A m \in Manager : Open(m)' => Open(m)
  <2>1. CASE ResolveNone(t, model, line)
    BY <1>2, <2>1 DEF ResolveNone
  <2>2. CASE ResolveSame(t, model, line)
    BY <1>3, <2>2 DEF ResolveSame
  <2>3. CASE ResolveRaises(t, model, line)
    BY <2>3 DEF ResolveRaises, ShutdownRaises, Open, RInv, Records
  <2> QED
    BY <1>4, <2>1, <2>2, <2>3 DEF Resolve_, Opening
<1>5. ASSUME NEW model \in Model, NEW line \in Started, NEW bare \in BOOLEAN,
             Sync(t, model, line, bare)
      PROVE  \A m \in Manager : Open(m)' => Open(m)
  BY <1>2, <1>3, <1>5 DEF Sync
<1>6. ASSUME NEW model \in Model, Unload(t, model)
      PROVE  \A m \in Manager : Open(m)' => Open(m)
  BY <1>2, <1>6 DEF Unload
<1>7. CASE Lookup(t) \/ LogStats(t) \/ Publish(t) \/ StartSweep(t)
  BY <1>3, <1>7 DEF Lookup, LogStats, Publish, StartSweep
<1>8. CASE BeginRequest(t) \/ EndRequest(t)
  BY <1>8 DEF BeginRequest, EndRequest, Open, RInv, Records
<1>9. CASE SweepOne(t)
  BY <1>9 DEF SweepOne, ShutDown, ShutdownRaises, Open, RInv, Records
<1> QED
  BY <1>4, <1>5, <1>6, <1>7, <1>8, <1>9

LEMMA SuccessorStep ==
  ASSUME RInv, NEW model \in Model, NEW line \in Started, NEW key, NEW owners, NEW managers,
         Vacated(model, owners, managers),
         \A d \in Dir : owner[d] # registry[model] => owners[d] = owner[d],
         NEW new \in Manager, Make(model, key, line, new, owners, managers),
         NEW m \in Manager, ~Live(m), Open(m)', manager'[m].dir # None
  PROVE  \/ owner'[manager'[m].dir] = m
         \/ LET holder == owner[manager'[m].dir] IN
            holder # None /\ manager[holder].model # manager'[m].model
<1>1. PICK dir \in {None} \cup (IF Runtime(line).prefix_cache_l2
                                THEN {Runtime(line).prefix_cache_l2_dir} ELSE {}) :
        LET made == NewManager(model, key, dir, owners) IN
        /\ manager' = [managers EXCEPT ![new] = made]
        /\ owner' = IF made.writable THEN [owners EXCEPT ![dir] = new] ELSE owners
  BY DEF Make
<1> DEFINE made == NewManager(model, key, dir, owners)
<1>2. m = new /\ manager'[m] = made
  <2>1. \A n \in Manager : n # new => manager'[n] = managers[n]
    BY <1>1 DEF Vacated
  <2>2. \A n \in Manager : managers[n].status = "open" => Live(n)
    BY DEF Vacated, Live
  <2> QED
    BY <1>1, <2>1, <2>2 DEF Open, Vacated
<1>3. /\ made.model = model /\ made.dir = dir
      /\ made.writable <=> dir # None /\ owners[dir] = None
  BY DEF NewManager
<1>4. dir \in Dir
  BY <1>2, <1>3, DirAssumption
<1>5. CASE owners[dir] = None
  BY <1>1, <1>2, <1>3, <1>4, <1>5 DEF Vacated
<1>6. CASE owners[dir] # None
  <2>1. owners[dir] = owner[dir] /\ owner[dir] # registry[model] /\ owner[dir] \in Manager
    BY <1>4, <1>6 DEF Vacated
  <2>2. Live(owner[dir]) /\ registry[manager[owner[dir]].model] = owner[dir]
    BY <1>4, <1>6, <2>1 DEF RInv, Locked, Registered
  <2> QED
    BY <1>2, <1>3, <1>6, <2>1, <2>2
<1> QED
  BY <1>5, <1>6

\* A manager that takes over for its model has the directory to itself, unless
\* a manager of another model holds it.
THEOREM SuccessorsOwnTheirDirectory == Spec => SuccessorOwnsDirectory
<1> DEFINE Owns(m) == \/ owner'[manager'[m].dir] = m
                      \/ LET holder == owner[manager'[m].dir] IN
                         holder # None /\ manager[holder].model # manager'[m].model
<1>1. ASSUME RInv, BInv, [Next]_vars
      PROVE  \A m \in Manager : ~Live(m) /\ Open(m)' /\ manager'[m].dir # None => Owns(m)
  <2> SUFFICES ASSUME NEW m \in Manager, ~Live(m), Open(m)', manager'[m].dir # None
               PROVE  Owns(m)
    OBVIOUS
  <2>1. PICK t \in Thread, model \in Model, line \in Started : Opening(t, model, line)
    BY <1>1, OthersOpenNothing DEF Open, Live
  <2>2. CASE ResolveNew(t, model, line)
    <3> DEFINE key == KeyOf(model, line, FALSE)
    <3>1. PICK new \in Manager : Make(model, key, line, new, owner, manager)
      BY <2>2 DEF ResolveNew
    <3>2. Vacated(model, owner, manager)
      BY <1>1, <2>2, NoneVacates DEF ResolveNew
    <3> HIDE DEF key
    <3> QED
      BY <1>1, <3>1, <3>2, SuccessorStep
  <2>3. CASE ResolveOther(t, model, line)
    <3>1. PICK old \in Manager : registry[model] = old
      BY <1>1, <2>3, NoneAssumption DEF ResolveOther, Misfit, RInv, Types
    <3> DEFINE key == KeyOf(model, line, FALSE)
               owners == [d \in Dir |-> IF owner[d] = old THEN None ELSE owner[d]]
               managers == [manager EXCEPT ![old].status = "closed"]
    <3>2. PICK new \in Manager : Make(model, key, line, new, owners, managers)
      BY <2>3, <3>1 DEF ResolveOther
    <3>3. /\ Vacated(model, owners, managers)
          /\ \A d \in Dir : owner[d] # registry[model] => owners[d] = owner[d]
      BY <1>1, <3>1, CloseVacates
    <3> HIDE DEF key, owners, managers
    <3> QED
      BY <1>1, <3>2, <3>3, SuccessorStep
  <2> QED
    BY <2>1, <2>2, <2>3 DEF Opening
<1>2. RInv /\ BInv /\ [Next]_vars =>
        [\A m \in Manager : ~Live(m) /\ Open(m)' /\ manager'[m].dir # None => Owns(m)]_vars
  BY <1>1
<1>3. SuccessorOwnsDirectory <=>
        [][\A m \in Manager : ~Live(m) /\ Open(m)' /\ manager'[m].dir # None => Owns(m)]_vars
  BY DEF SuccessorOwnsDirectory
<1> HIDE DEF Owns
<1> QED
  BY <1>2, <1>3, Invariance, PTL DEF Spec

-----------------------------------------------------------------------------
(* The configurations a host can start with. *)

\* What is computed from a configuration needs these fields to be of their kind.
IntField == {"prefill_step_size", "draft_window_size", "verify_len_cap",
             "prefix_cache_l2_frontier_stride"}
BoolField == {"prefix_cache", "prefix_cache_l2"}

Typed(cfg) ==
  /\ \A f \in IntField : cfg[f] \in Int
  /\ \A f \in BoolField : cfg[f] \in BOOLEAN

LEMMA Kinds ==
  /\ IntField \cup BoolField \subseteq Field
  /\ \A f \in IntField : Kind[f] = "int" /\ Defaults[f] \in Int
  /\ \A f \in BoolField : Kind[f] = "bool" /\ Defaults[f] \in BOOLEAN
  BY DEF IntField, BoolField, Field, Kind, Defaults

LEMMA LargestOf ==
  ASSUME NEW a \in Int, NEW b \in Int
  PROVE  /\ Largest({a, b}) \in {a, b}
         /\ Largest({a, b}) >= a /\ Largest({a, b}) >= b
<1>1. \E n \in {a, b} : \A m \in {a, b} : n >= m
  OBVIOUS
<1> QED
  BY <1>1 DEF Largest

LEMMA LargestOfThree ==
  ASSUME NEW a \in Int, NEW b \in Int, NEW c \in Int
  PROVE  /\ Largest({a, b, c}) \in {a, b, c}
         /\ Largest({a, b, c}) >= a /\ Largest({a, b, c}) >= b /\ Largest({a, b, c}) >= c
<1>1. \E n \in {a, b, c} : \A m \in {a, b, c} : n >= m
  OBVIOUS
<1> QED
  BY <1>1 DEF Largest

LEMMA SmallestOf ==
  ASSUME NEW a \in Int, NEW b \in Int
  PROVE  /\ Smallest({a, b}) \in {a, b}
         /\ Smallest({a, b}) <= a /\ Smallest({a, b}) <= b
<1>1. \E n \in {a, b} : \A m \in {a, b} : n <= m
  OBVIOUS
<1> QED
  BY <1>1 DEF Smallest

LEMMA SmallestOfThree ==
  ASSUME NEW a \in Int, NEW b \in Int, NEW c \in Int
  PROVE  /\ Smallest({a, b, c}) \in {a, b, c}
         /\ Smallest({a, b, c}) <= a /\ Smallest({a, b, c}) <= b /\ Smallest({a, b, c}) <= c
<1>1. \E n \in {a, b, c} : \A m \in {a, b, c} : n <= m
  OBVIOUS
<1> QED
  BY <1>1 DEF Smallest

\* Whole steps, rounded up.
LEMMA RoundedUp ==
  ASSUME NEW asked \in Nat, NEW step \in Nat \ {0}
  PROVE  /\ (asked + step - 1) \div step \in Nat
         /\ ((asked + step - 1) \div step) * step >= asked
  OBVIOUS

LEMMA Multiple ==
  ASSUME NEW n \in Nat, NEW step \in Nat \ {0}
  PROVE  (n * step) % step = 0
  OBVIOUS

\* validate_runtime_config, applied to what it has returned, changes nothing.
LEMMA NormalIsSettled ==
  ASSUME NEW cfg, cfg = [f \in Field |-> cfg[f]], Typed(cfg), Valid(cfg)
  PROVE  LET new == Normal(cfg) IN
         /\ new = [f \in Field |-> new[f]] /\ Typed(new)
         /\ Validate(new) = {new}
         /\ new.prefix_cache_l2 => new.prefix_cache
         /\ new.target_fa_window > 0 => ~new.prefix_cache /\ ~new.quantize_kv_cache
         /\ \A f \in Field : new[f] # cfg[f] =>
              \/ f = "prefix_cache" /\ new.target_fa_window > 0
              \/ f = "prefix_cache_l2" /\ ~new.prefix_cache
<1> DEFINE new == Normal(cfg)
<1>1. /\ new = [f \in Field |-> new[f]]
      /\ \A f \in Field \ BoolField : new[f] = cfg[f]
      /\ \A f \in BoolField : new[f] \in BOOLEAN /\ (new[f] => cfg[f])
      /\ new.prefix_cache_l2 => new.prefix_cache
      /\ new.target_fa_window > 0 => ~new.prefix_cache
  BY Kinds DEF Normal, Typed, BoolField
<1>2. Typed(new)
  BY <1>1, Kinds DEF Typed, IntField, BoolField

<1>3. Valid(new)
  <2>1. \A f \in {"prefill_step_size", "draft_window_size", "prefix_cache_max_entries",
                  "draft_sink_size", "draft_full_context_min_ctx", "verify_len_cap",
                  "prefix_cache_max_bytes", "max_snapshot_tokens", "target_fa_window",
                  "dflash_max_ctx", "prefix_cache_l2_frontier_stride", "quantize_kv_cache",
                  "prefix_cache_l2_dir", "prefix_cache_l2_max_bytes", "verify_mode",
                  "copyspec_mode"} : new[f] = cfg[f]
    BY <1>1 DEF Field, Kind, BoolField
  <2>2. new.prefix_cache_l2 => cfg.prefix_cache_l2
    BY <1>1 DEF BoolField
  <2> QED
    BY <2>1, <2>2 DEF Valid
<1>4. new.target_fa_window > 0 => ~new.quantize_kv_cache
  BY <1>3 DEF Valid
<1>5. Normal(new) = new
  BY <1>1 DEF Normal
<1>6. Validate(new) = {new}
  BY <1>3, <1>5 DEF Validate
<1>7. /\ new.prefix_cache # cfg.prefix_cache => cfg.target_fa_window > 0
      /\ new.prefix_cache_l2 # cfg.prefix_cache_l2 => ~new.prefix_cache
  <2>1. {"prefix_cache", "prefix_cache_l2", "target_fa_window"} \subseteq DOMAIN cfg
    BY DEF Field, Kind
  <2> QED
    BY <2>1 DEF Normal
<1>8. new.target_fa_window = cfg.target_fa_window
  BY <1>1 DEF Field, Kind, BoolField
<1> HIDE DEF new
<1>9. \A f \in Field : new[f] # cfg[f] =>
        \/ f = "prefix_cache" /\ new.target_fa_window > 0
        \/ f = "prefix_cache_l2" /\ ~new.prefix_cache
  BY <1>1, <1>7, <1>8 DEF BoolField
<1> QED
  BY <1>1, <1>2, <1>4, <1>6, <1>9 DEF new

\* What a field resolves to is of the field's kind.
LEMMA ResolvedKind ==
  ASSUME NEW line \in Line, NEW f \in IntField \cup BoolField,
         NEW v \in Resolved(Start[line].args, Start[line].env, f)
  PROVE  IF f \in IntField THEN v \in Int ELSE v \in BOOLEAN
<1> DEFINE args == Start[line].args
           env == Start[line].env
<1>1. /\ f \in Field
      /\ IF f \in IntField THEN Kind[f] = "int" /\ Defaults[f] \in Int
         ELSE Kind[f] = "bool" /\ Defaults[f] \in BOOLEAN
  BY Kinds
<1>2. CASE f \in DOMAIN args
  <2>1. v = args[f]
    BY <1>2 DEF Resolved
  <2> QED
    BY <1>1, <1>2, <2>1, HostAssumption
<1>3. CASE f \notin DOMAIN args /\ FromEnvironment(env, f)
  <2>1. v \in Parsed(Kind[f], env[f])
    BY <1>3 DEF Resolved
  <2>2. f \in DOMAIN env
    BY <1>3 DEF FromEnvironment
  <2>3. env[f].is = "number" => env[f].value \in Int
    BY <2>2, HostAssumption
  <2>4. CASE f \in IntField
    <3>1. v \in ParsedInt(env[f])
      BY <1>1, <2>1, <2>4 DEF Parsed
    <3> QED
      BY <2>3, <2>4, <3>1 DEF ParsedInt
  <2>5. CASE f \notin IntField
    <3>1. v \in ParsedBool(env[f])
      BY <1>1, <2>1, <2>5 DEF Parsed
    <3> QED
      BY <2>5, <3>1 DEF ParsedBool
  <2> QED
    BY <2>4, <2>5
<1>4. CASE f \notin DOMAIN args /\ ~FromEnvironment(env, f)
  <2>1. v = Defaults[f]
    BY <1>4 DEF Resolved
  <2> QED
    BY <1>1, <2>1
<1> QED
  BY <1>2, <1>3, <1>4

\* A configuration as resolve_runtime_config puts it together, before validation.
LEMMA Assembled ==
  ASSUME NEW line \in Line, NEW cfg \in Resolve(Start[line].args, Start[line].env)
  PROVE  \E given :
           /\ given = [f \in Field |-> given[f]] /\ Typed(given) /\ Valid(given)
           /\ cfg = Normal(given)
           /\ \A f \in DOMAIN Start[line].args : given[f] = Start[line].args[f]
<1> DEFINE args == Start[line].args
           env == Start[line].env
           From(f) == Resolved(args, env, f)
           given == [f \in Field |-> CHOOSE v \in From(f) : TRUE]
<1>1. \A f \in Field : From(f) # {}
  BY DEF Resolve
<1>2. \A f \in Field : given[f] \in From(f)
  BY <1>1
<1> HIDE DEF From
<1>3. Typed(given)
  <2>1. \A f \in IntField \cup BoolField : given[f] \in Resolved(args, env, f)
    BY <1>2, Kinds DEF From
  <2> HIDE DEF given
  <2> QED
    BY <2>1, ResolvedKind DEF Typed, IntField, BoolField
<1>4. cfg \in FromDefaults(given)
  BY <1>1 DEF Resolve, From
<1>5. cfg \in Validate(given)
  BY <1>4 DEF FromDefaults
<1>6. Valid(given) /\ cfg = Normal(given)
  BY <1>5 DEF Validate
<1>7. \A f \in DOMAIN args : given[f] = args[f]
  <2> TAKE f \in DOMAIN args
  <2>1. f \in Field
    BY HostAssumption
  <2>2. From(f) = {args[f]}
    BY DEF From, Resolved
  <2> QED
    BY <1>2, <2>1, <2>2
<1>8. given = [f \in Field |-> given[f]]
  OBVIOUS
<1> HIDE DEF given
<1> QED
  BY <1>3, <1>6, <1>7, <1>8

\* What every host runs with.
LEMMA RuntimeIsSettled ==
  ASSUME NEW line \in Started
  PROVE  LET cfg == Runtime(line) IN
         /\ Typed(cfg)
         /\ Validate(cfg) = {cfg}
         /\ cfg.prefix_cache_l2 => cfg.prefix_cache
         /\ cfg.target_fa_window > 0 => ~cfg.prefix_cache /\ ~cfg.quantize_kv_cache
         /\ \A f \in DOMAIN Start[line].args : cfg[f] # Start[line].args[f] =>
              \/ f = "prefix_cache" /\ cfg.target_fa_window > 0
              \/ f = "prefix_cache_l2" /\ ~cfg.prefix_cache
<1>1. line \in Line /\ ContextOf(line) # {}
  BY DEF Started
<1>2. PICK context \in ContextOf(line) : Runtime(line) = context.runtime
  BY <1>1 DEF Runtime, Runtimes
<1>3. PICK cfg \in Resolve(Start[line].args, Start[line].env) : Runtime(line) \in Context(cfg)
  BY <1>2 DEF ContextOf, Normalized
<1>4. PICK given :
        /\ given = [f \in Field |-> given[f]] /\ Typed(given) /\ Valid(given)
        /\ cfg = Normal(given)
        /\ \A f \in DOMAIN Start[line].args : given[f] = Start[line].args[f]
  BY <1>1, Assembled
<1>5. /\ Typed(cfg)
      /\ Validate(cfg) = {cfg}
      /\ cfg.prefix_cache_l2 => cfg.prefix_cache
      /\ cfg.target_fa_window > 0 => ~cfg.prefix_cache /\ ~cfg.quantize_kv_cache
      /\ \A f \in Field : cfg[f] # given[f] =>
           \/ f = "prefix_cache" /\ cfg.target_fa_window > 0
           \/ f = "prefix_cache_l2" /\ ~cfg.prefix_cache
  BY <1>4, NormalIsSettled
<1>6. Runtime(line) = cfg
  BY <1>3, <1>5 DEF Context
<1>7. DOMAIN Start[line].args \subseteq Field
  BY <1>1, HostAssumption
<1> QED
  BY <1>4, <1>5, <1>6, <1>7


LEMMA StrideIsSound ==
  ASSUME NEW cfg, Typed(cfg), Validate(cfg) = {cfg}, cfg.prefix_cache_l2
  PROVE  /\ FrontierStride(cfg) % cfg.prefill_step_size = 0
         /\ FrontierStride(cfg) >= cfg.prefix_cache_l2_frontier_stride
<1> DEFINE step == cfg.prefill_step_size
           least == cfg.prefix_cache_l2_frontier_stride
           asked == Largest({MinFrontierStride, least})
           parts == (asked + step - 1) \div step
<1>1. Valid(cfg)
  BY DEF Validate
<1>2. step \in Nat \ {0} /\ least \in Nat
  <2>1. step \in Int /\ least \in Int
    BY DEF Typed, IntField
  <2>2. step > 0 /\ least >= 0
    BY <1>1 DEF Valid
  <2> QED
    BY <2>1, <2>2
<1> HIDE DEF step, least
<1>3. asked \in Nat /\ asked >= least
  BY <1>2, LargestOf DEF MinFrontierStride
<1> HIDE DEF asked
<1>4. parts \in Nat /\ parts * step >= asked
  BY <1>2, <1>3, RoundedUp
<1> HIDE DEF parts
<1> DEFINE n == Largest({1, parts})
<1>5. n \in Nat /\ n >= parts
  <2>1. parts \in Int
    BY <1>4
  <2>2. n \in {1, parts} /\ n >= parts
    BY <2>1, LargestOf
  <2> QED
    BY <1>4, <2>2
<1> HIDE DEF n
<1>6. n * step >= parts * step
  BY <1>2, <1>4, <1>5
<1>7. n * step >= least
  <2>1. n * step \in Int /\ parts * step \in Int
    BY <1>2, <1>4, <1>5
  <2> QED
    BY <1>2, <1>3, <1>4, <1>6, <2>1
<1>8. FrontierStride(cfg) = n * step
  BY DEF FrontierStride, n, parts, asked, step, least
<1>9. (n * step) % step = 0
  BY <1>2, <1>5, Multiple
<1> QED
  BY <1>7, <1>8, <1>9 DEF step, least

\* The draft keeps a token of each block, and no block is longer than its own.
LEMMA CycleIsSound ==
  ASSUME NEW cfg, cfg.verify_len_cap \in Int, NEW draft, draft.block_size \in Nat \ {0},
         draft.max_block \in Nat, NEW wanted \in Int
  PROVE  LET cycle == CycleConfig(cfg, draft, wanted) IN
         cycle.cap \in 1 .. cycle.block /\ cycle.block <= draft.block_size
<1> DEFINE least == Smallest({wanted, draft.block_size, draft.max_block})
           block == Largest({1, least})
<1>1. least \in Int /\ least <= draft.block_size
  <2>1. draft.block_size \in Int /\ draft.max_block \in Int
    OBVIOUS
  <2>2. least \in {wanted, draft.block_size, draft.max_block} /\ least <= draft.block_size
    BY <2>1, SmallestOfThree
  <2> QED
    BY <2>1, <2>2
<1> HIDE DEF least
<1>2. block \in Nat /\ block >= 1 /\ block <= draft.block_size
  <2>1. block \in {1, least} /\ block >= 1
    BY <1>1, LargestOf
  <2> QED
    BY <1>1, <2>1
<1> HIDE DEF block
<1>3. VerifyLenCap(cfg, block) \in 1 .. block
  <2> DEFINE capped == Smallest({block, cfg.verify_len_cap})
  <2>1. capped \in Int /\ capped <= block
    <3>1. block \in Int
      BY <1>2
    <3>2. capped \in {block, cfg.verify_len_cap} /\ capped <= block
      BY <3>1, SmallestOf
    <3> QED
      BY <3>1, <3>2
  <2> HIDE DEF capped
  <2>2. Largest({1, capped}) \in 1 .. block
    <3>1. capped \in Int
      BY <2>1
    <3>2. PICK one \in Int : one = 1
      OBVIOUS
    <3>3. Largest({one, capped}) \in {one, capped} /\ Largest({one, capped}) >= one
      BY <3>1, LargestOf
    <3> QED
      BY <1>2, <2>1, <3>2, <3>3
  <2> QED
    BY <1>2, <2>2 DEF VerifyLenCap, capped
<1>4. CycleConfig(cfg, draft, wanted) = [block |-> block, cap |-> VerifyLenCap(cfg, block)]
  BY DEF CycleConfig, block, least
<1> QED
  BY <1>2, <1>3, <1>4

LEMMA WindowIsSound ==
  ASSUME NEW cfg, cfg.draft_window_size \in Int, NEW draft, draft.sliding_window \in Int,
         NEW context \in Int
  PROVE  DraftWindow(cfg, draft, context) >= cfg.draft_window_size
<1> DEFINE window == Largest({1, cfg.draft_window_size, draft.sliding_window})
<1>1. window \in Int /\ window >= cfg.draft_window_size
  <2>1. PICK one \in Int, asked \in Int, slide \in Int :
          one = 1 /\ asked = cfg.draft_window_size /\ slide = draft.sliding_window
    OBVIOUS
  <2>2. /\ Largest({one, asked, slide}) \in {one, asked, slide}
        /\ Largest({one, asked, slide}) >= asked
    BY LargestOfThree
  <2> QED
    BY <2>1, <2>2
<1> HIDE DEF window
<1>2. Largest({window, context}) >= cfg.draft_window_size
  <2>1. Largest({window, context}) \in Int /\ Largest({window, context}) >= window
    BY <1>1, LargestOf
  <2> QED
    BY <1>1, <2>1
<1> QED
  BY <1>1, <1>2 DEF DraftWindow, window

\* The allocator's cache is a quarter of what may be wired.
LEMMA LimitsAreSound ==
  ASSUME NEW line \in Line, Start[line].cache = Word("auto")
  PROVE  LET limits == MetalLimits(Start[line].wired, Start[line].cache, Start[line].recommended) IN
         \A c \in limits.cache : \A w \in limits.wired : c <= w
<1> DEFINE host == Start[line]
           limits == MetalLimits(host.wired, host.cache, host.recommended)
<1>1. Word("auto") # Word("none")
  BY DEF Word
<1>2. limits.wired = CASE host.wired = Word("auto") -> host.recommended
                       [] host.wired = Word("none") -> {}
                       [] OTHER -> {host.wired.value}
  BY DEF MetalLimits
<1>3. limits.cache = {b \div 4 : b \in IF limits.wired # {} THEN limits.wired ELSE host.recommended}
  BY <1>1, <1>2 DEF MetalLimits
<1>4. limits.wired \subseteq Nat /\ \A a, b \in limits.wired : a = b
  <2>1. CASE host.wired = Word("auto")
    <3>1. limits.wired = host.recommended
      BY <1>1, <1>2, <2>1
    <3> QED
      BY <3>1, HostAssumption
  <2>2. CASE host.wired = Word("none")
    <3>1. limits.wired = {}
      BY <1>1, <1>2, <2>2
    <3> QED
      BY <3>1
  <2>3. CASE host.wired \notin {Word("auto"), Word("none")}
    <3>1. limits.wired = {host.wired.value}
      BY <1>2, <2>3
    <3>2. host.wired.value \in Nat
      BY <2>3, HostAssumption
    <3> QED
      BY <3>1, <3>2
  <2> QED
    BY <2>1, <2>2, <2>3
<1> HIDE DEF limits
<1>5. ASSUME NEW c \in limits.cache, NEW w \in limits.wired PROVE c <= w
  <2>1. PICK b \in limits.wired : c = b \div 4
    BY <1>3
  <2>2. b = w /\ w \in Nat
    BY <1>4
  <2>3. w \div 4 <= w
    BY <2>2
  <2> QED
    BY <2>1, <2>2, <2>3
<1> QED
  BY <1>5 DEF limits

LEMMA EveryLineIsSound == \A line \in Started : Sound[line]
<1> TAKE line \in Started
<1> DEFINE host == Start[line]
           cfg == Runtime(line)
<1>1. line \in Line
  BY DEF Started
<1>2. /\ Typed(cfg) /\ Validate(cfg) = {cfg}
      /\ cfg.prefix_cache_l2 => cfg.prefix_cache
      /\ cfg.target_fa_window > 0 => ~cfg.prefix_cache /\ ~cfg.quantize_kv_cache
      /\ \A f \in DOMAIN host.args : cfg[f] # host.args[f] =>
           \/ f = "prefix_cache" /\ cfg.target_fa_window > 0
           \/ f = "prefix_cache_l2" /\ ~cfg.prefix_cache
  BY RuntimeIsSettled
<1>3. /\ host.draft.block_size \in Nat \ {0} /\ host.draft.max_block \in Nat
      /\ host.draft.sliding_window \in Int /\ host.blocks \subseteq Int
  BY <1>1, HostAssumption
<1>4. cfg.verify_len_cap \in Int /\ cfg.draft_window_size \in Int
  BY <1>2 DEF Typed, IntField
<1> HIDE DEF cfg
<1>5. cfg.prefix_cache_l2 =>
        /\ FrontierStride(cfg) % cfg.prefill_step_size = 0
        /\ FrontierStride(cfg) >= cfg.prefix_cache_l2_frontier_stride
  BY <1>2, StrideIsSound
<1>6. \A wanted \in host.blocks :
        LET cycle == CycleConfig(cfg, host.draft, wanted) IN
        cycle.cap \in 1 .. cycle.block /\ cycle.block <= host.draft.block_size
  BY <1>3, <1>4, CycleIsSound
<1>7. DraftWindow(cfg, host.draft, 2 * cfg.draft_window_size) >= cfg.draft_window_size
  BY <1>3, <1>4, WindowIsSound
<1>8. host.cache = Word("auto") =>
        LET limits == MetalLimits(host.wired, host.cache, host.recommended) IN
        \A c \in limits.cache : \A w \in limits.wired : c <= w
  BY <1>1, LimitsAreSound
<1> QED
  BY <1>2, <1>5, <1>6, <1>7, <1>8 DEF Sound, cfg


-----------------------------------------------------------------------------
(* The managers made for them. *)

MadeFor(m, line) ==
  /\ manager[m].key.config = ConfigKey(Runtime(line)) /\ ~Disabled(Runtime(line))
  /\ manager[m].dir # None => Runtime(line).prefix_cache_l2

Derived == \A m \in Manager : Live(m) => \E line \in Started : MadeFor(m, line)

\* A manager keeps what it was made for, and comes to life only when it is made.
Keeps(m) ==
  /\ manager'[m].key = manager[m].key /\ manager'[m].dir = manager[m].dir
  /\ Live(m)' => Live(m)

LEMMA ClearKeeps ==
  ASSUME RInv, NEW model \in Model, ClearIdentity(model)
  PROVE  \A m \in Manager : Keeps(m)
<1>1. CASE registry[model] = None
  BY <1>1 DEF ClearIdentity, Keeps, Live
<1>2. CASE registry[model] # None
  <2>1. PICK old \in Manager : registry[model] = old
    BY <1>2 DEF RInv, Types
  <2>2. Live(old)
    BY <1>2, <2>1 DEF RInv, Registered
  <2>3. ShutDown(old) \/ ShutdownRaises(old)
    BY <1>2, <2>1 DEF ClearIdentity
  <2> QED
    BY <2>2, <2>3 DEF ShutDown, ShutdownRaises, Keeps, Live, RInv, Records
<1> QED
  BY <1>1, <1>2

OfManagers(f) == f = [m \in Manager |-> f[m]]

LEMMA MakeDerives ==
  ASSUME NEW model \in Model, NEW line \in Started, NEW owners, NEW managers,
         NEW new \in Manager, ~Disabled(Runtime(line)),
         OfManagers(managers),
         Make(model, KeyOf(model, line, FALSE), line, new, owners, managers)
  PROVE  /\ MadeFor(new, line)'
         /\ \A m \in Manager : m # new => manager'[m] = managers[m]
<1> DEFINE key == KeyOf(model, line, FALSE)
<1>1. key.config = ConfigKey(Runtime(line))
  BY DEF KeyOf
<1> HIDE DEF key
<1>2. PICK dir \in {None} \cup (IF Runtime(line).prefix_cache_l2
                                THEN {Runtime(line).prefix_cache_l2_dir} ELSE {}) :
        manager' = [managers EXCEPT ![new] = NewManager(model, key, dir, owners)]
  BY DEF Make, key
<1>3. manager'[new] = NewManager(model, key, dir, owners)
  BY <1>2 DEF OfManagers
<1>4. manager'[new].key = key /\ manager'[new].dir = dir
  BY <1>3 DEF NewManager
<1>5. dir # None => Runtime(line).prefix_cache_l2
  OBVIOUS
<1>6. \A m \in Manager : m # new => manager'[m] = managers[m]
  BY <1>2 DEF OfManagers
<1> QED
  BY <1>1, <1>4, <1>5, <1>6 DEF MadeFor

LEMMA OpeningDerives ==
  ASSUME RInv, Derived, NEW t \in Thread, NEW model \in Model, NEW line \in Started,
         Opening(t, model, line)
  PROVE  Derived'
<1>1. manager = [m \in Manager |-> manager[m]]
  BY DEF RInv, Records
<1>2. PICK new, owners, managers :
        /\ new \in Manager
        /\ Make(model, KeyOf(model, line, FALSE), line, new, owners, managers)
        /\ ~Disabled(Runtime(line))
        /\ OfManagers(managers)
        /\ \A m \in Manager : /\ managers[m].key = manager[m].key
                              /\ managers[m].dir = manager[m].dir
                              /\ managers[m].status \in {manager[m].status, "closed"}
  <2>1. CASE ResolveNew(t, model, line)
    BY <1>1, <2>1 DEF ResolveNew, OfManagers
  <2>2. CASE ResolveOther(t, model, line)
    <3>1. PICK old \in Manager : registry[model] = old
      BY <2>2, NoneAssumption DEF ResolveOther, Misfit, RInv, Types
    <3> DEFINE owners == [d \in Dir |-> IF owner[d] = old THEN None ELSE owner[d]]
               managers == [manager EXCEPT ![old].status = "closed"]
    <3>2. PICK new \in Manager : Make(model, KeyOf(model, line, FALSE), line, new, owners, managers)
      BY <2>2, <3>1 DEF ResolveOther
    <3>3. /\ OfManagers(managers)
          /\ \A m \in Manager : /\ managers[m].key = manager[m].key
                                /\ managers[m].dir = manager[m].dir
                                /\ managers[m].status \in {manager[m].status, "closed"}
      BY DEF RInv, Records, OfManagers
    <3>4. ~Disabled(Runtime(line))
      BY <2>2 DEF ResolveOther
    <3> HIDE DEF owners, managers
    <3> QED
      BY <3>2, <3>3, <3>4
  <2> QED
    BY <2>1, <2>2 DEF Opening
<1>3. /\ MadeFor(new, line)'
      /\ \A m \in Manager : m # new => manager'[m] = managers[m]
  BY <1>2, MakeDerives DEF MadeFor
<1>4. ASSUME NEW m \in Manager, Live(m)'
      PROVE  \E l \in Started : MadeFor(m, l)'
  <2>1. CASE m = new
    BY <1>3, <2>1
  <2>2. CASE m # new
    <3>1. Live(m)
      BY <1>2, <1>3, <1>4, <2>2 DEF Live
    <3>2. PICK l \in Started : MadeFor(m, l)
      BY <3>1 DEF Derived
    <3>3. manager'[m].key = manager[m].key /\ manager'[m].dir = manager[m].dir
      BY <1>2, <1>3, <2>2
    <3> QED
      BY <3>2, <3>3 DEF MadeFor
  <2> QED
    BY <2>1, <2>2
<1> QED
  BY <1>4 DEF Derived

LEMMA OthersKeep ==
  ASSUME RInv, [Next]_vars,
         \A t \in Thread, model \in Model, line \in Started : ~Opening(t, model, line)
  PROVE  \A m \in Manager : Keeps(m)
<1>1. ASSUME UNCHANGED manager
      PROVE  \A m \in Manager : Keeps(m)
  BY <1>1 DEF Keeps, Live
<1>2. CASE UNCHANGED vars
  BY <1>1, <1>2 DEF vars
<1>3. \A model \in Model : ClearIdentity(model) => \A m \in Manager : Keeps(m)
  BY ClearKeeps
<1>4. ASSUME NEW t \in Thread, NEW model \in Model, NEW line \in Started, Resolve_(t, model, line)
      PROVE  \A m \in Manager : Keeps(m)
  <2>1. CASE ResolveNone(t, model, line)
    BY <1>3, <2>1 DEF ResolveNone
  <2>2. CASE ResolveSame(t, model, line)
    BY <1>1, <2>2 DEF ResolveSame
  <2>3. CASE ResolveRaises(t, model, line)
    <3>1. PICK old \in Manager : registry[model] = old
      BY <2>3 DEF ResolveRaises, Misfit, RInv, Types
    <3>2. Live(old)
      BY <3>1, NoneAssumption DEF RInv, Registered
    <3>3. ShutdownRaises(old)
      BY <2>3, <3>1 DEF ResolveRaises
    <3> QED
      BY <3>2, <3>3 DEF ShutdownRaises, Keeps, Live, RInv, Records
  <2> QED
    BY <1>4, <2>1, <2>2, <2>3 DEF Resolve_, Opening
<1>5. ASSUME NEW t \in Thread, NEW model \in Model, NEW line \in Started, NEW bare \in BOOLEAN,
             Sync(t, model, line, bare)
      PROVE  \A m \in Manager : Keeps(m)
  BY <1>1, <1>3, <1>5 DEF Sync
<1>6. ASSUME NEW t \in Thread, NEW model \in Model, Unload(t, model)
      PROVE  \A m \in Manager : Keeps(m)
  BY <1>3, <1>6 DEF Unload
<1>7. ASSUME NEW t \in Thread, Lookup(t) \/ LogStats(t) \/ Publish(t) \/ StartSweep(t)
      PROVE  \A m \in Manager : Keeps(m)
  BY <1>1, <1>7 DEF Lookup, LogStats, Publish, StartSweep
<1>8. ASSUME NEW t \in Thread, BeginRequest(t) \/ EndRequest(t)
      PROVE  \A m \in Manager : Keeps(m)
  BY <1>8 DEF BeginRequest, EndRequest, Keeps, Live, RInv, Records
<1>9. ASSUME NEW t \in Thread, SweepOne(t)
      PROVE  \A m \in Manager : Keeps(m)
  <2>1. PICK model \in sweep : ShutDown(registry[model]) \/ ShutdownRaises(registry[model])
    BY <1>9 DEF SweepOne
  <2>2. PICK old \in Manager : registry[model] = old
    BY NoneAssumption DEF RInv, Current, Types
  <2>3. Live(old)
    BY <2>2, NoneAssumption DEF RInv, Types, Registered
  <2> QED
    BY <2>1, <2>2, <2>3 DEF ShutDown, ShutdownRaises, Keeps, Live, RInv, Records
<1> QED
  BY <1>2, <1>4, <1>5, <1>6, <1>7, <1>8, <1>9 DEF Next

\* Whatever a host is started with, the configuration it runs with is settled
\* and consistent, its strides, blocks, windows and limits are what the cache,
\* the decode loop and the allocator rely on, and every manager that still has
\* a store was made for such a configuration, one with a cache.
THEOREM ConfigurationsAreSound == Spec => []ConfigIsSound
<1>1. Init => Derived
  BY DEF Init, Derived, Unmade, Live
<1>2. ASSUME RInv, BInv, Derived, [Next]_vars
      PROVE  Derived'
  <2>1. CASE \E t \in Thread, model \in Model, line \in Started : Opening(t, model, line)
    BY <1>2, <2>1, OpeningDerives
  <2>2. CASE \A t \in Thread, model \in Model, line \in Started : ~Opening(t, model, line)
    <3>1. \A m \in Manager : Keeps(m)
      BY <1>2, <2>2, OthersKeep
    <3> QED
      BY <1>2, <3>1 DEF Derived, Keeps, MadeFor
  <2> QED
    BY <2>1, <2>2
<1>3. Spec => []Derived
  BY <1>1, <1>2, Invariance, PTL DEF Spec
<1>4. Derived => ConfigIsSound
  BY EveryLineIsSound DEF Derived, MadeFor, ConfigIsSound
<1> QED
  BY <1>3, <1>4, PTL

==============================================================================
