---------------------------- MODULE PrefixStoreProofs ----------------------------
(***************************************************************************)
(* Proofs about the two-level store, for all snapshots, requests and       *)
(* limits.  They rest on what PrefixL1Proofs and PrefixL2Proofs prove of   *)
(* an operation of either level, which is cited through an instance of     *)
(* those modules.                                                          *)
(***************************************************************************)
EXTENDS PrefixStore, FiniteSetTheorems, SequenceTheorems, TLAPS

L1P == INSTANCE PrefixL1Proofs WITH CrossKindPrune <- TRUE, reply <- found
L2P == INSTANCE PrefixL2Proofs WITH Proc <- {server}, MaxBytes <- MaxDiskBytes, Rotten <- {},
        SlowJoin <- FALSE, MaxActive <- 1, MaxEpoch <- 0, reply <- found

-----------------------------------------------------------------------------
(* The instances name the same operations the store is built from *)

LEMMA SameInsert ==
  ASSUME NEW s PROVE L1!Insert(s) <=> L1P!Insert(s)
<1>1. ASSUME NEW E, NEW order PROVE L1!Evictions(E, order) = L1P!Evictions(E, order)
  BY DEF L1!Evictions, L1P!Evictions, L1!OverBudget, L1P!OverBudget, L1!Without,
         L1P!Without, L1!Bytes, L1P!Bytes, L1!Total, L1P!Total, L1!Units,
         L1P!Units, L1!ToSet, L1P!ToSet, L1!Cardinality, L1P!Cardinality
<1>2. ASSUME NEW E
      PROVE  /\ L1!Doomed(E, s) = L1P!Doomed(E, s)
             /\ L1!DoomedSame(E, s) = L1P!DoomedSame(E, s)
             /\ L1!DoomedCross(E, s) = L1P!DoomedCross(E, s)
  BY DEF L1!Doomed, L1P!Doomed, L1!DoomedCross, L1P!DoomedCross, L1!DoomedSame,
         L1P!DoomedSame, L1!AlignedFrontier, L1P!AlignedFrontier,
         L1!Extended, L1P!Extended, L1!IsPrefix, L1P!IsPrefix
<1>3. /\ L1!TooLong(s) <=> L1P!TooLong(s)
      /\ L1!YieldsToPrefill(entries, s) <=> L1P!YieldsToPrefill(entries, s)
      /\ L1!NoOutcome = L1P!NoOutcome
  BY DEF L1!TooLong, L1P!TooLong, L1!YieldsToPrefill, L1P!YieldsToPrefill,
         L1!Extended, L1P!Extended, L1!IsPrefix, L1P!IsPrefix, L1!NoOutcome,
         L1P!NoOutcome
<1>4. ASSUME NEW order, NEW K PROVE L1!DropIds(order, K) = L1P!DropIds(order, K)
  BY DEF L1!DropIds, L1P!DropIds, L1!SelectAt, L1P!SelectAt, L1!Nth, L1P!Nth,
         L1!Cardinality, L1P!Cardinality
<1>5. ASSUME NEW E, NEW ids PROVE L1!SnapshotsOf(E, ids) = L1P!SnapshotsOf(E, ids)
  BY DEF L1!SnapshotsOf, L1P!SnapshotsOf
<1>6. ASSUME NEW K PROVE L1!Ascending(K) = L1P!Ascending(K)
  BY DEF L1!Ascending, L1P!Ascending, L1!Nth, L1P!Nth, L1!Cardinality,
         L1P!Cardinality
<1>7. ASSUME NEW E, NEW S PROVE L1!Without(E, S) = L1P!Without(E, S)
  BY DEF L1!Without, L1P!Without
<1>8. ASSUME NEW order PROVE L1!ToSet(order) = L1P!ToSet(order)
  BY DEF L1!ToSet, L1P!ToSet
<1> QED
  BY <1>1, <1>2, <1>3, <1>4, <1>5, <1>6, <1>7, <1>8 DEF L1!Insert, L1P!Insert

LEMMA SameHit == ASSUME NEW E, NEW r PROVE L1!Hit(E, r) = L1P!Hit(E, r)
  BY DEF L1!Hit, L1P!Hit, L1!Best, L1P!Best, L1!Heaviest, L1P!Heaviest, L1!Answers,
         L1P!Answers, L1!SliceAtBoundary, L1P!SliceAtBoundary,
         L1!UsableWhole, L1P!UsableWhole, L1!UsableAtBoundary,
         L1P!UsableAtBoundary, L1!Fits, L1P!Fits, L1!CoversPrefix,
         L1P!CoversPrefix, L1!IsPrefix, L1P!IsPrefix

LEMMA SameLookup == ASSUME NEW r PROVE L1!Lookup(r) <=> L1P!Lookup(r)
  BY DEF L1!Lookup, L1P!Lookup, L1!MissReply, L1P!MissReply, L1!Consumed,
         L1P!Consumed, L1!Without, L1P!Without, L1!DropIds, L1P!DropIds,
         L1!Touched, L1P!Touched, L1!SelectAt, L1P!SelectAt, L1!Nth,
         L1P!Nth, L1!Cardinality, L1P!Cardinality, L1!Hit, L1P!Hit, L1!Best,
         L1P!Best, L1!Heaviest, L1P!Heaviest, L1!Answers, L1P!Answers,
         L1!SliceAtBoundary, L1P!SliceAtBoundary, L1!UsableWhole,
         L1P!UsableWhole, L1!UsableAtBoundary, L1P!UsableAtBoundary,
         L1!Fits, L1P!Fits, L1!CoversPrefix, L1P!CoversPrefix, L1!IsPrefix,
         L1P!IsPrefix

LEMMA SameStart == (L1!Init <=> L1P!Init) /\ L1!Held = L1P!Held
  BY DEF L1!Init, L1P!Init, L1!NoOutcome, L1P!NoOutcome, L1!Held, L1P!Held

LEMMA SameWriter == L2!WriterStep(server) <=> L2P!WriterStep(server)
  BY DEF L2!WriterStep, L2P!WriterStep, L2!Get, L2P!Get, L2!PassGate, L2P!PassGate,
         L2!CheckEpoch, L2P!CheckEpoch, L2!StartSave, L2P!StartSave,
         L2!FinishSave, L2P!FinishSave, L2!CheckPayload, L2P!CheckPayload,
         L2!Replace, L2P!Replace, L2!StartEvict, L2P!StartEvict, L2!Walk,
         L2P!Walk, L2!Observe, L2P!Observe, L2!Sweep, L2P!Sweep,
         L2!Subtract, L2P!Subtract, L2!At, L2P!At, L2!Goto, L2P!Goto,
         L2!EndJob, L2P!EndJob, L2!Asleep, L2P!Asleep, L2!NoJob, L2P!NoJob,
         L2!Current, L2P!Current, L2!OnDisk, L2P!OnDisk, L2!ToSet,
         L2P!ToSet, L2!Bytes, L2P!Bytes, L2!Total, L2P!Total, L2!Units,
         L2P!Units, L2!Cardinality, L2P!Cardinality, L2!Unlink, L2P!Unlink,
         L2!Kept, L2P!Kept, L2!SelectAt, L2P!SelectAt, L2!Nth, L2P!Nth

LEMMA SameInit == L2!Init <=> L2P!Init
  BY DEF L2!Init, L2P!Init, L2!Down, L2P!Down, L2!Asleep, L2P!Asleep, L2!NoJob,
         L2P!NoJob, L2!Quiet, L2P!Quiet

LEMMA SameOpen == (L2!Open(server) <=> L2P!Open(server)) /\ (L2!Crash(server) <=> L2P!Crash(server))
  BY DEF L2!Open, L2P!Open, L2!Crash, L2P!Crash, L2!Down, L2P!Down, L2!Asleep,
         L2P!Asleep, L2!NoJob, L2P!NoJob, L2!Quiet, L2P!Quiet, L2!Bytes,
         L2P!Bytes, L2!Total, L2P!Total, L2!Units, L2P!Units, L2!ToSet,
         L2P!ToSet, L2!Cardinality, L2P!Cardinality

LEMMA SameBrackets == (L2!BeginRequest(server) <=> L2P!BeginRequest(server)) /\ (L2!EndRequest(server) <=> L2P!EndRequest(server))
  BY DEF L2!BeginRequest, L2P!BeginRequest, L2!EndRequest, L2P!EndRequest, L2!Ready,
         L2P!Ready, L2!OpenGate, L2P!OpenGate

LEMMA SameEnd == (L2!Shutdown(server) <=> L2P!Shutdown(server)) /\ (L2!Joined(server) <=> L2P!Joined(server))
  BY DEF L2!Shutdown, L2P!Shutdown, L2!Joined, L2P!Joined, L2!Ready, L2P!Ready,
         L2!OpenGate, L2P!OpenGate, L2!Ended, L2P!Ended

LEMMA SameOffer == ASSUME NEW s PROVE L2!Insert(server, s) <=> L2P!Insert(server, s)
  BY DEF L2!Insert, L2P!Insert, L2!Ready, L2P!Ready, L2!Accepts, L2P!Accepts,
         L2!OnDisk, L2P!OnDisk, L2!ToSet, L2P!ToSet

LEMMA SameScan == ASSUME NEW r, NEW n PROVE L2!Lookup(server, r, n) <=> L2P!Lookup(server, r, n)
  BY DEF L2!Lookup, L2P!Lookup, L2!Ready, L2P!Ready, L2!Candidates, L2P!Candidates,
         L2!CoversPrefix, L2P!CoversPrefix, L2!IsPrefix, L2P!IsPrefix,
         L2!ToSet, L2P!ToSet

LEMMA SameLoad == (L2!Load(server) <=> L2P!Load(server)) /\ (L2!Recount(server) <=> L2P!Recount(server))
  BY DEF L2!Load, L2P!Load, L2!Serves, L2P!Serves, L2!Answers, L2P!Answers,
         L2!Foremost, L2P!Foremost, L2!OnDisk, L2P!OnDisk, L2!Newest,
         L2P!Newest, L2!Unlink, L2P!Unlink, L2!Kept, L2P!Kept, L2!SelectAt,
         L2P!SelectAt, L2!Nth, L2P!Nth, L2!MissReply, L2P!MissReply,
         L2!Quiet, L2P!Quiet, L2!ToSet, L2P!ToSet, L2!Cardinality,
         L2P!Cardinality, L2!Recount, L2P!Recount, L2!Bytes, L2P!Bytes,
         L2!Total, L2P!Total, L2!Units, L2P!Units

LEMMA SameStored == L2!Stored = L2P!Stored
  BY DEF L2!Stored, L2P!Stored, L2!Pending, L2P!Pending, L2!ToSet, L2P!ToSet

LEMMA SameSnapshotTests ==
  ASSUME NEW s, NEW r
  PROVE  /\ (IsSnapshot(s) <=> L1P!IsSnapshot(s)) /\ (IsSnapshot(s) <=> L2P!IsSnapshot(s))
         /\ (IsRequest(r) <=> L1P!IsRequest(r)) /\ (IsRequest(r) <=> L2P!IsRequest(r))
  BY DEF IsSnapshot, L1P!IsSnapshot, L2P!IsSnapshot, IsRequest, L1P!IsRequest, L2P!IsRequest,
         Kinds, L1P!Kinds, L2P!Kinds

LEMMA LevelsAssumption == L1P!L1Assumption /\ L2P!L2Assumption
<1>1. L1P!L1Assumption
  BY StoreAssumption, SameSnapshotTests DEF StoreAssumption, L1P!L1Assumption
<1>2. L2P!L2Assumption
  BY StoreAssumption, SameSnapshotTests DEF StoreAssumption, L2P!L2Assumption
<1> QED
  BY <1>1, <1>2

-----------------------------------------------------------------------------
(* Lists: the lemmas of the two levels, of the operators of this module. *)

LEMMA FiniteList ==
  ASSUME NEW S, NEW s \in Seq(S)
  PROVE  ToSet(s) \subseteq S /\ IsFiniteSet(ToSet(s))
<1>1. DOMAIN s = 1 .. Len(s) /\ Len(s) \in Nat
  BY LenProperties
<1>2. IsFiniteSet(DOMAIN s)
  BY <1>1, FS_Interval
<1>3. s \in Surjection(DOMAIN s, ToSet(s))
  BY <1>1 DEF Surjection, ToSet
<1>4. ToSet(s) \subseteq S
  BY <1>1, ElementOfSeq DEF ToSet
<1> QED
  BY <1>2, <1>3, <1>4, FS_Surjection

LEMMA ElementsOfConcat ==
  ASSUME NEW S, NEW s \in Seq(S), NEW t \in Seq(S)
  PROVE  s \o t \in Seq(S) /\ ToSet(s \o t) = ToSet(s) \cup ToSet(t)
<1>1. /\ ToSet(s) = L1P!ToSet(s) /\ ToSet(t) = L1P!ToSet(t)
      /\ ToSet(s \o t) = L1P!ToSet(s \o t)
  BY DEF ToSet, L1P!ToSet
<1> QED
  BY <1>1, LevelsAssumption, L1P!ElementsOfConcat DEF L1P!L1Assumption

LEMMA ElementsOfTail ==
  ASSUME NEW S, NEW s \in Seq(S), s # << >>
  PROVE  /\ Head(s) \in S /\ Tail(s) \in Seq(S)
         /\ ToSet(s) = {Head(s)} \cup ToSet(Tail(s))
<1>1. ToSet(s) = L2P!ToSet(s) /\ ToSet(Tail(s)) = L2P!ToSet(Tail(s))
  BY DEF ToSet, L2P!ToSet
<1> QED
  BY <1>1, LevelsAssumption, L2P!ElementsOfTail DEF L2P!L2Assumption

-----------------------------------------------------------------------------
(* The levels stay well formed *)

Levels ==
  /\ L1P!EntriesOK /\ L1P!OrderInv
  /\ L2P!L2Inv /\ L2P!DirInv /\ L2P!OwnerInv

\* The steps of a level that the store takes.
L1Moves ==
  \/ \E s \in Snapshot : L1P!Insert(s)
  \/ \E r \in Request : L1P!Lookup(r)

L2Moves == L2P!Step(server)

LEMMA LevelsInit == Init => Levels
<1> SUFFICES ASSUME Init PROVE Levels
  OBVIOUS
<1>1. L1P!Init /\ L2P!Init
  BY SameStart, SameInit DEF Init
<1>2. L1P!CacheInv
  BY <1>1, LevelsAssumption, L1P!InitCache
<1>3. L2P!L2Inv /\ L2P!DirInv /\ L2P!OwnerInv
  BY <1>1, LevelsAssumption, L2P!InitInv, L2P!DirInit, L2P!OwnerInit
<1> QED
  BY <1>2, <1>3 DEF Levels, L1P!CacheInv, L1P!IInv

LEMMA L1Stays ==
  ASSUME L1P!EntriesOK, L1P!OrderInv, L1Moves \/ UNCHANGED l1vars
  PROVE  L1P!EntriesOK' /\ L1P!OrderInv'
<1>1. CASE UNCHANGED l1vars
  BY <1>1 DEF l1vars, L1P!EntriesOK, L1P!OrderInv, L1P!ListedByUse
<1>2. ASSUME NEW s \in Snapshot, L1P!Insert(s)
      PROVE  L1P!EntriesOK' /\ L1P!OrderInv'
  <2>1. L1P!OrderInv'
    BY <1>2, LevelsAssumption, L1P!InsertKeepsOrder
  <2>2. \/ entries' = entries /\ nextId' = nextId
        \/ /\ nextId' = nextId + 1
           /\ DOMAIN entries' \subseteq (DOMAIN entries \ L1P!Doomed(entries, s)) \cup {nextId}
           /\ \A i \in DOMAIN entries' :
                entries'[i] = IF i = nextId THEN s ELSE entries[i]
    BY <1>2, LevelsAssumption, L1P!InsertShrinks
  <2>3. L1P!EntriesOK'
    BY <2>2 DEF L1P!EntriesOK
  <2> QED
    BY <2>1, <2>3
<1>3. ASSUME NEW r \in Request, L1P!Lookup(r)
      PROVE  L1P!EntriesOK' /\ L1P!OrderInv'
  <2>1. L1P!OrderInv'
    BY <1>3, LevelsAssumption, L1P!LookupKeepsOrder
  <2>2. /\ nextId' = nextId
        /\ DOMAIN entries' \subseteq DOMAIN entries
        /\ \A i \in DOMAIN entries' : entries'[i] = entries[i]
    BY <1>3, LevelsAssumption, L1P!OthersShrink
  <2>3. L1P!EntriesOK'
    BY <2>2 DEF L1P!EntriesOK
  <2> QED
    BY <2>1, <2>3
<1> QED
  BY <1>1, <1>2, <1>3 DEF L1Moves

LEMMA L2Stays ==
  ASSUME L2P!L2Inv, L2P!DirInv, L2P!OwnerInv, L2Moves \/ UNCHANGED l2vars
  PROVE  L2P!L2Inv' /\ L2P!DirInv' /\ L2P!OwnerInv'
<1>1. CASE UNCHANGED l2vars
  BY <1>1 DEF l2vars, L2P!L2Inv, L2P!PInv, L2P!Shape, L2P!Working, L2P!Counted, L2P!Gated,
              L2P!DirInv, L2P!Fields, L2P!Asking, L2P!Walking, L2P!OwnerInv, L2P!Ended
<1>2. CASE L2Moves
  <2>1. L2P!Next
    BY <1>2 DEF L2Moves, L2P!Step, L2P!Next
  <2>2. L2P!L2Inv' /\ L2P!DirInv'
    BY <2>1, LevelsAssumption, L2P!StepInv, L2P!DirNext
  <2>3. L2P!OwnerInv'
    BY <1>2, LevelsAssumption, L2P!OwnerStep DEF L2Moves
  <2> QED
    BY <2>2, <2>3
<1> QED
  BY <1>1, <1>2

-----------------------------------------------------------------------------
(* Calls and requests *)

\* Where a call and the request it serves can stand.
Phases ==
  /\ call \in [op : {"none", "search", "spill", "close", "join"}, todo : Seq(Snapshot)]
  /\ call.op \notin {"spill", "close"} => call.todo = << >>
  /\ DOMAIN request = {"stage", "req", "answer"}
  /\ request.stage = "lookup" => request.req \in Request /\ call.op \in {"search", "spill"}
  /\ call.op = "search" => request.stage = "lookup"
  /\ client[server].pc \in IF call.op = "search" THEN {"idle", "load", "recount"}
                           ELSE IF call.op = "join" THEN {"join"} ELSE {"idle"}
  /\ manager \in [retired : BOOLEAN, complete : BOOLEAN]

\* The way to the end: a manager is retired before its writer is told to end,
\* and complete when the writer has.
Ending ==
  /\ proc[server].up \in {"down", "up", "closed"}
  /\ proc[server].up = "down" =>
       call.op = "none" /\ request.stage = "none" /\ ~manager.retired /\ ~manager.complete
  /\ proc[server].up = "closed" => manager.complete
  /\ call.op \in {"close", "join"} => manager.retired
  /\ manager.complete =>
       manager.retired /\ call.op = "none" /\ ~proc[server].owner /\ L2!Ended(server)
  /\ proc[server].poison \/ proc[server].stop => call.op = "join" \/ manager.complete
  /\ writer[server].pc = "exited" =>
       (call.op = "join" \/ manager.complete) /\ proc[server].queue = << >>

\* The brackets that have reached L2.
Bracketed ==
  proc[server].up = "up" /\ ~manager.retired =>
    proc[server].active = IF request.stage = "serving" THEN 1 ELSE 0

\* The fields of the disk cache that only opening, the brackets and the end change.
SameStanding ==
  \A f \in {"up", "owner", "poison", "stop", "active"} : proc'[server][f] = proc[server][f]

LEMMA Records ==
  ASSUME Levels
  PROVE  /\ server \in DOMAIN proc /\ server \in DOMAIN writer /\ server \in DOMAIN client
         /\ L2P!Fields(server)
         /\ proc[server].queue \in Seq(L2P!Job) /\ proc[server].active \in Nat
  BY DEF Levels, L2P!L2Inv, L2P!DirInv, L2P!PInv, L2P!Shape

LEMMA WriterKeeps ==
  ASSUME Levels, L2!WriterStep(server)
  PROVE  /\ SameStanding /\ client' = client /\ found' = found
         /\ ~L2!Ended(server)
         /\ writer'[server].pc = "exited" =>
              /\ proc[server].poison \/ proc[server].stop
              /\ proc'[server].queue = << >>
<1> USE DEF L2!At, L2!Goto
<1>1. /\ server \in DOMAIN proc /\ server \in DOMAIN writer
      /\ L2P!Fields(server)
  BY Records
<1>2. client' = client /\ found' = found /\ ~L2!Ended(server)
  BY DEF L2!WriterStep, L2!Get, L2!PassGate, L2!CheckEpoch, L2!StartSave, L2!FinishSave,
         L2!CheckPayload, L2!Replace, L2!StartEvict, L2!Walk, L2!Observe, L2!Sweep,
         L2!Subtract, L2!Ended
<1>3. ASSUME NEW pc, L2!EndJob(server, pc) PROVE SameStanding /\ writer'[server].pc = pc
  <2>1. writer'[server].pc = pc
    BY <1>1, <1>3 DEF L2!EndJob, L2!Asleep
  <2>2. SameStanding
    BY <1>1, <1>3 DEF L2!EndJob, SameStanding, L2P!Fields
  <2> QED
    BY <2>1, <2>2
<1>4. CASE L2!Get(server)
  <2>1. SameStanding
    BY <1>1, <1>4 DEF L2!Get, SameStanding, L2P!Fields
  <2>2. CASE proc[server].queue # << >>
    <3>1. writer'[server].pc = "gate"
      BY <1>1, <1>4, <2>2 DEF L2!Get, L2P!Fields
    <3> QED
      BY <1>2, <2>1, <3>1
  <2>3. CASE proc[server].queue = << >>
    BY <1>2, <1>4, <2>1, <2>3 DEF L2!Get
  <2> QED
    BY <2>2, <2>3
<1>5. CASE \/ L2!PassGate(server) \/ L2!StartSave(server) \/ L2!Walk(server)
           \/ L2!Observe(server) \/ L2!Subtract(server)
  <2>1. SameStanding
    BY <1>1, <1>5 DEF L2!PassGate, L2!StartSave, L2!Walk, L2!Observe, L2!Subtract,
                      SameStanding, L2P!Fields
  <2>2. writer'[server].pc # "exited"
    BY <1>1, <1>5 DEF L2!PassGate, L2!StartSave, L2!Walk, L2!Observe, L2!Subtract, L2P!Fields
  <2> QED
    BY <1>2, <2>1, <2>2
<1>6. CASE L2!CheckEpoch(server) \/ L2!FinishSave(server) \/ L2!CheckPayload(server)
  <2>1. \/ L2!EndJob(server, "get") \/ L2!EndJob(server, "dead")
        \/ /\ UNCHANGED proc
           /\ L2!Goto(server, "save") \/ L2!Goto(server, "payload") \/ L2!Goto(server, "replace")
    BY <1>6 DEF L2!CheckEpoch, L2!FinishSave, L2!CheckPayload
  <2>2. SameStanding
    BY <1>3, <2>1 DEF SameStanding
  <2>3. writer'[server].pc # "exited"
    BY <1>1, <1>3, <2>1 DEF L2P!Fields
  <2> QED
    BY <1>2, <2>2, <2>3
<1>7. CASE L2!Replace(server)
  <2>1. \/ L2!EndJob(server, "get")
        \/ /\ proc' = [proc EXCEPT ![server].tracked = @ + writer[server].job.snap.size]
           /\ writer' = [writer EXCEPT ![server].pc = "evict", ![server].tmp = FALSE]
    BY <1>7 DEF L2!Replace
  <2>2. SameStanding
    BY <1>1, <1>3, <2>1 DEF SameStanding, L2P!Fields
  <2>3. writer'[server].pc # "exited"
    BY <1>1, <1>3, <2>1 DEF L2P!Fields
  <2> QED
    BY <1>2, <2>2, <2>3
<1>8. CASE L2!StartEvict(server) \/ L2!Sweep(server)
  <2>1. \/ L2!EndJob(server, "get")
        \/ /\ UNCHANGED proc
           /\ \/ L2!Goto(server, "walk") \/ L2!Goto(server, "subtract")
              \/ writer' = [writer EXCEPT ![server].walk = Tail(@)] /\ L2!At(server, "sweep")
    BY <1>8 DEF L2!StartEvict, L2!Sweep
  <2>2. SameStanding
    BY <1>3, <2>1 DEF SameStanding
  <2>3. writer'[server].pc # "exited"
    BY <1>1, <1>3, <2>1 DEF L2P!Fields
  <2> QED
    BY <1>2, <2>2, <2>3
<1> QED
  BY <1>4, <1>5, <1>6, <1>7, <1>8 DEF L2!WriterStep

\* The operations of the request thread, as far as the phases go.
LEMMA CallKeeps ==
  ASSUME Levels
  PROVE  /\ \A r, n : L2!Lookup(server, r, n) =>
              /\ SameStanding /\ writer' = writer /\ proc' = proc /\ client'[server].pc = "load"
         /\ L2!Load(server) =>
              /\ SameStanding /\ writer' = writer /\ proc' = proc
              /\ client'[server].pc \in {"idle", "load", "recount"}
         /\ L2!Recount(server) =>
              /\ SameStanding /\ writer' = writer /\ client'[server].pc = "load"
              /\ proc'[server].queue = proc[server].queue
         /\ \A s : L2!Insert(server, s) =>
              /\ SameStanding /\ writer' = writer /\ client' = client /\ found' = found
              /\ proc'[server].queue = proc[server].queue \/ proc[server].owner
<1>1. /\ server \in DOMAIN proc /\ server \in DOMAIN writer /\ server \in DOMAIN client
      /\ L2P!Fields(server)
  BY Records
<1>2. ASSUME NEW r, NEW n, L2!Lookup(server, r, n)
      PROVE  /\ SameStanding /\ writer' = writer /\ proc' = proc
             /\ client'[server].pc = "load"
  BY <1>1, <1>2 DEF L2!Lookup, SameStanding
<1>3. ASSUME L2!Load(server)
      PROVE  /\ SameStanding /\ writer' = writer /\ proc' = proc
             /\ client'[server].pc \in {"idle", "load", "recount"}
  <2>1. proc' = proc /\ writer' = writer /\ client[server].pc = "load"
    BY <1>3 DEF L2!Load
  <2>2. \/ client' = [client EXCEPT ![server] = L2!Quiet]
        \/ \E c : client' = [client EXCEPT ![server].cands = c, ![server].pc = "recount"]
        \/ \E c : client' = [client EXCEPT ![server].cands = c]
    BY <1>3 DEF L2!Load
  <2>3. CASE client' = [client EXCEPT ![server] = L2!Quiet]
    BY <1>1, <2>1, <2>3 DEF SameStanding, L2!Quiet
  <2>4. ASSUME NEW c, client' = [client EXCEPT ![server].cands = c, ![server].pc = "recount"]
        PROVE  client'[server].pc = "recount"
    BY <1>1, <2>4 DEF L2P!Fields
  <2>5. ASSUME NEW c, client' = [client EXCEPT ![server].cands = c]
        PROVE  client'[server].pc = "load"
    BY <1>1, <2>1, <2>5 DEF L2P!Fields
  <2> QED
    BY <2>1, <2>2, <2>3, <2>4, <2>5 DEF SameStanding
<1>4. ASSUME L2!Recount(server)
      PROVE  /\ SameStanding /\ writer' = writer /\ client'[server].pc = "load"
             /\ proc'[server].queue = proc[server].queue
  BY <1>1, <1>4 DEF L2!Recount, SameStanding, L2P!Fields
<1>5. ASSUME NEW s, L2!Insert(server, s)
      PROVE  /\ SameStanding /\ writer' = writer /\ client' = client /\ found' = found
             /\ proc'[server].queue = proc[server].queue \/ proc[server].owner
  BY <1>1, <1>5 DEF L2!Insert, L2!Accepts, SameStanding, L2P!Fields
<1> QED
  BY <1>2, <1>3, <1>4, <1>5

LEMMA BracketKeeps ==
  ASSUME Levels
  PROVE  /\ L2!BeginRequest(server) => 
              /\ client' = client /\ writer' = writer /\ L2!Ready(server)
              /\ proc'[server].active = proc[server].active + 1
              /\ \A f \in {"up", "owner", "poison", "stop", "queue"} :
                   proc'[server][f] = proc[server][f]
         /\ L2!EndRequest(server) =>
              /\ client' = client /\ writer'[server].pc = writer[server].pc /\ L2!Ready(server)
              /\ proc'[server].active = proc[server].active - 1
              /\ \A f \in {"up", "owner", "poison", "stop", "queue"} :
                   proc'[server][f] = proc[server][f]
<1>1. server \in DOMAIN proc /\ server \in DOMAIN writer /\ L2P!Fields(server)
  BY Records
<1>2. ASSUME L2!EndRequest(server) PROVE writer'[server].pc = writer[server].pc
  BY <1>1, <1>2 DEF L2!EndRequest, L2!OpenGate, L2P!Fields
<1>3. ASSUME L2!EndRequest(server)
      PROVE  /\ proc'[server].active = proc[server].active - 1
             /\ \A f \in {"up", "owner", "poison", "stop", "queue"} :
                  proc'[server][f] = proc[server][f]
  BY <1>1, <1>3 DEF L2!EndRequest, L2P!Fields
<1>4. ASSUME L2!BeginRequest(server)
      PROVE  /\ proc'[server].active = proc[server].active + 1
             /\ \A f \in {"up", "owner", "poison", "stop", "queue"} :
                  proc'[server][f] = proc[server][f]
  BY <1>1, <1>4 DEF L2!BeginRequest, L2P!Fields
<1> QED
  BY <1>2, <1>3, <1>4 DEF L2!BeginRequest, L2!EndRequest

LEMMA EndKeeps ==
  ASSUME Levels
  PROVE  /\ L2!Shutdown(server) =>
              /\ writer'[server].pc = writer[server].pc /\ client'[server].pc = "join"
              /\ \A f \in {"up", "owner", "stop", "active", "queue"} :
                   proc'[server][f] = proc[server][f]
         /\ L2!Joined(server) =>
              /\ writer' = writer /\ client'[server].pc = "idle" /\ L2!Ended(server)
              /\ ~proc'[server].owner /\ proc'[server].up = "closed"
              /\ \A f \in {"poison", "active", "queue"} :
                   proc'[server][f] = proc[server][f]
         /\ L2!Open(server) =>
              /\ client' = client /\ proc[server].up = "down" /\ proc'[server].up = "up"
              /\ proc'[server].active = 0 /\ ~proc'[server].poison /\ ~proc'[server].stop
              /\ writer'[server].pc \in {"get", "none"}
         /\ L2!Crash(server) =>
              /\ client'[server].pc = "idle" /\ proc'[server].up = "down"
              /\ ~proc'[server].poison /\ ~proc'[server].stop /\ writer'[server].pc = "none"
<1>1. /\ server \in DOMAIN proc /\ server \in DOMAIN writer /\ server \in DOMAIN client
      /\ L2P!Fields(server)
  BY Records
<1>2. ASSUME L2!Shutdown(server)
      PROVE  /\ writer'[server].pc = writer[server].pc /\ client'[server].pc = "join"
             /\ \A f \in {"up", "owner", "stop", "active", "queue"} :
                  proc'[server][f] = proc[server][f]
  <2>1. writer'[server].pc = writer[server].pc
    BY <1>1, <1>2 DEF L2!Shutdown, L2!OpenGate, L2P!Fields
  <2>2. client'[server].pc = "join"
    BY <1>1, <1>2 DEF L2!Shutdown, L2P!Fields
  <2> QED
    BY <1>1, <1>2, <2>1, <2>2 DEF L2!Shutdown, L2P!Fields
<1>3. ASSUME L2!Joined(server)
      PROVE  /\ writer' = writer /\ client'[server].pc = "idle" /\ L2!Ended(server)
             /\ ~proc'[server].owner /\ proc'[server].up = "closed"
             /\ \A f \in {"poison", "active", "queue"} :
                  proc'[server][f] = proc[server][f]
  <2>1. client'[server].pc = "idle"
    BY <1>1, <1>3 DEF L2!Joined, L2P!Fields
  <2> QED
    BY <1>1, <1>3, <2>1 DEF L2!Joined, L2P!Fields
<1>4. ASSUME L2!Open(server)
      PROVE  /\ client' = client /\ proc[server].up = "down" /\ proc'[server].up = "up"
             /\ proc'[server].active = 0 /\ ~proc'[server].poison /\ ~proc'[server].stop
             /\ writer'[server].pc \in {"get", "none"}
  <2>1. writer'[server].pc \in {"get", "none"}
    BY <1>1, <1>4 DEF L2!Open, L2P!Fields
  <2> QED
    BY <1>1, <1>4, <2>1 DEF L2!Open, L2!Down
<1>5. ASSUME L2!Crash(server)
      PROVE  /\ client'[server].pc = "idle" /\ proc'[server].up = "down"
             /\ ~proc'[server].poison /\ ~proc'[server].stop /\ writer'[server].pc = "none"
  BY <1>1, <1>5 DEF L2!Crash, L2!Down, L2!Asleep, L2!Quiet
<1> QED
  BY <1>2, <1>3, <1>4, <1>5

\* What is shown below to hold of every state the store can be in.
Control == Phases /\ Ending /\ Bracketed

LEMMA ControlInit == Init => Control
<1> SUFFICES ASSUME Init PROVE Control
  OBVIOUS
<1>1. /\ call = [op |-> "none", todo |-> << >>] /\ manager = [retired |-> FALSE, complete |-> FALSE]
      /\ request = [stage |-> "none", req |-> NoSnapshot, answer |-> {}]
  BY DEF Init, NoCall, NoRequest, Open
<1>2. proc[server] = L2!Down /\ writer[server] = L2!Asleep /\ client[server] = L2!Quiet
  BY DEF Init, L2!Init
<1>3. << >> \in Seq(Snapshot)
  BY EmptySeq
<1>4. Phases
  BY <1>1, <1>2, <1>3 DEF Phases, L2!Quiet
<1>5. Ending /\ Bracketed
  BY <1>1, <1>2 DEF Ending, Bracketed, L2!Down, L2!Asleep
<1> QED
  BY <1>4, <1>5 DEF Control

\* A step that touches neither level nor manager, and no request that is not
\* looked up, only has to leave call and request in a phase.
LEMMA Standing ==
  ASSUME Ending, Bracketed, SameStanding, manager' = manager,
         writer' = writer, proc'[server].queue = proc[server].queue,
         \/ call'.op = call.op
         \/ call.op # "join" /\ call'.op # "join" /\ proc[server].up # "down" /\ ~manager.complete
              /\ (call'.op = "close" => manager.retired),
         \/ request'.stage = request.stage
         \/ /\ request.stage # "serving" /\ request'.stage # "serving" /\ proc[server].up # "down"
  PROVE  Ending' /\ Bracketed'
<1>1. /\ proc'[server].up = proc[server].up /\ proc'[server].owner = proc[server].owner
      /\ proc'[server].poison = proc[server].poison /\ proc'[server].stop = proc[server].stop
      /\ proc'[server].active = proc[server].active
  BY DEF SameStanding
<1>2. Bracketed'
  BY <1>1 DEF Bracketed, Ending
<1>3. Ending'
  BY <1>1 DEF Ending, L2!Ended
<1> QED
  BY <1>2, <1>3

-----------------------------------------------------------------------------
(* What a lookup has found *)

\* While a request is looked up, the search goes through files longer than
\* L1's own answer, and what it ends with can be handed out.
Answering ==
  request.stage = "lookup" =>
    /\ call.op = "search" /\ client[server].pc # "idle" =>
         /\ client[server].req = request.req
         /\ \A s \in client[server].cands : Len(s.tokens) > Matched(request.req)
    /\ client[server].pc = "idle" =>
         /\ found.req = request.req /\ found = [req |-> found.req, snap |-> found.snap]
         /\ call.op = "spill" => found.snap # NoSnapshot
         /\ found.snap # NoSnapshot =>
              /\ found.snap \in Snapshot
              /\ UsableWhole(found.snap, request.req) /\ Answers(found.snap, request.req)
              /\ call.op = "search" => Len(found.snap.tokens) > Matched(request.req)

StoreInv == Levels /\ Control /\ Answering

LEMMA SearchAnswers ==
  ASSUME Levels, Control, Answering, Search
  PROVE  Answering'
<1>1. /\ call.op = "search" /\ call' = call /\ request' = request /\ entries' = entries
      /\ request.stage = "lookup" /\ request.req \in Request
  BY DEF Search, Control, Phases, l1vars
<1>2. Matched(request.req)' = Matched(request.req)
  BY <1>1 DEF Matched, L1!Hit, L1!Best, L1!Heaviest, L1!Answers, L1!SliceAtBoundary,
              L1!UsableWhole, L1!UsableAtBoundary, L1!Fits, L1!CoversPrefix, L1!IsPrefix
<1>3. /\ server \in DOMAIN client /\ L2P!Fields(server) /\ disk \in Seq(Snapshot)
  BY Records DEF Levels, L2P!DirInv
<1>4. ASSUME client[server].pc # "idle"
      PROVE  /\ client[server].req = request.req
             /\ \A s \in client[server].cands :
                  /\ Len(s.tokens) > Matched(request.req)
                  /\ s.key = request.req.key /\ L2P!CoversPrefix(s, request.req)
  <2>1. client[server].pc \in {"load", "recount"}
    BY <1>1, <1>4 DEF Control, Phases
  <2>2. /\ client[server].req = request.req
        /\ \A s \in client[server].cands : Len(s.tokens) > Matched(request.req)
    BY <1>1, <1>4 DEF Answering
  <2>3. \A s \in client[server].cands :
          s.key = client[server].req.key /\ L2P!CoversPrefix(s, client[server].req)
    BY <2>1 DEF Levels, L2P!DirInv, L2P!Asking
  <2> QED
    BY <2>2, <2>3
<1>5. CASE L2!Recount(server)
  <2>1. /\ client'[server].pc = "load" /\ client'[server].req = client[server].req
        /\ client'[server].cands = client[server].cands /\ client[server].pc = "recount"
    BY <1>3, <1>5 DEF L2!Recount, L2P!Fields
  <2> QED
    BY <1>1, <1>2, <1>4, <2>1 DEF Answering
<1>6. CASE L2!Load(server)
  <2> DEFINE r == client[server].req
             C == client[server].cands
  <2>1. client[server].pc = "load" /\ r = request.req
    BY <1>4, <1>6 DEF L2!Load
  <2>2. ASSUME C = {}, found' = L2!MissReply(r), client' = [client EXCEPT ![server] = L2!Quiet]
        PROVE  Answering'
    <3>1. client'[server].pc = "idle" /\ found' = [req |-> request.req, snap |-> NoSnapshot]
      BY <1>3, <2>1, <2>2 DEF L2!Quiet, L2!MissReply
    <3> QED
      BY <1>1, <3>1 DEF Answering
  <2>3. ASSUME NEW s \in C, L2!OnDisk(s), L2!Serves(s, r), found' = [req |-> r, snap |-> s],
               client' = [client EXCEPT ![server] = L2!Quiet]
        PROVE  Answering'
    <3>1. client'[server].pc = "idle" /\ found' = [req |-> request.req, snap |-> s]
      BY <1>3, <2>1, <2>3 DEF L2!Quiet
    <3>2. s \in Snapshot
      <4>1. ToSet(disk) \subseteq Snapshot
        BY <1>3, FiniteList
      <4> QED
        BY <2>3, <4>1 DEF L2!OnDisk, L2!ToSet, ToSet
    <3>3. UsableWhole(s, request.req) /\ Answers(s, request.req)
      <4>1. s.key = request.req.key /\ L2P!CoversPrefix(s, request.req)
        BY <1>4, <2>1, <2>3
      <4>2. L2!Serves(s, request.req)
        BY <2>1, <2>3
      <4> QED
        BY <4>1, <4>2 DEF UsableWhole, Fits, CoversPrefix, IsPrefix, L2P!CoversPrefix,
                          L2P!IsPrefix, L2!Serves, Answers, L2!Answers
    <3>4. Len(s.tokens) > Matched(request.req)
      BY <1>4, <2>1, <2>3
    <3> QED
      BY <1>1, <1>2, <3>1, <3>2, <3>3, <3>4 DEF Answering
  <2>4. ASSUME client'[server].pc # "idle", client'[server].req = r,
               client'[server].cands \subseteq C
        PROVE  Answering'
    <3>1. /\ client'[server].req = request.req
          /\ \A s \in client'[server].cands : Len(s.tokens) > Matched(request.req)
      BY <1>4, <2>1, <2>4
    <3> QED
      BY <1>1, <1>2, <2>4, <3>1 DEF Answering
  <2>5. ASSUME NEW s,
               \/ client' = [client EXCEPT ![server].cands = C \ {s}, ![server].pc = "recount"]
               \/ client' = [client EXCEPT ![server].cands = C \ {s}]
        PROVE  Answering'
    <3>1. /\ client'[server].pc # "idle" /\ client'[server].req = r
          /\ client'[server].cands = C \ {s}
      BY <1>3, <2>1, <2>5 DEF L2P!Fields
    <3> QED
      BY <2>4, <3>1
  <2> HIDE DEF r, C
  <2>6. \/ /\ C = {} /\ found' = L2!MissReply(r)
           /\ client' = [client EXCEPT ![server] = L2!Quiet]
        \/ \E s \in C : /\ L2!OnDisk(s) /\ L2!Serves(s, r) /\ found' = [req |-> r, snap |-> s]
                        /\ client' = [client EXCEPT ![server] = L2!Quiet]
        \/ \E s : \/ client' = [client EXCEPT ![server].cands = C \ {s}, ![server].pc = "recount"]
                  \/ client' = [client EXCEPT ![server].cands = C \ {s}]
    BY <1>6 DEF L2!Load, L2!Foremost, r, C
  <2> QED
    BY <2>2, <2>3, <2>5, <2>6
<1> QED
  BY <1>5, <1>6 DEF Search

-----------------------------------------------------------------------------
(* Every step leaves the levels well formed *)

LEMMA DeepKeepsL2 ==
  ASSUME Levels, NEW r \in Request, NEW n, L2!Lookup(server, r, n)
  PROVE  L2P!L2Inv' /\ L2P!DirInv' /\ L2P!OwnerInv'
<1>1. /\ L2P!Lookup(server, r, n) /\ server \in DOMAIN client
      /\ L2P!Fields(server) /\ L2P!L2Inv /\ L2P!DirInv /\ L2P!OwnerInv
  BY SameScan, Records DEF Levels
<1>2. /\ disk' = disk /\ proc' = proc /\ writer' = writer
      /\ client' = [client EXCEPT ![server] =
                      [pc |-> "load", req |-> r, cands |-> L2P!Candidates(disk, r, n)]]
      /\ proc[server].up = "up" /\ client[server].pc = "idle"
  BY <1>1 DEF L2P!Lookup, L2P!Ready
<1>3. /\ client'[server].pc = "load" /\ client'[server].req = r
      /\ client'[server].cands = L2P!Candidates(disk, r, n)
      /\ DOMAIN client'[server] = {"pc", "req", "cands"} /\ DOMAIN client' = DOMAIN client
  BY <1>1, <1>2
<1>4. L2P!Others(server)
  BY <1>1, <1>2 DEF L2P!Others, L2P!L2Inv
<1>5. L2P!SameProc(server) /\ L2P!SameWriter(server)
  BY <1>2 DEF L2P!SameProc, L2P!SameWriter
<1>6. L2P!PInv(server)'
  BY <1>1, <1>2, <1>3, <1>4, <1>5, LevelsAssumption, L2P!ClientMoves
<1>7. L2P!L2Inv'
  BY <1>1, <1>4, <1>6, LevelsAssumption, L2P!OneProcess
<1>8. \A s \in client'[server].cands : s.key = r.key /\ L2P!CoversPrefix(s, r)
  BY <1>3 DEF L2P!Candidates
<1>9. L2P!Fields(server)' /\ L2P!Asking(server)' /\ L2P!Walking(server)'
  BY <1>1, <1>2, <1>3, <1>8 DEF L2P!DirInv, L2P!Fields, L2P!Asking, L2P!Walking,
                                L2P!CoversPrefix, L2P!IsPrefix
<1>10. L2P!DirInv'
  BY <1>1, <1>2, <1>9 DEF L2P!DirInv
<1>11. L2P!OwnerInv'
  BY <1>1, <1>2 DEF L2P!OwnerInv, L2P!Ended
<1> QED
  BY <1>7, <1>10, <1>11

LEMMA StoreLevels ==
  ASSUME StoreInv, Next
  PROVE  Levels'
<1>1. /\ Levels /\ Phases /\ Answering
      /\ L1P!EntriesOK /\ L1P!OrderInv /\ L2P!L2Inv /\ L2P!DirInv /\ L2P!OwnerInv
  BY DEF StoreInv, Control, Levels
<1>2. ASSUME L1Moves \/ UNCHANGED l1vars, L2Moves \/ UNCHANGED l2vars PROVE Levels'
  BY <1>1, <1>2, L1Stays, L2Stays DEF Levels
<1>3. CASE Crash
  <2>1. L2Moves
    BY <1>3, SameOpen DEF Crash, L2Moves, L2P!Step
  <2>2. DOMAIN << >> = {} /\ << >> \in Seq(Nat)
    OBVIOUS
  <2>3. /\ entries' = << >> /\ lru' = << >> /\ nextId' = 0 /\ lastUse' = << >> /\ clock' = 0
    BY <1>3 DEF Crash
  <2>4. L1P!EntriesOK'
    BY <2>2, <2>3 DEF L1P!EntriesOK
  <2>5. L1P!OrderInv'
    BY <2>2, <2>3 DEF L1P!OrderInv, L1P!ListedByUse, L1P!ToSet
  <2> QED
    BY <1>1, <2>1, <2>4, <2>5, L2Stays DEF Levels
<1>4. CASE Start \/ Search \/ CloseL2 \/ Complete \/ Writer \/ Begin \/ End
  BY <1>2, <1>4, SameOpen, SameLoad, SameEnd, SameWriter, SameBrackets
     DEF Start, Search, CloseL2, Complete, Writer, Begin, End, L2Moves, L2P!Step, l2vars
<1>5. ASSUME NEW r \in Request, LookupExact(r) PROVE Levels'
  BY <1>2, <1>5, SameLookup DEF LookupExact, L1Moves, l2vars
<1>6. ASSUME NEW r \in Request, LookupDeep(r) PROVE Levels'
  BY <1>1, <1>6, DeepKeepsL2, L1Stays DEF LookupDeep, Levels
<1>7. CASE FallBack
  <2>1. request.req \in Request
    BY <1>1, <1>7 DEF FallBack, Searched, Phases
  <2> QED
    BY <1>2, <1>7, <2>1, SameLookup DEF FallBack, L1Moves
<1>8. CASE Promote
  <2>1. found.snap \in Snapshot
    BY <1>1, <1>8 DEF Promote, Searched, Phases, Answering
  <2> QED
    BY <1>2, <1>8, <2>1, SameInsert DEF Promote, L1Moves, l1vars
<1>9. ASSUME NEW s \in Snapshot, Publish(s) PROVE Levels'
  BY <1>2, <1>9, SameInsert DEF Publish, L1Moves
<1>10. ASSUME NEW s \in Snapshot, PublishFrontier(s) PROVE Levels'
  BY <1>2, <1>10 DEF PublishFrontier
<1>11. CASE Spill
  <2>1. Head(call.todo) \in Snapshot
    BY <1>1, <1>11, ElementsOfTail DEF Spill, Phases
  <2> QED
    BY <1>2, <1>11, <2>1, SameOffer DEF Spill, L2Moves, L2P!Step
<1>12. CASE SpillRaises \/ Return \/ Shutdown
  BY <1>2, <1>12 DEF SpillRaises, Return, Shutdown
<1> QED
  BY <1>3, <1>4, <1>5, <1>6, <1>7, <1>8, <1>9, <1>10, <1>11, <1>12 DEF Next

-----------------------------------------------------------------------------
(* Every step leaves calls and requests in order *)

LEMMA OpeningKeeps ==
  ASSUME StoreInv, Start \/ Crash
  PROVE  Control' /\ Answering'
<1>1. Levels /\ Phases /\ Ending /\ Answering
  BY DEF StoreInv, Control
<1>2. CASE Start
  <2>1. /\ client' = client /\ proc[server].up = "down" /\ proc'[server].up = "up"
        /\ proc'[server].active = 0 /\ ~proc'[server].poison /\ ~proc'[server].stop
        /\ writer'[server].pc \in {"get", "none"}
    BY <1>1, <1>2, EndKeeps DEF Start
  <2>2. manager' = manager /\ call' = call /\ request' = request
    BY <1>2 DEF Start
  <2>3. Phases'
    BY <1>1, <2>1, <2>2 DEF Phases
  <2>4. Ending' /\ Bracketed' /\ Answering'
    BY <1>1, <2>1, <2>2 DEF Ending, Bracketed, Answering
  <2> QED
    BY <2>3, <2>4 DEF Control
<1>3. CASE Crash
  <2>1. /\ client'[server].pc = "idle" /\ proc'[server].up = "down"
        /\ ~proc'[server].poison /\ ~proc'[server].stop /\ writer'[server].pc = "none"
    BY <1>1, <1>3, EndKeeps DEF Crash
  <2>2. /\ manager' = [retired |-> FALSE, complete |-> FALSE]
        /\ call' = [op |-> "none", todo |-> << >>]
        /\ request' = [stage |-> "none", req |-> NoSnapshot, answer |-> {}]
    BY <1>3 DEF Crash, NoCall, NoRequest, Open
  <2>3. Phases'
    BY <2>1, <2>2, EmptySeq DEF Phases
  <2>4. Ending' /\ Bracketed' /\ Answering'
    BY <2>1, <2>2 DEF Ending, Bracketed, Answering
  <2> QED
    BY <2>3, <2>4 DEF Control
<1> QED
  BY <1>2, <1>3

LEMMA MatchedStays ==
  ASSUME entries' = entries, NEW r, request'.req = r
  PROVE  Matched(request.req)' = Matched(r)
  BY DEF Matched, L1!Hit, L1!Best, L1!Heaviest, L1!Answers, L1!SliceAtBoundary,
         L1!UsableWhole, L1!UsableAtBoundary, L1!Fits, L1!CoversPrefix, L1!IsPrefix

LEMMA LookupKeeps ==
  ASSUME StoreInv, NEW r \in Request, LookupExact(r) \/ LookupDeep(r)
  PROVE  Control' /\ Answering'
<1>1. Levels /\ Phases /\ Ending /\ Bracketed /\ Answering
  BY DEF StoreInv, Control
<1>2. /\ proc[server].up # "down" /\ call.op = "none" /\ ~manager.complete
      /\ request.stage = "none" /\ call.todo = << >> /\ manager' = manager
  BY <1>1 DEF LookupExact, LookupDeep, May, Free, Phases, Ending
<1>3. CASE LookupExact(r)
  <2>1. /\ proc' = proc /\ writer' = writer /\ client' = client /\ call' = call
        /\ request' = [stage |-> "found", req |-> r, answer |-> {}]
    BY <1>3 DEF LookupExact, l2vars, NoRequest
  <2>2. Ending' /\ Bracketed'
    BY <1>1, <1>2, <2>1, Standing DEF SameStanding
  <2>3. Phases' /\ Answering'
    BY <1>1, <1>2, <2>1 DEF Phases, Answering
  <2> QED
    BY <2>2, <2>3 DEF Control
<1>4. CASE LookupDeep(r)
  <2>1. /\ call' = [op |-> "search", todo |-> << >>] /\ L2!Lookup(server, r, Matched(r))
        /\ request' = [stage |-> "lookup", req |-> r, answer |-> {}]
        /\ entries' = entries
    BY <1>4 DEF LookupDeep, NoRequest, NoCall, l1vars
  <2>2. SameStanding /\ writer' = writer /\ proc' = proc /\ client'[server].pc = "load"
    BY <1>1, <2>1, CallKeeps
  <2>3. Ending' /\ Bracketed'
    BY <1>1, <1>2, <2>1, <2>2, Standing
  <2>4. Phases'
    BY <1>1, <1>2, <2>1, <2>2 DEF Phases
  <2>5. /\ client'[server].req = r
        /\ \A s \in client'[server].cands : Len(s.tokens) > Matched(r)
    BY <1>1, <2>1, Records DEF L2!Lookup, L2!Candidates
  <2>6. Matched(request.req)' = Matched(r)
    BY <2>1, MatchedStays
  <2>7. Answering'
    BY <2>1, <2>2, <2>5, <2>6 DEF Answering
  <2> QED
    BY <2>3, <2>4, <2>7 DEF Control
<1> QED
  BY <1>3, <1>4

LEMMA SearchKeeps ==
  ASSUME StoreInv, Search
  PROVE  Control' /\ Answering'
<1>1. Levels /\ Phases /\ Ending /\ Bracketed /\ Answering
  BY DEF StoreInv, Control
<1>2. /\ call.op = "search" /\ call' = call /\ request' = request /\ manager' = manager
  BY DEF Search
<1>3. /\ SameStanding /\ writer' = writer /\ proc'[server].queue = proc[server].queue
      /\ client'[server].pc \in {"idle", "load", "recount"}
  BY <1>1, CallKeeps DEF Search
<1>4. Ending' /\ Bracketed'
  BY <1>1, <1>2, <1>3, Standing
<1>5. Phases'
  BY <1>1, <1>2, <1>3 DEF Phases
<1>6. Answering'
  BY <1>1, SearchAnswers DEF Control
<1> QED
  BY <1>4, <1>5, <1>6 DEF Control

\* What L1 gives up in an insert is a list of snapshots.
LEMMA RemovedListed ==
  ASSUME Levels, NEW s \in Snapshot, L1!Insert(s)
  PROVE  /\ outcome'.removed \in Seq(Snapshot)
         /\ ToL2(s, outcome') \in Seq(Snapshot)
<1>1. outcome'.removed \in Seq(Snapshot)
  BY SameInsert, LevelsAssumption, L1P!InsertGivesBack DEF Levels
<1>2. <<s>> \in Seq(Snapshot) /\ << >> \in Seq(Snapshot)
  OBVIOUS
<1>3. ToL2(s, outcome') \in Seq(Snapshot)
  BY <1>1, <1>2, ElementsOfConcat DEF ToL2
<1> QED
  BY <1>1, <1>3

LEMMA FoundKeeps ==
  ASSUME StoreInv, FallBack \/ Promote
  PROVE  Control' /\ Answering'
<1>1. Levels /\ Phases /\ Ending /\ Bracketed /\ Answering
  BY DEF StoreInv, Control
<1>2. /\ call.op = "search" /\ client[server].pc = "idle" /\ request.stage = "lookup"
      /\ proc' = proc /\ writer' = writer /\ client' = client /\ manager' = manager
      /\ proc[server].up # "down" /\ ~manager.complete
  BY <1>1 DEF FallBack, Promote, Searched, Phases, Ending, l2vars
<1>3. CASE FallBack
  <2>1. /\ call' = [op |-> "none", todo |-> << >>]
        /\ DOMAIN request' = DOMAIN request /\ request'.stage = "found"
    BY <1>1, <1>3 DEF FallBack, NoCall, Phases
  <2>2. Ending' /\ Bracketed'
    BY <1>1, <1>2, <2>1, Standing DEF SameStanding
  <2>3. Phases' /\ Answering'
    BY <1>1, <1>2, <2>1, EmptySeq DEF Phases, Answering
  <2> QED
    BY <2>2, <2>3 DEF Control
<1>4. CASE Promote
  <2>1. found.snap # NoSnapshot /\ found.snap \in Snapshot /\ request' = request
    BY <1>1, <1>2, <1>4 DEF Promote, Answering
  <2>2. /\ call'.op = "spill" /\ call' = [op |-> call'.op, todo |-> call'.todo]
        /\ call'.todo \in Seq(Snapshot) /\ found' = found
    <3>1. CASE L1!Insert(found.snap) /\ call' = Spilling(outcome'.removed)
      <4>1. outcome'.removed \in Seq(Snapshot)
        BY <1>1, <2>1, <3>1, RemovedListed
      <4> QED
        BY <3>1, <4>1 DEF Spilling, L1!Insert
    <3>2. CASE call' = Spilling(<< >>) /\ found' = found
      BY <3>2, EmptySeq DEF Spilling
    <3> QED
      BY <1>4, <3>1, <3>2 DEF Promote
  <2>3. Ending' /\ Bracketed'
    BY <1>1, <1>2, <2>1, <2>2, Standing DEF SameStanding
  <2>4. Phases'
    BY <1>1, <1>2, <2>1, <2>2 DEF Phases
  <2>5. Answering'
    BY <1>1, <1>2, <2>1, <2>2 DEF Answering
  <2> QED
    BY <2>3, <2>4, <2>5 DEF Control
<1> QED
  BY <1>3, <1>4

LEMMA PublishKeeps ==
  ASSUME StoreInv, NEW s \in Snapshot, Publish(s) \/ PublishFrontier(s)
  PROVE  Control' /\ Answering'
<1>1. Levels /\ Phases /\ Ending /\ Bracketed /\ Answering
  BY DEF StoreInv, Control
<1>2. /\ proc[server].up # "down" /\ call.op = "none" /\ ~manager.complete
      /\ request.stage = "serving" /\ manager' = manager
      /\ proc' = proc /\ writer' = writer /\ client' = client
  BY <1>1 DEF Publish, PublishFrontier, Free, Phases, Ending, l2vars
<1>3. /\ call'.op = "spill" /\ call' = [op |-> call'.op, todo |-> call'.todo]
      /\ call'.todo \in Seq(Snapshot)
  <2>1. CASE Publish(s)
    <3>1. L1!Insert(s) /\ call' = Spilling(ToL2(s, outcome'))
      BY <2>1 DEF Publish
    <3>2. ToL2(s, outcome') \in Seq(Snapshot)
      BY <1>1, <3>1, RemovedListed
    <3> QED
      BY <3>1, <3>2 DEF Spilling
  <2>2. CASE PublishFrontier(s)
    BY <2>2 DEF PublishFrontier, Spilling
  <2> QED
    BY <2>1, <2>2
<1>4. DOMAIN request' = DOMAIN request /\ request'.stage = "serving"
  BY <1>1, <1>2 DEF Publish, PublishFrontier, Phases
<1>5. Ending' /\ Bracketed'
  BY <1>1, <1>2, <1>3, <1>4, Standing DEF SameStanding
<1>6. Phases' /\ Answering'
  BY <1>1, <1>2, <1>3, <1>4 DEF Phases, Answering
<1> QED
  BY <1>5, <1>6 DEF Control

LEMMA SpillKeeps ==
  ASSUME StoreInv, Spill
  PROVE  Control' /\ Answering'
<1>1. Levels /\ Phases /\ Ending /\ Bracketed /\ Answering
  BY DEF StoreInv, Control
<1>2. /\ call.op \in {"spill", "close"} /\ L2!Insert(server, Head(call.todo))
      /\ request' = request /\ manager' = manager
  BY DEF Spill
<1>3. /\ call'.op = call.op /\ call' = [op |-> call'.op, todo |-> call'.todo]
      /\ call'.todo \in Seq(Snapshot)
  BY <1>1, ElementsOfTail DEF Spill, Phases
<1>4. /\ SameStanding /\ writer' = writer /\ client' = client /\ found' = found
  BY <1>1, <1>2, CallKeeps
<1>5. Bracketed'
  BY <1>1, <1>2, <1>4 DEF Bracketed, SameStanding
<1>6. writer[server].pc # "exited"
  BY <1>1, <1>2 DEF Ending
<1>7. Ending'
  <2>1. /\ proc'[server].up = proc[server].up /\ proc'[server].owner = proc[server].owner
        /\ proc'[server].poison = proc[server].poison /\ proc'[server].stop = proc[server].stop
    BY <1>4 DEF SameStanding
  <2> QED
    BY <1>1, <1>2, <1>3, <1>4, <1>6, <2>1 DEF Ending, L2!Ended
<1>8. Phases' /\ Answering'
  BY <1>1, <1>2, <1>3, <1>4 DEF Phases, Answering
<1> QED
  BY <1>5, <1>7, <1>8 DEF Control

LEMMA ReturnKeeps ==
  ASSUME StoreInv, SpillRaises \/ Return
  PROVE  Control' /\ Answering'
<1>1. Levels /\ Phases /\ Ending /\ Bracketed /\ Answering
  BY DEF StoreInv, Control
<1>2. /\ call.op \in {"spill", "close"} /\ call' = [op |-> "none", todo |-> << >>]
      /\ manager' = manager /\ proc' = proc /\ writer' = writer /\ client' = client
  BY DEF SpillRaises, Return, NoCall, l2vars
<1>3. proc[server].up # "down" /\ ~manager.complete
  BY <1>1, <1>2 DEF Ending
<1>4. /\ DOMAIN request' = DOMAIN request
      /\ \/ request' = request /\ request.stage # "lookup"
         \/ request.stage = "lookup" /\ request'.stage \in {"none", "found"}
  BY <1>1 DEF SpillRaises, Return, Phases, NoRequest
<1>5. Ending' /\ Bracketed'
  BY <1>1, <1>2, <1>3, <1>4, Standing DEF SameStanding
<1>6. Phases' /\ Answering'
  BY <1>1, <1>2, <1>4, EmptySeq DEF Phases, Answering
<1> QED
  BY <1>5, <1>6 DEF Control

LEMMA BeginEndKeep ==
  ASSUME StoreInv, Begin \/ End
  PROVE  Control' /\ Answering'
<1>1. Levels /\ Phases /\ Ending /\ Bracketed /\ Answering
  BY DEF StoreInv, Control
<1>2. /\ call.op = "none" /\ proc[server].up # "down" /\ call' = call /\ manager' = manager
  BY DEF Begin, End, Free
<1>3. CASE Begin
  <2>1. /\ request.stage = "found" /\ request'.stage = "serving"
        /\ DOMAIN request' = DOMAIN request
    BY <1>1, <1>3 DEF Begin, Phases
  <2>2. CASE manager.retired
    <3>1. proc' = proc /\ writer' = writer /\ client' = client
      BY <1>3, <2>2 DEF Begin, l2vars
    <3> QED
      BY <1>1, <1>2, <2>1, <2>2, <3>1
         DEF Control, Phases, Ending, Bracketed, Answering, L2!Ended
  <2>3. CASE ~manager.retired
    <3>1. /\ client' = client /\ writer' = writer
          /\ proc'[server].active = proc[server].active + 1
          /\ \A f \in {"up", "owner", "poison", "stop", "queue"} :
               proc'[server][f] = proc[server][f]
      BY <1>1, <1>3, <2>3, BracketKeeps DEF Begin
    <3>2. /\ proc'[server].up = proc[server].up /\ proc'[server].owner = proc[server].owner
          /\ proc'[server].poison = proc[server].poison
          /\ proc'[server].stop = proc[server].stop
          /\ proc'[server].queue = proc[server].queue
      BY <3>1
    <3> QED
      BY <1>1, <1>2, <2>1, <2>3, <3>1, <3>2
         DEF Control, Phases, Ending, Bracketed, Answering, L2!Ended
  <2> QED
    BY <2>2, <2>3
<1>4. CASE End
  <2>1. /\ request.stage = "serving" /\ request'.stage = "none"
        /\ DOMAIN request' = DOMAIN request
    BY <1>1, <1>4 DEF End, Phases, NoRequest
  <2>2. CASE manager.retired
    <3>1. proc' = proc /\ writer' = writer /\ client' = client
      BY <1>4, <2>2 DEF End, l2vars
    <3> QED
      BY <1>1, <1>2, <2>1, <2>2, <3>1
         DEF Control, Phases, Ending, Bracketed, Answering, L2!Ended
  <2>3. CASE ~manager.retired
    <3>1. /\ client' = client /\ writer'[server].pc = writer[server].pc
          /\ proc'[server].active = proc[server].active - 1
          /\ \A f \in {"up", "owner", "poison", "stop", "queue"} :
               proc'[server][f] = proc[server][f]
      BY <1>1, <1>4, <2>3, BracketKeeps DEF End
    <3>2. /\ proc'[server].up = proc[server].up /\ proc'[server].owner = proc[server].owner
          /\ proc'[server].poison = proc[server].poison
          /\ proc'[server].stop = proc[server].stop
          /\ proc'[server].queue = proc[server].queue
      BY <3>1
    <3> QED
      BY <1>1, <1>2, <2>1, <2>3, <3>1, <3>2
         DEF Control, Phases, Ending, Bracketed, Answering, L2!Ended
  <2> QED
    BY <2>2, <2>3
<1> QED
  BY <1>3, <1>4

\* The residents are listed once each, the least recently used first.
LEMMA ResidentsListed ==
  ASSUME Levels
  PROVE  Residents \in Seq(Snapshot) /\ ToSet(Residents) = L1!Held
<1>1. /\ lru \in Seq(Nat) /\ ToSet(lru) = DOMAIN entries
      /\ \A i \in DOMAIN entries : entries[i] \in Snapshot
  BY DEF Levels, L1P!OrderInv, L1P!ListedByUse, L1P!ToSet, ToSet, L1P!EntriesOK
<1>2. DOMAIN lru = 1 .. Len(lru) /\ Len(lru) \in Nat
  BY <1>1, LenProperties
<1>3. \A n \in DOMAIN lru : lru[n] \in DOMAIN entries
  BY <1>1 DEF ToSet
<1>4. \A n \in 1 .. Len(lru) : entries[lru[n]] \in Snapshot
  BY <1>1, <1>2, <1>3
<1>5. Residents \in Seq(Snapshot)
  BY <1>2, <1>4 DEF Residents
<1>6. ToSet(Residents) = {entries[i] : i \in ToSet(lru)}
  BY DEF ToSet, Residents
<1> QED
  BY <1>1, <1>5, <1>6 DEF L1!Held

LEMMA EndingKeeps ==
  ASSUME StoreInv, Shutdown \/ CloseL2 \/ Complete
  PROVE  Control' /\ Answering'
<1>1. Levels /\ Phases /\ Ending /\ Bracketed /\ Answering
  BY DEF StoreInv, Control
<1>2. request' = request
  BY DEF Shutdown, CloseL2, Complete
<1>3. CASE Shutdown
  <2>1. /\ call.op = "none" /\ proc[server].up # "down" /\ ~manager.complete
        /\ proc' = proc /\ writer' = writer /\ client' = client
        /\ manager' = [retired |-> TRUE, complete |-> FALSE]
        /\ call' = [op |-> "close", todo |-> Residents]
    BY <1>1, <1>3 DEF Shutdown, Free, l2vars, Phases
  <2>2. Phases' /\ Answering'
    BY <1>1, <1>2, <2>1, ResidentsListed DEF Phases, Answering
  <2>3. Ending' /\ Bracketed'
    BY <1>1, <1>2, <2>1 DEF Ending, Bracketed, L2!Ended
  <2> QED
    BY <2>2, <2>3 DEF Control
<1>4. CASE CloseL2
  <2>1. /\ call.op = "close" /\ manager' = manager
        /\ call' = [op |-> "join", todo |-> << >>] /\ request.stage # "lookup"
    BY <1>1, <1>4 DEF CloseL2, NoCall, Phases
  <2>2. /\ writer'[server].pc = writer[server].pc /\ client'[server].pc = "join"
        /\ \A f \in {"up", "owner", "stop", "active", "queue"} :
             proc'[server][f] = proc[server][f]
    BY <1>1, <1>4, EndKeeps DEF CloseL2
  <2>3. /\ proc'[server].up = proc[server].up /\ proc'[server].owner = proc[server].owner
        /\ proc'[server].stop = proc[server].stop
        /\ proc'[server].queue = proc[server].queue
    BY <2>2
  <2>4. Phases' /\ Answering'
    BY <1>1, <1>2, <2>1, <2>2, EmptySeq DEF Phases, Answering
  <2>5. Ending' /\ Bracketed'
    BY <1>1, <1>2, <2>1, <2>2, <2>3 DEF Ending, Bracketed, L2!Ended
  <2> QED
    BY <2>4, <2>5 DEF Control
<1>5. CASE Complete
  <2>1. /\ call.op = "join" /\ manager.retired
        /\ manager' = [retired |-> TRUE, complete |-> TRUE]
        /\ call' = [op |-> "none", todo |-> << >>] /\ request.stage # "lookup"
    BY <1>1, <1>5 DEF Complete, NoCall, Phases, Ending
  <2>2. /\ writer' = writer /\ client'[server].pc = "idle" /\ L2!Ended(server)
        /\ ~proc'[server].owner /\ proc'[server].up = "closed"
        /\ proc'[server].queue = proc[server].queue
    BY <1>1, <1>5, EndKeeps DEF Complete
  <2>3. Phases' /\ Answering'
    BY <1>1, <1>2, <2>1, <2>2, EmptySeq DEF Phases, Answering
  <2>4. Ending' /\ Bracketed'
    BY <1>1, <1>2, <2>1, <2>2 DEF Ending, Bracketed, L2!Ended
  <2> QED
    BY <2>3, <2>4 DEF Control
<1> QED
  BY <1>3, <1>4, <1>5

LEMMA WriterControl ==
  ASSUME StoreInv, Writer
  PROVE  Control' /\ Answering'
<1>1. Levels /\ Phases /\ Ending /\ Bracketed /\ Answering
  BY DEF StoreInv, Control
<1>2. /\ manager' = manager /\ call' = call /\ request' = request /\ entries' = entries
  BY DEF Writer, l1vars
<1>3. /\ SameStanding /\ client' = client /\ found' = found /\ ~L2!Ended(server)
      /\ writer'[server].pc = "exited" =>
           /\ proc[server].poison \/ proc[server].stop
           /\ proc'[server].queue = << >>
  BY <1>1, WriterKeeps DEF Writer
<1>4. /\ proc'[server].up = proc[server].up /\ proc'[server].owner = proc[server].owner
      /\ proc'[server].poison = proc[server].poison /\ proc'[server].stop = proc[server].stop
      /\ proc'[server].active = proc[server].active
  BY <1>3 DEF SameStanding
<1>5. Ending' /\ Bracketed'
  BY <1>1, <1>2, <1>3, <1>4 DEF Ending, Bracketed
<1>6. Phases'
  BY <1>1, <1>2, <1>3 DEF Phases
<1>7. Answering'
  <2>1. request.stage = "lookup" => Matched(request.req)' = Matched(request.req)
    BY <1>2, MatchedStays
  <2> QED
    BY <1>1, <1>2, <1>3, <2>1 DEF Answering
<1> QED
  BY <1>5, <1>6, <1>7 DEF Control

LEMMA StoreNext == StoreInv /\ [Next]_vars => StoreInv'
<1>1. ASSUME StoreInv, Next PROVE StoreInv'
  <2>1. Control' /\ Answering'
    BY <1>1, OpeningKeeps, LookupKeeps, SearchKeeps, FoundKeeps, PublishKeeps, SpillKeeps,
       ReturnKeeps, BeginEndKeep, EndingKeeps, WriterControl DEF Next
  <2> QED
    BY <1>1, <2>1, StoreLevels DEF StoreInv
<1>2. ASSUME StoreInv, UNCHANGED vars PROVE StoreInv'
  <2>1. /\ UNCHANGED l1vars /\ UNCHANGED l2vars /\ entries' = entries /\ request' = request
        /\ proc' = proc /\ writer' = writer /\ client' = client
        /\ manager' = manager /\ call' = call /\ found' = found
    BY <1>2 DEF vars, l1vars, l2vars
  <2>2. Levels'
    BY <1>2, <2>1, L1Stays, L2Stays DEF StoreInv, Levels
  <2>3. Control'
    BY <1>2, <2>1 DEF StoreInv, Control, Phases, Ending, Bracketed, L2!Ended
  <2>4. Matched(request.req)' = Matched(request.req)
    BY <2>1, MatchedStays
  <2>5. Answering'
    BY <1>2, <2>1, <2>4 DEF StoreInv, Answering
  <2> QED
    BY <2>2, <2>3, <2>5 DEF StoreInv
<1> QED
  BY <1>1, <1>2

LEMMA StoreInit == Init => StoreInv
<1> SUFFICES ASSUME Init PROVE StoreInv
  OBVIOUS
<1>1. request.stage = "none"
  BY DEF Init, NoRequest
<1> QED
  BY <1>1, LevelsInit, ControlInit DEF StoreInv, Answering

LEMMA AlwaysStore == Spec => []StoreInv
  BY StoreInit, StoreNext, PTL DEF Spec

\* Outside a request the gate is open: every bracket the manager let through
\* was closed, whatever failed in between.
THEOREM BracketsAlwaysBalance == Spec => []BracketsBalance
<1>1. StoreInv => BracketsBalance
  <2> SUFFICES ASSUME StoreInv, proc[server].up = "up", request.stage # "serving",
                      ~manager.retired
               PROVE  proc[server].active = 0 /\ proc[server].gate
    BY DEF BracketsBalance
  <2>1. proc[server].active = 0 /\ client[server].pc # "join"
    BY DEF StoreInv, Control, Bracketed, Phases, Ending
  <2>2. L2P!Gated(server)
    BY DEF StoreInv, Levels, L2P!L2Inv, L2P!PInv
  <2> QED
    BY <2>1, <2>2 DEF L2P!Gated
<1> QED
  BY <1>1, AlwaysStore, PTL

\* A shutdown that has returned leaves no queued write, no writer at work, no
\* temporary file and no lock.
THEOREM NothingIsLeft == Spec => []NothingAfterShutdown
<1>1. StoreInv => NothingAfterShutdown
  <2> SUFFICES ASSUME StoreInv, manager.complete
               PROVE  /\ L2!Ended(server) /\ ~proc[server].owner
                      /\ writer[server].pc = "exited" =>
                           proc[server].queue = << >> /\ ~writer[server].tmp
    BY DEF NothingAfterShutdown
  <2>1. L2P!Working(server)
    BY DEF StoreInv, Levels, L2P!L2Inv, L2P!PInv
  <2> QED
    BY <2>1 DEF StoreInv, Control, Ending, L2P!Working, L2P!Idle
<1> QED
  BY <1>1, AlwaysStore, PTL

-----------------------------------------------------------------------------
(* The store keeps the promise of a prefix cache *)

LEMMA SameForPromise ==
  ASSUME NEW s, NEW r
  PROVE  /\ UsableWhole(s, r) <=> Promise!UsableWhole(s, r)
         /\ Answers(s, r) <=> Promise!Answers(s, r)
         /\ L1!UsableWhole(s, r) <=> Promise!UsableWhole(s, r)
         /\ L1P!UsableWhole(s, r) <=> Promise!UsableWhole(s, r)
         /\ L1!UsableAtBoundary(s, r) <=> L1P!UsableAtBoundary(s, r)
         /\ L1!Answers(s, r) <=> Promise!Answers(s, r)
         /\ L1!SliceAtBoundary(s) = Promise!SliceAtBoundary(s)
         /\ L1P!SliceAtBoundary(s) = Promise!SliceAtBoundary(s)
<1>1. UsableWhole(s, r) <=> Promise!UsableWhole(s, r)
  BY DEF UsableWhole, Fits, CoversPrefix, IsPrefix, Promise!UsableWhole, Promise!Fits,
         Promise!CoversPrefix, Promise!IsPrefix
<1>2. L1!UsableWhole(s, r) <=> Promise!UsableWhole(s, r)
  BY DEF L1!UsableWhole, L1!Fits, L1!CoversPrefix, L1!IsPrefix, Promise!UsableWhole,
         Promise!Fits, Promise!CoversPrefix, Promise!IsPrefix
<1>3. /\ L1!UsableAtBoundary(s, r) <=> L1P!UsableAtBoundary(s, r)
      /\ L1P!UsableWhole(s, r) <=> Promise!UsableWhole(s, r)
  BY DEF L1!UsableAtBoundary, L1!CoversPrefix, L1!IsPrefix, L1P!UsableAtBoundary,
         L1P!UsableWhole, L1P!Fits, L1P!CoversPrefix, L1P!IsPrefix, Promise!UsableWhole,
         Promise!Fits, Promise!CoversPrefix, Promise!IsPrefix
<1>4. /\ Answers(s, r) <=> Promise!Answers(s, r)
      /\ L1!Answers(s, r) <=> Promise!Answers(s, r)
  BY DEF Answers, L1!Answers, Promise!Answers
<1>5. /\ L1!SliceAtBoundary(s) = Promise!SliceAtBoundary(s)
      /\ L1P!SliceAtBoundary(s) = Promise!SliceAtBoundary(s)
  BY DEF L1!SliceAtBoundary, L1P!SliceAtBoundary, Promise!SliceAtBoundary
<1> QED
  BY <1>1, <1>2, <1>3, <1>4, <1>5

\* What L1 serves is restorable from something it holds, and it holds no more
\* afterwards.
LEMMA L1Serves ==
  ASSUME Levels, NEW r \in Request, L1!Lookup(r)
  PROVE  /\ L1!Held' \subseteq L1!Held
         /\ \/ found' = [req |-> r, snap |-> NoSnapshot]
            \/ \E s \in L1!Held : \E t \in Promise!Restorable(s, r) :
                 found' = [req |-> r, snap |-> t]
<1>1. /\ DOMAIN entries' \subseteq DOMAIN entries
      /\ \A i \in DOMAIN entries' : entries'[i] = entries[i]
  BY SameLookup, LevelsAssumption, L1P!OthersShrink
<1>2. L1!Held' \subseteq L1!Held
  BY <1>1 DEF L1!Held
<1>3. ASSUME NEW h \in L1!Hit(entries, r)
      PROVE  \E s \in L1!Held : h.snap \in Promise!Restorable(s, r)
  <2>1. /\ L1!Answers(h.snap, r)
        /\ \/ \E b \in DOMAIN entries :
                /\ L1!UsableAtBoundary(entries[b], r)
                /\ h.snap = L1!SliceAtBoundary(entries[b])
           \/ \E w \in DOMAIN entries :
                L1!UsableWhole(entries[w], r) /\ h.snap = entries[w]
    BY <1>3 DEF L1!Hit, L1!Best, L1!Heaviest
  <2>2. CASE \E b \in DOMAIN entries : /\ L1!UsableAtBoundary(entries[b], r)
                                       /\ h.snap = L1!SliceAtBoundary(entries[b])
    <3>1. PICK b \in DOMAIN entries : /\ L1!UsableAtBoundary(entries[b], r)
                                      /\ h.snap = L1!SliceAtBoundary(entries[b])
      BY <2>2
    <3> DEFINE s == entries[b]
    <3>2. s \in Snapshot /\ s \in L1!Held
      BY DEF Levels, L1P!EntriesOK, L1!Held
    <3>3. L1P!UsableAtBoundary(s, r) /\ h.snap = Promise!SliceAtBoundary(s)
      BY <3>1, SameForPromise
    <3> HIDE DEF s
    <3>4. s.boundary > 0 /\ s.context # "none" /\ L1P!UsableWhole(L1P!SliceAtBoundary(s), r)
      BY <3>2, <3>3, LevelsAssumption, L1P!SliceIsUsable DEF L1P!L1Assumption
    <3>5. Promise!UsableWhole(h.snap, r) /\ Promise!Answers(h.snap, r)
      BY <2>1, <3>3, <3>4, SameForPromise
    <3> QED
      BY <3>2, <3>3, <3>4, <3>5 DEF Promise!Restorable
  <2>3. CASE \E w \in DOMAIN entries : L1!UsableWhole(entries[w], r) /\ h.snap = entries[w]
    BY <2>1, <2>3, SameForPromise DEF Promise!Restorable, L1!Held
  <2> QED
    BY <2>1, <2>2, <2>3
<1>4. \/ found' = [req |-> r, snap |-> NoSnapshot]
      \/ \E h \in L1!Hit(entries, r) : found' = [req |-> r, snap |-> h.snap]
  BY DEF L1!Lookup, L1!MissReply
<1> QED
  BY <1>2, <1>3, <1>4

\* What L1 takes in is the snapshot offered, and what it gives up is handed on.
LEMMA L1Takes ==
  ASSUME Levels, NEW s \in Snapshot, L1!Insert(s)
  PROVE  /\ L1!Held' \subseteq L1!Held \cup {s}
         /\ ToSet(outcome'.removed) \subseteq L1!Held \cup {s}
         /\ ToSet(ToL2(s, outcome')) \subseteq L1!Held \cup {s}
         /\ L1!Held \subseteq L1!Held' \cup ToSet(outcome'.removed)
         /\ s \in L1!Held' \cup ToSet(ToL2(s, outcome'))
         /\ ToSet(outcome'.removed) \subseteq ToSet(ToL2(s, outcome'))
<1> DEFINE removed == outcome'.removed
           own == IF s.kind = "prefill" /\ (outcome'.admitted \/ outcome'.skipped)
                  THEN <<s>> ELSE << >>
<1>1. /\ removed \in Seq(Snapshot)
      /\ L1P!ToSet(removed) \subseteq L1P!Held \cup {s}
      /\ L1P!Held' \subseteq L1P!Held \cup {s}
      /\ L1P!Held \subseteq L1P!Held' \cup L1P!ToSet(removed)
      /\ \/ s \in L1P!Held' \cup L1P!ToSet(removed)
         \/ s.kind = "prefill" /\ outcome'.skipped
  BY SameInsert, LevelsAssumption, L1P!InsertGivesBack DEF Levels
<1>2. L1P!ToSet(removed) = ToSet(removed) /\ L1P!Held = L1!Held /\ L1P!Held' = L1!Held'
  BY DEF L1P!ToSet, ToSet, L1P!Held, L1!Held
<1>3. ToL2(s, outcome') = own \o removed
  BY DEF ToL2
<1>4. /\ own \in Seq(Snapshot) /\ ToSet(own) \subseteq {s}
      /\ s.kind = "prefill" /\ outcome'.skipped => s \in ToSet(own)
  BY DEF ToSet
<1> HIDE DEF own, removed
<1>5. ToSet(own \o removed) = ToSet(own) \cup ToSet(removed)
  BY <1>1, <1>4, ElementsOfConcat
<1> QED
  BY <1>1, <1>2, <1>3, <1>4, <1>5 DEF removed

\* What a step of the disk cache may do to the snapshots it stores.
LEMMA StoredMoves ==
  ASSUME Levels, Levels'
  PROVE  /\ \/ L2!Open(server) \/ L2!Crash(server)
            \/ L2!BeginRequest(server) \/ L2!EndRequest(server)
            \/ L2!Load(server) \/ L2!Recount(server)
            \/ L2!Shutdown(server) \/ L2!Joined(server) \/ L2!WriterStep(server)
            => L2!Stored' \subseteq L2!Stored
         /\ \A s \in Snapshot : L2!Insert(server, s) => L2!Stored' \subseteq L2!Stored \cup {s}
         /\ \A r, n : L2!Lookup(server, r, n) => L2!Stored' = L2!Stored
         /\ UNCHANGED l2vars => L2!Stored' = L2!Stored
<1>1. /\ L2P!L2Inv /\ L2P!DirInv /\ L2P!L2Inv'
      /\ L2P!Stored = L2!Stored /\ L2P!Stored' = L2!Stored'
  BY SameStored DEF Levels, L2!Stored, L2P!Stored, L2!Pending, L2P!Pending, L2!ToSet, L2P!ToSet
<1>2. ASSUME \/ L2!Open(server) \/ L2!Crash(server)
             \/ L2!BeginRequest(server) \/ L2!EndRequest(server)
             \/ L2!Load(server) \/ L2!Recount(server)
             \/ L2!Shutdown(server) \/ L2!Joined(server) \/ L2!WriterStep(server)
      PROVE  L2!Stored' \subseteq L2!Stored
  <2>1. \/ L2P!Open(server) \/ L2P!Crash(server)
        \/ L2P!BeginRequest(server) \/ L2P!EndRequest(server)
        \/ L2P!Load(server) \/ L2P!Recount(server)
        \/ L2P!Shutdown(server) \/ L2P!Joined(server) \/ L2P!WriterStep(server)
    BY <1>2, SameOpen, SameBrackets, SameLoad, SameEnd, SameWriter
  <2> QED
    BY <1>1, <2>1, LevelsAssumption, L2P!StoredStays
<1>3. ASSUME NEW s \in Snapshot, L2!Insert(server, s)
      PROVE  L2!Stored' \subseteq L2!Stored \cup {s}
  BY <1>1, <1>3, SameOffer, LevelsAssumption, L2P!InsertStores
<1>4. ASSUME UNCHANGED <<disk, proc, writer>> PROVE L2!Stored' = L2!Stored
  BY <1>4 DEF L2!Stored, L2!Pending, L2!ToSet
<1> QED
  BY <1>2, <1>3, <1>4 DEF L2!Lookup, l2vars

LEMMA HoldingSnapshots == StoreInv => Holding \subseteq Snapshot
<1> SUFFICES ASSUME StoreInv PROVE Holding \subseteq Snapshot
  OBVIOUS
<1>1. L1!Held \subseteq Snapshot
  BY DEF StoreInv, Levels, L1P!EntriesOK, L1!Held
<1>2. L2!Stored \subseteq Snapshot
  BY SameStored, LevelsAssumption, L2P!StoredSnapshots DEF StoreInv, Levels
<1>3. ToSet(call.todo) \subseteq Snapshot
  BY FiniteList DEF StoreInv, Control, Phases
<1>4. InTransit \subseteq Snapshot
  BY DEF StoreInv, Answering, InTransit
<1> QED
  BY <1>1, <1>2, <1>3, <1>4 DEF Holding

\* The steps that hand nothing in or out.
LEMMA Forgetting ==
  ASSUME reply' = reply, L1!Held' \subseteq L1!Held, L2!Stored' \subseteq L2!Stored,
         ToSet(call'.todo) \subseteq ToSet(call.todo), InTransit' \subseteq InTransit
  PROVE  Promise!Next
<1>1. ToSet(call.todo)' = ToSet(call'.todo)
  BY DEF ToSet
<1> QED
  BY <1>1 DEF Promise!Next, Promise!Forget, Holding

LEMMA StepKeepsStorePromise ==
  ASSUME StoreInv, StoreInv', Next
  PROVE  [Promise!Next]_<<Holding, reply>>
<1>1. /\ Levels /\ Levels' /\ Phases /\ Ending /\ Answering
  BY DEF StoreInv, Control
<1>2. ToSet(<< >>) = {} /\ ToSet(call.todo)' = ToSet(call'.todo)
  BY DEF ToSet
<1>3. UNCHANGED l1vars => L1!Held' = L1!Held
  BY DEF l1vars, L1!Held
<1>4. call.op \notin {"search", "spill"} => InTransit = {}
  BY <1>1 DEF InTransit, Phases
<1>5. /\ request'.stage # "lookup" \/ client'[server].pc # "idle" => InTransit' = {}
      /\ request' = request /\ client' = client /\ found' = found => InTransit' = InTransit
  BY DEF InTransit
<1>6. CASE Start \/ Crash
  <2>1. /\ reply' = reply /\ L2!Stored' \subseteq L2!Stored
        /\ call'.todo = << >> \/ call' = call
    BY <1>1, <1>6, StoredMoves DEF Start, Crash, NoCall
  <2>2. request'.stage # "lookup" /\ L1!Held' \subseteq L1!Held
    <3>1. CASE Start
      <4>1. request.stage = "none" /\ request' = request
        BY <1>1, <3>1, EndKeeps DEF Start, Ending
      <4> QED
        BY <1>3, <3>1, <4>1 DEF Start
    <3>2. CASE Crash
      <4>1. request'.stage = "none" /\ entries' = << >>
        BY <3>2 DEF Crash, NoRequest
      <4> QED
        BY <4>1 DEF L1!Held
    <3> QED
      BY <1>6, <3>1, <3>2
  <2> QED
    BY <1>2, <1>5, <2>1, <2>2, Forgetting
<1>7. ASSUME NEW r \in Request, LookupExact(r) PROVE Promise!Next
  <2>1. /\ L1!Lookup(r) /\ reply' = found' /\ call' = call /\ request'.stage = "found"
        /\ UNCHANGED l2vars
    BY <1>7 DEF LookupExact, NoRequest
  <2>2. Holding' \subseteq Holding
    BY <1>1, <1>2, <1>5, <2>1, L1Serves, StoredMoves DEF Holding
  <2> QED
    BY <1>1, <2>1, <2>2, L1Serves DEF Promise!Next, Promise!Serve, Holding
<1>8. ASSUME NEW r \in Request, LookupDeep(r) PROVE Promise!Next
  <2>1. /\ reply' = reply /\ call' = [op |-> "search", todo |-> << >>] /\ UNCHANGED l1vars
        /\ L2!Lookup(server, r, Matched(r))
    BY <1>8 DEF LookupDeep, NoCall
  <2>2. client'[server].pc = "load"
    BY <1>1, <2>1, CallKeeps
  <2> QED
    BY <1>1, <1>2, <1>3, <1>5, <2>1, <2>2, StoredMoves, Forgetting
<1>9. CASE Search
  <2>1. /\ reply' = reply /\ call' = call /\ request' = request /\ UNCHANGED l1vars
        /\ L2!Load(server) \/ L2!Recount(server)
    BY <1>9 DEF Search
  <2>2. L2!Stored' \subseteq L2!Stored
    BY <1>1, <2>1, StoredMoves
  <2>3. InTransit' \subseteq L2!Stored
    <3>1. CASE L2!Recount(server)
      BY <1>1, <1>5, <3>1, CallKeeps
    <3>2. CASE L2!Load(server) /\ client'[server].pc = "idle"
      <4>1. \/ found' = L2!MissReply(client[server].req)
            \/ \E s : L2!OnDisk(s) /\ found' = [req |-> client[server].req, snap |-> s]
            \/ \E c : \/ client' = [client EXCEPT ![server].cands = c, ![server].pc = "recount"]
                      \/ client' = [client EXCEPT ![server].cands = c]
        BY <3>2 DEF L2!Load
      <4>2. ~ \E c : \/ client' = [client EXCEPT ![server].cands = c, ![server].pc = "recount"]
                    \/ client' = [client EXCEPT ![server].cands = c]
        <5>1. /\ server \in DOMAIN client /\ L2P!Fields(server)
              /\ client[server].pc = "load" /\ client'[server].pc = "idle"
          BY <1>1, <3>2, Records DEF L2!Load
        <5> QED
          BY <5>1 DEF L2P!Fields
      <4>3. found'.snap = NoSnapshot \/ L2!OnDisk(found'.snap)
        <5>1. \/ found' = [req |-> client[server].req, snap |-> NoSnapshot]
              \/ \E s : L2!OnDisk(s) /\ found' = [req |-> client[server].req, snap |-> s]
          BY <4>1, <4>2, Zenon DEF L2!MissReply
        <5> QED
          BY <5>1
      <4> QED
        BY <4>3 DEF InTransit, L2!OnDisk, L2!Stored
    <3> QED
      BY <1>5, <2>1, <3>1, <3>2
  <2>4. Holding' \subseteq Holding
    BY <1>2, <1>3, <2>1, <2>2, <2>3 DEF Holding
  <2> QED
    BY <2>1, <2>4 DEF Promise!Next, Promise!Forget
<1>10. CASE FallBack
  <2> DEFINE r == request.req
  <2>1. /\ L1!Lookup(r) /\ reply' = found' /\ call'.todo = << >> /\ UNCHANGED l2vars
        /\ request'.stage = "found" /\ r \in Request
    BY <1>1, <1>10 DEF FallBack, Searched, Phases, NoCall
  <2> HIDE DEF r
  <2>2. Holding' \subseteq Holding
    BY <1>1, <1>2, <1>5, <2>1, L1Serves, StoredMoves DEF Holding
  <2> QED
    BY <1>1, <2>1, <2>2, L1Serves DEF Promise!Next, Promise!Serve, Holding
<1>11. CASE Promote
  <2>1. /\ found.snap \in Snapshot /\ InTransit = {found.snap} /\ reply' = reply
        /\ request' = request /\ UNCHANGED l2vars /\ client' = client
    BY <1>1, <1>11 DEF Promote, Searched, Phases, Answering, InTransit, l2vars
  <2>2. CASE L1!Insert(found.snap) /\ call' = Spilling(outcome'.removed)
    <3>1. found' = found /\ call'.todo = outcome'.removed
      BY <2>2 DEF L1!Insert, Spilling
    <3>2. Holding' \subseteq Holding
      BY <1>1, <1>2, <1>5, <2>1, <2>2, <3>1, L1Takes, StoredMoves DEF Holding
    <3> QED
      BY <2>1, <3>2 DEF Promise!Next, Promise!Forget
  <2>3. CASE call' = Spilling(<< >>) /\ UNCHANGED <<l1vars, found>>
    BY <1>1, <1>2, <1>3, <1>5, <2>1, <2>3, StoredMoves, Forgetting DEF Spilling
  <2> QED
    BY <1>11, <2>2, <2>3 DEF Promote
<1>12. ASSUME NEW s \in Snapshot, Publish(s) PROVE Promise!Next
  <2>1. /\ reply' = reply /\ L1!Insert(s) /\ call'.todo = ToL2(s, outcome')
        /\ UNCHANGED l2vars /\ request'.stage # "lookup"
    BY <1>1, <1>12 DEF Publish, Spilling, Phases
  <2>2. Holding' \subseteq Holding \cup {s}
    BY <1>1, <1>2, <1>5, <2>1, L1Takes, StoredMoves DEF Holding
  <2> QED
    BY <2>1, <2>2 DEF Promise!Next, Promise!Offer
<1>13. ASSUME NEW s \in Snapshot, PublishFrontier(s) PROVE Promise!Next
  <2>1. /\ reply' = reply /\ UNCHANGED l1vars /\ call'.todo = <<s>>
        /\ UNCHANGED l2vars /\ request'.stage # "lookup"
    BY <1>1, <1>13 DEF PublishFrontier, Spilling
  <2>2. ToSet(<<s>>) = {s}
    BY DEF ToSet
  <2>3. Holding' \subseteq Holding \cup {s}
    BY <1>1, <1>2, <1>3, <1>5, <2>1, <2>2, StoredMoves DEF Holding
  <2> QED
    BY <2>1, <2>3 DEF Promise!Next, Promise!Offer
<1>14. CASE Spill
  <2> DEFINE s == Head(call.todo)
  <2>1. /\ reply' = reply /\ UNCHANGED l1vars /\ L2!Insert(server, s) /\ request' = request
    BY <1>14 DEF Spill
  <2>2. /\ s \in Snapshot /\ ToSet(call.todo) = {s} \cup ToSet(call'.todo)
    BY <1>1, <1>14, ElementsOfTail DEF Spill, Phases
  <2> HIDE DEF s
  <2>3. InTransit' = InTransit
    BY <1>1, <1>5, <2>1, CallKeeps
  <2>4. L2!Stored' \subseteq L2!Stored \cup {s}
    BY <1>1, <2>1, <2>2, StoredMoves
  <2>5. Holding' \subseteq Holding
    BY <1>2, <1>3, <2>1, <2>2, <2>3, <2>4 DEF Holding
  <2> QED
    BY <2>1, <2>5 DEF Promise!Next, Promise!Forget
<1>15. CASE SpillRaises
  <2>1. /\ reply' = reply /\ UNCHANGED <<l1vars, l2vars, found>> /\ call'.todo = << >>
        /\ (request' = request \/ request'.stage = "none") /\ client' = client
    BY <1>15 DEF SpillRaises, NoCall, NoRequest, l2vars
  <2>2. client' = client /\ found' = found
    BY <1>15 DEF SpillRaises, l2vars
  <2> QED
    BY <1>1, <1>2, <1>3, <1>5, <2>1, <2>2, StoredMoves, Forgetting
<1>16. CASE Return
  <2>1. /\ call.op = "spill" /\ call'.todo = << >> /\ UNCHANGED <<l1vars, l2vars, found>>
        /\ client' = client
    BY <1>16 DEF Return, NoCall, l2vars
  <2>2. CASE request.stage # "lookup" /\ UNCHANGED <<request, reply>>
    BY <1>1, <1>2, <1>3, <1>5, <2>1, <2>2, StoredMoves, Forgetting
  <2>3. CASE /\ request.stage = "lookup" /\ reply' = found
             /\ request' = [request EXCEPT !.stage = "found"]
    <3> DEFINE s == found.snap
    <3>1. /\ client[server].pc = "idle" /\ request'.stage = "found"
          /\ found = [req |-> request.req, snap |-> s] /\ s \in Snapshot /\ s # NoSnapshot
          /\ UsableWhole(s, request.req) /\ Answers(s, request.req)
          /\ request.req \in Request
      BY <1>1, <2>1, <2>3 DEF Answering, Phases
    <3> HIDE DEF s
    <3>2. s \in Holding
      BY <2>3, <3>1 DEF Holding, InTransit, s
    <3>3. s \in Promise!Restorable(s, request.req)
      BY <3>1, SameForPromise DEF Promise!Restorable
    <3>4. Holding' \subseteq Holding
      BY <1>1, <1>2, <1>3, <1>5, <2>1, <3>1, StoredMoves DEF Holding
    <3>5. Promise!Serve(request.req)
      BY <2>3, <3>1, <3>2, <3>3, <3>4 DEF Promise!Serve
    <3> QED
      BY <3>1, <3>5 DEF Promise!Next
  <2> QED
    BY <1>16, <2>2, <2>3 DEF Return
<1>17. CASE Begin \/ End
  <2>1. /\ reply' = reply /\ UNCHANGED l1vars /\ call' = call /\ request'.stage # "lookup"
        /\ \/ UNCHANGED l2vars
           \/ L2!BeginRequest(server) \/ L2!EndRequest(server)
    BY <1>1, <1>17 DEF Begin, End, NoRequest, Phases
  <2> QED
    BY <1>1, <1>2, <1>3, <1>5, <2>1, StoredMoves, Forgetting
<1>18. CASE Shutdown
  <2>1. /\ reply' = reply /\ UNCHANGED <<l1vars, l2vars, request, found>>
        /\ call'.todo = Residents /\ client' = client
    BY <1>18 DEF Shutdown, l2vars
  <2>2. ToSet(Residents) = L1!Held
    BY <1>1, ResidentsListed
  <2>3. Holding' \subseteq Holding
    BY <1>1, <1>2, <1>3, <1>5, <2>1, <2>2, StoredMoves DEF Holding
  <2> QED
    BY <2>1, <2>3 DEF Promise!Next, Promise!Forget
<1>19. CASE CloseL2 \/ Complete
  <2>1. /\ reply' = reply /\ UNCHANGED l1vars /\ call'.todo = << >> /\ request' = request
        /\ (L2!Shutdown(server) \/ L2!Joined(server)) /\ call.op \in {"close", "join"}
    BY <1>19 DEF CloseL2, Complete, NoCall
  <2>2. request.stage # "lookup"
    BY <1>1, <1>19 DEF CloseL2, Complete, Phases
  <2> QED
    BY <1>1, <1>2, <1>3, <1>5, <2>1, <2>2, StoredMoves, Forgetting
<1>20. CASE Writer
  <2>1. /\ reply' = reply /\ UNCHANGED l1vars /\ call' = call /\ request' = request
        /\ L2!WriterStep(server)
    BY <1>20 DEF Writer
  <2>2. InTransit' = InTransit
    BY <1>1, <1>5, <2>1, WriterKeeps
  <2> QED
    BY <1>1, <1>2, <1>3, <2>1, <2>2, StoredMoves, Forgetting
<1> QED
  BY <1>6, <1>7, <1>8, <1>9, <1>10, <1>11, <1>12, <1>13, <1>14, <1>15, <1>16, <1>17,
     <1>18, <1>19, <1>20 DEF Next

\* The two levels, and what is on its way between them, keep the promise of one
\* prefix cache: whatever a request is served was stored, is held somewhere
\* until then, fits the request, and comes with logits when nothing is left to
\* compute - across promotions, evictions, failed writes, deaths and shutdowns.
THEOREM StoreKeepsPromise == Spec => ImplementsPromise
<1>1. StoreInv /\ Init => Promise!Init
  BY HoldingSnapshots DEF Init, Promise!Init
<1>2. StoreInv /\ StoreInv' /\ [Next]_vars => [Promise!Next]_<<Holding, reply>>
  <2>1. ASSUME UNCHANGED vars PROVE UNCHANGED <<Holding, reply>>
    BY <2>1 DEF vars, l1vars, l2vars, Holding, L1!Held, L2!Stored, L2!Pending, L2!ToSet,
                ToSet, InTransit
  <2> QED
    BY <2>1, StepKeepsStorePromise
<1> QED
  BY <1>1, <1>2, AlwaysStore, PTL DEF Spec, ImplementsPromise, Promise!Spec

-----------------------------------------------------------------------------
(* Two levels are never worse than one, where the disk has room               *)

Unlimited == MaxDiskBytes = 0 /\ SaveErrors = {}

LEMMA SafeFirst == Init => L2P!Safe(server)
<1> SUFFICES ASSUME Init PROVE L2P!Safe(server)
  OBVIOUS
<1>1. proc[server] = L2!Down /\ writer[server] = L2!Asleep
  BY DEF Init, L2!Init
<1>2. /\ proc[server].epoch = 0 /\ proc[server].queue = << >> /\ writer[server].pc = "none"
  BY <1>1 DEF L2!Down, L2!Asleep
<1>3. L2P!Jobs(server) = {}
  BY <1>2 DEF L2P!Jobs, L2P!Idle
<1> QED
  BY <1>2, <1>3 DEF L2P!Safe, L2P!Filing, L2P!Idle

LEMMA SafeMoves ==
  ASSUME Unlimited, Levels, L2P!Safe(server), L2P!L2Inv',
         L2Moves \/ UNCHANGED <<disk, proc, writer>>
  PROVE  /\ L2P!Safe(server)'
         /\ proc'[server].up # "down" => L2!Stored \subseteq L2!Stored'
<1>1. CASE UNCHANGED <<disk, proc, writer>>
  BY <1>1 DEF L2P!Safe, L2P!Filing, L2P!Jobs, L2P!ToSet, L2!Stored, L2!Pending, L2!ToSet
<1>2. CASE L2Moves
  <2>1. L2P!Lossless
    BY DEF Unlimited, L2P!Lossless
  <2>2. L2P!Safe(server)' /\ L2P!L2Inv /\ L2P!DirInv /\ L2P!OwnerInv
    BY <1>2, <2>1, LevelsAssumption, L2P!SafeStep DEF L2Moves, Levels
  <2>3. L2P!Stored = L2!Stored /\ L2P!Stored' = L2!Stored'
    BY SameStored DEF L2!Stored, L2P!Stored, L2!Pending, L2P!Pending, L2!ToSet, L2P!ToSet
  <2>4. L2P!Crash(server) => proc'[server].up = "down"
    BY SameOpen, EndKeeps
  <2>5. ~L2P!Crash(server) => L2P!Stored \subseteq L2P!Stored'
    BY <1>2, <2>1, <2>2, LevelsAssumption, L2P!NothingIsLost DEF L2Moves
  <2> QED
    BY <2>2, <2>3, <2>4, <2>5
<1> QED
  BY <1>1, <1>2

\* How a step of the store moves the disk cache.
LEMMA StepsOfL2 ==
  ASSUME StoreInv, Next
  PROVE  L2Moves \/ UNCHANGED <<disk, proc, writer>>
<1>1. ASSUME NEW r \in Request, LookupExact(r) \/ LookupDeep(r)
      PROVE  UNCHANGED <<disk, proc, writer>>
  BY <1>1 DEF LookupExact, LookupDeep, L2!Lookup, l2vars
<1>2. CASE Spill
  <2>1. Head(call.todo) \in Snapshot
    BY <1>2, ElementsOfTail DEF Spill, StoreInv, Control, Phases
  <2> QED
    BY <1>2, <2>1, SameOffer DEF Spill, L2Moves, L2P!Step
<1>3. CASE Start \/ Crash \/ Search \/ CloseL2 \/ Complete \/ Writer
  BY <1>3, SameOpen, SameLoad, SameEnd, SameWriter
     DEF Start, Crash, Search, CloseL2, Complete, Writer, L2Moves, L2P!Step
<1>4. CASE Begin \/ End
  BY <1>4, SameBrackets DEF Begin, End, L2Moves, L2P!Step, l2vars
<1>5. CASE FallBack \/ Promote \/ SpillRaises \/ Return \/ Shutdown
  BY <1>5 DEF FallBack, Promote, SpillRaises, Return, Shutdown, l2vars
<1>6. ASSUME NEW s \in Snapshot, Publish(s) \/ PublishFrontier(s)
      PROVE  UNCHANGED <<disk, proc, writer>>
  BY <1>6 DEF Publish, PublishFrontier, l2vars
<1> QED
  BY <1>1, <1>2, <1>3, <1>4, <1>5, <1>6 DEF Next

\* A lookup of L1 leaves everything where it is but the generation snapshot it
\* returns.
LEMMA LookupGivesUp ==
  ASSUME Levels, NEW r \in Request, L1!Lookup(r), reply' = found',
         request.stage # "found", request'.stage = "found"
  PROVE  L1!Held \subseteq L1!Held' \cup Spent
<1>1. \A i \in DOMAIN entries' : entries'[i] = entries[i]
  BY SameLookup, LevelsAssumption, L1P!OthersShrink
<1>2. ASSUME NEW i \in DOMAIN entries, i \notin DOMAIN entries'
      PROVE  entries[i] \in Spent
  <2>1. L1P!EntriesOK /\ L1P!Lookup(r)
    BY SameLookup DEF Levels
  <2>2. /\ entries[i].kind = "generation"
        /\ found'.snap \in {entries[i], L1P!SliceAtBoundary(entries[i])}
    BY <1>2, <2>1, LevelsAssumption, L1P!LookupSpends DEF L1P!L1Assumption
  <2>3. L1P!SliceAtBoundary(entries[i]) = SliceAtBoundary(entries[i])
    BY DEF L1P!SliceAtBoundary, SliceAtBoundary
  <2>4. entries[i] \in L1!Held
    BY DEF L1!Held
  <2> QED
    BY <2>2, <2>3, <2>4 DEF Spent
<1> QED
  BY <1>1, <1>2 DEF L1!Held

\* What L1 holds counts until a shutdown has listed it.
Listed == call.op \in {"close", "join"} \/ manager.complete

LEMMA NothingGivenUp ==
  ASSUME Unlimited, StoreInv, StoreInv', L2P!Safe(server), Next,
         proc'[server].up # "down"
  PROVE  Reachable \subseteq Reachable' \cup Spent \cup Refused
<1>1. /\ Levels /\ Levels' /\ Phases /\ Ending /\ Answering /\ L2P!L2Inv'
  BY DEF StoreInv, Control, Levels
<1>2. L2!Stored \subseteq L2!Stored'
  BY <1>1, StepsOfL2, SafeMoves
<1>3. /\ Reachable = (IF Listed THEN {} ELSE L1!Held) \cup L2!Stored \cup ToSet(call.todo)
      /\ (IF Listed THEN {} ELSE L1!Held)' \cup L2!Stored' \cup ToSet(call'.todo)
           \subseteq Reachable'
  BY DEF Reachable, Listed, ToSet
<1>4. ASSUME Listed' => Listed,
             ~Listed => L1!Held \subseteq L1!Held' \cup ToSet(call'.todo) \cup Spent,
             ToSet(call.todo) \subseteq ToSet(call'.todo) \cup L2!Stored' \cup Refused
      PROVE  Reachable \subseteq Reachable' \cup Spent \cup Refused
  BY <1>2, <1>3, <1>4
<1>5. ToSet(<< >>) = {}
  BY DEF ToSet
<1>6. call.op \notin {"spill", "close"} => ToSet(call.todo) = {}
  BY <1>1, <1>5 DEF Phases
<1>7. UNCHANGED l1vars => L1!Held' = L1!Held
  BY DEF l1vars, L1!Held
<1>8. ~Crash
  BY <1>1, EndKeeps DEF Crash
<1>9. CASE Start \/ Search \/ Writer
  <2>1. call' = call /\ manager' = manager /\ UNCHANGED l1vars
    BY <1>9 DEF Start, Search, Writer
  <2> QED
    BY <1>4, <1>7, <2>1 DEF Listed
<1>10. CASE Begin \/ End
  <2>1. call' = call /\ manager' = manager /\ UNCHANGED l1vars
    BY <1>10 DEF Begin, End
  <2> QED
    BY <1>4, <1>7, <2>1 DEF Listed
<1>11. ASSUME NEW r \in Request, LookupExact(r)
       PROVE  Reachable \subseteq Reachable' \cup Spent \cup Refused
  <2>1. /\ L1!Lookup(r) /\ call' = call /\ manager' = manager /\ reply' = found'
        /\ request.stage # "found" /\ request'.stage = "found"
    BY <1>11 DEF LookupExact, May, NoRequest
  <2> QED
    BY <1>1, <1>4, <2>1, LookupGivesUp DEF Listed
<1>12. ASSUME NEW r \in Request, LookupDeep(r)
       PROVE  Reachable \subseteq Reachable' \cup Spent \cup Refused
  <2>1. /\ call.op = "none" /\ call'.op = "search" /\ manager' = manager /\ UNCHANGED l1vars
    BY <1>12 DEF LookupDeep, May, Free, NoCall
  <2> QED
    BY <1>4, <1>6, <1>7, <2>1 DEF Listed
<1>13. CASE FallBack
  <2>1. /\ L1!Lookup(request.req) /\ call.op = "search" /\ call'.op = "none"
        /\ manager' = manager /\ request.req \in Request /\ reply' = found'
        /\ request.stage # "found" /\ request'.stage = "found"
    BY <1>1, <1>13 DEF FallBack, Searched, NoCall, Phases
  <2> QED
    BY <1>1, <1>4, <1>6, <2>1, LookupGivesUp DEF Listed
<1>14. CASE Promote
  <2>1. /\ call.op = "search" /\ call'.op = "spill" /\ manager' = manager
        /\ found.snap \in Snapshot
    BY <1>1, <1>14 DEF Promote, Searched, Spilling, Phases, Answering
  <2>2. L1!Held \subseteq L1!Held' \cup ToSet(call'.todo)
    <3>1. CASE UNCHANGED l1vars
      BY <1>7, <3>1
    <3>2. CASE L1!Insert(found.snap) /\ call' = Spilling(outcome'.removed)
      BY <1>1, <2>1, <3>2, L1Takes DEF Spilling
    <3> QED
      BY <1>14, <3>1, <3>2 DEF Promote
  <2> QED
    BY <1>4, <1>6, <2>1, <2>2 DEF Listed
<1>15. ASSUME NEW s \in Snapshot, Publish(s)
       PROVE  Reachable \subseteq Reachable' \cup Spent \cup Refused
  <2>1. /\ L1!Insert(s) /\ call.op = "none" /\ call' = [op |-> "spill", todo |-> ToL2(s, outcome')]
        /\ manager' = manager
    BY <1>15 DEF Publish, Free, Spilling
  <2>2. L1!Held \subseteq L1!Held' \cup ToSet(call'.todo)
    BY <1>1, <2>1, L1Takes
  <2> QED
    BY <1>2, <1>3, <1>6, <2>1, <2>2 DEF Listed
<1>16. ASSUME NEW s \in Snapshot, PublishFrontier(s)
       PROVE  Reachable \subseteq Reachable' \cup Spent \cup Refused
  <2>1. /\ call.op = "none" /\ call'.op = "spill" /\ manager' = manager /\ UNCHANGED l1vars
    BY <1>16 DEF PublishFrontier, Free, Spilling
  <2> QED
    BY <1>4, <1>6, <1>7, <2>1 DEF Listed
<1>17. CASE Spill
  <2> DEFINE s == Head(call.todo)
  <2>1. /\ call'.op = call.op /\ manager' = manager /\ UNCHANGED l1vars
        /\ s \in Snapshot /\ ToSet(call.todo) = {s} \cup ToSet(call'.todo)
        /\ L2!Insert(server, s) /\ call.todo # << >>
    BY <1>1, <1>17, ElementsOfTail DEF Spill, Phases
  <2>2. ~L2!Accepts(server, s) => s \in Refused
    <3>1. call.todo \in Seq(Snapshot) /\ call'.todo = Tail(call.todo) /\ call'.op # "none"
      BY <1>1, <1>17, <2>1 DEF Spill, Phases
    <3>2. Len(call'.todo) # Len(call.todo)
      BY <2>1, <3>1
    <3> QED
      BY <2>1, <3>1, <3>2 DEF Refused
  <2> HIDE DEF s
  <2>3. L2!Accepts(server, s) => s \in L2!Stored'
    <3> SUFFICES ASSUME L2!Accepts(server, s) PROVE s \in L2!Stored'
      OBVIOUS
    <3>1. L2P!Insert(server, s) /\ L2P!Accepts(server, s)
      BY <2>1, SameOffer DEF L2!Accepts, L2P!Accepts, L2!OnDisk, L2P!OnDisk,
                                   L2!ToSet, L2P!ToSet
    <3>2. L2P!L2Inv /\ L2P!DirInv
      BY <1>1 DEF Levels
    <3>3. s \in L2P!Stored'
      BY <1>1, <2>1, <3>1, <3>2, LevelsAssumption, L2P!AcceptedIsStored
    <3> QED
      BY <3>3 DEF L2!Stored, L2P!Stored, L2!Pending, L2P!Pending, L2!ToSet, L2P!ToSet
  <2> QED
    BY <1>4, <1>7, <2>1, <2>2, <2>3 DEF Listed
<1>18. CASE SpillRaises
  <2>1. /\ call.todo # << >> /\ call'.op = "none" /\ call' # call
        /\ manager' = manager /\ UNCHANGED l1vars
    BY <1>18 DEF SpillRaises, NoCall
  <2>2. ToSet(call.todo) \subseteq Refused
    BY <2>1 DEF Refused
  <2> QED
    BY <1>4, <1>7, <2>1, <2>2 DEF Listed
<1>19. CASE Return
  <2>1. /\ call.op = "spill" /\ call.todo = << >> /\ call'.op = "none"
        /\ manager' = manager /\ UNCHANGED l1vars
    BY <1>19 DEF Return, NoCall
  <2> QED
    BY <1>4, <1>5, <1>7, <2>1 DEF Listed
<1>20. CASE Shutdown
  <2>1. /\ call.op = "none" /\ call'.todo = Residents
    BY <1>20 DEF Shutdown, Free
  <2>2. ToSet(Residents) = L1!Held
    BY <1>1, ResidentsListed
  <2> QED
    BY <1>2, <1>3, <1>6, <2>1, <2>2
<1>21. CASE CloseL2 \/ Complete
  <2>1. /\ call.op \in {"close", "join"} /\ ToSet(call.todo) = {}
        /\ call'.op = "join" \/ manager'.complete
    BY <1>1, <1>5, <1>6, <1>21 DEF CloseL2, Complete, NoCall, Phases
  <2> QED
    BY <1>2, <1>3, <2>1 DEF Listed
<1> QED
  BY <1>8, <1>9, <1>10, <1>11, <1>12, <1>13, <1>14, <1>15, <1>16, <1>17, <1>18, <1>19,
     <1>20, <1>21 DEF Next

\* What a search ends with is longer than what L1 would have served.
LEMMA LongerServed ==
  ASSUME StoreInv, [Next]_vars, call.op = "search", call'.op # "search", call'.op # "none"
  PROVE  Len(found'.snap.tokens) > Matched(request.req)
<1>1. Levels /\ Phases /\ Answering
  BY DEF StoreInv, Control
<1>2. Promote
  BY DEF Next, Start, Crash, LookupExact, LookupDeep, May, Free, Search, FallBack, Publish,
         PublishFrontier, Spill, SpillRaises, Return, Begin, End, Shutdown, CloseL2,
         Complete, Writer, NoCall, vars
<1>3. /\ found.snap # NoSnapshot /\ client[server].pc = "idle"
      /\ request.stage = "lookup" /\ found' = found
  BY <1>1, <1>2 DEF Promote, Searched, Phases, L1!Insert
<1> QED
  BY <1>1, <1>3 DEF Answering

\* A second level never costs anything the first would have had.  With room on
\* disk and no failing save, a search of L2 ends with more than L1 would have
\* served; and no step of a live process, a promotion, a pruning, an eviction,
\* an insert turned away or a shutdown, gives up a snapshot other than the
\* generation one it returns and those offered to a writer that has no free
\* slot or raises.  (A disk with a budget evicts, and a save that fails loses
\* its snapshot.)
THEOREM SecondLevelNeverHurts == Unlimited /\ Spec => NeverWorseThanL1
<1> SUFFICES ASSUME Unlimited PROVE Spec => NeverWorseThanL1
  OBVIOUS
<1>1. StoreInv /\ StoreInv' /\ L2P!Safe(server) /\ [Next]_vars
        => L2P!Safe(server)'
  <2> SUFFICES ASSUME StoreInv, StoreInv', L2P!Safe(server), [Next]_vars
               PROVE  L2P!Safe(server)'
    OBVIOUS
  <2>1. L2Moves \/ UNCHANGED <<disk, proc, writer>>
    BY StepsOfL2 DEF vars, l2vars
  <2> QED
    BY <2>1, SafeMoves DEF StoreInv, Levels
<1>2. StoreInv /\ StoreInv' /\ L2P!Safe(server) /\ [Next]_vars =>
        [/\ call.op = "search" /\ call'.op # "search" /\ call'.op # "none" =>
              Len(found'.snap.tokens) > Matched(request.req)
         /\ proc'[server].up # "down" => Reachable \subseteq Reachable' \cup Spent \cup Refused]_vars
  <2>1. ASSUME StoreInv, [Next]_vars
        PROVE  call.op = "search" /\ call'.op # "search" /\ call'.op # "none" =>
                  Len(found'.snap.tokens) > Matched(request.req)
    BY <2>1, LongerServed
  <2>2. ASSUME StoreInv, StoreInv', L2P!Safe(server), [Next]_vars
        PROVE  \/ UNCHANGED vars
               \/ proc'[server].up # "down" =>
                    Reachable \subseteq Reachable' \cup Spent \cup Refused
    BY <2>2, NothingGivenUp
  <2> QED
    BY <2>1, <2>2, Zenon
<1> QED
  BY <1>1, <1>2, AlwaysStore, SafeFirst, PTL DEF Spec, NeverWorseThanL1

=============================================================================
