------------------------------- MODULE PrefixL1 -------------------------------
(***************************************************************************)
(* The in-memory snapshot cache: class DFlashPrefixCache of                *)
(* cache/prefix_l1.py.  Every method runs under the cache's own lock, so   *)
(* each is one atomic action.                                              *)
(*                                                                         *)
(* entries and lru are the fields _entries and _lru_order; nextId is       *)
(* _next_id.  reply is what the last lookup returned, outcome what the     *)
(* last insert returned.  lastUse and clock are history variables: the     *)
(* moment each entry was last inserted or served.                          *)
(***************************************************************************)
EXTENDS Snapshots

CONSTANTS Snapshot,           \* the snapshots offered to the cache
          Request,            \* the lookups made
          NoSnapshot,         \* the None of a miss
          MaxEntries,         \* max_entries
          MaxBytes,           \* max_bytes
          MaxSnapshotTokens,  \* max_snapshot_tokens, 0: no cap
          FrontierStride,     \* frontier_stride, 0: keep no frontiers
          CrossKindPrune,     \* cross_kind_prune
          MaxClock            \* bound of the model: recorded operations

ASSUME L1Assumption ==
  /\ \A s \in Snapshot : IsSnapshot(s)
  /\ \A r \in Request : IsRequest(r)
  /\ MaxEntries \in Nat /\ MaxBytes \in Nat /\ MaxSnapshotTokens \in Nat
  /\ FrontierStride \in Nat /\ CrossKindPrune \in BOOLEAN /\ MaxClock \in Nat

VARIABLES entries, lru, nextId, reply, outcome, lastUse, clock

vars == <<entries, lru, nextId, reply, outcome, lastUse, clock>>

-----------------------------------------------------------------------------
(* Lookup *)

\* The id in S with the largest weight, as a set that is empty when S is; ties
\* go to the oldest entry, the one the loop over the dict meets first.
Heaviest(S, weight(_)) ==
  {i \in S : \A j \in S : weight(i) > weight(j) \/ (weight(i) = weight(j) /\ i <= j)}

\* The entry a lookup settles on: the longest usable prefix, or the slice at
\* the furthest usable boundary when that is strictly longer.
Best(E, r) ==
  LET whole == Heaviest({i \in DOMAIN E : UsableWhole(E[i], r)}, LAMBDA i : Len(E[i].tokens))
      split == Heaviest({i \in DOMAIN E : UsableAtBoundary(E[i], r)}, LAMBDA i : E[i].boundary)
  IN {[id |-> b, snap |-> SliceAtBoundary(E[b]), sidecar |-> TRUE] :
        b \in {c \in split : \A w \in whole : E[c].boundary > Len(E[w].tokens)}}
     \cup
     {[id |-> w, snap |-> E[w], sidecar |-> FALSE] :
        w \in {c \in whole : \A b \in split : E[b].boundary <= Len(E[c].tokens)}}

\* Mutant: the rule for exact matches is forgotten.
Hit_NoExactRule(E, r) == Best(E, r)

\* What lookup returns: an exact match that cannot supply logits is a miss.
Hit(E, r) == {h \in Best(E, r) : Answers(h.snap, r)}

\* A served generation snapshot leaves the cache; so does a sliced carrier.
Consumed(E, h) == h.sidecar \/ E[h.id].kind = "generation"

MissReply(r) == [req |-> r, snap |-> NoSnapshot]

-----------------------------------------------------------------------------
(* Insert *)

\* Mutant: an entry with the very same tokens is not seen as extended.
Extended_Strictly(E, s) ==
  {i \in DOMAIN E : E[i].key = s.key /\ IsStrictPrefix(E[i].tokens, s.tokens)}

\* Older entries of the same key that the incoming snapshot s extends.
Extended(E, s) == {i \in DOMAIN E : E[i].key = s.key /\ IsPrefix(E[i].tokens, s.tokens)}

\* A prefill frontier kept although a longer prefill snapshot arrives.
AlignedFrontier(old, s) ==
  /\ old.kind = "prefill"
  /\ FrontierStride > 0
  /\ Len(old.tokens) < Len(s.tokens)
  /\ Len(old.tokens) % FrontierStride = 0

DoomedSame(E, s) ==
  {i \in Extended(E, s) : E[i].kind = s.kind /\ ~AlignedFrontier(E[i], s)}

\* Mutant: a prefill snapshot spares the generation twin of its own tokens.
DoomedCross_Strictly(E, s) ==
  {i \in Extended(E, s) : /\ CrossKindPrune /\ s.kind = "prefill"
                          /\ E[i].kind = "generation" /\ E[i].tokens # s.tokens}

\* Mutant: a generation snapshot prunes the prefill ones it extends.
DoomedCross_BothWays(E, s) ==
  {i \in Extended(E, s) : CrossKindPrune /\ E[i].kind # s.kind}

\* Across kinds only a prefill snapshot prunes, and only generation ones.
DoomedCross(E, s) ==
  {i \in Extended(E, s) :
     CrossKindPrune /\ s.kind = "prefill" /\ E[i].kind = "generation"}

Doomed(E, s) == DoomedSame(E, s) \cup DoomedCross(E, s)

TooLong(s) ==
  s.kind # "generation" /\ MaxSnapshotTokens > 0 /\ Len(s.tokens) > MaxSnapshotTokens

\* A generation snapshot is turned away when it cannot fit next to a prefill
\* snapshot of the same prompt.
YieldsToPrefill(E, s) ==
  /\ s.kind = "generation"
  /\ \E i \in Extended(E, s) : E[i].kind = "prefill" /\ E[i].size + s.size > MaxBytes

Bytes(E) == Total([i \in DOMAIN E |-> E[i].size])

OverBudget(E) == Cardinality(DOMAIN E) > MaxEntries \/ Bytes(E) > MaxBytes

Without(E, S) == [i \in DOMAIN E \ S |-> E[i]]

\* Mutant: the loop watches the number of entries only.
Evictions_CountOnly(E, order) ==
  IF Len(order) > MaxEntries THEN Len(order) - MaxEntries ELSE 0

\* Mutant: the loop makes room for one more entry.
Evictions_Early(E, order) ==
  LET Left(n) == Without(E, ToSet(SubSeq(order, 1, n)))
      Full(n) == OverBudget(Left(n)) \/ Cardinality(DOMAIN Left(n)) = MaxEntries
  IN CHOOSE n \in 0 .. Len(order) : ~Full(n) /\ \A m \in 0 .. (n - 1) : Full(m)

\* How many entries the eviction loop pops from the front of order.
Evictions(E, order) ==
  CHOOSE n \in 0 .. Len(order) :
    /\ n < Len(order) => ~OverBudget(Without(E, ToSet(SubSeq(order, 1, n))))
    /\ \A m \in 0 .. (n - 1) : OverBudget(Without(E, ToSet(SubSeq(order, 1, m))))

Ascending(S) == [n \in 1 .. Cardinality(S) |-> Nth(S, n)]
SnapshotsOf(E, ids) == [n \in DOMAIN ids |-> E[ids[n]]]

\* Mutant: the id of a removed entry stays in the order.
DropIds_Keeps(order, S) == order

DropIds(order, S) == SelectAt(order, {n \in DOMAIN order : order[n] \notin S})

\* Mutant: serving an entry does not move it.
Touched_Stays(order, i) == order

Touched(order, i) == Append(DropIds(order, {i}), i)

-----------------------------------------------------------------------------

NoOutcome == [admitted |-> FALSE, skipped |-> FALSE, removed |-> <<>>]

Init ==
  /\ entries = << >> /\ lru = << >> /\ nextId = 0
  /\ reply = NoSnapshot /\ outcome = NoOutcome
  /\ lastUse = << >> /\ clock = 0

\* lookup(record=True).
Lookup(r) ==
  /\ clock < MaxClock
  /\ \/ /\ Hit(entries, r) = {}
        /\ reply' = MissReply(r)
        /\ UNCHANGED <<entries, lru, lastUse, clock>>
     \/ \E h \in Hit(entries, r) :
        /\ reply' = [req |-> r, snap |-> h.snap]
        /\ clock' = clock + 1
        /\ IF Consumed(entries, h)
           THEN /\ entries' = Without(entries, {h.id})
                /\ lru' = DropIds(lru, {h.id})
                /\ lastUse' = Without(lastUse, {h.id})
           ELSE /\ lru' = Touched(lru, h.id)
                /\ lastUse' = [lastUse EXCEPT ![h.id] = clock]
                /\ UNCHANGED entries
  /\ UNCHANGED <<nextId, outcome>>

\* lookup(record=False): the store asks what a lookup would return.
Probe(r) ==
  /\ \/ /\ Hit(entries, r) = {}
        /\ reply' = MissReply(r)
     \/ \E h \in Hit(entries, r) : reply' = [req |-> r, snap |-> h.snap]
  /\ UNCHANGED <<entries, lru, nextId, outcome, lastUse, clock>>

\* insert_with_evictions: pruning, insertion and eviction are one step.
Insert(s) ==
  /\ clock < MaxClock
  /\ \/ /\ TooLong(s)
        /\ outcome' = [NoOutcome EXCEPT !.skipped = TRUE]
        /\ UNCHANGED <<entries, lru, nextId, lastUse, clock>>
     \/ /\ ~TooLong(s) /\ YieldsToPrefill(entries, s)
        /\ outcome' = [NoOutcome EXCEPT !.removed = <<s>>]
        /\ UNCHANGED <<entries, lru, nextId, lastUse, clock>>
     \/ /\ ~TooLong(s) /\ ~YieldsToPrefill(entries, s)
        /\ LET doomed  == Doomed(entries, s)
               grown   == [i \in (DOMAIN entries \ doomed) \cup {nextId} |->
                             IF i = nextId THEN s ELSE entries[i]]
               order   == Append(DropIds(lru, doomed), nextId)
               n       == Evictions(grown, order)
               evicted == SubSeq(order, 1, n)
           IN /\ entries' = Without(grown, ToSet(evicted))
              /\ lru' = SubSeq(order, n + 1, Len(order))
              /\ outcome' = [admitted |-> nextId \notin ToSet(evicted),
                             skipped  |-> FALSE,
                             removed  |-> SnapshotsOf(entries, Ascending(DoomedSame(entries, s)))
                                       \o SnapshotsOf(entries, Ascending(DoomedCross(entries, s)))
                                       \o SnapshotsOf(grown, evicted)]
              /\ lastUse' = [i \in DOMAIN entries' |-> IF i = nextId THEN clock ELSE lastUse[i]]
        /\ nextId' = nextId + 1
        /\ clock' = clock + 1
  /\ UNCHANGED reply

Clear ==
  /\ entries' = << >> /\ lru' = << >> /\ lastUse' = << >>
  /\ UNCHANGED <<nextId, reply, outcome, clock>>

Next ==
  \/ \E r \in Request : Lookup(r)
  \/ \E r \in Request : Probe(r)
  \/ \E s \in Snapshot : Insert(s)
  \/ Clear

Spec == Init /\ [][Next]_vars

-----------------------------------------------------------------------------
(* Properties *)

\* _lru_order lists every resident id exactly once, in the order of last use,
\* oldest first: consuming, pruning and evicting an entry each take it out of
\* both structures, so eviction never spins on a stale id nor misses a resident
\* one, and a snapshot served a moment ago is the last that pressure removes.
LruOrderIsUseOrder ==
  /\ ToSet(lru) = DOMAIN entries
  /\ \A a, b \in DOMAIN lru : a < b => lastUse[lru[a]] < lastUse[lru[b]]

\* After every insert the cache respects both max_entries and max_bytes.
WithinBudget == ~OverBudget(entries)

\* An entry inserted later never leaves an older one of its kind behind that
\* it extends, except a prefill frontier at a multiple of the stride.
NoDominatedEntry ==
  \A i, j \in DOMAIN entries :
    /\ i < j
    /\ entries[i].key = entries[j].key
    /\ entries[i].kind = entries[j].kind
    /\ IsPrefix(entries[i].tokens, entries[j].tokens)
    => AlignedFrontier(entries[i], entries[j])

\* While a prefill snapshot with logits is resident, the very same prompt is
\* an exact hit, whatever generation snapshots of that prompt were inserted
\* before or after it: none of them may mask it.
ExactPromptReuse ==
  \A i \in DOMAIN entries : \A r \in Request :
    /\ CrossKindPrune
    /\ entries[i].kind = "prefill" /\ entries[i].logits
    /\ Fits(entries[i], r) /\ entries[i].tokens = r.tokens
    => \E h \in Hit(entries, r) : h.snap.tokens = r.tokens

\* The incoming generation snapshot s beside the entry i and all that were used
\* since, without the generation snapshots that s extends and so replaces.
Beside(s, i) ==
  LET replaced == {j \in Extended(entries, s) : entries[j].kind = "generation"}
      since == {j \in DOMAIN entries \ replaced : lastUse[j] >= lastUse[i]}
  IN [j \in since \cup {nextId} |-> IF j = nextId THEN s ELSE entries[j]]

\* Inserting a generation snapshot removes a prefill one only when the two
\* budgets leave no room for it beside the new one and all that were used since,
\* and then it is the least recently used: no eviction while there is room, and
\* none of an entry for the sake of an older one.
PrefillOutlivesGeneration ==
  [][\A s \in Snapshot :
       s.kind = "generation" /\ Insert(s) =>
         \A i \in DOMAIN entries \ DOMAIN entries' :
           entries[i].kind = "prefill" =>
             /\ OverBudget(Beside(s, i))
             /\ \A j \in DOMAIN entries' \cap DOMAIN entries : lastUse[i] < lastUse[j]]_vars

Held == {entries[i] : i \in DOMAIN entries}

\* The cache keeps the promise every prefix cache makes.
Promise == INSTANCE PrefixCacheSpec WITH held <- Held
ImplementsPromise == Promise!Spec

==============================================================================
