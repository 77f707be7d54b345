---------------------------- MODULE PrefixL1Proofs ----------------------------
(***************************************************************************)
(* Proofs about the in-memory cache, for all snapshots, requests and       *)
(* budgets.  After some lemmas on lists and sums, the first two parts have *)
(* an eviction only take entries away, in whatever order; the third is     *)
(* about the order and the budgets.                                        *)
(***************************************************************************)
EXTENDS PrefixL1, FiniteSetTheorems, SequenceTheorems, TLAPS

-----------------------------------------------------------------------------
(* Positions, lists and sums: what the operators of Collections compute.   *)

\* A set of natural numbers that is not empty has a smallest one.
LEMMA Smallest ==
  ASSUME NEW K \in SUBSET Nat, K # {}
  PROVE  \E k \in K : \A j \in K : k <= j
<1> DEFINE R == OpToRel(<, Nat)
<1>1. IsWellFoundedOn(R, Nat)
  BY NatLessThanWellFounded
<1>2. \A j, k \in Nat : j < k => <<j, k>> \in R
  BY DEF OpToRel
<1>3. \E k \in K : \A j \in K : <<j, k>> \notin R
  <2> HIDE DEF R
  <2> QED
    BY <1>1, WFMin
<1>4. PICK k \in K : \A j \in K : <<j, k>> \notin R
  BY <1>3
<1>5. ASSUME NEW j \in K PROVE k <= j
  <2>1. j \in Nat /\ k \in Nat /\ ~(j < k)
    BY <1>2, <1>4
  <2> HIDE DEF R
  <2> QED
    BY <2>1
<1> QED
  BY <1>5

Below(K, k) == {j \in K : j <= k}

LEMMA BelowGrows ==
  ASSUME NEW K \in SUBSET Int, IsFiniteSet(K), NEW j \in K, NEW k \in K, j < k
  PROVE  /\ Cardinality(Below(K, j)) \in Nat /\ Cardinality(Below(K, k)) \in Nat
         /\ Cardinality(Below(K, j)) < Cardinality(Below(K, k))
<1>1. IsFiniteSet(Below(K, k)) /\ IsFiniteSet(Below(K, j))
  BY FS_Subset DEF Below
<1>2. Below(K, j) \subseteq Below(K, k) /\ k \in Below(K, k) /\ k \notin Below(K, j)
  <2>1. j \in Int /\ k \in Int
    OBVIOUS
  <2>2. ASSUME NEW i \in K, i <= j PROVE i <= k
    <3>1. i \in Int
      OBVIOUS
    <3> QED
      BY <2>1, <2>2, <3>1
  <2>3. k <= k /\ ~(k <= j)
    BY <2>1
  <2>4. Below(K, j) \subseteq Below(K, k)
    BY <2>2 DEF Below
  <2> QED
    BY <2>3, <2>4 DEF Below
<1>3. Cardinality(Below(K, j)) <= Cardinality(Below(K, k))
      /\ Cardinality(Below(K, k)) # Cardinality(Below(K, j))
  BY <1>1, <1>2, FS_Subset
<1> QED
  BY <1>1, <1>3, FS_CardinalityType

\* Nth enumerates a finite set in increasing order, leaving nothing out.
LEMMA NthEnumerates ==
  ASSUME NEW K \in SUBSET Int, IsFiniteSet(K)
  PROVE  /\ Cardinality(K) \in Nat
         /\ \A n \in 1 .. Cardinality(K) : Nth(K, n) \in K
         /\ \A m, n \in 1 .. Cardinality(K) : m < n => Nth(K, m) < Nth(K, n)
         /\ \A k \in K : \E n \in 1 .. Cardinality(K) : Nth(K, n) = k
<1> DEFINE N == Cardinality(K)
           rank == [k \in K |-> Cardinality(Below(K, k))]
<1>1. N \in Nat
  BY FS_CardinalityType
<1>2. \A k \in K : rank[k] \in 1 .. N
  <2>1. ASSUME NEW k \in K PROVE rank[k] \in 1 .. N
    <3>1. IsFiniteSet(Below(K, k)) /\ Cardinality(Below(K, k)) <= N
      BY FS_Subset DEF Below
    <3>2. Cardinality(Below(K, k)) \in Nat
      BY <3>1, FS_CardinalityType
    <3>3. Cardinality(Below(K, k)) # 0
      BY <3>1, FS_EmptySet DEF Below
    <3> QED
      BY <1>1, <3>1, <3>2, <3>3
  <2> QED
    BY <2>1
<1>3. \A j, k \in K : j < k => rank[j] < rank[k]
  BY BelowGrows
<1>4. \A j, k \in K : rank[j] = rank[k] => j = k
  BY <1>2, <1>3
<1>5. rank \in Injection(K, 1 .. N)
  BY <1>2, <1>4 DEF Injection, IsInjective
<1>6. IsFiniteSet(1 .. N) /\ Cardinality(1 .. N) = N
  BY <1>1, FS_Interval
<1>7. rank \in Surjection(K, 1 .. N)
  BY <1>5, <1>6, FS_Injection
<1>8. ASSUME NEW n \in 1 .. N
      PROVE  Nth(K, n) \in K /\ rank[Nth(K, n)] = n
  <2>1. \E k \in K : Cardinality(Below(K, k)) = n
    BY <1>7 DEF Surjection
  <2> QED
    BY <2>1 DEF Nth, Below
<1>9. ASSUME NEW m \in 1 .. N, NEW n \in 1 .. N, m < n
      PROVE  Nth(K, m) < Nth(K, n)
  <2>1. Nth(K, m) \in Int /\ Nth(K, n) \in Int
    BY <1>8
  <2>2. Nth(K, m) # Nth(K, n)
    <3>1. rank[Nth(K, n)] = n /\ rank[Nth(K, m)] = m
      BY <1>8
    <3> HIDE DEF rank
    <3> QED
      BY <1>9, <3>1
  <2>3. ~(Nth(K, n) < Nth(K, m))
    <3>1. Nth(K, n) < Nth(K, m) => rank[Nth(K, n)] < rank[Nth(K, m)]
      BY <1>3, <1>8
    <3>2. rank[Nth(K, n)] = n /\ rank[Nth(K, m)] = m
      BY <1>8
    <3> HIDE DEF rank
    <3> QED
      BY <1>1, <1>9, <3>1, <3>2
  <2> QED
    BY <2>1, <2>2, <2>3
<1>10. ASSUME NEW k \in K PROVE \E n \in 1 .. N : Nth(K, n) = k
  BY <1>2, <1>4, <1>8
<1> QED
  BY <1>1, <1>8, <1>9, <1>10

\* A selection keeps the elements at the positions given, and their order.
LEMMA SelectAtKeeps ==
  ASSUME NEW S, NEW s \in Seq(S), NEW K \in SUBSET DOMAIN s
  PROVE  /\ SelectAt(s, K) \in Seq({s[k] : k \in K})
         /\ ToSet(SelectAt(s, K)) = {s[k] : k \in K}
         /\ \E at \in [DOMAIN SelectAt(s, K) -> K] :
              /\ \A n \in DOMAIN SelectAt(s, K) : SelectAt(s, K)[n] = s[at[n]]
              /\ \A m, n \in DOMAIN SelectAt(s, K) : m < n => at[m] < at[n]
<1> DEFINE N == Cardinality(K)
           at == [n \in 1 .. N |-> Nth(K, n)]
<1>1. DOMAIN s = 1 .. Len(s) /\ Len(s) \in Nat
  BY LenProperties
<1>2. K \in SUBSET Int /\ IsFiniteSet(K)
  <2>1. IsFiniteSet(1 .. Len(s))
    BY <1>1, FS_Interval
  <2> QED
    BY <1>1, <2>1, FS_Subset
<1>3. /\ N \in Nat
      /\ \A n \in 1 .. N : Nth(K, n) \in K
      /\ \A m, n \in 1 .. N : m < n => Nth(K, m) < Nth(K, n)
      /\ \A k \in K : \E n \in 1 .. N : Nth(K, n) = k
  BY <1>2, NthEnumerates
<1>4. SelectAt(s, K) = [n \in 1 .. N |-> s[at[n]]] /\ at \in [1 .. N -> K]
  BY <1>3 DEF SelectAt
<1>5. SelectAt(s, K) \in Seq({s[k] : k \in K})
  BY <1>3, <1>4, IsASeq
<1>6. ToSet(SelectAt(s, K)) = {s[k] : k \in K}
  <2>1. \A n \in 1 .. N : at[n] \in K
    BY <1>3
  <2>2. \A k \in K : \E n \in 1 .. N : at[n] = k
    BY <1>3
  <2>3. ToSet(SelectAt(s, K)) = {s[at[n]] : n \in 1 .. N}
    BY <1>4 DEF ToSet
  <2> HIDE DEF at
  <2> QED
    BY <2>1, <2>2, <2>3
<1>7. DOMAIN SelectAt(s, K) = 1 .. N
  BY <1>4
<1>8. /\ \A n \in 1 .. N : SelectAt(s, K)[n] = s[at[n]]
      /\ \A m, n \in 1 .. N : m < n => at[m] < at[n]
  BY <1>3, <1>4
<1> QED
  BY <1>4, <1>5, <1>6, <1>7, <1>8

LEMMA FiniteList ==
  ASSUME NEW S, NEW s \in Seq(S)
  PROVE  ToSet(s) \subseteq S /\ IsFiniteSet(ToSet(s))
<1>1. DOMAIN s = 1 .. Len(s) /\ Len(s) \in Nat
  BY LenProperties
<1>2. IsFiniteSet(DOMAIN s)
  BY <1>1, FS_Interval
<1>3. s \in Surjection(DOMAIN s, ToSet(s))
  BY <1>1 DEF Surjection, ToSet
<1>4. ToSet(s) \subseteq S
  BY <1>1, ElementOfSeq DEF ToSet
<1> QED
  BY <1>2, <1>3, <1>4, FS_Surjection

LEMMA ElementsOfConcat ==
  ASSUME NEW S, NEW s \in Seq(S), NEW t \in Seq(S)
  PROVE  s \o t \in Seq(S) /\ ToSet(s \o t) = ToSet(s) \cup ToSet(t)
<1> DEFINE both == s \o t
<1>1. /\ DOMAIN s = 1 .. Len(s) /\ Len(s) \in Nat
      /\ DOMAIN t = 1 .. Len(t) /\ Len(t) \in Nat
  BY LenProperties
<1>2. /\ both \in Seq(S) /\ Len(both) = Len(s) + Len(t)
      /\ \A i \in 1 .. Len(s) + Len(t) :
           both[i] = IF i <= Len(s) THEN s[i] ELSE t[i - Len(s)]
  BY ConcatProperties
<1>3. DOMAIN both = 1 .. Len(s) + Len(t)
  BY <1>2, LenProperties
<1> HIDE DEF both
<1>4. \A i \in DOMAIN s : i \in DOMAIN both /\ both[i] = s[i]
  BY <1>1, <1>2, <1>3
<1>5. ASSUME NEW i \in DOMAIN t PROVE i + Len(s) \in DOMAIN both /\ both[i + Len(s)] = t[i]
  <2>1. /\ i + Len(s) \in 1 .. Len(s) + Len(t) /\ ~(i + Len(s) <= Len(s))
        /\ (i + Len(s)) - Len(s) = i
    BY <1>1
  <2> QED
    BY <1>2, <1>3, <2>1
<1>6. ASSUME NEW i \in DOMAIN both
      PROVE  \/ i \in DOMAIN s /\ both[i] = s[i]
             \/ i - Len(s) \in DOMAIN t /\ both[i] = t[i - Len(s)]
  BY <1>1, <1>2, <1>3
<1>7. ToSet(both) = ToSet(s) \cup ToSet(t)
  BY <1>4, <1>5, <1>6 DEF ToSet
<1> QED
  BY <1>2, <1>7 DEF both

\* The numbers of a finite set, the smallest first, are those of the set.
LEMMA NumbersListed ==
  ASSUME NEW K \in SUBSET Int, IsFiniteSet(K)
  PROVE  LET list == [n \in 1 .. Cardinality(K) |-> Nth(K, n)]
         IN list \in Seq(K) /\ ToSet(list) = K
<1> DEFINE N == Cardinality(K)
           list == [n \in 1 .. N |-> Nth(K, n)]
<1>1. /\ N \in Nat
      /\ \A n \in 1 .. N : Nth(K, n) \in K
      /\ \A k \in K : \E n \in 1 .. N : Nth(K, n) = k
  BY NthEnumerates
<1>2. list \in Seq(K)
  BY <1>1, IsASeq
<1>3. ToSet(list) = {Nth(K, n) : n \in 1 .. N}
  BY DEF ToSet
<1> QED
  BY <1>1, <1>2, <1>3

\* A function of sizes: finitely many, none negative.
Sizes(f) == IsFiniteSet(DOMAIN f) /\ \A x \in DOMAIN f : f[x] \in Nat

LEMMA UnitsFinite ==
  ASSUME NEW f, Sizes(f)
  PROVE  IsFiniteSet(Units(f)) /\ Total(f) \in Nat
<1> DEFINE g == [x \in DOMAIN f |-> {x} \X (1 .. f[x])]
           parts == {{x} \X (1 .. f[x]) : x \in DOMAIN f}
<1>1. g \in Surjection(DOMAIN f, parts)
  BY DEF Surjection
<1>2. IsFiniteSet(parts)
  BY <1>1, FS_Surjection DEF Sizes
<1>3. \A p \in parts : IsFiniteSet(p)
  <2>1. ASSUME NEW x \in DOMAIN f PROVE IsFiniteSet({x} \X (1 .. f[x]))
    <3>1. IsFiniteSet({x}) /\ f[x] \in Nat
      BY FS_Singleton DEF Sizes
    <3>2. IsFiniteSet(1 .. f[x])
      BY <3>1, FS_Interval
    <3> QED
      BY <3>1, <3>2, FS_Product
  <2> QED
    BY <2>1
<1>4. IsFiniteSet(Units(f))
  BY <1>2, <1>3, FS_UNION DEF Units
<1> QED
  BY <1>4, FS_CardinalityType DEF Total

\* Nothing sums up to zero.
LEMMA TotalOfNothing ==
  ASSUME NEW f, DOMAIN f = {}
  PROVE  Total(f) = 0
<1>1. Units(f) = {}
  BY DEF Units
<1> QED
  BY <1>1, FS_EmptySet DEF Total

\* A part of the summands sums up to no more, and to less by the summand
\* that is left out.
LEMMA TotalOfPart ==
  ASSUME NEW f, Sizes(f), NEW g, DOMAIN g \subseteq DOMAIN f,
         \A x \in DOMAIN g : g[x] = f[x]
  PROVE  Sizes(g) /\ Total(g) <= Total(f)
<1>1. Sizes(g)
  BY FS_Subset DEF Sizes
<1>2. Units(g) \subseteq Units(f)
  BY DEF Units
<1> QED
  BY <1>1, <1>2, UnitsFinite, FS_Subset DEF Total

-----------------------------------------------------------------------------
(* The entries *)

\* Resident ids were handed out by _next_id and name offered snapshots.
EntriesOK ==
  /\ nextId \in Nat
  /\ DOMAIN entries \subseteq Nat
  /\ \A i \in DOMAIN entries : i < nextId /\ entries[i] \in Snapshot

IInv == EntriesOK /\ NoDominatedEntry

\* An insert keeps some of the entries that were not pruned, and gives the
\* snapshot it adds the id _next_id.
LEMMA InsertShrinks ==
  ASSUME NEW s \in Snapshot, Insert(s), EntriesOK
  PROVE  \/ entries' = entries /\ nextId' = nextId
         \/ /\ nextId' = nextId + 1
            /\ DOMAIN entries' \subseteq (DOMAIN entries \ Doomed(entries, s)) \cup {nextId}
            /\ \A i \in DOMAIN entries' :
                 entries'[i] = IF i = nextId THEN s ELSE entries[i]
<1>1. CASE TooLong(s)
  BY <1>1 DEF Insert
<1>2. CASE ~TooLong(s) /\ YieldsToPrefill(entries, s)
  BY <1>2 DEF Insert
<1>3. CASE ~TooLong(s) /\ ~YieldsToPrefill(entries, s)
  <2> DEFINE doomed == Doomed(entries, s)
             grown  == [i \in (DOMAIN entries \ doomed) \cup {nextId} |->
                          IF i = nextId THEN s ELSE entries[i]]
  <2>1. /\ nextId' = nextId + 1
        /\ \E S : entries' = Without(grown, S)
    BY <1>3 DEF Insert
  <2>2. PICK S : entries' = Without(grown, S)
    BY <2>1
  <2>3. entries' = [i \in DOMAIN grown \ S |-> grown[i]]
    BY <2>2 DEF Without
  <2>4. DOMAIN grown = (DOMAIN entries \ doomed) \cup {nextId}
    OBVIOUS
  <2> QED
    BY <2>1, <2>3, <2>4
<1> QED
  BY <1>1, <1>2, <1>3

\* Every other operation only takes entries away.
LEMMA OthersShrink ==
  ASSUME \/ \E r \in Request : Lookup(r) \/ Probe(r)
         \/ Clear
         \/ UNCHANGED vars
  PROVE  /\ nextId' = nextId
         /\ DOMAIN entries' \subseteq DOMAIN entries
         /\ \A i \in DOMAIN entries' : entries'[i] = entries[i]
<1>1. ASSUME NEW r \in Request, Lookup(r)
      PROVE  /\ nextId' = nextId
             /\ DOMAIN entries' \subseteq DOMAIN entries
             /\ \A i \in DOMAIN entries' : entries'[i] = entries[i]
  BY <1>1 DEF Lookup, Without
<1>2. ASSUME NEW r \in Request, Probe(r)
      PROVE  nextId' = nextId /\ entries' = entries
  BY <1>2 DEF Probe
<1>3. CASE Clear
  BY <1>3 DEF Clear
<1>4. CASE UNCHANGED vars
  BY <1>4 DEF vars
<1> QED
  BY <1>1, <1>2, <1>3, <1>4

\* The slice at a usable boundary is a snapshot the request can be served from.
LEMMA SliceIsUsable ==
  ASSUME NEW s \in Snapshot, NEW r \in Request, UsableAtBoundary(s, r)
  PROVE  s.boundary > 0 /\ s.context # "none" /\ UsableWhole(SliceAtBoundary(s), r)
<1> DEFINE b == s.boundary
           front == SubSeq(s.tokens, 1, b)
<1>1. /\ s.tokens \in Seq(Nat) /\ b \in 0 .. (Len(s.tokens) - 1) /\ Len(s.tokens) \in Nat
      /\ r.tokens \in Seq(Nat) /\ Len(r.tokens) \in Nat
  BY L1Assumption, LenProperties DEF IsSnapshot, IsRequest
<1>2. /\ b \in 1 .. Len(r.tokens) /\ front = SubSeq(r.tokens, 1, b)
      /\ s.key = r.key /\ s.context # "none" /\ (r.full => s.context = "all")
  BY DEF UsableAtBoundary
<1>3. /\ SliceAtBoundary(s).key = s.key /\ SliceAtBoundary(s).tokens = front
      /\ (SliceAtBoundary(s).full <=> s.context = "all")
  BY DEF SliceAtBoundary
<1>4. Len(front) = b /\ SubSeq(front, 1, Len(front)) = SubSeq(r.tokens, 1, Len(front))
  <2>1. b \in Nat /\ b >= 1 /\ b <= Len(s.tokens)
    BY <1>1, <1>2
  <2>2. \A i \in 1 .. b : s.tokens[i] \in Nat
    BY <1>1, <2>1, ElementOfSeq
  <2>3. front \in Seq(Nat) /\ Len(front) = IF 1 <= b THEN b - 1 + 1 ELSE 0
    BY <2>1, <2>2, SubSeqProperties
  <2> HIDE DEF front
  <2>4. Len(front) = b
    BY <2>1, <2>3
  <2>5. SubSeq(front, 1, Len(front)) = front
    BY <2>3, SubSeqFull
  <2> QED
    BY <1>2, <2>4, <2>5
<1> HIDE DEF front, b
<1>5. CoversPrefix(SliceAtBoundary(s), r)
  BY <1>2, <1>3, <1>4 DEF CoversPrefix, IsPrefix
<1>6. b \in Nat /\ b > 0
  BY <1>2, <1>1
<1> QED
  BY <1>2, <1>3, <1>5, <1>6 DEF UsableWhole, Fits, b

\* A lookup takes away only the generation snapshot it serves, whole or sliced.
LEMMA LookupSpends ==
  ASSUME EntriesOK, NEW r \in Request, Lookup(r), NEW i \in DOMAIN entries,
         i \notin DOMAIN entries'
  PROVE  /\ entries[i].kind = "generation"
         /\ reply'.snap \in {entries[i], SliceAtBoundary(entries[i])}
<1>1. PICK h \in Hit(entries, r) :
        /\ reply' = [req |-> r, snap |-> h.snap]
        /\ IF Consumed(entries, h) THEN entries' = Without(entries, {h.id})
           ELSE UNCHANGED entries
  BY DEF Lookup
<1>2. i = h.id /\ Consumed(entries, h)
  BY <1>1 DEF Without
<1>3. \/ UsableAtBoundary(entries[i], r) /\ h.snap = SliceAtBoundary(entries[i])
      \/ h.snap = entries[i] /\ h.sidecar = FALSE
  BY <1>1, <1>2 DEF Hit, Best, Heaviest
<1>4. entries[i] \in Snapshot
  BY DEF EntriesOK
<1>5. CASE UsableAtBoundary(entries[i], r) /\ h.snap = SliceAtBoundary(entries[i])
  <2>1. entries[i].boundary > 0 /\ IsSnapshot(entries[i])
    BY <1>4, <1>5, L1Assumption, SliceIsUsable
  <2> QED
    BY <1>1, <1>5, <2>1 DEF IsSnapshot
<1>6. CASE h.snap = entries[i] /\ h.sidecar = FALSE
  BY <1>1, <1>2, <1>6 DEF Consumed
<1> QED
  BY <1>3, <1>5, <1>6

LEMMA InitInductive == Init => IInv
  BY DEF Init, IInv, EntriesOK, NoDominatedEntry

LEMMA NextInductive == IInv /\ [Next]_vars => IInv'
<1> SUFFICES ASSUME IInv, [Next]_vars PROVE IInv'
  OBVIOUS
<1> USE DEF IInv
<1>1. ASSUME NEW s \in Snapshot, Insert(s)
      PROVE  IInv'
  <2>1. CASE entries' = entries /\ nextId' = nextId
    BY <2>1 DEF EntriesOK, NoDominatedEntry
  <2>2. CASE /\ nextId' = nextId + 1
             /\ DOMAIN entries' \subseteq (DOMAIN entries \ Doomed(entries, s)) \cup {nextId}
             /\ \A i \in DOMAIN entries' :
                  entries'[i] = IF i = nextId THEN s ELSE entries[i]
    <3>1. EntriesOK'
      BY <2>2 DEF EntriesOK
    <3>2. ASSUME NEW i \in DOMAIN entries', NEW j \in DOMAIN entries',
                 i < j, entries'[i].key = entries'[j].key,
                 entries'[i].kind = entries'[j].kind,
                 IsPrefix(entries'[i].tokens, entries'[j].tokens)
          PROVE  AlignedFrontier(entries'[i], entries'[j])
      <4>1. i # nextId /\ i \in DOMAIN entries /\ entries'[i] = entries[i]
        BY <2>2, <3>2 DEF EntriesOK
      <4>2. CASE j = nextId
        BY <4>1, <4>2, <3>2, <2>2 DEF Doomed, DoomedSame, Extended
      <4>3. CASE j # nextId
        BY <4>1, <4>3, <3>2, <2>2 DEF NoDominatedEntry
      <4> QED
        BY <4>2, <4>3
    <3> QED
      BY <3>1, <3>2 DEF NoDominatedEntry
  <2> QED
    BY <1>1, <2>1, <2>2, InsertShrinks
<1>2. CASE \/ \E r \in Request : Lookup(r) \/ Probe(r)
           \/ Clear
           \/ UNCHANGED vars
  <2>1. /\ nextId' = nextId
        /\ DOMAIN entries' \subseteq DOMAIN entries
        /\ \A i \in DOMAIN entries' : entries'[i] = entries[i]
    BY <1>2, OthersShrink
  <2>2. EntriesOK'
    BY <2>1 DEF EntriesOK
  <2>3. NoDominatedEntry'
    BY <2>1 DEF NoDominatedEntry
  <2> QED
    BY <2>2, <2>3
<1> QED
  BY <1>1, <1>2 DEF Next

\* A later entry never leaves an older one of its key and kind behind that it
\* extends, other than an aligned prefill frontier (_prune_dominated_prefixes).
THEOREM NeverDominated == Spec => []NoDominatedEntry
<1>1. IInv => NoDominatedEntry
  BY DEF IInv
<1> QED
  BY InitInductive, NextInductive, <1>1, PTL DEF Spec

-----------------------------------------------------------------------------

\* The instance of the abstract specification carries copies of the snapshot
\* operators; they are the same operators.
LEMMA SameSnapshots ==
  ASSUME NEW s, NEW r
  PROVE  /\ UsableWhole(s, r) => Promise!UsableWhole(s, r)
         /\ Answers(s, r) => Promise!Answers(s, r)
         /\ SliceAtBoundary(s) = Promise!SliceAtBoundary(s)
BY DEF UsableWhole, Answers, SliceAtBoundary, Fits, CoversPrefix, IsPrefix,
       Promise!UsableWhole, Promise!Answers, Promise!SliceAtBoundary, Promise!Fits,
       Promise!CoversPrefix, Promise!IsPrefix

\* A hit is the entry itself or its slice, and may be handed out.
LEMMA HitIsRestorable ==
  ASSUME EntriesOK, NEW r \in Request, NEW h \in Hit(entries, r)
  PROVE  \E s \in Held : h.snap \in Promise!Restorable(s, r)
<1>1. h \in Best(entries, r) /\ Answers(h.snap, r)
  BY DEF Hit
<1>2. \/ \E b \in DOMAIN entries :
           UsableAtBoundary(entries[b], r) /\ h.snap = SliceAtBoundary(entries[b])
      \/ \E w \in DOMAIN entries :
           UsableWhole(entries[w], r) /\ h.snap = entries[w]
  BY <1>1 DEF Best, Heaviest
<1>3. ASSUME NEW b \in DOMAIN entries, UsableAtBoundary(entries[b], r),
             h.snap = SliceAtBoundary(entries[b])
      PROVE  h.snap \in Promise!Restorable(entries[b], r)
  <2>1. entries[b] \in Snapshot
    BY DEF EntriesOK
  <2>2. /\ entries[b].boundary > 0 /\ entries[b].context # "none"
        /\ UsableWhole(h.snap, r) /\ Answers(h.snap, r)
    BY <1>1, <1>3, <2>1, SliceIsUsable
  <2>3. Promise!UsableWhole(h.snap, r) /\ Promise!Answers(h.snap, r)
    BY <2>2, SameSnapshots
  <2>4. h.snap = Promise!SliceAtBoundary(entries[b])
    BY <1>3, SameSnapshots
  <2> QED
    BY <2>2, <2>3, <2>4 DEF Promise!Restorable
<1>4. ASSUME NEW w \in DOMAIN entries, UsableWhole(entries[w], r), h.snap = entries[w]
      PROVE  h.snap \in Promise!Restorable(entries[w], r)
  BY <1>1, <1>4, SameSnapshots DEF Promise!Restorable
<1> QED
  BY <1>2, <1>3, <1>4 DEF Held

LEMMA StepKeepsPromise == EntriesOK /\ [Next]_vars => [Promise!Next]_<<Held, reply>>
<1> SUFFICES ASSUME EntriesOK, [Next]_vars PROVE [Promise!Next]_<<Held, reply>>
  OBVIOUS
<1>1. ASSUME NEW s \in Snapshot, Insert(s)
      PROVE  Promise!Offer(s)
  <2>1. Held' \subseteq Held \cup {s}
    BY <1>1, InsertShrinks DEF Held
  <2>2. reply' = reply
    BY <1>1 DEF Insert
  <2> QED
    BY <2>1, <2>2 DEF Promise!Offer
<1>2. ASSUME NEW r \in Request, Lookup(r) \/ Probe(r)
      PROVE  Promise!Serve(r)
  <2>1. Held' \subseteq Held
    BY <1>2, OthersShrink DEF Held
  <2>2. \/ reply' = [req |-> r, snap |-> NoSnapshot]
        \/ \E h \in Hit(entries, r) : reply' = [req |-> r, snap |-> h.snap]
    BY <1>2 DEF Lookup, Probe, MissReply
  <2> QED
    BY <2>1, <2>2, HitIsRestorable DEF Promise!Serve
<1>3. CASE Clear
  <2>1. Held' \subseteq Held
    BY <1>3, OthersShrink DEF Held
  <2> QED
    BY <1>3, <2>1 DEF Clear, Promise!Forget, Promise!Next
<1>4. CASE UNCHANGED vars
  BY <1>4 DEF vars, Held
<1> QED
  BY <1>1, <1>2, <1>3, <1>4 DEF Next, Promise!Next

\* The in-memory cache implements the promise of a prefix cache: whatever
\* lookup returns was inserted, is still resident, fits the request, and comes
\* with logits when nothing is left to compute.
THEOREM KeepsPromise == Spec => ImplementsPromise
<1>1. Init => Promise!Init
  BY DEF Init, Held, Promise!Init
<1>2. IInv => EntriesOK
  BY DEF IInv
<1> QED
  BY <1>1, <1>2, InitInductive, NextInductive, StepKeepsPromise, PTL
     DEF Spec, ImplementsPromise, Promise!Spec

-----------------------------------------------------------------------------
(* The order of use and the budget *)

\* The ids of order are listed by the moments in use, each once.
ListedByUse(order, use) ==
  /\ order \in Seq(Nat)
  /\ \A a \in DOMAIN order : use[order[a]] \in Nat
  /\ \A a, b \in DOMAIN order : a < b => use[order[a]] < use[order[b]]

\* Each operation records a moment later than all before it.
OrderInv ==
  /\ clock \in Nat
  /\ ListedByUse(lru, lastUse)
  /\ ToSet(lru) = DOMAIN entries /\ DOMAIN lastUse = DOMAIN entries
  /\ \A i \in DOMAIN entries : lastUse[i] < clock

\* Dropping ids leaves the others, in their order.
LEMMA DropIdsKeepsOrder ==
  ASSUME NEW order, NEW use, ListedByUse(order, use), NEW S
  PROVE  /\ ListedByUse(DropIds(order, S), use)
         /\ ToSet(DropIds(order, S)) = ToSet(order) \ S
<1> DEFINE K == {n \in DOMAIN order : order[n] \notin S}
           left == DropIds(order, S)
<1>1. order \in Seq(Nat) /\ K \in SUBSET DOMAIN order
  BY DEF ListedByUse
<1>2. /\ left \in Seq({order[k] : k \in K}) /\ ToSet(left) = {order[k] : k \in K}
      /\ \E at \in [DOMAIN left -> K] :
           /\ \A n \in DOMAIN left : left[n] = order[at[n]]
           /\ \A m, n \in DOMAIN left : m < n => at[m] < at[n]
  BY <1>1, SelectAtKeeps DEF DropIds
<1>3. PICK at \in [DOMAIN left -> K] :
        /\ \A n \in DOMAIN left : left[n] = order[at[n]]
        /\ \A m, n \in DOMAIN left : m < n => at[m] < at[n]
  BY <1>2
<1>4. \A n \in DOMAIN left : at[n] \in DOMAIN order
  BY <1>3
<1>5. left \in Seq(Nat)
  <2>1. {order[k] : k \in K} \subseteq Nat
    BY <1>1, ElementOfSeq
  <2> QED
    BY <1>2, <2>1, SeqMonotonic
<1>6. ToSet(left) = ToSet(order) \ S
  BY <1>2 DEF ToSet
<1> HIDE DEF left, K
<1>7. ListedByUse(left, use)
  BY <1>3, <1>4, <1>5 DEF ListedByUse
<1> QED
  BY <1>6, <1>7 DEF left

\* What is used last goes to the end.
LEMMA AppendKeepsOrder ==
  ASSUME NEW order, NEW use, ListedByUse(order, use), NEW i \in Nat, use[i] \in Nat,
         \A j \in ToSet(order) : use[j] < use[i]
  PROVE  /\ ListedByUse(Append(order, i), use)
         /\ ToSet(Append(order, i)) = ToSet(order) \cup {i}
<1> DEFINE longer == Append(order, i)
<1>1. order \in Seq(Nat) /\ DOMAIN order = 1 .. Len(order) /\ Len(order) \in Nat
  BY LenProperties DEF ListedByUse
<1>2. /\ longer \in Seq(Nat) /\ Len(longer) = Len(order) + 1
      /\ \A a \in 1 .. Len(order) : longer[a] = order[a]
      /\ longer[Len(order) + 1] = i
  BY <1>1, AppendProperties
<1>3. DOMAIN longer = 1 .. Len(order) + 1
  BY <1>2, LenProperties
<1> HIDE DEF longer
<1>4. \A a \in DOMAIN longer : a = Len(order) + 1 \/ a \in DOMAIN order
  BY <1>1, <1>3
<1>5. \A a \in DOMAIN longer : use[longer[a]] \in Nat
  BY <1>1, <1>2, <1>4 DEF ListedByUse
<1>6. ASSUME NEW a \in DOMAIN longer, NEW b \in DOMAIN longer, a < b
      PROVE  use[longer[a]] < use[longer[b]]
  <2>1. a \in DOMAIN order
    BY <1>1, <1>3, <1>4, <1>6
  <2>2. CASE b \in DOMAIN order
    BY <1>1, <1>2, <1>6, <2>1, <2>2 DEF ListedByUse
  <2>3. CASE b = Len(order) + 1
    BY <1>1, <1>2, <2>1, <2>3 DEF ToSet
  <2> QED
    BY <1>4, <2>2, <2>3
<1>7. ToSet(longer) = ToSet(order) \cup {i}
  <2>1. \A a \in DOMAIN order : a \in DOMAIN longer /\ longer[a] = order[a]
    BY <1>1, <1>2, <1>3
  <2>2. Len(order) + 1 \in DOMAIN longer
    BY <1>1, <1>3
  <2> QED
    BY <1>2, <1>4, <2>1, <2>2 DEF ToSet
<1> QED
  BY <1>2, <1>5, <1>6, <1>7 DEF ListedByUse, longer

\* Cutting the front off leaves exactly the ids that are not in it.
LEMMA CutKeepsOrder ==
  ASSUME NEW order, NEW use, ListedByUse(order, use), NEW n \in 0 .. Len(order)
  PROVE  /\ ListedByUse(SubSeq(order, n + 1, Len(order)), use)
         /\ ToSet(SubSeq(order, 1, n)) = {order[a] : a \in 1 .. n}
         /\ ToSet(SubSeq(order, n + 1, Len(order))) = ToSet(order) \ ToSet(SubSeq(order, 1, n))
         /\ \A i \in ToSet(SubSeq(order, 1, n)), j \in ToSet(SubSeq(order, n + 1, Len(order))) :
              use[i] < use[j]
<1> DEFINE front == SubSeq(order, 1, n)
           rest == SubSeq(order, n + 1, Len(order))
<1>1. order \in Seq(Nat) /\ DOMAIN order = 1 .. Len(order) /\ Len(order) \in Nat
  BY LenProperties DEF ListedByUse
<1>2. \A a \in 1 .. Len(order) : order[a] \in Nat
  BY <1>1, ElementOfSeq
<1>3. /\ front \in Seq(Nat) /\ Len(front) = n /\ \A a \in 1 .. n : front[a] = order[a]
  <2>1. \A a \in 1 .. n : order[a] \in Nat
    BY <1>1, <1>2
  <2>2. /\ front \in Seq(Nat) /\ Len(front) = IF 1 <= n THEN n - 1 + 1 ELSE 0
        /\ \A a \in 1 .. n - 1 + 1 : front[a] = order[1 + a - 1]
    BY <2>1, SubSeqProperties
  <2> HIDE DEF front
  <2>3. n \in Nat /\ n - 1 + 1 = n /\ (IF 1 <= n THEN n - 1 + 1 ELSE 0) = n
    BY <1>1
  <2>4. \A a \in 1 .. n : 1 + a - 1 = a
    BY <2>3
  <2> QED
    BY <2>2, <2>3, <2>4
<1>4. /\ rest \in Seq(Nat) /\ Len(rest) = Len(order) - n
      /\ \A a \in 1 .. Len(order) - n : rest[a] = order[n + a]
  <2>1. \A a \in n + 1 .. Len(order) : order[a] \in Nat
    BY <1>1, <1>2
  <2>2. /\ rest \in Seq(Nat)
        /\ Len(rest) = IF n + 1 <= Len(order) THEN Len(order) - (n + 1) + 1 ELSE 0
        /\ \A a \in 1 .. Len(order) - (n + 1) + 1 : rest[a] = order[n + 1 + a - 1]
    BY <1>1, <2>1, SubSeqProperties
  <2> HIDE DEF rest
  <2>3. n \in Nat /\ n <= Len(order) /\ Len(order) - (n + 1) + 1 = Len(order) - n
    BY <1>1
  <2>4. Len(rest) = Len(order) - n
    <3>1. CASE n + 1 <= Len(order)
      BY <2>2, <2>3, <3>1
    <3>2. CASE ~(n + 1 <= Len(order))
      <4>1. n \in Int /\ Len(order) \in Int /\ n <= Len(order) /\ ~(n + 1 <= Len(order))
        BY <1>1, <2>3, <3>2
      <4>2. n = Len(order) /\ Len(order) - n = 0
        BY <4>1
      <4> QED
        BY <2>2, <3>2, <4>2
    <3> QED
      BY <3>1, <3>2
  <2>5. \A a \in 1 .. Len(order) - n : n + 1 + a - 1 = n + a
    BY <2>3
  <2>6. \A a \in 1 .. Len(order) - n : rest[a] = order[n + 1 + a - 1]
    BY <2>2, <2>3
  <2> QED
    BY <2>2, <2>4, <2>5, <2>6
<1>5. DOMAIN front = 1 .. n /\ DOMAIN rest = 1 .. Len(order) - n
  BY <1>3, <1>4, LenProperties
<1> HIDE DEF front, rest
<1>6. ToSet(front) = {order[a] : a \in 1 .. n}
  BY <1>3, <1>5 DEF ToSet
<1>7. ToSet(rest) = {order[a] : a \in n + 1 .. Len(order)}
  <2>1. \A a \in n + 1 .. Len(order) : a - n \in 1 .. Len(order) - n /\ order[a] = rest[a - n]
    <3> SUFFICES ASSUME NEW a \in n + 1 .. Len(order)
                 PROVE  a - n \in 1 .. Len(order) - n /\ order[a] = rest[a - n]
      OBVIOUS
    <3>1. a - n \in 1 .. Len(order) - n /\ n + (a - n) = a
      BY <1>1
    <3>2. rest[a - n] = order[n + (a - n)]
      BY <1>4, <3>1
    <3> QED
      BY <3>1, <3>2
  <2>2. \A a \in 1 .. Len(order) - n : n + a \in n + 1 .. Len(order) /\ rest[a] = order[n + a]
    BY <1>1, <1>4
  <2> QED
    BY <1>5, <2>1, <2>2 DEF ToSet
<1>8. ASSUME NEW a \in 1 .. n, NEW b \in n + 1 .. Len(order)
      PROVE  use[order[a]] < use[order[b]] /\ order[a] # order[b]
  <2>1. a \in DOMAIN order /\ b \in DOMAIN order /\ a < b
    BY <1>1
  <2>2. use[order[a]] \in Nat /\ use[order[b]] \in Nat /\ use[order[a]] < use[order[b]]
    BY <2>1 DEF ListedByUse
  <2> QED
    BY <2>2
<1>9. ToSet(rest) = ToSet(order) \ ToSet(front)
  <2>1. ToSet(order) = {order[a] : a \in 1 .. n} \cup {order[a] : a \in n + 1 .. Len(order)}
    BY <1>1 DEF ToSet
  <2> QED
    BY <1>6, <1>7, <1>8, <2>1
<1>10. ListedByUse(rest, use)
  <2>1. \A a \in DOMAIN rest : n + a \in DOMAIN order
    BY <1>1, <1>5
  <2>2. \A a \in DOMAIN rest : rest[a] = order[n + a]
    BY <1>4, <1>5
  <2>3. \A a, b \in DOMAIN rest : a < b => n + a < n + b
    BY <1>1, <1>5
  <2> QED
    BY <1>4, <2>1, <2>2, <2>3 DEF ListedByUse
<1> QED
  BY <1>6, <1>7, <1>8, <1>9, <1>10 DEF front, rest

LEMMA SameMoments ==
  ASSUME NEW order, NEW use, ListedByUse(order, use), NEW moments,
         \A i \in ToSet(order) : moments[i] = use[i]
  PROVE  ListedByUse(order, moments)
<1>1. \A a \in DOMAIN order : order[a] \in ToSet(order)
  BY DEF ToSet
<1> QED
  BY <1>1 DEF ListedByUse

\* The loop of evictions ends with the cache inside its budgets: at the latest
\* when nothing is left.
LEMMA EvictionsStop ==
  ASSUME NEW E, NEW order \in Seq(Nat), ToSet(order) = DOMAIN E
  PROVE  /\ Evictions(E, order) \in 0 .. Len(order)
         /\ ~OverBudget(Without(E, ToSet(SubSeq(order, 1, Evictions(E, order)))))
         /\ \A m \in 0 .. (Evictions(E, order) - 1) :
              OverBudget(Without(E, ToSet(SubSeq(order, 1, m))))
<1> DEFINE Over(n) == OverBudget(Without(E, ToSet(SubSeq(order, 1, n))))
           N == Len(order)
           Stops == {n \in 0 .. N : n < N => ~Over(n)}
<1>1. N \in Nat
  BY LenProperties
<1>2. ~Over(N)
  <2>1. SubSeq(order, 1, N) = order
    BY SubSeqFull
  <2> DEFINE left == Without(E, DOMAIN E)
  <2>2. DOMAIN left = {} /\ DOMAIN [i \in DOMAIN left |-> left[i].size] = {}
    BY DEF Without
  <2> HIDE DEF left
  <2>3. Bytes(left) = 0
    BY <2>2, TotalOfNothing DEF Bytes
  <2>4. Cardinality(DOMAIN left) = 0
    BY <2>2, FS_EmptySet
  <2>5. ~OverBudget(left)
    BY <2>3, <2>4, L1Assumption DEF OverBudget
  <2> QED
    BY <2>1, <2>5 DEF left
<1> HIDE DEF Over
<1>3. N \in Stops /\ Stops \in SUBSET Nat
  BY <1>1
<1> HIDE DEF Stops
<1>4. PICK n \in Stops : \A m \in Stops : n <= m
  BY <1>3, Smallest
<1>5. n \in 0 .. N /\ (n < N => ~Over(n))
  BY <1>4 DEF Stops
<1>6. \A m \in 0 .. (n - 1) : Over(m)
  <2> SUFFICES ASSUME NEW m \in 0 .. (n - 1) PROVE Over(m)
    OBVIOUS
  <2>1. m \in 0 .. N /\ m < N /\ ~(n <= m)
    BY <1>1, <1>5
  <2>2. m \notin Stops
    BY <1>4, <2>1
  <2> QED
    BY <2>1, <2>2 DEF Stops
<1>7. Evictions(E, order) = CHOOSE k \in 0 .. N :
                              (k < N => ~Over(k)) /\ \A m \in 0 .. (k - 1) : Over(m)
  BY DEF Evictions, Over
<1>8. /\ Evictions(E, order) \in 0 .. N /\ (Evictions(E, order) < N => ~Over(Evictions(E, order)))
      /\ \A m \in 0 .. (Evictions(E, order) - 1) : Over(m)
  BY <1>5, <1>6, <1>7
<1>9. ~Over(Evictions(E, order))
  BY <1>1, <1>2, <1>8
<1> QED
  BY <1>8, <1>9 DEF Over

\* It pops an entry only while that entry and those behind it do not fit.
LEMMA EvictionsAreNeeded ==
  ASSUME NEW E, NEW order, NEW use, ListedByUse(order, use), ToSet(order) = DOMAIN E,
         NEW i \in ToSet(SubSeq(order, 1, Evictions(E, order)))
  PROVE  OverBudget([j \in {k \in DOMAIN E : use[k] >= use[i]} |-> E[j]])
<1> DEFINE n == Evictions(E, order)
<1>1. /\ order \in Seq(Nat) /\ DOMAIN order = 1 .. Len(order) /\ Len(order) \in Nat
      /\ \A b \in 1 .. Len(order) : use[order[b]] \in Nat
      /\ \A a, b \in 1 .. Len(order) : a < b => use[order[a]] < use[order[b]]
  BY LenProperties DEF ListedByUse
<1>2. /\ n \in 0 .. Len(order)
      /\ \A m \in 0 .. (n - 1) : OverBudget(Without(E, ToSet(SubSeq(order, 1, m))))
  BY <1>1, EvictionsStop
<1> HIDE DEF n
<1>3. PICK a \in 1 .. n : i = order[a]
  <2>1. i \in ToSet(SubSeq(order, 1, n))
    BY DEF n
  <2> QED
    BY <1>2, <2>1, CutKeepsOrder
<1>4. a - 1 \in 0 .. (n - 1) /\ a - 1 \in 0 .. Len(order) /\ a \in 1 .. Len(order)
  BY <1>1, <1>2
<1>5. ToSet(SubSeq(order, 1, a - 1)) = {order[b] : b \in 1 .. (a - 1)}
  BY <1>4, CutKeepsOrder
<1>6. \A k \in DOMAIN E : k \in ToSet(SubSeq(order, 1, a - 1)) <=> ~(use[k] >= use[i])
  <2> SUFFICES ASSUME NEW k \in DOMAIN E
               PROVE  k \in ToSet(SubSeq(order, 1, a - 1)) <=> ~(use[k] >= use[i])
    OBVIOUS
  <2>1. PICK b \in 1 .. Len(order) : k = order[b]
    BY <1>1 DEF ToSet
  <2>2. use[order[a]] \in Nat /\ use[order[b]] \in Nat
    BY <1>1, <1>4
  <2>3. CASE b < a
    <3>1. b \in 1 .. (a - 1) /\ use[order[b]] < use[order[a]]
      BY <1>1, <1>4, <2>3
    <3> QED
      BY <1>3, <1>5, <2>1, <2>2, <3>1
  <2>4. CASE ~(b < a)
    <3>1. use[order[a]] <= use[order[b]]
      BY <1>1, <1>4, <2>2, <2>4
    <3>2. \A c \in 1 .. (a - 1) : use[order[c]] < use[order[a]] /\ use[order[c]] \in Nat
      BY <1>1, <1>4
    <3>3. k \notin {order[c] : c \in 1 .. (a - 1)}
      BY <2>1, <2>2, <3>1, <3>2
    <3> QED
      BY <1>3, <1>5, <2>1, <2>2, <3>1, <3>3
  <2> QED
    BY <2>3, <2>4
<1>7. Without(E, ToSet(SubSeq(order, 1, a - 1))) = [j \in {k \in DOMAIN E : use[k] >= use[i]} |-> E[j]]
  <2>1. DOMAIN E \ ToSet(SubSeq(order, 1, a - 1)) = {k \in DOMAIN E : use[k] >= use[i]}
    BY <1>6
  <2> QED
    BY <2>1 DEF Without
<1> QED
  BY <1>2, <1>4, <1>7

\* Taking entries away never breaks the budgets.
LEMMA FewerFit ==
  ASSUME NEW E, IsFiniteSet(DOMAIN E), \A i \in DOMAIN E : E[i].size \in Nat,
         NEW F, DOMAIN F \subseteq DOMAIN E, \A i \in DOMAIN F : F[i] = E[i],
         ~OverBudget(E)
  PROVE  ~OverBudget(F)
<1> DEFINE sizesE == [i \in DOMAIN E |-> E[i].size]
           sizesF == [i \in DOMAIN F |-> F[i].size]
<1>1. /\ DOMAIN sizesE = DOMAIN E /\ DOMAIN sizesF = DOMAIN F
      /\ \A i \in DOMAIN F : sizesF[i] = sizesE[i]
      /\ \A i \in DOMAIN E : sizesE[i] \in Nat
  OBVIOUS
<1>2. Bytes(E) = Total(sizesE) /\ Bytes(F) = Total(sizesF)
  BY DEF Bytes
<1> HIDE DEF sizesE, sizesF
<1>3. Sizes(sizesE)
  BY <1>1 DEF Sizes
<1>4. Sizes(sizesF) /\ Total(sizesF) <= Total(sizesE)
  BY <1>1, <1>3, TotalOfPart
<1>5. Total(sizesF) \in Nat /\ Total(sizesE) \in Nat
  BY <1>3, <1>4, UnitsFinite
<1>6. /\ Cardinality(DOMAIN F) <= Cardinality(DOMAIN E)
      /\ Cardinality(DOMAIN F) \in Nat /\ Cardinality(DOMAIN E) \in Nat
  BY FS_Subset, FS_CardinalityType
<1> QED
  BY <1>2, <1>4, <1>5, <1>6, L1Assumption DEF OverBudget

\* What an insert that is not turned away does to the entries and their order.
LEMMA InsertMakes ==
  ASSUME NEW s \in Snapshot, Insert(s)
  PROVE  \/ entries' = entries /\ lru' = lru /\ lastUse' = lastUse /\ clock' = clock
         \/ /\ ~YieldsToPrefill(entries, s)
            /\ clock' = clock + 1
            /\ \E grown, order, n, evicted :
                 /\ grown = [i \in (DOMAIN entries \ Doomed(entries, s)) \cup {nextId} |->
                               IF i = nextId THEN s ELSE entries[i]]
                 /\ order = Append(DropIds(lru, Doomed(entries, s)), nextId)
                 /\ n = Evictions(grown, order)
                 /\ evicted = SubSeq(order, 1, n)
                 /\ entries' = Without(grown, ToSet(evicted))
                 /\ lru' = SubSeq(order, n + 1, Len(order))
                 /\ lastUse' = [i \in DOMAIN entries' |-> IF i = nextId THEN clock ELSE lastUse[i]]
  BY DEF Insert

\* The ids of a longer order: what is left of the old one, and the new id.
LEMMA InsertOrders ==
  ASSUME EntriesOK, OrderInv, NEW gone, NEW use,
         \A i \in DOMAIN entries : use[i] = lastUse[i],
         use[nextId] = clock
  PROVE  /\ ListedByUse(Append(DropIds(lru, gone), nextId), use)
         /\ ToSet(Append(DropIds(lru, gone), nextId)) = (DOMAIN entries \ gone) \cup {nextId}
<1> DEFINE base == DropIds(lru, gone)
<1>1. ListedByUse(lru, lastUse) /\ ToSet(lru) = DOMAIN entries
  BY DEF OrderInv
<1>2. ListedByUse(base, lastUse) /\ ToSet(base) = DOMAIN entries \ gone
  BY <1>1, DropIdsKeepsOrder
<1> HIDE DEF base
<1>3. ListedByUse(base, use)
  BY <1>2, SameMoments
<1>4. nextId \in Nat /\ clock \in Nat
  BY DEF EntriesOK, OrderInv
<1>5. \A j \in ToSet(base) : use[j] < use[nextId]
  BY <1>2 DEF OrderInv
<1>6. /\ ListedByUse(Append(base, nextId), use)
      /\ ToSet(Append(base, nextId)) = ToSet(base) \cup {nextId}
  BY <1>3, <1>4, <1>5, AppendKeepsOrder
<1> QED
  BY <1>2, <1>6 DEF base

LEMMA InsertKeepsOrder ==
  ASSUME NEW s \in Snapshot, Insert(s), EntriesOK, OrderInv
  PROVE  /\ OrderInv'
         /\ WithinBudget => WithinBudget'
         /\ ~YieldsToPrefill(entries, s) \/ entries' = entries
         /\ \A i \in DOMAIN entries \ DOMAIN entries' :
              \/ i \in Doomed(entries, s)
              \/ /\ \A j \in DOMAIN entries' \cap DOMAIN entries : lastUse[i] < lastUse[j]
                 /\ OverBudget([j \in {k \in DOMAIN entries \ Doomed(entries, s) : lastUse[k] >= lastUse[i]}
                                       \cup {nextId} |->
                                  IF j = nextId THEN s ELSE entries[j]])
<1>1. CASE entries' = entries /\ lru' = lru /\ lastUse' = lastUse /\ clock' = clock
  BY <1>1 DEF OrderInv, ListedByUse, WithinBudget, OverBudget, Bytes
<1>2. CASE ~(entries' = entries /\ lru' = lru /\ lastUse' = lastUse /\ clock' = clock)
  <2>1. PICK grown, order, n, evicted :
          /\ grown = [i \in (DOMAIN entries \ Doomed(entries, s)) \cup {nextId} |->
                        IF i = nextId THEN s ELSE entries[i]]
          /\ order = Append(DropIds(lru, Doomed(entries, s)), nextId)
          /\ n = Evictions(grown, order)
          /\ evicted = SubSeq(order, 1, n)
          /\ entries' = Without(grown, ToSet(evicted))
          /\ lru' = SubSeq(order, n + 1, Len(order))
          /\ lastUse' = [i \in DOMAIN entries' |-> IF i = nextId THEN clock ELSE lastUse[i]]
    BY <1>2, InsertMakes
  <2>2. ~YieldsToPrefill(entries, s) /\ clock' = clock + 1
    BY <1>2, InsertMakes
  <2> DEFINE gone == Doomed(entries, s)
             use == [i \in DOMAIN entries \cup {nextId} |->
                       IF i = nextId THEN clock ELSE lastUse[i]]
  <2>3. nextId \notin DOMAIN entries /\ nextId \in Nat /\ clock \in Nat
    BY DEF EntriesOK, OrderInv
  <2>4. use[nextId] = clock /\ \A i \in DOMAIN entries : use[i] = lastUse[i]
    BY <2>3
  <2>5. DOMAIN grown = (DOMAIN entries \ gone) \cup {nextId}
    BY <2>1
  <2> HIDE DEF gone, use
  <2>6. ListedByUse(order, use) /\ ToSet(order) = DOMAIN grown
    <3>1. order = Append(DropIds(lru, gone), nextId)
      BY <2>1 DEF gone
    <3>2. /\ ListedByUse(Append(DropIds(lru, gone), nextId), use)
          /\ ToSet(Append(DropIds(lru, gone), nextId)) = (DOMAIN entries \ gone) \cup {nextId}
      BY <2>4, InsertOrders
    <3> QED
      BY <2>5, <3>1, <3>2
  <2>7. order \in Seq(Nat)
    BY <2>6 DEF ListedByUse
  <2>8. n \in 0 .. Len(order) /\ ~OverBudget(entries')
    BY <2>1, <2>6, <2>7, EvictionsStop
  <2>9. DOMAIN entries' = DOMAIN grown \ ToSet(evicted)
    BY <2>1 DEF Without
  <2>10. /\ ListedByUse(lru', use)
         /\ ToSet(lru') = DOMAIN entries'
         /\ \A i \in ToSet(evicted), j \in ToSet(lru') : use[i] < use[j]
    <3>1. evicted = SubSeq(order, 1, n) /\ lru' = SubSeq(order, n + 1, Len(order))
      BY <2>1
    <3>2. /\ ListedByUse(lru', use)
          /\ ToSet(lru') = ToSet(order) \ ToSet(evicted)
          /\ \A i \in ToSet(evicted), j \in ToSet(lru') : use[i] < use[j]
      BY <2>6, <2>8, <3>1, CutKeepsOrder
    <3> QED
      BY <2>6, <2>9, <3>2
  <2>11. /\ DOMAIN lastUse' = DOMAIN entries'
         /\ \A i \in DOMAIN entries' : lastUse'[i] = use[i]
    BY <2>1, <2>4, <2>5, <2>9
  <2>12. OrderInv'
    <3>1. ListedByUse(lru', lastUse')
      BY <2>10, <2>11, SameMoments
    <3>2. \A i \in DOMAIN entries' : lastUse'[i] < clock'
      <4> SUFFICES ASSUME NEW i \in DOMAIN entries' PROVE use[i] < clock + 1
        BY <2>2, <2>11
      <4>1. CASE i = nextId
        BY <2>3, <2>4, <4>1
      <4>2. CASE i \in DOMAIN entries
        <5>1. lastUse[i] < clock /\ lastUse[i] \in Nat
          <6>1. \E a \in DOMAIN lru : i = lru[a]
            BY <4>2 DEF OrderInv, ToSet
          <6> QED
            BY <4>2, <6>1 DEF OrderInv, ListedByUse
        <5> QED
          BY <2>3, <2>4, <4>2, <5>1
      <4> QED
        BY <2>5, <2>9, <4>1, <4>2
    <3> QED
      BY <2>2, <2>3, <2>10, <2>11, <3>1, <3>2 DEF OrderInv
  <2>13. ASSUME NEW i \in DOMAIN entries \ DOMAIN entries', i \notin Doomed(entries, s),
                NEW j \in DOMAIN entries' \cap DOMAIN entries
         PROVE  lastUse[i] < lastUse[j]
    <3>1. i \in ToSet(evicted)
      BY <2>5, <2>9, <2>13 DEF gone
    <3> QED
      BY <2>4, <2>10, <2>13, <3>1
  <2>14. ASSUME NEW i \in DOMAIN entries \ DOMAIN entries', i \notin Doomed(entries, s)
         PROVE  OverBudget([j \in {k \in DOMAIN entries \ gone : lastUse[k] >= lastUse[i]}
                                   \cup {nextId} |->
                              IF j = nextId THEN s ELSE entries[j]])
    <3> DEFINE since == {k \in DOMAIN entries \ gone : lastUse[k] >= lastUse[i]}
    <3>1. i \in ToSet(SubSeq(order, 1, Evictions(grown, order)))
      BY <2>1, <2>5, <2>9, <2>14 DEF gone
    <3>2. OverBudget([j \in {k \in DOMAIN grown : use[k] >= use[i]} |-> grown[j]])
      BY <2>6, <3>1, EvictionsAreNeeded
    <3>3. use[nextId] >= use[i] /\ i # nextId /\ use[i] = lastUse[i]
      <4>1. lastUse[i] < clock /\ lastUse[i] \in Nat
        <5>1. \E a \in DOMAIN lru : i = lru[a]
          BY <2>14 DEF OrderInv, ToSet
        <5> QED
          BY <2>14, <5>1 DEF OrderInv, ListedByUse
      <4> QED
        BY <2>3, <2>4, <2>14, <4>1
    <3>4. {k \in DOMAIN grown : use[k] >= use[i]} = since \cup {nextId}
      BY <2>4, <2>5, <3>3
    <3>5. \A j \in since \cup {nextId} : grown[j] = IF j = nextId THEN s ELSE entries[j]
      BY <2>1 DEF gone
    <3> HIDE DEF since
    <3>6. [j \in {k \in DOMAIN grown : use[k] >= use[i]} |-> grown[j]]
            = [j \in since \cup {nextId} |-> IF j = nextId THEN s ELSE entries[j]]
      BY <3>4, <3>5
    <3> QED
      BY <3>2, <3>6 DEF since
  <2> QED
    BY <2>2, <2>8, <2>12, <2>13, <2>14 DEF WithinBudget, gone
<1> QED
  BY <1>1, <1>2

\* What a hit names is resident.
LEMMA HitIsResident ==
  ASSUME NEW r, NEW h \in Hit(entries, r)
  PROVE  h.id \in DOMAIN entries
BY DEF Hit, Best, Heaviest

LEMMA LookupKeepsOrder ==
  ASSUME NEW r \in Request, Lookup(r), EntriesOK, OrderInv
  PROVE  OrderInv'
<1>1. CASE UNCHANGED <<entries, lru, lastUse, clock>>
  BY <1>1 DEF OrderInv, ListedByUse
<1>2. CASE ~UNCHANGED <<entries, lru, lastUse, clock>>
  <2>1. PICK h \in Hit(entries, r) :
          /\ clock' = clock + 1
          /\ IF Consumed(entries, h)
             THEN /\ entries' = Without(entries, {h.id})
                  /\ lru' = DropIds(lru, {h.id})
                  /\ lastUse' = Without(lastUse, {h.id})
             ELSE /\ lru' = Touched(lru, h.id)
                  /\ lastUse' = [lastUse EXCEPT ![h.id] = clock]
                  /\ UNCHANGED entries
    BY <1>2 DEF Lookup
  <2>2. h.id \in DOMAIN entries /\ h.id \in Nat
    BY HitIsResident DEF EntriesOK
  <2>3. /\ clock \in Nat /\ DOMAIN lastUse = DOMAIN entries
        /\ ListedByUse(lru, lastUse) /\ ToSet(lru) = DOMAIN entries
        /\ \A i \in DOMAIN entries : lastUse[i] < clock
    BY DEF OrderInv
  <2>4. /\ ListedByUse(DropIds(lru, {h.id}), lastUse)
        /\ ToSet(DropIds(lru, {h.id})) = DOMAIN entries \ {h.id}
    BY <2>3, DropIdsKeepsOrder
  <2>5. \A i \in DOMAIN entries : lastUse[i] \in Nat /\ lastUse[i] < clock + 1
    <3>1. \A i \in DOMAIN entries : \E a \in DOMAIN lru : i = lru[a]
      BY <2>3 DEF ToSet
    <3> SUFFICES ASSUME NEW i \in DOMAIN entries
                 PROVE  lastUse[i] \in Nat /\ lastUse[i] < clock + 1
      OBVIOUS
    <3>2. lastUse[i] \in Nat
      BY <2>3, <3>1 DEF ListedByUse
    <3> QED
      BY <2>3, <3>2
  <2>6. CASE Consumed(entries, h)
    <3>1. /\ entries' = Without(entries, {h.id})
          /\ lru' = DropIds(lru, {h.id})
          /\ lastUse' = Without(lastUse, {h.id})
      BY <2>1, <2>6
    <3>2. /\ DOMAIN entries' = DOMAIN entries \ {h.id}
          /\ DOMAIN lastUse' = DOMAIN entries \ {h.id}
          /\ \A i \in DOMAIN lastUse' : lastUse'[i] = lastUse[i]
      BY <2>3, <3>1 DEF Without
    <3>3. ListedByUse(lru', lastUse')
      BY <2>4, <3>1, <3>2, SameMoments
    <3> QED
      BY <2>1, <2>3, <2>4, <2>5, <3>1, <3>2, <3>3 DEF OrderInv
  <2>7. CASE ~Consumed(entries, h)
    <3>1. /\ lru' = Append(DropIds(lru, {h.id}), h.id)
          /\ lastUse' = [lastUse EXCEPT ![h.id] = clock]
          /\ entries' = entries
      BY <2>1, <2>7 DEF Touched
    <3>2. /\ DOMAIN lastUse' = DOMAIN entries
          /\ lastUse'[h.id] = clock
          /\ \A i \in DOMAIN entries \ {h.id} : lastUse'[i] = lastUse[i]
      BY <2>2, <2>3, <3>1
    <3>3. ListedByUse(DropIds(lru, {h.id}), lastUse')
      BY <2>4, <3>2, SameMoments
    <3>4. \A j \in ToSet(DropIds(lru, {h.id})) : lastUse'[j] < lastUse'[h.id]
      BY <2>3, <2>4, <3>2
    <3>5. /\ ListedByUse(Append(DropIds(lru, {h.id}), h.id), lastUse')
          /\ ToSet(Append(DropIds(lru, {h.id}), h.id))
               = ToSet(DropIds(lru, {h.id})) \cup {h.id}
      BY <2>2, <2>3, <3>2, <3>3, <3>4, AppendKeepsOrder
    <3>6. \A i \in DOMAIN entries' : lastUse'[i] < clock'
      <4>1. clock < clock + 1
        BY <2>3
      <4> QED
        BY <2>1, <2>5, <3>1, <3>2, <4>1
    <3>7. ToSet(lru') = DOMAIN entries' /\ DOMAIN lastUse' = DOMAIN entries'
      BY <2>2, <2>4, <3>1, <3>2, <3>5
    <3>8. clock' \in Nat /\ ListedByUse(lru', lastUse')
      BY <2>1, <2>3, <3>1, <3>5
    <3> QED
      BY <3>6, <3>7, <3>8 DEF OrderInv
  <2> QED
    BY <2>6, <2>7
<1> QED
  BY <1>1, <1>2

\* No generation snapshot stands before a prefill one that extends it.
NoMaskedPrompt ==
  CrossKindPrune =>
    \A i, j \in DOMAIN entries :
      ~(/\ i < j
        /\ entries[i].key = entries[j].key
        /\ entries[i].kind = "generation" /\ entries[j].kind = "prefill"
        /\ IsPrefix(entries[i].tokens, entries[j].tokens))

CacheInv == IInv /\ OrderInv /\ WithinBudget /\ NoMaskedPrompt

LEMMA InitCache == Init => CacheInv
<1> SUFFICES ASSUME Init PROVE CacheInv
  OBVIOUS
<1>1. /\ entries = << >> /\ lru = << >> /\ lastUse = << >> /\ clock = 0
      /\ DOMAIN entries = {} /\ DOMAIN lru = {} /\ DOMAIN lastUse = {}
  BY DEF Init
<1>2. OrderInv
  BY <1>1 DEF OrderInv, ListedByUse, ToSet
<1>3. WithinBudget
  <2>1. Bytes(entries) = 0
    <3> DEFINE f == [i \in DOMAIN entries |-> entries[i].size]
    <3>1. DOMAIN f = {}
      BY <1>1
    <3> HIDE DEF f
    <3>2. Total(f) = 0
      BY <3>1, TotalOfNothing
    <3> QED
      BY <3>2 DEF Bytes, f
  <2>2. Cardinality(DOMAIN entries) = 0
    BY <1>1, FS_EmptySet
  <2> QED
    BY <2>1, <2>2, L1Assumption DEF WithinBudget, OverBudget
<1>4. NoMaskedPrompt
  BY <1>1 DEF NoMaskedPrompt
<1> QED
  BY <1>2, <1>3, <1>4, InitInductive DEF CacheInv

LEMMA ShrinkingFits ==
  ASSUME EntriesOK, OrderInv, WithinBudget,
         DOMAIN entries' \subseteq DOMAIN entries,
         \A i \in DOMAIN entries' : entries'[i] = entries[i]
  PROVE  WithinBudget'
<1>1. IsFiniteSet(DOMAIN entries)
  BY FiniteList DEF OrderInv, ListedByUse
<1>2. \A i \in DOMAIN entries : entries[i].size \in Nat
  BY L1Assumption DEF EntriesOK, IsSnapshot
<1>3. ~OverBudget(entries')
  BY <1>1, <1>2, FewerFit DEF WithinBudget
<1> QED
  BY <1>3 DEF WithinBudget

LEMMA InsertKeepsUnmasked ==
  ASSUME NEW s \in Snapshot, Insert(s), EntriesOK, NoMaskedPrompt
  PROVE  NoMaskedPrompt'
<1>1. CASE entries' = entries
  BY <1>1 DEF NoMaskedPrompt
<1>2. CASE /\ DOMAIN entries' \subseteq (DOMAIN entries \ Doomed(entries, s)) \cup {nextId}
           /\ \A i \in DOMAIN entries' :
                entries'[i] = IF i = nextId THEN s ELSE entries[i]
  <2> SUFFICES ASSUME CrossKindPrune, NEW i \in DOMAIN entries', NEW j \in DOMAIN entries',
                      i < j, entries'[i].key = entries'[j].key,
                      entries'[i].kind = "generation", entries'[j].kind = "prefill",
                      IsPrefix(entries'[i].tokens, entries'[j].tokens)
               PROVE  FALSE
    BY DEF NoMaskedPrompt
  <2>1. i # nextId /\ i \in DOMAIN entries /\ entries'[i] = entries[i]
    BY <1>2 DEF EntriesOK
  <2>2. CASE j = nextId
    BY <1>2, <2>1, <2>2 DEF Doomed, DoomedCross, Extended
  <2>3. CASE j # nextId
    BY <1>2, <2>1, <2>3 DEF NoMaskedPrompt
  <2> QED
    BY <2>2, <2>3
<1> QED
  BY <1>1, <1>2, InsertShrinks

LEMMA NextCache == CacheInv /\ [Next]_vars => CacheInv'
<1> SUFFICES ASSUME CacheInv, [Next]_vars PROVE CacheInv'
  OBVIOUS
<1>1. EntriesOK /\ OrderInv /\ WithinBudget /\ NoMaskedPrompt /\ IInv
  BY DEF CacheInv, IInv
<1>2. IInv'
  BY <1>1, NextInductive
<1>3. ASSUME NEW s \in Snapshot, Insert(s)
      PROVE  OrderInv' /\ WithinBudget' /\ NoMaskedPrompt'
  BY <1>1, <1>3, InsertKeepsOrder, InsertKeepsUnmasked
<1>4. ASSUME \/ \E r \in Request : Lookup(r) \/ Probe(r)
             \/ Clear
             \/ UNCHANGED vars
      PROVE  OrderInv' /\ WithinBudget' /\ NoMaskedPrompt'
  <2>1. /\ DOMAIN entries' \subseteq DOMAIN entries
        /\ \A i \in DOMAIN entries' : entries'[i] = entries[i]
    BY <1>4, OthersShrink
  <2>2. WithinBudget'
    BY <1>1, <2>1, ShrinkingFits
  <2>3. NoMaskedPrompt'
    BY <1>1, <2>1 DEF NoMaskedPrompt
  <2>4. ASSUME NEW r \in Request, Lookup(r)
        PROVE  OrderInv'
    BY <1>1, <2>4, LookupKeepsOrder
  <2>5. ASSUME NEW r \in Request, Probe(r)
        PROVE  OrderInv'
    BY <1>1, <2>5 DEF Probe, OrderInv, ListedByUse
  <2>6. ASSUME Clear PROVE OrderInv'
    <3>1. /\ lru' = << >> /\ clock' = clock
          /\ DOMAIN entries' = {} /\ DOMAIN lru' = {} /\ DOMAIN lastUse' = {}
      BY <2>6 DEF Clear
    <3> QED
      BY <1>1, <3>1 DEF OrderInv, ListedByUse, ToSet
  <2>7. ASSUME UNCHANGED vars PROVE OrderInv'
    BY <1>1, <2>7 DEF vars, OrderInv, ListedByUse
  <2> QED
    BY <1>4, <2>2, <2>3, <2>4, <2>5, <2>6, <2>7
<1> QED
  BY <1>2, <1>3, <1>4 DEF CacheInv, Next

LEMMA CacheInvariant == Spec => []CacheInv
  BY InitCache, NextCache, PTL DEF Spec

\* _lru_order and _entries hold the same ids, each once, and the order is the
\* order of last use, through every lookup, prune, insert, eviction and clear.
THEOREM OrderOfUse == Spec => []LruOrderIsUseOrder
<1>1. CacheInv => LruOrderIsUseOrder
  BY DEF CacheInv, OrderInv, ListedByUse, LruOrderIsUseOrder
<1> QED
  BY <1>1, CacheInvariant, PTL

\* The loop of _evict_until_under_budget always gets back under max_entries
\* and max_bytes, and no other operation leaves the budgets.
THEOREM StaysWithinBudget == Spec => []WithinBudget
<1>1. CacheInv => WithinBudget
  BY DEF CacheInv
<1> QED
  BY <1>1, CacheInvariant, PTL

\* A resident prompt with logits is an exact hit: the entry the lookup meets
\* first among those as long as the request is never a generation snapshot,
\* and never an older snapshot of the same prompt without the logits.
THEOREM PromptIsReused == Spec => []ExactPromptReuse
<1>1. CacheInv => ExactPromptReuse
  <2> SUFFICES ASSUME CacheInv, NEW i \in DOMAIN entries, NEW r \in Request,
                      CrossKindPrune, entries[i].kind = "prefill", entries[i].logits,
                      Fits(entries[i], r), entries[i].tokens = r.tokens
               PROVE  \E h \in Hit(entries, r) : h.snap.tokens = r.tokens
    BY DEF ExactPromptReuse
  <2>1. /\ DOMAIN entries \in SUBSET Nat
        /\ \A j \in DOMAIN entries : entries[j] \in Snapshot
        /\ NoDominatedEntry /\ NoMaskedPrompt
    BY DEF CacheInv, IInv, EntriesOK
  <2>2. /\ \A j \in DOMAIN entries : /\ entries[j].tokens \in Seq(Nat)
                                     /\ Len(entries[j].tokens) \in Nat
                                     /\ entries[j].kind \in Kinds
        /\ r.tokens \in Seq(Nat) /\ Len(r.tokens) \in Nat
    BY <2>1, L1Assumption, LenProperties DEF IsSnapshot, IsRequest
  <2> DEFINE Whole == {j \in DOMAIN entries : UsableWhole(entries[j], r)}
             Long == {j \in Whole : Len(entries[j].tokens) = Len(r.tokens)}
  <2>3. \A j \in Whole : Len(entries[j].tokens) <= Len(r.tokens)
    BY DEF UsableWhole, CoversPrefix, IsPrefix
  <2>4. \A j \in Long : entries[j].tokens = r.tokens
    <3> SUFFICES ASSUME NEW j \in Long PROVE entries[j].tokens = r.tokens
      OBVIOUS
    <3>1. SubSeq(entries[j].tokens, 1, Len(entries[j].tokens)) = SubSeq(r.tokens, 1, Len(r.tokens))
      BY DEF UsableWhole, CoversPrefix, IsPrefix
    <3>2. /\ SubSeq(entries[j].tokens, 1, Len(entries[j].tokens)) = entries[j].tokens
          /\ SubSeq(r.tokens, 1, Len(r.tokens)) = r.tokens
      BY <2>2, SubSeqFull
    <3> QED
      BY <3>1, <3>2
  <2>5. i \in Long /\ Long \in SUBSET Nat
    BY <2>1, <2>2 DEF UsableWhole, CoversPrefix, IsPrefix
  <2>6. PICK w \in Long : \A j \in Long : w <= j
    <3> HIDE DEF Long
    <3> QED
      BY <2>5, Smallest
  <2> DEFINE whole == Heaviest(Whole, LAMBDA j : Len(entries[j].tokens))
             split == Heaviest({j \in DOMAIN entries : UsableAtBoundary(entries[j], r)},
                               LAMBDA j : entries[j].boundary)
             h == [id |-> w, snap |-> entries[w], sidecar |-> FALSE]
  <2>7. w \in whole
    <3> SUFFICES ASSUME NEW j \in Whole
                 PROVE  \/ Len(entries[w].tokens) > Len(entries[j].tokens)
                        \/ Len(entries[w].tokens) = Len(entries[j].tokens) /\ w <= j
      BY DEF Heaviest
    <3>1. CASE j \in Long
      BY <2>6, <3>1
    <3>2. CASE j \notin Long
      <4>1. Len(entries[j].tokens) # Len(r.tokens)
        BY <3>2
      <4> QED
        BY <2>2, <2>3, <4>1
    <3> QED
      BY <3>1, <3>2
  <2>8. \A b \in split : entries[b].boundary <= Len(entries[w].tokens)
    BY DEF Heaviest, UsableAtBoundary
  <2>9. h \in Best(entries, r)
    BY <2>7, <2>8 DEF Best
  <2>10. entries[w].kind = "prefill" /\ entries[w].logits
    <3>1. /\ w \in DOMAIN entries /\ entries[w].key = entries[i].key
          /\ entries[w].tokens = entries[i].tokens
      BY <2>4 DEF UsableWhole, Fits
    <3>2. IsPrefix(entries[w].tokens, entries[i].tokens)
      BY <2>2, <3>1 DEF IsPrefix
    <3>3. w = i \/ w < i
      BY <2>1, <2>5, <2>6
    <3>4. CASE w < i
      <4>1. entries[w].kind # "generation"
        BY <2>1, <3>1, <3>2, <3>4 DEF NoMaskedPrompt
      <4>2. entries[w].kind = entries[i].kind
        BY <2>2, <3>1, <4>1 DEF Kinds
      <4>3. Len(entries[w].tokens) < Len(entries[i].tokens)
        BY <2>1, <3>1, <3>2, <3>4, <4>2 DEF NoDominatedEntry, AlignedFrontier
      <4> QED
        BY <2>2, <3>1, <4>3
    <3> QED
      BY <3>3, <3>4
  <2>11. h \in Hit(entries, r)
    BY <2>9, <2>10 DEF Hit, Answers
  <2> QED
    BY <2>4, <2>11
<1> QED
  BY <1>1, CacheInvariant, PTL

\* A generation snapshot never prunes the prefill snapshot of its prompt
\* (_prune_dominated_prefixes goes across kinds one way only): a prefill
\* snapshot leaves in that step only while it, the new one and all used since
\* do not fit, and as the least recently used one.
THEOREM PrefillOutlives == Spec => PrefillOutlivesGeneration
<1>1. CacheInv /\ [Next]_vars =>
        [\A s \in Snapshot :
           s.kind = "generation" /\ Insert(s) =>
             \A i \in DOMAIN entries \ DOMAIN entries' :
               entries[i].kind = "prefill" =>
                 /\ OverBudget(Beside(s, i))
                 /\ \A j \in DOMAIN entries' \cap DOMAIN entries : lastUse[i] < lastUse[j]]_vars
  <2> SUFFICES ASSUME CacheInv, NEW s \in Snapshot, s.kind = "generation", Insert(s),
                      NEW i \in DOMAIN entries \ DOMAIN entries',
                      entries[i].kind = "prefill"
               PROVE  /\ OverBudget(Beside(s, i))
                      /\ \A j \in DOMAIN entries' \cap DOMAIN entries : lastUse[i] < lastUse[j]
    OBVIOUS
  <2>1. Doomed(entries, s) = {j \in Extended(entries, s) : entries[j].kind = "generation"}
    BY DEF Doomed, DoomedSame, DoomedCross, Extended, AlignedFrontier
  <2>2. i \notin Doomed(entries, s)
    BY <2>1
  <2>3. Beside(s, i) =
          [j \in {k \in DOMAIN entries \ Doomed(entries, s) : lastUse[k] >= lastUse[i]} \cup {nextId} |->
             IF j = nextId THEN s ELSE entries[j]]
    BY <2>1 DEF Beside
  <2> QED
    BY <2>2, <2>3, InsertKeepsOrder DEF CacheInv, IInv
<1> QED
  BY <1>1, CacheInvariant, PTL DEF Spec, PrefillOutlivesGeneration


-----------------------------------------------------------------------------
(* What an insertion gives up *)

\* The snapshots of the ids listed.
Named(E, ids) == {E[i] : i \in ids}

LEMMA SnapshotsListed ==
  ASSUME NEW S, NEW E, NEW D, NEW ids \in Seq(D), \A i \in D : E[i] \in S
  PROVE  /\ SnapshotsOf(E, ids) \in Seq(S)
         /\ ToSet(SnapshotsOf(E, ids)) = Named(E, ToSet(ids))
<1>1. DOMAIN ids = 1 .. Len(ids) /\ Len(ids) \in Nat /\ \A n \in DOMAIN ids : ids[n] \in D
  BY LenProperties, ElementOfSeq
<1>2. SnapshotsOf(E, ids) = [n \in 1 .. Len(ids) |-> E[ids[n]]]
  BY <1>1 DEF SnapshotsOf
<1>3. SnapshotsOf(E, ids) \in Seq(S)
  BY <1>1, <1>2, IsASeq
<1>4. ToSet(SnapshotsOf(E, ids)) = {E[ids[n]] : n \in DOMAIN ids}
  BY DEF SnapshotsOf, ToSet
<1> QED
  BY <1>3, <1>4 DEF ToSet, Named

\* Nothing vanishes in an insertion: what was resident and what comes in is
\* resident afterwards or given back, unless the prompt is too long for the
\* cache; and nothing else is given back.
LEMMA InsertGivesBack ==
  ASSUME NEW s \in Snapshot, Insert(s), EntriesOK, OrderInv
  PROVE  /\ outcome'.removed \in Seq(Snapshot)
         /\ ToSet(outcome'.removed) \subseteq Held \cup {s}
         /\ Held' \subseteq Held \cup {s}
         /\ Held \subseteq Held' \cup ToSet(outcome'.removed)
         /\ \/ s \in Held' \cup ToSet(outcome'.removed)
            \/ s.kind = "prefill" /\ outcome'.skipped
<1> USE DEF NoOutcome
<1>1. CASE TooLong(s)
  <2>1. entries' = entries /\ outcome'.removed = << >> /\ outcome'.skipped
    BY <1>1 DEF Insert
  <2>2. s.kind = "prefill"
    BY <1>1, L1Assumption DEF TooLong, IsSnapshot, Kinds
  <2> QED
    BY <2>1, <2>2, EmptySeq DEF Held, ToSet
<1>2. CASE ~TooLong(s) /\ YieldsToPrefill(entries, s)
  <2>1. entries' = entries /\ outcome'.removed = <<s>>
    BY <1>2 DEF Insert
  <2>2. ToSet(<<s>>) = {s} /\ <<s>> \in Seq(Snapshot)
    BY DEF ToSet
  <2> QED
    BY <2>1, <2>2 DEF Held
<1>3. CASE ~TooLong(s) /\ ~YieldsToPrefill(entries, s)
  <2> DEFINE gone == Doomed(entries, s)
             same == DoomedSame(entries, s)
             cross == DoomedCross(entries, s)
  <2>1. PICK grown, order, n, evicted :
          /\ grown = [i \in (DOMAIN entries \ gone) \cup {nextId} |->
                        IF i = nextId THEN s ELSE entries[i]]
          /\ order = Append(DropIds(lru, gone), nextId)
          /\ n = Evictions(grown, order)
          /\ evicted = SubSeq(order, 1, n)
          /\ entries' = Without(grown, ToSet(evicted))
          /\ outcome' = [admitted |-> nextId \notin ToSet(evicted),
                         skipped  |-> FALSE,
                         removed  |-> SnapshotsOf(entries, Ascending(same))
                                        \o SnapshotsOf(entries, Ascending(cross))
                                        \o SnapshotsOf(grown, evicted)]
    BY <1>3, ZenonT(60) DEF Insert
  <2>2. gone = same \cup cross /\ same \subseteq DOMAIN entries /\ cross \subseteq DOMAIN entries
    BY DEF Doomed, DoomedSame, DoomedCross, Extended
  <2> HIDE DEF gone, same, cross
  <2>3. /\ \A i \in DOMAIN entries : entries[i] \in Snapshot
        /\ nextId \notin DOMAIN entries /\ nextId \in Nat /\ DOMAIN entries \subseteq Nat
    BY DEF EntriesOK
  <2>4. /\ DOMAIN grown = (DOMAIN entries \ gone) \cup {nextId} /\ grown[nextId] = s
        /\ \A i \in DOMAIN entries \ gone : grown[i] = entries[i]
    BY <2>1, <2>3
  <2>5. IsFiniteSet(DOMAIN entries)
    BY FiniteList DEF OrderInv, ListedByUse
  <2>6. ASSUME NEW K \in SUBSET DOMAIN entries
        PROVE  Ascending(K) \in Seq(DOMAIN entries) /\ ToSet(Ascending(K)) = K
    <3>1. K \in SUBSET Int /\ IsFiniteSet(K)
      BY <2>3, <2>5, FS_Subset
    <3>2. Ascending(K) \in Seq(K) /\ ToSet(Ascending(K)) = K
      BY <3>1, NumbersListed DEF Ascending
    <3> QED
      BY <3>2
  <2>7. ASSUME NEW K \in SUBSET DOMAIN entries
        PROVE  /\ SnapshotsOf(entries, Ascending(K)) \in Seq(Snapshot)
               /\ ToSet(SnapshotsOf(entries, Ascending(K))) = {entries[i] : i \in K}
    <3> DEFINE D == DOMAIN entries
               ids == Ascending(K)
    <3>1. ids \in Seq(D) /\ \A i \in D : entries[i] \in Snapshot
      BY <2>3, <2>6
    <3> HIDE DEF D, ids
    <3>2. /\ SnapshotsOf(entries, ids) \in Seq(Snapshot)
          /\ ToSet(SnapshotsOf(entries, ids)) = Named(entries, ToSet(ids))
      BY <3>1, SnapshotsListed
    <3> QED
      BY <2>6, <3>2 DEF ids, Named
  <2>8. order \in Seq(DOMAIN grown) /\ order \in Seq(Nat) /\ ToSet(order) = DOMAIN grown
    <3> DEFINE use == [i \in DOMAIN entries \cup {nextId} |->
                         IF i = nextId THEN clock ELSE lastUse[i]]
    <3>1. use[nextId] = clock /\ \A i \in DOMAIN entries : use[i] = lastUse[i]
      BY <2>3
    <3> HIDE DEF use
    <3>2. /\ ListedByUse(Append(DropIds(lru, gone), nextId), use)
          /\ ToSet(Append(DropIds(lru, gone), nextId)) = (DOMAIN entries \ gone) \cup {nextId}
      BY <3>1, InsertOrders
    <3>7. ListedByUse(order, use) /\ ToSet(order) = DOMAIN grown
      BY <2>1, <2>4, <3>2
    <3>3. order \in Seq(Nat)
      BY <3>7 DEF ListedByUse
    <3>4. \A a \in DOMAIN order : order[a] \in DOMAIN grown
      BY <3>7 DEF ToSet
    <3>5. DOMAIN order = 1 .. Len(order) /\ Len(order) \in Nat
          /\ order = [a \in 1 .. Len(order) |-> order[a]]
      BY <3>3, LenProperties
    <3>6. order \in Seq(DOMAIN grown)
      BY <3>4, <3>5, IsASeq
    <3> QED
      BY <3>7, <3>3, <3>6
  <2>9. n \in 0 .. Len(order)
    BY <2>1, <2>8, EvictionsStop
  <2>10. evicted \in Seq(DOMAIN grown)
    <3>1. \A a \in 1 .. n : order[a] \in DOMAIN grown
      <4>1. DOMAIN order = 1 .. Len(order) /\ \A a \in DOMAIN order : order[a] \in DOMAIN grown
        BY <2>8, LenProperties, ElementOfSeq
      <4> QED
        BY <2>9, <4>1
    <3>2. n \in Int
      BY <2>9
    <3> DEFINE D == DOMAIN grown
    <3>3. \A a \in 1 .. n : order[a] \in D
      BY <3>1
    <3> HIDE DEF D
    <3>4. SubSeq(order, 1, n) \in Seq(D)
      BY <3>2, <3>3, SubSeqProperties
    <3> QED
      BY <2>1, <3>4 DEF D
  <2>11. \A i \in DOMAIN grown : grown[i] \in Snapshot
    BY <2>3, <2>4
  <2>12. /\ SnapshotsOf(grown, evicted) \in Seq(Snapshot)
         /\ ToSet(SnapshotsOf(grown, evicted)) = {grown[i] : i \in ToSet(evicted)}
    <3> DEFINE D == DOMAIN grown
    <3>1. evicted \in Seq(D) /\ \A i \in D : grown[i] \in Snapshot
      BY <2>10, <2>11
    <3> HIDE DEF D
    <3>2. /\ SnapshotsOf(grown, evicted) \in Seq(Snapshot)
          /\ ToSet(SnapshotsOf(grown, evicted)) = Named(grown, ToSet(evicted))
      BY <3>1, SnapshotsListed
    <3> QED
      BY <3>2 DEF Named
  <2>13. /\ outcome'.removed \in Seq(Snapshot)
         /\ ToSet(outcome'.removed) = {entries[i] : i \in gone} \cup {grown[i] : i \in ToSet(evicted)}
    <3>1. /\ SnapshotsOf(entries, Ascending(same)) \o SnapshotsOf(entries, Ascending(cross))
               \in Seq(Snapshot)
          /\ ToSet(SnapshotsOf(entries, Ascending(same)) \o SnapshotsOf(entries, Ascending(cross)))
               = {entries[i] : i \in gone}
      BY <2>2, <2>7, ElementsOfConcat
    <3> DEFINE pruned == SnapshotsOf(entries, Ascending(same))
                           \o SnapshotsOf(entries, Ascending(cross))
    <3>2. outcome'.removed = pruned \o SnapshotsOf(grown, evicted)
      BY <2>1
    <3> HIDE DEF pruned
    <3>3. pruned \in Seq(Snapshot) /\ ToSet(pruned) = {entries[i] : i \in gone}
      BY <3>1 DEF pruned
    <3> QED
      BY <2>12, <3>2, <3>3, ElementsOfConcat
  <2>14. ToSet(evicted) \subseteq DOMAIN grown
    BY <2>10, FiniteList
  <2>15. /\ DOMAIN entries' = DOMAIN grown \ ToSet(evicted)
         /\ \A i \in DOMAIN entries' : entries'[i] = grown[i]
    BY <2>1 DEF Without
  <2>16. ToSet(outcome'.removed) \subseteq Held \cup {s} /\ Held' \subseteq Held \cup {s}
    BY <2>2, <2>4, <2>13, <2>14, <2>15 DEF Held
  <2>17. ASSUME NEW i \in DOMAIN grown
         PROVE  grown[i] \in Held' \cup ToSet(outcome'.removed)
    BY <2>13, <2>15 DEF Held
  <2>18. s \in Held' \cup ToSet(outcome'.removed)
    BY <2>4, <2>17
  <2>19. ASSUME NEW i \in DOMAIN entries
         PROVE  entries[i] \in Held' \cup ToSet(outcome'.removed)
    <3>1. CASE i \in gone
      BY <2>13, <3>1
    <3>2. CASE i \notin gone
      BY <2>4, <2>17, <3>2
    <3> QED
      BY <3>1, <3>2
  <2>20. Held \subseteq Held' \cup ToSet(outcome'.removed)
    BY <2>19 DEF Held
  <2> QED
    BY <2>13, <2>16, <2>18, <2>20
<1> QED
  BY <1>1, <1>2, <1>3

=============================================================================
