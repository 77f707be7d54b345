---------------------------- MODULE PrefixL2Proofs ----------------------------
(***************************************************************************)
(* Proofs about the disk cache, for any number of processes on one         *)
(* directory, any snapshots, limits and failures: the writer slots and the *)
(* gate, the promise of a prefix cache, the directory lock, the finality   *)
(* of a clear, the byte count and the eviction that goes by it.            *)
(***************************************************************************)
EXTENDS PrefixL2, FiniteSetTheorems, SequenceTheorems, TLAPS

-----------------------------------------------------------------------------
(* Positions, lists and sums: what the operators of Collections compute of *)
(* a directory and of a queue.                                             *)

Below(K, k) == {j \in K : j <= k}

LEMMA BelowGrows ==
  ASSUME NEW K \in SUBSET Int, IsFiniteSet(K), NEW j \in K, NEW k \in K, j < k
  PROVE  /\ Cardinality(Below(K, j)) \in Nat /\ Cardinality(Below(K, k)) \in Nat
         /\ Cardinality(Below(K, j)) < Cardinality(Below(K, k))
<1>1. IsFiniteSet(Below(K, k)) /\ IsFiniteSet(Below(K, j))
  BY FS_Subset DEF Below
<1>2. Below(K, j) \subseteq Below(K, k) /\ k \in Below(K, k) /\ k \notin Below(K, j)
  <2>1. j \in Int /\ k \in Int
    OBVIOUS
  <2>2. ASSUME NEW i \in K, i <= j PROVE i <= k
    <3>1. i \in Int
      OBVIOUS
    <3> QED
      BY <2>1, <2>2, <3>1
  <2>3. k <= k /\ ~(k <= j)
    BY <2>1
  <2>4. Below(K, j) \subseteq Below(K, k)
    BY <2>2 DEF Below
  <2> QED
    BY <2>3, <2>4 DEF Below
<1>3. Cardinality(Below(K, j)) <= Cardinality(Below(K, k))
      /\ Cardinality(Below(K, k)) # Cardinality(Below(K, j))
  BY <1>1, <1>2, FS_Subset
<1> QED
  BY <1>1, <1>3, FS_CardinalityType

\* Nth enumerates a finite set in increasing order, leaving nothing out.
LEMMA NthEnumerates ==
  ASSUME NEW K \in SUBSET Int, IsFiniteSet(K)
  PROVE  /\ Cardinality(K) \in Nat
         /\ \A n \in 1 .. Cardinality(K) : Nth(K, n) \in K
         /\ \A m, n \in 1 .. Cardinality(K) : m < n => Nth(K, m) < Nth(K, n)
         /\ \A k \in K : \E n \in 1 .. Cardinality(K) : Nth(K, n) = k
<1> DEFINE N == Cardinality(K)
           rank == [k \in K |-> Cardinality(Below(K, k))]
<1>1. N \in Nat
  BY FS_CardinalityType
<1>2. \A k \in K : rank[k] \in 1 .. N
  <2>1. ASSUME NEW k \in K PROVE rank[k] \in 1 .. N
    <3>1. IsFiniteSet(Below(K, k)) /\ Cardinality(Below(K, k)) <= N
      BY FS_Subset DEF Below
    <3>2. Cardinality(Below(K, k)) \in Nat
      BY <3>1, FS_CardinalityType
    <3>3. Cardinality(Below(K, k)) # 0
      BY <3>1, FS_EmptySet DEF Below
    <3> QED
      BY <1>1, <3>1, <3>2, <3>3
  <2> QED
    BY <2>1
<1>3. \A j, k \in K : j < k => rank[j] < rank[k]
  BY BelowGrows
<1>4. \A j, k \in K : rank[j] = rank[k] => j = k
  BY <1>2, <1>3
<1>5. rank \in Injection(K, 1 .. N)
  BY <1>2, <1>4 DEF Injection, IsInjective
<1>6. IsFiniteSet(1 .. N) /\ Cardinality(1 .. N) = N
  BY <1>1, FS_Interval
<1>7. rank \in Surjection(K, 1 .. N)
  BY <1>5, <1>6, FS_Injection
<1>8. ASSUME NEW n \in 1 .. N
      PROVE  Nth(K, n) \in K /\ rank[Nth(K, n)] = n
  <2>1. \E k \in K : Cardinality(Below(K, k)) = n
    BY <1>7 DEF Surjection
  <2> QED
    BY <2>1 DEF Nth, Below
<1>9. ASSUME NEW m \in 1 .. N, NEW n \in 1 .. N, m < n
      PROVE  Nth(K, m) < Nth(K, n)
  <2>1. Nth(K, m) \in Int /\ Nth(K, n) \in Int
    BY <1>8
  <2>2. Nth(K, m) # Nth(K, n)
    <3>1. rank[Nth(K, n)] = n /\ rank[Nth(K, m)] = m
      BY <1>8
    <3> HIDE DEF rank
    <3> QED
      BY <1>9, <3>1
  <2>3. ~(Nth(K, n) < Nth(K, m))
    <3>1. Nth(K, n) < Nth(K, m) => rank[Nth(K, n)] < rank[Nth(K, m)]
      BY <1>3, <1>8
    <3>2. rank[Nth(K, n)] = n /\ rank[Nth(K, m)] = m
      BY <1>8
    <3> HIDE DEF rank
    <3> QED
      BY <1>1, <1>9, <3>1, <3>2
  <2> QED
    BY <2>1, <2>2, <2>3
<1>10. ASSUME NEW k \in K PROVE \E n \in 1 .. N : Nth(K, n) = k
  BY <1>2, <1>4, <1>8
<1> QED
  BY <1>1, <1>8, <1>9, <1>10

\* A selection keeps the elements at the positions given, and their order.
LEMMA SelectAtKeeps ==
  ASSUME NEW S, NEW s \in Seq(S), NEW K \in SUBSET DOMAIN s
  PROVE  /\ SelectAt(s, K) \in Seq({s[k] : k \in K})
         /\ ToSet(SelectAt(s, K)) = {s[k] : k \in K}
         /\ \E at \in [DOMAIN SelectAt(s, K) -> K] :
              /\ \A n \in DOMAIN SelectAt(s, K) : SelectAt(s, K)[n] = s[at[n]]
              /\ \A m, n \in DOMAIN SelectAt(s, K) : m < n => at[m] < at[n]
<1> DEFINE N == Cardinality(K)
           at == [n \in 1 .. N |-> Nth(K, n)]
<1>1. DOMAIN s = 1 .. Len(s) /\ Len(s) \in Nat
  BY LenProperties
<1>2. K \in SUBSET Int /\ IsFiniteSet(K)
  <2>1. IsFiniteSet(1 .. Len(s))
    BY <1>1, FS_Interval
  <2> QED
    BY <1>1, <2>1, FS_Subset
<1>3. /\ N \in Nat
      /\ \A n \in 1 .. N : Nth(K, n) \in K
      /\ \A m, n \in 1 .. N : m < n => Nth(K, m) < Nth(K, n)
      /\ \A k \in K : \E n \in 1 .. N : Nth(K, n) = k
  BY <1>2, NthEnumerates
<1>4. SelectAt(s, K) = [n \in 1 .. N |-> s[at[n]]] /\ at \in [1 .. N -> K]
  BY <1>3 DEF SelectAt
<1>5. SelectAt(s, K) \in Seq({s[k] : k \in K})
  BY <1>3, <1>4, IsASeq
<1>6. ToSet(SelectAt(s, K)) = {s[k] : k \in K}
  <2>1. \A n \in 1 .. N : at[n] \in K
    BY <1>3
  <2>2. \A k \in K : \E n \in 1 .. N : at[n] = k
    BY <1>3
  <2>3. ToSet(SelectAt(s, K)) = {s[at[n]] : n \in 1 .. N}
    BY <1>4 DEF ToSet
  <2> HIDE DEF at
  <2> QED
    BY <2>1, <2>2, <2>3
<1>7. DOMAIN SelectAt(s, K) = 1 .. N
  BY <1>4
<1>8. /\ \A n \in 1 .. N : SelectAt(s, K)[n] = s[at[n]]
      /\ \A m, n \in 1 .. N : m < n => at[m] < at[n]
  BY <1>3, <1>4
<1> QED
  BY <1>4, <1>5, <1>6, <1>7, <1>8

LEMMA FiniteList ==
  ASSUME NEW S, NEW s \in Seq(S)
  PROVE  ToSet(s) \subseteq S /\ IsFiniteSet(ToSet(s))
<1>1. DOMAIN s = 1 .. Len(s) /\ Len(s) \in Nat
  BY LenProperties
<1>2. IsFiniteSet(DOMAIN s)
  BY <1>1, FS_Interval
<1>3. s \in Surjection(DOMAIN s, ToSet(s))
  BY <1>1 DEF Surjection, ToSet
<1>4. ToSet(s) \subseteq S
  BY <1>1, ElementOfSeq DEF ToSet
<1> QED
  BY <1>2, <1>3, <1>4, FS_Surjection

LEMMA ElementsOfAppend ==
  ASSUME NEW S, NEW s \in Seq(S), NEW x \in S
  PROVE  Append(s, x) \in Seq(S) /\ ToSet(Append(s, x)) = ToSet(s) \cup {x}
<1> DEFINE longer == Append(s, x)
<1>1. DOMAIN s = 1 .. Len(s) /\ Len(s) \in Nat
  BY LenProperties
<1>2. /\ longer \in Seq(S) /\ Len(longer) = Len(s) + 1
      /\ \A a \in 1 .. Len(s) : longer[a] = s[a]
      /\ longer[Len(s) + 1] = x
  BY AppendProperties
<1>3. DOMAIN longer = 1 .. Len(s) + 1
  BY <1>2, LenProperties
<1> HIDE DEF longer
<1>4. \A a \in DOMAIN longer : a = Len(s) + 1 \/ a \in DOMAIN s
  BY <1>1, <1>3
<1>5. \A a \in DOMAIN s : a \in DOMAIN longer /\ longer[a] = s[a]
  BY <1>1, <1>2, <1>3
<1>6. Len(s) + 1 \in DOMAIN longer
  BY <1>1, <1>3
<1>7. ToSet(longer) = ToSet(s) \cup {x}
  BY <1>2, <1>4, <1>5, <1>6 DEF ToSet
<1> QED
  BY <1>2, <1>7 DEF longer

LEMMA ElementsOfTail ==
  ASSUME NEW S, NEW s \in Seq(S), s # << >>
  PROVE  /\ Head(s) \in S /\ Tail(s) \in Seq(S)
         /\ ToSet(s) = {Head(s)} \cup ToSet(Tail(s))
<1> DEFINE rest == Tail(s)
<1>1. DOMAIN s = 1 .. Len(s) /\ Len(s) \in Nat
  BY LenProperties
<1>2. /\ Head(s) \in S /\ rest \in Seq(S) /\ Len(rest) = Len(s) - 1
      /\ \A a \in 1 .. Len(rest) : rest[a] = s[a + 1]
  BY HeadTailProperties
<1>3. Len(s) # 0
  BY EmptySeq
<1>4. Head(s) = s[1]
  BY <1>1, <1>3
<1>5. DOMAIN rest = 1 .. Len(rest) /\ DOMAIN rest = 1 .. Len(s) - 1
  BY <1>2, LenProperties
<1> HIDE DEF rest
<1>6. \A a \in DOMAIN rest : a + 1 \in DOMAIN s /\ rest[a] = s[a + 1]
  BY <1>1, <1>2, <1>5
<1>7. \A a \in DOMAIN s : a = 1 \/ (a - 1 \in DOMAIN rest /\ s[a] = rest[a - 1])
  <2> SUFFICES ASSUME NEW a \in DOMAIN s, a # 1
               PROVE  a - 1 \in DOMAIN rest /\ s[a] = rest[a - 1]
    OBVIOUS
  <2>1. a - 1 \in 1 .. Len(s) - 1 /\ (a - 1) + 1 = a
    BY <1>1
  <2>2. rest[a - 1] = s[(a - 1) + 1]
    BY <1>5, <1>6, <2>1
  <2> QED
    BY <1>5, <2>1, <2>2
<1>8. 1 \in DOMAIN s
  BY <1>1, <1>3
<1>9. ToSet(s) = {Head(s)} \cup ToSet(rest)
  BY <1>4, <1>6, <1>7, <1>8 DEF ToSet
<1> QED
  BY <1>2, <1>9 DEF rest

\* A function of sizes: finitely many, none negative.
Sizes(f) == IsFiniteSet(DOMAIN f) /\ \A x \in DOMAIN f : f[x] \in Nat

LEMMA UnitsFinite ==
  ASSUME NEW f, Sizes(f)
  PROVE  IsFiniteSet(Units(f)) /\ Total(f) \in Nat
<1> DEFINE g == [x \in DOMAIN f |-> {x} \X (1 .. f[x])]
           parts == {{x} \X (1 .. f[x]) : x \in DOMAIN f}
<1>1. g \in Surjection(DOMAIN f, parts)
  BY DEF Surjection
<1>2. IsFiniteSet(parts)
  BY <1>1, FS_Surjection DEF Sizes
<1>3. \A p \in parts : IsFiniteSet(p)
  <2>1. ASSUME NEW x \in DOMAIN f PROVE IsFiniteSet({x} \X (1 .. f[x]))
    <3>1. IsFiniteSet({x}) /\ f[x] \in Nat
      BY FS_Singleton DEF Sizes
    <3>2. IsFiniteSet(1 .. f[x])
      BY <3>1, FS_Interval
    <3> QED
      BY <3>1, <3>2, FS_Product
  <2> QED
    BY <2>1
<1>4. IsFiniteSet(Units(f))
  BY <1>2, <1>3, FS_UNION DEF Units
<1> QED
  BY <1>4, FS_CardinalityType DEF Total

\* Nothing sums up to zero.
LEMMA TotalOfNothing ==
  ASSUME NEW f, DOMAIN f = {}
  PROVE  Total(f) = 0
<1>1. Units(f) = {}
  BY DEF Units
<1> QED
  BY <1>1, FS_EmptySet DEF Total

\* A part of the summands sums up to no more, and to less by the summand
\* that is left out.
LEMMA TotalOfPart ==
  ASSUME NEW f, Sizes(f), NEW g, DOMAIN g \subseteq DOMAIN f,
         \A x \in DOMAIN g : g[x] = f[x]
  PROVE  Sizes(g) /\ Total(g) <= Total(f)
<1>1. Sizes(g)
  BY FS_Subset DEF Sizes
<1>2. Units(g) \subseteq Units(f)
  BY DEF Units
<1> QED
  BY <1>1, <1>2, UnitsFinite, FS_Subset DEF Total

LEMMA TotalWithout ==
  ASSUME NEW f, Sizes(f), NEW x \in DOMAIN f, NEW g, DOMAIN g = DOMAIN f \ {x},
         \A y \in DOMAIN g : g[y] = f[y]
  PROVE  Sizes(g) /\ Total(f) = Total(g) + f[x]
<1> DEFINE part == {x} \X (1 .. f[x])
<1>1. Sizes(g) /\ IsFiniteSet(Units(g)) /\ Total(g) \in Nat /\ f[x] \in Nat
  BY TotalOfPart, UnitsFinite DEF Sizes
<1>2. Units(f) = Units(g) \cup part /\ Units(g) \cap part = {}
  BY DEF Units
<1>3. IsFiniteSet(part) /\ Cardinality(part) = f[x]
  <2>1. IsFiniteSet({x}) /\ Cardinality({x}) = 1
    BY FS_Singleton
  <2>2. IsFiniteSet(1 .. f[x]) /\ Cardinality(1 .. f[x]) = f[x]
    BY <1>1, FS_Interval
  <2>3. IsFiniteSet(part) /\ Cardinality(part) = Cardinality({x}) * Cardinality(1 .. f[x])
    BY <2>1, <2>2, FS_Product
  <2> QED
    BY <1>1, <2>1, <2>2, <2>3
<1>4. Cardinality({}) = 0
  BY FS_EmptySet
<1>5. Cardinality(Units(g) \cup part)
        = Cardinality(Units(g)) + Cardinality(part) - Cardinality(Units(g) \cap part)
  BY <1>1, <1>3, FS_Union
<1>6. Cardinality(Units(f)) = Cardinality(Units(g)) + f[x]
  <2>1. Cardinality(Units(g)) \in Nat
    BY <1>1 DEF Total
  <2>2. Cardinality(Units(g) \cap part) = 0
    BY <1>2, <1>4
  <2>3. Cardinality(Units(f)) = Cardinality(Units(g)) + f[x] - 0
    BY <1>2, <1>3, <1>5, <2>2
  <2> QED
    BY <1>1, <2>1, <2>3
<1> QED
  BY <1>1, <1>6 DEF Total

-----------------------------------------------------------------------------
(* The writer and the gate *)

Job == [snap : Snapshot, epoch : Nat]

\* The fields of a process p and its two threads that the proof reads.
Shape(p) ==
  /\ {"up", "epoch", "slots", "queue", "active", "gate"} \subseteq DOMAIN proc[p]
  /\ {"pc", "job", "tmp"} \subseteq DOMAIN writer[p]
  /\ "pc" \in DOMAIN client[p]
  /\ proc[p].slots \in Int /\ proc[p].queue \in Seq(Job) /\ proc[p].epoch \in Nat
  /\ proc[p].active \in Nat

\* The writer has a job exactly between getting and ending one.
Idle == {"none", "get", "exited", "dead"}
Working(p) ==
  /\ writer[p].pc \in Idle => writer[p].job = NoJob
  /\ writer[p].pc \notin Idle => writer[p].job \in Job
  /\ writer[p].pc \in Idle \cup {"gate"} => ~writer[p].tmp
  /\ proc[p].up = "down" => writer[p].pc = "none" /\ client[p].pc = "idle"

Counted(p) ==
  proc[p].up # "down" =>
    proc[p].slots + Len(proc[p].queue) + (IF writer[p].pc \in Idle THEN 0 ELSE 1) = MaxInFlight

\* From a shutdown on nothing is said of the gate: it stays open.
Gated(p) ==
  proc[p].up = "up" /\ client[p].pc # "join" => (proc[p].gate <=> proc[p].active = 0)

PInv(p) == Shape(p) /\ Working(p) /\ Counted(p) /\ Gated(p)

L2Inv ==
  /\ DOMAIN proc = Proc /\ DOMAIN writer = Proc /\ DOMAIN client = Proc
  /\ \A p \in Proc : PInv(p)

LEMMA InitInv == Init => L2Inv
<1> SUFFICES ASSUME Init PROVE L2Inv
  OBVIOUS
<1>1. DOMAIN proc = Proc /\ DOMAIN writer = Proc /\ DOMAIN client = Proc
  BY DEF Init
<1>2. ASSUME NEW p \in Proc PROVE PInv(p)
  <2>1. proc[p] = Down /\ writer[p] = Asleep /\ client[p] = Quiet
    BY DEF Init
  <2>2. << >> \in Seq(Job) /\ Len(<< >>) = 0
    OBVIOUS
  <2>3. Down.gate /\ ~Asleep.tmp
    BY DEF Down, Asleep
  <2>4. /\ Down.up = "down" /\ Down.slots = 0 /\ Down.queue = << >> /\ Down.epoch = 0
        /\ Down.active = 0 /\ Asleep.pc = "none" /\ Asleep.job = NoJob /\ Quiet.pc = "idle"
    BY DEF Down, Asleep, Quiet
  <2>5. {"up", "epoch", "slots", "queue", "active", "gate"} \subseteq DOMAIN Down
    BY DEF Down
  <2>6. {"pc", "job", "tmp"} \subseteq DOMAIN Asleep
    BY DEF Asleep
  <2>7. "pc" \in DOMAIN Quiet
    BY DEF Quiet
  <2>8. Shape(p)
    BY <2>1, <2>2, <2>3, <2>4, <2>5, <2>6, <2>7 DEF Shape
  <2> QED
    BY <2>1, <2>3, <2>4, <2>8 DEF PInv, Working, Counted, Gated, Idle
<1> QED
  BY <1>1, <1>2 DEF L2Inv

\* What a step of p keeps: whatever belongs to another process.
Others(p) ==
  /\ DOMAIN proc' = Proc /\ DOMAIN writer' = Proc /\ DOMAIN client' = Proc
  /\ \A q \in Proc \ {p} : proc'[q] = proc[q] /\ writer'[q] = writer[q] /\ client'[q] = client[q]

LEMMA OneProcess ==
  ASSUME L2Inv, NEW p \in Proc, Others(p), PInv(p)'
  PROVE  L2Inv'
<1>1. \A q \in Proc \ {p} : PInv(q)'
  BY DEF L2Inv, Others, PInv, Shape, Working, Counted, Gated
<1> QED
  BY <1>1 DEF L2Inv, Others

\* The opening of the gate touches nothing but the wakeup.
LEMMA OpenGateEffect ==
  ASSUME L2Inv, NEW p \in Proc, OpenGate(p)
  PROVE  /\ DOMAIN writer' = Proc
         /\ \A q \in Proc \ {p} : writer'[q] = writer[q]
         /\ \E w : writer'[p] = [writer[p] EXCEPT !.woken = w]
  BY DEF OpenGate, L2Inv

\* The end of a job: asleep again, with a slot more.
LEMMA EndJobEffect ==
  ASSUME L2Inv, NEW p \in Proc, NEW pc \in {"get", "dead"}, EndJob(p, pc),
         writer[p].pc \notin Idle, UNCHANGED client
  PROVE  Others(p) /\ PInv(p)'
<1>1. writer'[p] = [Asleep EXCEPT !.pc = pc]
  BY DEF L2Inv, EndJob
<1>2. proc'[p] = [proc[p] EXCEPT !.slots = @ + 1]
  BY DEF L2Inv, EndJob
<1>3. Others(p)
  BY DEF L2Inv, EndJob, Others
<1>4. Shape(p) /\ Working(p) /\ Counted(p) /\ Gated(p)
  BY DEF L2Inv, PInv
<1>5. /\ {"pc", "job", "tmp"} \subseteq DOMAIN writer'[p]
      /\ writer'[p].pc = pc /\ writer'[p].job = NoJob /\ ~writer'[p].tmp
  BY <1>1 DEF Asleep
<1>6. /\ DOMAIN proc'[p] = DOMAIN proc[p]
      /\ proc'[p].up = proc[p].up /\ proc'[p].slots = proc[p].slots + 1
      /\ proc'[p].queue = proc[p].queue /\ proc'[p].epoch = proc[p].epoch
      /\ proc'[p].active = proc[p].active /\ proc'[p].gate = proc[p].gate
  BY <1>2, <1>4 DEF Shape
<1>8. Shape(p)'
  BY <1>4, <1>5, <1>6 DEF Shape
<1>9. Working(p)' /\ Counted(p)' /\ Gated(p)'
  BY <1>4, <1>5, <1>6, SMT DEF Shape, Working, Counted, Gated, Idle
<1> QED
  BY <1>3, <1>8, <1>9 DEF PInv

\* The fields of p keep their values (tracked, owner and stop may change).
SameProc(p) ==
  /\ DOMAIN proc'[p] = DOMAIN proc[p]
  /\ proc'[p].up = proc[p].up /\ proc'[p].slots = proc[p].slots
  /\ proc'[p].queue = proc[p].queue /\ proc'[p].epoch = proc[p].epoch
  /\ proc'[p].active = proc[p].active /\ (proc'[p].gate <=> proc[p].gate)

SameWriter(p) ==
  /\ DOMAIN writer'[p] = DOMAIN writer[p]
  /\ writer'[p].pc = writer[p].pc /\ writer'[p].job = writer[p].job
  /\ writer'[p].tmp => writer[p].tmp

\* A step of the request thread that leaves slots, queue and gate alone.
LEMMA ClientMoves ==
  ASSUME L2Inv, NEW p \in Proc, Others(p), SameProc(p), SameWriter(p),
         "pc" \in DOMAIN client'[p], client[p].pc # "join", proc[p].up # "down"
  PROVE  PInv(p)'
<1>1. Shape(p) /\ Working(p) /\ Counted(p) /\ Gated(p)
  BY DEF L2Inv, PInv
<1>2. Shape(p)'
  BY <1>1 DEF Shape, SameProc, SameWriter
<1>3. Working(p)' /\ Counted(p)'
  BY <1>1 DEF Shape, Working, Counted, Idle, SameProc, SameWriter
<1>4. Gated(p)'
  BY <1>1 DEF Gated, SameProc
<1> QED
  BY <1>2, <1>3, <1>4 DEF PInv

\* A step of the writer within a job.
LEMMA WriterMoves ==
  ASSUME L2Inv, NEW p \in Proc, Others(p), SameProc(p), UNCHANGED client,
         DOMAIN writer'[p] = DOMAIN writer[p], writer'[p].job = writer[p].job,
         writer[p].pc \notin Idle, writer'[p].pc \notin Idle \cup {"gate"}
  PROVE  PInv(p)'
<1>1. Shape(p) /\ Working(p) /\ Counted(p) /\ Gated(p)
  BY DEF L2Inv, PInv
<1>2. Shape(p)'
  BY <1>1 DEF Shape, SameProc
<1>3. Working(p)' /\ Counted(p)'
  BY <1>1 DEF Shape, Working, Counted, Idle, SameProc
<1>4. Gated(p)'
  BY <1>1 DEF Gated, SameProc
<1> QED
  BY <1>2, <1>3, <1>4 DEF PInv

LEMMA OpenInv ==
  ASSUME L2Assumption, L2Inv, NEW p \in Proc, Open(p)
  PROVE  Others(p) /\ PInv(p)'
<1>1. Shape(p) /\ Working(p)
  BY DEF L2Inv, PInv
<1>2. Others(p) /\ UNCHANGED client
  BY DEF L2Inv, Open, Others
<1>3. PICK o : proc'[p] = [Down EXCEPT !.up = "up", !.owner = o, !.slots = MaxInFlight,
                                       !.tracked = Bytes(disk)]
  BY DEF L2Inv, Open
<1>4. /\ {"up", "epoch", "slots", "queue", "active", "gate"} \subseteq DOMAIN proc'[p]
      /\ proc'[p].up = "up" /\ proc'[p].slots = MaxInFlight /\ proc'[p].queue = << >>
      /\ proc'[p].epoch = 0 /\ proc'[p].active = 0 /\ proc'[p].gate
  BY <1>3 DEF Down
<1>5. writer[p].pc = "none" /\ writer[p].job = NoJob /\ ~writer[p].tmp
  BY <1>1 DEF Open, Working, Idle
<1>6. /\ DOMAIN writer'[p] = DOMAIN writer[p]
      /\ writer'[p].pc \in {"get", "none"} /\ writer'[p].job = NoJob /\ ~writer'[p].tmp
  BY <1>1, <1>5 DEF L2Inv, Open, Shape
<1>7. << >> \in Seq(Job) /\ Len(<< >>) = 0
  OBVIOUS
<1>8. Shape(p)'
  BY <1>1, <1>2, <1>4, <1>6, <1>7 DEF Shape, L2Assumption
<1>9. Working(p)' /\ Counted(p)' /\ Gated(p)'
  BY <1>4, <1>6, <1>7 DEF Working, Counted, Gated, Idle, L2Assumption
<1> QED
  BY <1>2, <1>8, <1>9 DEF PInv

LEMMA CrashInv ==
  ASSUME L2Inv, NEW p \in Proc, Crash(p)
  PROVE  Others(p) /\ PInv(p)'
<1>1. Others(p) /\ proc'[p] = Down /\ writer'[p] = Asleep /\ client'[p] = Quiet
  BY DEF L2Inv, Crash, Others
<1>2. /\ {"up", "epoch", "slots", "queue", "active", "gate"} \subseteq DOMAIN proc'[p]
      /\ {"pc", "job", "tmp"} \subseteq DOMAIN writer'[p] /\ "pc" \in DOMAIN client'[p]
      /\ proc'[p].up = "down" /\ proc'[p].slots = 0 /\ proc'[p].queue = << >>
      /\ proc'[p].epoch = 0 /\ proc'[p].active = 0
      /\ writer'[p].pc = "none" /\ writer'[p].job = NoJob /\ ~writer'[p].tmp
      /\ client'[p].pc = "idle"
  BY <1>1 DEF Down, Asleep, Quiet
<1>3. << >> \in Seq(Job)
  OBVIOUS
<1>4. Shape(p)'
  BY <1>2, <1>3 DEF Shape
<1>5. Working(p)' /\ Counted(p)' /\ Gated(p)'
  BY <1>2 DEF Working, Counted, Gated, Idle
<1> QED
  BY <1>1, <1>4, <1>5 DEF PInv

LEMMA BeginInv ==
  ASSUME L2Assumption, L2Inv, NEW p \in Proc, BeginRequest(p)
  PROVE  Others(p) /\ PInv(p)'
<1>1. Shape(p) /\ Working(p) /\ Counted(p) /\ Gated(p)
  BY DEF L2Inv, PInv
<1>2. Others(p) /\ UNCHANGED <<writer, client>>
  BY DEF L2Inv, BeginRequest, Others
<1>3. /\ DOMAIN proc'[p] = DOMAIN proc[p]
      /\ proc'[p].up = proc[p].up /\ proc'[p].slots = proc[p].slots
      /\ proc'[p].queue = proc[p].queue /\ proc'[p].epoch = proc[p].epoch
      /\ proc'[p].active = proc[p].active + 1 /\ ~proc'[p].gate
  BY <1>1 DEF Shape, BeginRequest, L2Inv
<1>4. Shape(p)'
  BY <1>1, <1>2, <1>3 DEF Shape
<1>5. Working(p)' /\ Counted(p)'
  BY <1>1, <1>2, <1>3 DEF Shape, Working, Counted, Idle
<1>6. ~proc'[p].gate /\ proc'[p].active # 0
  BY <1>1, <1>3 DEF Shape
<1>7. Gated(p)'
  BY <1>6 DEF Gated
<1> QED
  BY <1>2, <1>4, <1>5, <1>7 DEF PInv

LEMMA EndRequestInv ==
  ASSUME L2Inv, NEW p \in Proc, EndRequest(p)
  PROVE  Others(p) /\ PInv(p)'
<1>1. Shape(p) /\ Working(p) /\ Counted(p) /\ Gated(p)
  BY DEF L2Inv, PInv
<1>2. /\ DOMAIN writer' = Proc /\ \A q \in Proc \ {p} : writer'[q] = writer[q]
      /\ \E w : writer'[p] = [writer[p] EXCEPT !.woken = w] \/ writer'[p] = writer[p]
  <2>1. CASE proc[p].active = 1
    BY <2>1, OpenGateEffect DEF EndRequest
  <2>2. CASE proc[p].active # 1
    BY <2>2 DEF EndRequest, L2Inv
  <2> QED
    BY <2>1, <2>2
<1>3. Others(p) /\ UNCHANGED client
  BY <1>2 DEF L2Inv, EndRequest, Others
<1>4. SameWriter(p)
  BY <1>1, <1>2 DEF SameWriter, Shape
<1>5. /\ DOMAIN proc'[p] = DOMAIN proc[p]
      /\ proc'[p].up = proc[p].up /\ proc'[p].slots = proc[p].slots
      /\ proc'[p].queue = proc[p].queue /\ proc'[p].epoch = proc[p].epoch
      /\ proc'[p].active = proc[p].active - 1
  BY <1>1 DEF Shape, EndRequest, L2Inv
<1>6. proc'[p].gate <=> (proc[p].gate \/ proc[p].active = 1)
  BY <1>1 DEF Shape, EndRequest, L2Inv
<1>7. proc[p].up = "up" /\ client[p].pc = "idle" /\ proc[p].active > 0
  BY DEF EndRequest, Ready
<1>8. Shape(p)'
  BY <1>1, <1>3, <1>4, <1>5, <1>7 DEF Shape, SameWriter
<1>9. Working(p)' /\ Counted(p)'
  BY <1>1, <1>3, <1>4, <1>5 DEF Shape, Working, Counted, Idle, SameWriter
<1>10. Gated(p)'
  <2>1. ~proc[p].gate
    BY <1>1, <1>7 DEF Gated, Shape
  <2>2. proc[p].active = 1 <=> proc'[p].active = 0
    BY <1>1, <1>5 DEF Shape
  <2> QED
    BY <2>1, <2>2, <1>6 DEF Gated
<1> QED
  BY <1>3, <1>8, <1>9, <1>10 DEF PInv

\* A snapshot that is queued takes one slot.
LEMMA InsertInv ==
  ASSUME L2Inv, NEW p \in Proc, NEW s \in Snapshot, Insert(p, s)
  PROVE  Others(p) /\ PInv(p)'
<1>1. Shape(p) /\ Working(p) /\ Counted(p) /\ Gated(p)
  BY DEF L2Inv, PInv
<1>2. /\ Others(p) /\ UNCHANGED <<writer, client>>
      /\ client[p].pc # "join" /\ proc[p].up # "down"
  BY DEF L2Inv, Insert, Others, Ready
<1>3. SameWriter(p) /\ "pc" \in DOMAIN client'[p]
  BY <1>1, <1>2 DEF SameWriter, Shape
<1>4. CASE UNCHANGED proc
  <2>1. SameProc(p)
    BY <1>4 DEF SameProc
  <2> QED
    BY <1>2, <1>3, <2>1, ClientMoves
<1>5. CASE proc' = [proc EXCEPT ![p].slots = @ - 1,
                      ![p].queue = Append(@, [snap |-> s, epoch |-> proc[p].epoch])]
  <2> DEFINE job == [snap |-> s, epoch |-> proc[p].epoch]
  <2>1. job \in Job
    BY <1>1 DEF Shape, Job
  <2>2. /\ DOMAIN proc'[p] = DOMAIN proc[p]
        /\ proc'[p].up = proc[p].up /\ proc'[p].slots = proc[p].slots - 1
        /\ proc'[p].queue = Append(proc[p].queue, job) /\ proc'[p].epoch = proc[p].epoch
        /\ proc'[p].active = proc[p].active /\ (proc'[p].gate <=> proc[p].gate)
    BY <1>1, <1>5 DEF L2Inv, Shape
  <2> HIDE DEF job
  <2>3. /\ proc'[p].queue \in Seq(Job)
        /\ Len(proc'[p].queue) = Len(proc[p].queue) + 1 /\ Len(proc[p].queue) \in Nat
    BY <1>1, <2>1, <2>2 DEF Shape
  <2>4. Shape(p)'
    BY <1>1, <1>2, <2>2, <2>3 DEF Shape
  <2>5. Working(p)' /\ Counted(p)'
    BY <1>1, <1>2, <1>3, <2>2, <2>3 DEF Shape, Working, Counted, Idle, SameWriter
  <2>6. Gated(p)'
    BY <1>1, <1>2, <2>2 DEF Gated
  <2> QED
    BY <1>2, <2>4, <2>5, <2>6 DEF PInv
<1> QED
  BY <1>4, <1>5 DEF Insert

\* A lookup changes neither slots nor gate, and an unlink only the byte count.
LEMMA LookupInv ==
  ASSUME L2Inv, NEW p \in Proc, (\E r \in Request : Lookup(p, r, 0)) \/ Load(p) \/ Recount(p)
  PROVE  Others(p) /\ PInv(p)'
<1>1. Shape(p)
  BY DEF L2Inv, PInv
<1>2. UNCHANGED writer /\ SameWriter(p)
  BY DEF Lookup, Load, Recount, SameWriter
<1>3. client[p].pc # "join" /\ proc[p].up # "down"
  BY DEF Lookup, Load, Recount, Ready, L2Inv, PInv, Working
<1>4. DOMAIN proc' = Proc /\ (\A q \in Proc \ {p} : proc'[q] = proc[q]) /\ SameProc(p)
  <2>1. CASE UNCHANGED proc
    BY <2>1 DEF L2Inv, SameProc
  <2>2. CASE Recount(p)
    BY <1>1, <2>2 DEF L2Inv, SameProc, Recount, Shape
  <2> QED
    BY <2>1, <2>2 DEF Lookup, Load
<1>5. /\ DOMAIN client' = Proc /\ \A q \in Proc \ {p} : client'[q] = client[q]
      /\ "pc" \in DOMAIN client'[p]
  <2>1. CASE Recount(p)
    BY <1>1, <2>1 DEF L2Inv, Recount, Shape
  <2>2. CASE Load(p)
    <3>1. CASE client' = [client EXCEPT ![p] = Quiet]
      BY <3>1 DEF L2Inv, Quiet
    <3>2. CASE \E C : client' = [client EXCEPT ![p].cands = C, ![p].pc = "recount"]
      BY <1>1, <3>2 DEF L2Inv, Shape
    <3>3. CASE \E C : client' = [client EXCEPT ![p].cands = C]
      BY <1>1, <3>3 DEF L2Inv, Shape
    <3> QED
      BY <2>2, <3>1, <3>2, <3>3 DEF Load
  <2>3. CASE \E r \in Request : Lookup(p, r, 0)
    BY <1>1, <2>3 DEF L2Inv, Lookup, Shape
  <2> QED
    BY <2>1, <2>2, <2>3
<1>6. Others(p)
  BY <1>2, <1>4, <1>5 DEF Others, L2Inv
<1> QED
  BY <1>2, <1>3, <1>4, <1>5, <1>6, ClientMoves

\* Clearing raises the epoch; the jobs on their way keep their slots.
LEMMA ClearInv ==
  ASSUME L2Inv, NEW p \in Proc, Clear(p)
  PROVE  Others(p) /\ PInv(p)'
<1>1. Shape(p) /\ Working(p) /\ Counted(p) /\ Gated(p)
  BY DEF L2Inv, PInv
<1>2. UNCHANGED client /\ client[p].pc # "join"
  BY DEF Clear, Ready
<1>3. PICK b : proc' = [proc EXCEPT ![p].epoch = @ + 1, ![p].tracked = b]
  BY DEF Clear
<1>4. PICK t, k : /\ t \in {FALSE, writer[p].tmp}
                  /\ writer' = [writer EXCEPT ![p].tmp = t /\ k # {}]
  BY DEF Clear
<1>5. Others(p)
  BY <1>2, <1>3, <1>4 DEF Others, L2Inv
<1>6. /\ DOMAIN proc'[p] = DOMAIN proc[p]
      /\ proc'[p].up = proc[p].up /\ proc'[p].slots = proc[p].slots
      /\ proc'[p].queue = proc[p].queue /\ proc'[p].epoch = proc[p].epoch + 1
      /\ proc'[p].active = proc[p].active /\ (proc'[p].gate <=> proc[p].gate)
  BY <1>1, <1>3 DEF L2Inv, Shape
<1>7. SameWriter(p)
  BY <1>1, <1>4 DEF L2Inv, Shape, SameWriter
<1>8. Shape(p)'
  BY <1>1, <1>2, <1>6, <1>7 DEF Shape, SameWriter
<1>9. Working(p)' /\ Counted(p)'
  BY <1>1, <1>2, <1>6, <1>7 DEF Working, Counted, SameWriter, Idle
<1>10. Gated(p)'
  BY <1>1, <1>2, <1>6 DEF Gated
<1> QED
  BY <1>5, <1>8, <1>9, <1>10 DEF PInv

\* A shutdown opens the gate, and from then on nothing is said of it.
LEMMA ShutdownInv ==
  ASSUME L2Inv, NEW p \in Proc, Shutdown(p) \/ Joined(p)
  PROVE  Others(p) /\ PInv(p)'
<1>1. Shape(p) /\ Working(p) /\ Counted(p)
  BY DEF L2Inv, PInv
<1>2. /\ DOMAIN proc' = Proc /\ \A q \in Proc \ {p} : proc'[q] = proc[q]
      /\ DOMAIN client' = Proc /\ \A q \in Proc \ {p} : client'[q] = client[q]
      /\ "pc" \in DOMAIN client'[p]
  BY <1>1 DEF L2Inv, Shape, Shutdown, Joined
<1>3. /\ DOMAIN writer' = Proc /\ \A q \in Proc \ {p} : writer'[q] = writer[q]
      /\ SameWriter(p)
  <2>1. CASE Shutdown(p)
    BY <1>1, <2>1, OpenGateEffect DEF Shutdown, SameWriter, Shape
  <2>2. CASE Joined(p)
    BY <2>2 DEF Joined, L2Inv, SameWriter
  <2> QED
    BY <2>1, <2>2
<1>4. Others(p)
  BY <1>2, <1>3 DEF Others
<1>5. /\ DOMAIN proc'[p] = DOMAIN proc[p]
      /\ proc'[p].up \in {proc[p].up, "closed"} /\ proc'[p].slots = proc[p].slots
      /\ proc'[p].queue = proc[p].queue /\ proc'[p].epoch = proc[p].epoch
      /\ proc'[p].active = proc[p].active
  BY <1>1 DEF L2Inv, Shape, Shutdown, Joined
<1>6. proc'[p].up = "closed" \/ client'[p].pc = "join"
  BY <1>1 DEF L2Inv, Shape, Shutdown, Joined
<1>7. proc[p].up # "down"
  BY <1>1 DEF Shutdown, Ready, Joined, Working
<1>8. Shape(p)'
  BY <1>1, <1>2, <1>3, <1>5 DEF Shape, SameWriter
<1>9. Working(p)' /\ Counted(p)'
  BY <1>1, <1>3, <1>5, <1>7 DEF Working, Counted, SameWriter, Idle
<1>10. Gated(p)'
  BY <1>6 DEF Gated
<1> QED
  BY <1>4, <1>8, <1>9, <1>10 DEF PInv

\* A job leaves the queue for the writer: its slot goes with it.
LEMMA GetInv ==
  ASSUME L2Inv, NEW p \in Proc, Get(p)
  PROVE  Others(p) /\ PInv(p)'
<1>1. Shape(p) /\ Working(p) /\ Counted(p) /\ Gated(p)
  BY DEF L2Inv, PInv
<1>2. Others(p) /\ UNCHANGED client /\ writer[p].pc = "get"
  BY DEF L2Inv, Get, Goto, At, Others
<1>3. ~writer[p].tmp /\ writer[p].job = NoJob
  BY <1>1, <1>2 DEF Working, Idle
<1>4. CASE /\ proc[p].queue # << >>
           /\ writer' = [writer EXCEPT ![p].pc = "gate", ![p].job = Head(proc[p].queue)]
           /\ proc' = [proc EXCEPT ![p].queue = Tail(@)]
  <2>1. /\ Head(proc[p].queue) \in Job /\ Tail(proc[p].queue) \in Seq(Job)
        /\ Len(Tail(proc[p].queue)) = Len(proc[p].queue) - 1 /\ Len(proc[p].queue) \in Nat
    BY <1>1, <1>4 DEF Shape
  <2>2. /\ DOMAIN proc'[p] = DOMAIN proc[p]
        /\ proc'[p].up = proc[p].up /\ proc'[p].slots = proc[p].slots
        /\ proc'[p].queue = Tail(proc[p].queue) /\ proc'[p].epoch = proc[p].epoch
        /\ proc'[p].active = proc[p].active /\ (proc'[p].gate <=> proc[p].gate)
    BY <1>1, <1>4 DEF L2Inv, Shape
  <2>3. /\ DOMAIN writer'[p] = DOMAIN writer[p] /\ writer'[p].pc = "gate"
        /\ writer'[p].job = Head(proc[p].queue) /\ ~writer'[p].tmp
    BY <1>1, <1>3, <1>4 DEF L2Inv, Shape
  <2>4. Shape(p)'
    BY <1>1, <1>2, <2>1, <2>2, <2>3 DEF Shape
  <2>5. Working(p)' /\ Counted(p)'
    BY <1>1, <1>2, <2>1, <2>2, <2>3 DEF Shape, Working, Counted, Idle
  <2>6. Gated(p)'
    BY <1>1, <1>2, <2>2 DEF Gated
  <2> QED
    BY <1>2, <2>4, <2>5, <2>6 DEF PInv
<1>5. CASE Goto(p, "exited") /\ UNCHANGED proc
  <2>1. /\ DOMAIN writer'[p] = DOMAIN writer[p] /\ writer'[p].pc = "exited"
        /\ writer'[p].job = NoJob /\ ~writer'[p].tmp
    BY <1>1, <1>3, <1>5 DEF L2Inv, Shape, Goto
  <2>2. Shape(p)'
    BY <1>1, <1>2, <1>5, <2>1 DEF Shape
  <2>3. Working(p)' /\ Counted(p)' /\ Gated(p)'
    BY <1>1, <1>2, <1>5, <2>1 DEF Working, Counted, Gated, Idle
  <2> QED
    BY <1>2, <2>2, <2>3 DEF PInv
<1> QED
  BY <1>4, <1>5 DEF Get

\* A step within a job, after which the writer is at pc.
LEMMA GotoInv ==
  ASSUME L2Inv, NEW p \in Proc, NEW pc \in {"check", "save", "payload", "saving", "replace",
                                           "evict", "walk", "observed", "sweep", "subtract"},
         writer[p].pc \notin Idle, UNCHANGED client,
         DOMAIN writer' = Proc, \A q \in Proc \ {p} : writer'[q] = writer[q],
         DOMAIN writer'[p] = DOMAIN writer[p], writer'[p].job = writer[p].job,
         writer'[p].pc = pc,
         UNCHANGED proc \/ \E t : proc' = [proc EXCEPT ![p].tracked = t]
  PROVE  Others(p) /\ PInv(p)'
<1>1. Shape(p)
  BY DEF L2Inv, PInv
<1>2. DOMAIN proc' = Proc /\ (\A q \in Proc \ {p} : proc'[q] = proc[q]) /\ SameProc(p)
  BY <1>1 DEF L2Inv, SameProc, Shape
<1>3. Others(p)
  BY <1>2 DEF Others, L2Inv
<1> QED
  BY <1>2, <1>3, WriterMoves DEF Idle

\* Every step that ends a job ends it in the same way, and every other keeps it.
LEMMA WriterInv ==
  ASSUME L2Inv, NEW p \in Proc, WriterStep(p), ~Get(p)
  PROVE  Others(p) /\ PInv(p)'
<1> USE DEF Goto, At
<1>1. Shape(p) /\ DOMAIN writer = Proc /\ UNCHANGED client
  BY DEF L2Inv, PInv, WriterStep, PassGate, CheckEpoch, StartSave, FinishSave, CheckPayload,
         Replace, StartEvict, Walk, Observe, Sweep, Subtract
<1>2. {"pc", "job", "tmp"} \subseteq DOMAIN writer[p]
  BY <1>1 DEF Shape
<1>3. writer[p].pc \notin Idle
  BY DEF WriterStep, PassGate, CheckEpoch, StartSave, FinishSave, CheckPayload,
         Replace, StartEvict, Walk, Observe, Sweep, Subtract, Idle
<1>4. CASE EndJob(p, "get") \/ EndJob(p, "dead")
  BY <1>1, <1>3, <1>4, EndJobEffect
<1>5. CASE PassGate(p)
  BY <1>1, <1>2, <1>3, <1>5, GotoInv DEF PassGate
<1>6. CASE CheckEpoch(p)
  BY <1>1, <1>2, <1>3, <1>4, <1>6, GotoInv DEF CheckEpoch
<1>7. CASE StartSave(p)
  BY <1>1, <1>2, <1>3, <1>7, GotoInv DEF StartSave
<1>8. CASE FinishSave(p)
  BY <1>1, <1>2, <1>3, <1>4, <1>8, GotoInv DEF FinishSave
<1>9. CASE CheckPayload(p)
  BY <1>1, <1>2, <1>3, <1>4, <1>9, GotoInv DEF CheckPayload
<1>10. CASE Replace(p)
  BY <1>1, <1>2, <1>3, <1>4, <1>10, GotoInv DEF Replace
<1>11. CASE StartEvict(p)
  BY <1>1, <1>2, <1>3, <1>4, <1>11, GotoInv DEF StartEvict
<1>12. CASE Walk(p)
  BY <1>1, <1>2, <1>3, <1>12, GotoInv DEF Walk
<1>13. CASE Observe(p)
  BY <1>1, <1>2, <1>3, <1>13, GotoInv DEF Observe
<1>14. CASE Sweep(p)
  BY <1>1, <1>2, <1>3, <1>4, <1>14, GotoInv DEF Sweep
<1>15. CASE Subtract(p)
  BY <1>1, <1>2, <1>3, <1>15, GotoInv DEF Subtract
<1> QED
  BY <1>5, <1>6, <1>7, <1>8, <1>9, <1>10, <1>11, <1>12, <1>13, <1>14, <1>15 DEF WriterStep

-----------------------------------------------------------------------------

LEMMA StepInv == L2Assumption /\ L2Inv /\ [Next]_vars => L2Inv'
<1> SUFFICES ASSUME L2Assumption, L2Inv, [Next]_vars PROVE L2Inv'
  OBVIOUS
<1>1. CASE Next
  <2>1. PICK p \in Proc :
          \/ Open(p) \/ Crash(p)
          \/ BeginRequest(p) \/ EndRequest(p)
          \/ \E s \in Snapshot : Insert(p, s)
          \/ \E r \in Request : Lookup(p, r, 0)
          \/ Load(p) \/ Recount(p)
          \/ Clear(p) \/ Shutdown(p) \/ Joined(p)
          \/ WriterStep(p)
    BY <1>1 DEF Next
  <2>2. Others(p) /\ PInv(p)'
    BY <2>1, OpenInv, CrashInv, BeginInv, EndRequestInv, InsertInv, LookupInv, ClearInv,
       ShutdownInv, GetInv, WriterInv
  <2> QED
    BY <2>2, OneProcess
<1>2. CASE UNCHANGED vars
  BY <1>2 DEF vars, L2Inv, PInv, Shape, Working, Counted, Gated
<1> QED
  BY <1>1, <1>2

LEMMA AlwaysInv == Spec => []L2Inv
<1> QED
  BY L2Assumption, InitInv, StepInv, PTL DEF Spec

\* The writer slots of the disk cache are never lost and never doubled: each is
\* free, queued or being written, however many processes share the directory
\* and however their writes fail; and no job leaves a temporary file behind.
THEOREM SlotsAlwaysAccounted == Spec => []SlotsAccounted
<1>1. L2Assumption /\ L2Inv => SlotsAccounted
  <2> SUFFICES ASSUME L2Assumption, L2Inv, NEW p \in Proc
               PROVE  /\ proc[p].up # "down" =>
                           proc[p].slots + Len(proc[p].queue) + Held(p) = MaxInFlight
                      /\ writer[p].pc \in {"none", "get", "gate", "exited", "dead"}
                           => ~writer[p].tmp
    BY DEF SlotsAccounted
  <2>1. Working(p) /\ Counted(p)
    BY DEF L2Inv, PInv
  <2>2. NoJob \notin Job
    BY DEF NoJob, Job, L2Assumption
  <2>3. Held(p) = IF writer[p].pc \in Idle THEN 0 ELSE 1
    BY <2>1, <2>2 DEF Held, Working
  <2> QED
    BY <2>1, <2>3 DEF Counted, Working, Idle
<1> QED
  BY <1>1, L2Assumption, AlwaysInv, PTL

\* While a process serves, its gate is open exactly when no request of it is
\* active, whatever the other processes do and however requests nest.
THEOREM GateAlwaysMatches == Spec => []GateMatchesRequests
<1>1. L2Inv => GateMatchesRequests
  BY DEF L2Inv, PInv, Gated, GateMatchesRequests, Ready
<1> QED
  BY <1>1, AlwaysInv, PTL

-----------------------------------------------------------------------------
(* The directory *)

LEMMA KeptFiles ==
  ASSUME NEW D \in Seq(Snapshot), NEW S
  PROVE  Kept(D, S) \in Seq(Snapshot) /\ ToSet(Kept(D, S)) = ToSet(D) \cap S
<1> DEFINE K == {n \in DOMAIN D : D[n] \in S}
<1>1. K \in SUBSET DOMAIN D
  OBVIOUS
<1>2. SelectAt(D, K) \in Seq({D[k] : k \in K}) /\ ToSet(SelectAt(D, K)) = {D[k] : k \in K}
  <2> HIDE DEF K
  <2> QED
    BY <1>1, SelectAtKeeps
<1>3. {D[k] : k \in K} = ToSet(D) \cap S
  BY DEF ToSet
<1>4. {D[k] : k \in K} \subseteq Snapshot
  BY <1>3, FiniteList
<1> QED
  BY <1>2, <1>3, <1>4, SeqMonotonic DEF Kept

LEMMA UnlinkedFiles ==
  ASSUME NEW D \in Seq(Snapshot), NEW s
  PROVE  Unlink(D, s) \in Seq(Snapshot) /\ ToSet(Unlink(D, s)) = ToSet(D) \ {s}
BY KeptFiles DEF Unlink

\* Serving a file only moves it.
LEMMA TouchedFiles ==
  ASSUME NEW D \in Seq(Snapshot), NEW s \in ToSet(D)
  PROVE  Newest(D, s) \in Seq(Snapshot) /\ ToSet(Newest(D, s)) = ToSet(D)
<1>1. s \in Snapshot
  BY FiniteList
<1>2. Unlink(D, s) \in Seq(Snapshot) /\ ToSet(Unlink(D, s)) = ToSet(D) \ {s}
  BY UnlinkedFiles
<1>3. /\ Append(Unlink(D, s), s) \in Seq(Snapshot)
      /\ ToSet(Append(Unlink(D, s), s)) = ToSet(Unlink(D, s)) \cup {s}
  BY <1>1, <1>2, ElementsOfAppend
<1> QED
  BY <1>2, <1>3 DEF Newest

\* A file more or less changes the size of the directory by its own.
LEMMA BytesOfFile ==
  ASSUME NEW D \in Seq(Snapshot), NEW E \in Seq(Snapshot), NEW s \in Snapshot,
         s \notin ToSet(D), ToSet(E) = ToSet(D) \cup {s}
  PROVE  Bytes(D) \in Nat /\ s.size \in Nat /\ Bytes(E) = Bytes(D) + s.size
<1> DEFINE f == [t \in ToSet(E) |-> t.size]
           g == [t \in ToSet(D) |-> t.size]
<1>1. IsFiniteSet(ToSet(E)) /\ ToSet(E) \subseteq Snapshot
  BY FiniteList
<1>2. \A t \in Snapshot : t.size \in Nat
  BY L2Assumption DEF IsSnapshot
<1>3. /\ DOMAIN f = ToSet(E) /\ \A t \in ToSet(E) : f[t] = t.size
      /\ DOMAIN g = ToSet(D) /\ \A t \in ToSet(D) : g[t] = t.size
  OBVIOUS
<1>4. Bytes(E) = Total(f) /\ Bytes(D) = Total(g)
  BY DEF Bytes
<1> HIDE DEF f, g
<1>5. Sizes(f)
  BY <1>1, <1>2, <1>3 DEF Sizes
<1>6. s \in DOMAIN f /\ DOMAIN g = DOMAIN f \ {s} /\ \A t \in DOMAIN g : g[t] = f[t]
  BY <1>3
<1>7. Sizes(g) /\ Total(f) = Total(g) + f[s]
  BY <1>5, <1>6, TotalWithout
<1>8. Total(g) \in Nat
  BY <1>7, UnitsFinite
<1> QED
  BY <1>2, <1>3, <1>4, <1>6, <1>7, <1>8

LEMMA BytesOfFiles ==
  ASSUME NEW D \in Seq(Snapshot)
  PROVE  Bytes(D) \in Nat /\ (ToSet(D) = {} => Bytes(D) = 0)
<1> DEFINE f == [t \in ToSet(D) |-> t.size]
<1>1. IsFiniteSet(ToSet(D)) /\ ToSet(D) \subseteq Snapshot
  BY FiniteList
<1>2. \A t \in Snapshot : t.size \in Nat
  BY L2Assumption DEF IsSnapshot
<1>3. DOMAIN f = ToSet(D) /\ \A t \in ToSet(D) : f[t] = t.size
  OBVIOUS
<1>4. Bytes(D) = Total(f)
  BY DEF Bytes
<1> HIDE DEF f
<1>5. Sizes(f)
  BY <1>1, <1>2, <1>3 DEF Sizes
<1> QED
  BY <1>3, <1>4, <1>5, UnitsFinite, TotalOfNothing

-----------------------------------------------------------------------------
(* The jobs of a process and what a step does to them and to the directory *)

\* The jobs on their way to the directory.
Jobs(p) ==
  {proc[p].queue[n] : n \in DOMAIN proc[p].queue}
    \cup (IF writer[p].pc \in Idle THEN {} ELSE {writer[p].job})

\* The records have the fields they were made with.
Fields(p) ==
  /\ DOMAIN proc[p] = {"up", "owner", "epoch", "tracked", "slots", "queue", "poison", "stop",
                       "active", "gate"}
  /\ DOMAIN writer[p] = {"pc", "job", "woken", "tmp", "walk", "seen"}
  /\ DOMAIN client[p] = {"pc", "req", "cands"}

\* A call of lookup that is under way goes through files that may serve it.
Asking(p) ==
  client[p].pc \in {"load", "recount"} =>
    /\ client[p].req \in Request
    /\ \A s \in client[p].cands : s.key = client[p].req.key /\ CoversPrefix(s, client[p].req)

\* What a walk has listed; its first file is the one just unlinked.
Walking(p) ==
  /\ writer[p].walk \in Seq(Snapshot)
  /\ writer[p].pc = "subtract" => writer[p].walk # << >>

DirInv ==
  /\ disk \in Seq(Snapshot)
  /\ \A p \in Proc : Fields(p) /\ Asking(p) /\ Walking(p)

\* Nothing that is not stored already is added by a step that leaves p's jobs
\* at what they were or fewer.
NoNewJob(p) ==
  /\ Jobs(p)' \subseteq Jobs(p)
  /\ proc'[p].epoch = proc[p].epoch
  /\ wiped' = wiped

SameFiles == disk' \in Seq(Snapshot) /\ ToSet(disk') = ToSet(disk)


\* The call a step of p makes leaves the records of p well formed, a lookup
\* within the files that may serve it and a walk within the offered snapshots.
LEMMA CallKeepsForm ==
  ASSUME L2Inv, DirInv, NEW p \in Proc,
         \/ Open(p) \/ Crash(p) \/ BeginRequest(p) \/ EndRequest(p)
         \/ \E s \in Snapshot : Insert(p, s)
         \/ \E r \in Request : Lookup(p, r, 0)
         \/ Load(p) \/ Recount(p) \/ Clear(p) \/ Shutdown(p) \/ Joined(p)
  PROVE  Fields(p)' /\ Asking(p)' /\ Walking(p)'
<1>1. /\ p \in DOMAIN proc /\ p \in DOMAIN writer /\ p \in DOMAIN client
      /\ Fields(p) /\ Asking(p) /\ Walking(p) /\ disk \in Seq(Snapshot)
  BY DEF L2Inv, DirInv
<1>2. Down.poison = FALSE /\ DOMAIN Down = {"up", "owner", "epoch", "tracked", "slots", "queue",
                       "poison", "stop", "active", "gate"}
  BY DEF Down
<1>3. /\ DOMAIN Asleep = {"pc", "job", "woken", "tmp", "walk", "seen"}
      /\ DOMAIN Quiet = {"pc", "req", "cands"} /\ Quiet.pc = "idle"
      /\ Asleep.walk = << >> /\ << >> \in Seq(Snapshot) /\ Asleep.pc = "none"
  BY DEF Asleep, Quiet
<1>4. CASE Open(p)
  BY <1>1, <1>2, <1>4 DEF Open, Fields, Asking, Walking
<1>5. CASE Crash(p)
  BY <1>1, <1>2, <1>3, <1>5 DEF Crash, Fields, Asking, Walking
<1>6. CASE BeginRequest(p)
  BY <1>1, <1>6 DEF BeginRequest, Fields, Asking, Walking
<1>7. CASE EndRequest(p)
  BY <1>1, <1>7 DEF EndRequest, OpenGate, Fields, Asking, Walking
<1>8. ASSUME NEW s \in Snapshot, Insert(p, s) PROVE Fields(p)' /\ Asking(p)' /\ Walking(p)'
  BY <1>1, <1>8 DEF Insert, Fields, Asking, Walking
<1>9. ASSUME NEW r \in Request, Lookup(p, r, 0) PROVE Fields(p)' /\ Asking(p)' /\ Walking(p)'
  BY <1>1, <1>9 DEF Lookup, Candidates, Fields, Asking, Walking
<1>10. CASE Load(p)
  <2>1. UNCHANGED <<proc, writer>>
    BY <1>10 DEF Load
  <2>2. \/ client' = [client EXCEPT ![p] = Quiet]
        \/ \E s \in client[p].cands :
             \/ client' = [client EXCEPT ![p].cands = client[p].cands \ {s}, ![p].pc = "recount"]
             \/ client' = [client EXCEPT ![p].cands = client[p].cands \ {s}]
    BY <1>10 DEF Load, Foremost
  <2>3. client[p].pc = "load"
    BY <1>10 DEF Load
  <2>4. Walking(p)' /\ DOMAIN proc'[p] = DOMAIN proc[p] /\ DOMAIN writer'[p] = DOMAIN writer[p]
    BY <1>1, <2>1 DEF Walking
  <2>5. \/ client'[p] = Quiet
        \/ /\ DOMAIN client'[p] = DOMAIN client[p]
           /\ client'[p].req = client[p].req /\ client'[p].cands \subseteq client[p].cands
    <3>1. DOMAIN client[p] = {"pc", "req", "cands"} /\ p \in DOMAIN client
      BY <1>1 DEF Fields
    <3>2. ASSUME NEW s, client' = [client EXCEPT ![p].cands = client[p].cands \ {s},
                                                 ![p].pc = "recount"]
          PROVE  /\ DOMAIN client'[p] = DOMAIN client[p]
                 /\ client'[p].req = client[p].req /\ client'[p].cands = client[p].cands \ {s}
      BY <3>1, <3>2
    <3>3. ASSUME NEW s, client' = [client EXCEPT ![p].cands = client[p].cands \ {s}]
          PROVE  /\ DOMAIN client'[p] = DOMAIN client[p]
                 /\ client'[p].req = client[p].req /\ client'[p].cands = client[p].cands \ {s}
      BY <3>1, <3>3
    <3>4. CASE client' = [client EXCEPT ![p] = Quiet]
      BY <3>1, <3>4
    <3> QED
      BY <2>2, <3>2, <3>3, <3>4
  <2>6. Fields(p)'
    <3>1. DOMAIN client[p] = {"pc", "req", "cands"}
      BY <1>1 DEF Fields
    <3>2. DOMAIN client'[p] = {"pc", "req", "cands"}
      BY <1>3, <2>5, <3>1
    <3> QED
      BY <1>1, <2>4, <3>2 DEF Fields
  <2>7. Asking(p)'
    <3>1. client[p].req \in Request /\ \A s \in client[p].cands :
                          s.key = client[p].req.key /\ CoversPrefix(s, client[p].req)
      BY <1>1, <2>3 DEF Asking
    <3>2. CASE client'[p] = Quiet
      BY <1>3, <3>2 DEF Asking
    <3>3. CASE /\ client'[p].req = client[p].req
               /\ client'[p].cands \subseteq client[p].cands
      BY <3>1, <3>3 DEF Asking
    <3> QED
      BY <2>5, <3>2, <3>3
  <2> QED
    BY <2>4, <2>6, <2>7
<1>11. CASE Recount(p)
  BY <1>1, <1>11 DEF Recount, Fields, Asking, Walking
<1>12. CASE Clear(p)
  BY <1>1, <1>12 DEF Clear, Fields, Asking, Walking
<1>13. CASE Shutdown(p)
  BY <1>1, <1>13 DEF Shutdown, OpenGate, Fields, Asking, Walking
<1>14. CASE Joined(p)
  BY <1>1, <1>14 DEF Joined, Fields, Asking, Walking
<1> QED
  BY <1>4, <1>5, <1>6, <1>7, <1>8, <1>9, <1>10, <1>11, <1>12, <1>13, <1>14

LEMMA WriterKeepsForm ==
  ASSUME L2Inv, DirInv, NEW p \in Proc, WriterStep(p)
  PROVE  Fields(p)' /\ Asking(p)' /\ Walking(p)'
<1> USE DEF At, Goto
<1>1. /\ p \in DOMAIN proc /\ p \in DOMAIN writer /\ p \in DOMAIN client
      /\ Fields(p) /\ Asking(p) /\ Walking(p) /\ disk \in Seq(Snapshot)
  BY DEF L2Inv, DirInv
<1>2. /\ DOMAIN Asleep = {"pc", "job", "woken", "tmp", "walk", "seen"}
      /\ Asleep.walk = << >> /\ << >> \in Seq(Snapshot)
  BY DEF Asleep
<1>3. UNCHANGED client
  BY DEF WriterStep, Get, PassGate, CheckEpoch, StartSave, FinishSave, CheckPayload,
         Replace, StartEvict, Walk, Observe, Sweep, Subtract
<1>4. Asking(p)'
  BY <1>1, <1>3 DEF Asking
<1>5. CASE EndJob(p, "get") \/ EndJob(p, "dead")
  <2>1. Fields(p)'
    BY <1>1, <1>2, <1>3, <1>5 DEF EndJob, Fields
  <2>2. Walking(p)'
    BY <1>1, <1>2, <1>5 DEF EndJob, Walking
  <2> QED
    BY <1>4, <2>1, <2>2
<1>6. CASE Get(p)
  BY <1>1, <1>3, <1>4, <1>6 DEF Get, Fields, Walking
<1>7. CASE PassGate(p)
  BY <1>1, <1>3, <1>4, <1>7 DEF PassGate, Fields, Walking
<1>8. CASE CheckEpoch(p)
  BY <1>1, <1>3, <1>4, <1>5, <1>8 DEF CheckEpoch, Fields, Walking
<1>9. CASE StartSave(p)
  BY <1>1, <1>3, <1>4, <1>9 DEF StartSave, Fields, Walking
<1>10. CASE FinishSave(p)
  BY <1>1, <1>3, <1>4, <1>5, <1>10 DEF FinishSave, Fields, Walking
<1>11. CASE CheckPayload(p)
  BY <1>1, <1>3, <1>4, <1>5, <1>11 DEF CheckPayload, Fields, Walking
<1>12. CASE Replace(p)
  BY <1>1, <1>3, <1>4, <1>5, <1>12 DEF Replace, Fields, Walking
<1>13. CASE StartEvict(p)
  BY <1>1, <1>3, <1>4, <1>5, <1>13 DEF StartEvict, Fields, Walking
<1>14. CASE Walk(p)
  BY <1>1, <1>3, <1>4, <1>14 DEF Walk, Fields, Walking
<1>15. CASE Observe(p)
  BY <1>1, <1>3, <1>4, <1>15 DEF Observe, Fields, Walking
<1>16. CASE Sweep(p)
  <2>1. CASE writer[p].walk # << >>
    <3>1. Tail(writer[p].walk) \in Seq(Snapshot)
      BY <1>1, <2>1, ElementsOfTail DEF Walking
    <3> QED
      BY <1>1, <1>3, <1>4, <1>5, <1>16, <3>1 DEF Sweep, Fields, Walking
  <2>2. CASE writer[p].walk = << >>
    BY <1>5, <1>16, <2>2 DEF Sweep
  <2> QED
    BY <2>1, <2>2
<1>17. CASE Subtract(p)
  <2>1. Tail(writer[p].walk) \in Seq(Snapshot)
    BY <1>1, <1>17, ElementsOfTail DEF Subtract, Walking
  <2> QED
    BY <1>1, <1>3, <1>4, <1>17, <2>1 DEF Subtract, Fields, Walking
<1> QED
  BY <1>6, <1>7, <1>8, <1>9, <1>10, <1>11, <1>12, <1>13, <1>14, <1>15, <1>16, <1>17
     DEF WriterStep


LEMMA QueueStays ==
  ASSUME NEW p \in Proc, wiped' = wiped,
         proc'[p].queue = proc[p].queue, proc'[p].epoch = proc[p].epoch,
         \/ writer'[p].pc \in Idle
         \/ writer[p].pc \notin Idle /\ writer'[p].job = writer[p].job
  PROVE  NoNewJob(p)
BY DEF NoNewJob, Jobs

\* Apart from opening, dying, inserting and clearing, a call of p adds no job
\* and no file, and takes a file away only as the owner of the directory.
LEMMA CallDoes ==
  ASSUME L2Inv, DirInv, NEW p \in Proc,
         \/ BeginRequest(p) \/ EndRequest(p)
         \/ \E r \in Request : Lookup(p, r, 0)
         \/ Load(p) \/ Recount(p) \/ Shutdown(p) \/ Joined(p)
  PROVE  /\ NoNewJob(p)
         /\ writer'[p].pc = writer[p].pc
         /\ proc'[p].owner = proc[p].owner
              \/ (proc'[p].owner = FALSE /\ (Ended(p) \/ SlowJoin))
         /\ \/ SameFiles
            \/ /\ Load(p) /\ proc[p].owner /\ disk' \in Seq(Snapshot)
               /\ \E s \in Rotten : s \in ToSet(disk) /\ ToSet(disk') = ToSet(disk) \ {s}
<1>1. /\ p \in DOMAIN proc /\ p \in DOMAIN writer /\ p \in DOMAIN client
      /\ Fields(p) /\ disk \in Seq(Snapshot)
  BY DEF L2Inv, DirInv
<1>2. wiped' = wiped
  BY DEF BeginRequest, EndRequest, Lookup, Load, Recount, Shutdown, Joined
<1>3. /\ writer'[p].pc = writer[p].pc /\ writer'[p].job = writer[p].job
      /\ proc'[p].queue = proc[p].queue /\ proc'[p].epoch = proc[p].epoch
      /\ proc'[p].owner = proc[p].owner
           \/ (proc'[p].owner = FALSE /\ (Ended(p) \/ SlowJoin))
  <2>1. CASE UNCHANGED <<proc, writer>>
    BY <2>1
  <2>2. CASE BeginRequest(p)
    BY <1>1, <2>2 DEF BeginRequest, Fields
  <2>3. CASE EndRequest(p)
    <3>1. writer'[p].pc = writer[p].pc /\ writer'[p].job = writer[p].job
      BY <1>1, <2>3 DEF EndRequest, OpenGate, Fields
    <3> QED
      BY <1>1, <2>3, <3>1 DEF EndRequest, Fields
  <2>4. CASE Recount(p)
    BY <1>1, <2>4 DEF Recount, Fields
  <2>5. CASE Shutdown(p)
    <3>1. writer'[p].pc = writer[p].pc /\ writer'[p].job = writer[p].job
      BY <1>1, <2>5 DEF Shutdown, OpenGate, Fields
    <3> QED
      BY <1>1, <2>5, <3>1 DEF Shutdown, Fields
  <2>6. CASE Joined(p)
    BY <1>1, <2>6 DEF Joined, Fields
  <2> QED
    BY <2>1, <2>2, <2>3, <2>4, <2>5, <2>6 DEF Lookup, Load
<1>4. NoNewJob(p)
  BY <1>2, <1>3, QueueStays
<1>5. \/ SameFiles
      \/ /\ Load(p) /\ proc[p].owner /\ disk' \in Seq(Snapshot)
         /\ \E s \in Rotten : s \in ToSet(disk) /\ ToSet(disk') = ToSet(disk) \ {s}
  <2>1. CASE disk' = disk
    BY <1>1, <2>1 DEF SameFiles
  <2>2. CASE Load(p) /\ disk' # disk
    <3>1. \/ \E s : OnDisk(s) /\ disk' = Newest(disk, s)
          \/ \E s \in Rotten : OnDisk(s) /\ proc[p].owner /\ disk' = Unlink(disk, s)
      BY <2>2 DEF Load
    <3> QED
      BY <1>1, <2>2, <3>1, TouchedFiles, UnlinkedFiles DEF OnDisk, SameFiles
  <2> QED
    BY <2>1, <2>2 DEF BeginRequest, EndRequest, Lookup, Recount, Shutdown, Joined
<1> QED
  BY <1>3, <1>4, <1>5

\* A job that the writer files is one it was given, of the current epoch.
Files(p) ==
  /\ writer[p].pc = "replace" /\ writer'[p].pc = "evict"
  /\ writer[p].job \in Job /\ writer[p].job \in Jobs(p)
  /\ writer[p].job.epoch = proc[p].epoch
  /\ disk' \in Seq(Snapshot)
  /\ ToSet(disk') = ToSet(disk) \cup {writer[p].job.snap}

LEMMA WriterDoes ==
  ASSUME L2Inv, DirInv, NEW p \in Proc, WriterStep(p)
  PROVE  /\ NoNewJob(p) /\ ~Ended(p)
         /\ proc'[p].owner = proc[p].owner
         /\ \/ SameFiles
            \/ Files(p)
            \/ /\ Sweep(p) /\ writer[p].walk # << >> /\ disk' \in Seq(Snapshot)
               /\ Head(writer[p].walk) \in ToSet(disk)
               /\ ToSet(disk') = ToSet(disk) \ {Head(writer[p].walk)}
<1> USE DEF At, Goto
<1>1. /\ p \in DOMAIN proc /\ p \in DOMAIN writer /\ Shape(p) /\ Working(p)
      /\ Fields(p) /\ disk \in Seq(Snapshot)
  BY DEF L2Inv, PInv, DirInv
<1>2. wiped' = wiped
  BY DEF WriterStep, Get, PassGate, CheckEpoch, StartSave, FinishSave, CheckPayload,
         Replace, StartEvict, Walk, Observe, Sweep, Subtract
<1>3. ~Ended(p)
  BY DEF WriterStep, Get, PassGate, CheckEpoch, StartSave, FinishSave, CheckPayload,
         Replace, StartEvict, Walk, Observe, Sweep, Subtract, Ended
<1>4. CASE Get(p)
  <2>1. SameFiles /\ proc'[p].owner = proc[p].owner /\ proc'[p].epoch = proc[p].epoch
    BY <1>1, <1>4 DEF Get, SameFiles, Fields
  <2>2. CASE Goto(p, "exited") /\ UNCHANGED proc
    <3>1. writer'[p].pc \in Idle
      BY <1>1, <2>2 DEF Fields, Idle
    <3> QED
      BY <1>2, <1>3, <2>1, <2>2, <3>1, QueueStays
  <2>3. CASE /\ proc[p].queue # << >>
             /\ writer' = [writer EXCEPT ![p].pc = "gate", ![p].job = Head(proc[p].queue)]
             /\ proc' = [proc EXCEPT ![p].queue = Tail(@)]
    <3>1. writer'[p].job = Head(proc[p].queue) /\ proc'[p].queue = Tail(proc[p].queue)
      BY <1>1, <2>3 DEF Fields
    <3>2. proc[p].queue \in Seq(Job)
      BY <1>1 DEF Shape
    <3>3. ToSet(proc[p].queue) = {Head(proc[p].queue)} \cup ToSet(Tail(proc[p].queue))
      BY <2>3, <3>2, ElementsOfTail
    <3>4. Jobs(p)' \subseteq ToSet(Tail(proc[p].queue)) \cup {Head(proc[p].queue)}
      BY <3>1 DEF Jobs, ToSet
    <3>5. NoNewJob(p)
      BY <1>2, <2>1, <3>3, <3>4 DEF NoNewJob, Jobs, ToSet
    <3> QED
      BY <1>3, <2>1, <3>5
  <2> QED
    BY <1>4, <2>2, <2>3 DEF Get
<1>5. ASSUME ~Get(p)
      PROVE  NoNewJob(p) /\ proc'[p].owner = proc[p].owner
  <2>1. writer[p].pc \notin Idle
    BY <1>5 DEF WriterStep, PassGate, CheckEpoch, StartSave, FinishSave, CheckPayload,
         Replace, StartEvict, Walk, Observe, Sweep, Subtract, Idle
  <2>2. CASE EndJob(p, "get") \/ EndJob(p, "dead")
    <3>1. writer'[p].pc \in Idle
      BY <1>1, <2>2 DEF EndJob, Asleep, Idle
    <3>2. /\ proc'[p].owner = proc[p].owner /\ proc'[p].queue = proc[p].queue
          /\ proc'[p].epoch = proc[p].epoch
      BY <1>1, <2>2 DEF EndJob, Fields
    <3> QED
      BY <1>2, <3>1, <3>2, QueueStays
  <2>3. CASE ~(EndJob(p, "get") \/ EndJob(p, "dead"))
    <3>1. /\ proc'[p].owner = proc[p].owner /\ proc'[p].queue = proc[p].queue
          /\ proc'[p].epoch = proc[p].epoch
      BY <1>1, <1>5, <2>3 DEF WriterStep, PassGate, CheckEpoch, StartSave, FinishSave,
         CheckPayload, Replace, StartEvict, Walk, Observe, Sweep, Subtract, Fields
    <3>2. writer'[p].job = writer[p].job
      BY <1>1, <1>5, <2>3 DEF WriterStep, PassGate, CheckEpoch, StartSave, FinishSave,
         CheckPayload, Replace, StartEvict, Walk, Observe, Sweep, Subtract, Fields
    <3> QED
      BY <1>2, <2>1, <3>1, <3>2, QueueStays
  <2> QED
    BY <2>2, <2>3
<1>6. CASE disk' = disk
  BY <1>1, <1>3, <1>4, <1>5, <1>6 DEF SameFiles
<1>7. CASE Replace(p) /\ disk' # disk
  <2>1. /\ writer[p].pc = "replace" /\ Current(p)
        /\ disk' = Append(disk, writer[p].job.snap)
        /\ writer' = [writer EXCEPT ![p].pc = "evict", ![p].tmp = FALSE]
    BY <1>7 DEF Replace
  <2>2. writer[p].job \in Job /\ writer[p].job \in Jobs(p)
    BY <1>1, <2>1 DEF Working, Idle, Jobs
  <2>3. writer[p].job.snap \in Snapshot
    BY <2>2 DEF Job
  <2>4. disk' \in Seq(Snapshot) /\ ToSet(disk') = ToSet(disk) \cup {writer[p].job.snap}
    BY <1>1, <2>1, <2>3, ElementsOfAppend
  <2>5. writer'[p].pc = "evict"
    BY <1>1, <2>1 DEF Fields
  <2>6. Files(p)
    BY <2>1, <2>2, <2>4, <2>5 DEF Files, Current
  <2>7. ~Get(p)
    BY <2>1 DEF Get
  <2> QED
    BY <1>3, <1>5, <2>6, <2>7
<1>8. CASE Sweep(p) /\ disk' # disk
  <2>1. /\ writer[p].walk # << >> /\ OnDisk(Head(writer[p].walk)) /\ writer[p].pc = "sweep"
        /\ disk' = Unlink(disk, Head(writer[p].walk))
    BY <1>8 DEF Sweep
  <2>2. ~Get(p)
    BY <2>1 DEF Get
  <2> QED
    BY <1>1, <1>3, <1>5, <1>8, <2>1, <2>2, UnlinkedFiles DEF OnDisk
<1>9. CASE ~Replace(p) /\ ~Sweep(p)
  <2>1. disk' = disk
    BY <1>9 DEF WriterStep, Get, PassGate, CheckEpoch, StartSave, FinishSave, CheckPayload,
       StartEvict, Walk, Observe, Subtract
  <2> QED
    BY <1>6, <2>1
<1> QED
  BY <1>6, <1>7, <1>8, <1>9


LEMMA OpenDoes ==
  ASSUME L2Inv, DirInv, NEW p \in Proc, Open(p) \/ Crash(p)
  PROVE  /\ Jobs(p)' = {} /\ SameFiles /\ wiped' = wiped
         /\ Open(p) => /\ proc'[p].owner = (\A q \in Proc : ~proc[q].owner)
                       /\ proc'[p].owner \/ writer'[p].pc = "none"
                       /\ proc'[p].tracked = Bytes(disk)
                       /\ writer'[p].pc \in {"none", "get"}
         /\ Crash(p) => proc'[p].owner = FALSE /\ writer'[p].pc = "none"
<1>1. /\ p \in DOMAIN proc /\ p \in DOMAIN writer /\ Working(p)
      /\ Fields(p) /\ disk \in Seq(Snapshot)
  BY DEF L2Inv, PInv, DirInv
<1>2. CASE Open(p)
  <2> DEFINE first == \A q \in Proc : ~proc[q].owner
  <2>1. /\ proc' = [proc EXCEPT ![p] = [Down EXCEPT !.up = "up", !.owner = first,
                                       !.slots = MaxInFlight, !.tracked = Bytes(disk)]]
        /\ writer' = [writer EXCEPT ![p].pc = IF first THEN "get" ELSE "none"]
    BY <1>2 DEF Open
  <2>2. first \in BOOLEAN
    OBVIOUS
  <2> HIDE DEF first
  <2>3. /\ proc'[p].owner = first /\ proc'[p].queue = << >> /\ proc'[p].tracked = Bytes(disk)
    BY <1>1, <2>1 DEF Down
  <2>4. writer'[p].pc = IF first THEN "get" ELSE "none"
    BY <1>1, <2>1 DEF Fields
  <2>5. /\ writer'[p].pc \in {"none", "get"}
        /\ proc'[p].owner = first
        /\ proc'[p].owner \/ writer'[p].pc = "none"
        /\ proc'[p].queue = << >> /\ proc'[p].tracked = Bytes(disk)
    BY <2>2, <2>3, <2>4
  <2>6. ~Crash(p)
    BY <1>2 DEF Open, Crash
  <2>7. Jobs(p)' = {}
    BY <2>5 DEF Jobs, Idle
  <2>8. SameFiles /\ wiped' = wiped
    BY <1>1, <1>2 DEF SameFiles, Open
  <2> QED
    BY <2>5, <2>6, <2>7, <2>8 DEF first
<1>3. CASE Crash(p)
  <2>1. /\ writer'[p].pc = "none" /\ proc'[p].owner = FALSE /\ proc'[p].queue = << >>
    BY <1>1, <1>3 DEF Crash, Down, Asleep
  <2>2. ~Open(p)
    BY <1>3 DEF Open, Crash
  <2>3. Jobs(p)' = {}
    BY <2>1 DEF Jobs, Idle
  <2>4. SameFiles /\ wiped' = wiped
    BY <1>1, <1>3 DEF SameFiles, Crash
  <2> QED
    BY <2>1, <2>2, <2>3, <2>4
<1> QED
  BY <1>2, <1>3

\* Only the owner queues a job, of its current epoch.
LEMMA InsertDoes ==
  ASSUME L2Inv, DirInv, NEW p \in Proc, NEW s \in Snapshot, Insert(p, s)
  PROVE  /\ SameFiles /\ writer' = writer
         /\ proc'[p].owner = proc[p].owner /\ proc'[p].epoch = proc[p].epoch
         /\ \/ NoNewJob(p)
            \/ /\ proc[p].owner /\ wiped' = wiped \ {s}
               /\ Jobs(p)' = Jobs(p) \cup {[snap |-> s, epoch |-> proc[p].epoch]}
<1>1. /\ p \in DOMAIN proc /\ p \in DOMAIN writer /\ Shape(p)
      /\ Fields(p) /\ disk \in Seq(Snapshot)
  BY DEF L2Inv, PInv, DirInv
<1>2. UNCHANGED <<disk, writer>>
  BY DEF Insert
<1>3. CASE UNCHANGED <<proc, wiped>>
  BY <1>1, <1>2, <1>3 DEF SameFiles, NoNewJob, Jobs
<1>4. CASE /\ Accepts(p, s) /\ wiped' = wiped \ {s}
           /\ proc' = [proc EXCEPT ![p].slots = @ - 1,
                ![p].queue = Append(@, [snap |-> s, epoch |-> proc[p].epoch])]
  <2> DEFINE job == [snap |-> s, epoch |-> proc[p].epoch]
  <2>1. job \in Job
    BY <1>1 DEF Shape, Job
  <2>2. /\ proc'[p].owner = proc[p].owner /\ proc'[p].epoch = proc[p].epoch
        /\ proc'[p].queue = Append(proc[p].queue, job)
    BY <1>1, <1>4 DEF Fields
  <2> HIDE DEF job
  <2>3. ToSet(proc'[p].queue) = ToSet(proc[p].queue) \cup {job}
    BY <1>1, <2>1, <2>2, ElementsOfAppend DEF Shape
  <2>4. Jobs(p)' = Jobs(p) \cup {job}
    BY <1>2, <2>3 DEF Jobs, ToSet
  <2> QED
    BY <1>1, <1>2, <1>4, <2>2, <2>4 DEF SameFiles, Accepts, job
<1> QED
  BY <1>3, <1>4 DEF Insert

\* A clear ages every job of the owner and keeps none but files it could not
\* remove.
LEMMA ClearDoes ==
  ASSUME L2Inv, DirInv, NEW p \in Proc, Clear(p)
  PROVE  /\ proc[p].owner /\ proc'[p].owner = proc[p].owner /\ writer'[p].pc = writer[p].pc
         /\ Jobs(p)' = Jobs(p) /\ proc'[p].epoch = proc[p].epoch + 1
         /\ disk' \in Seq(Snapshot)
         /\ \E kept : /\ ToSet(disk') = ToSet(disk) \cap kept
                      /\ wiped' = wiped \cup (Pending(p) \ kept)
<1>1. /\ p \in DOMAIN proc /\ p \in DOMAIN writer
      /\ Fields(p) /\ disk \in Seq(Snapshot)
  BY DEF L2Inv, DirInv
<1>2. PICK kept \in SUBSET ToSet(disk) :
        /\ disk' = Kept(disk, kept)
        /\ proc' = [proc EXCEPT ![p].epoch = @ + 1, ![p].tracked = Bytes(disk')]
        /\ wiped' = wiped \cup (Pending(p) \ kept)
        /\ \E t \in {FALSE, writer[p].tmp} :
             writer' = [writer EXCEPT ![p].tmp = t /\ kept # {}]
  BY DEF Clear
<1>3. proc[p].owner
  BY DEF Clear
<1>4. /\ proc'[p].owner = proc[p].owner /\ proc'[p].epoch = proc[p].epoch + 1
      /\ proc'[p].queue = proc[p].queue
  BY <1>1, <1>2 DEF Fields
<1>5. writer'[p].pc = writer[p].pc /\ writer'[p].job = writer[p].job
  BY <1>1, <1>2 DEF Fields
<1>6. Jobs(p)' = Jobs(p)
  BY <1>4, <1>5 DEF Jobs
<1>7. disk' \in Seq(Snapshot) /\ ToSet(disk') = ToSet(disk) \cap kept
  BY <1>1, <1>2, KeptFiles
<1> QED
  BY <1>2, <1>3, <1>4, <1>5, <1>6, <1>7

\* What waits to be written, in terms of the jobs.
JobsWait ==
  \A p \in Proc : Pending(p) = {j.snap : j \in Jobs(p)} /\ Jobs(p) \subseteq Job

LEMMA PendingJobs == L2Inv => JobsWait
<1> SUFFICES ASSUME L2Inv, NEW p \in Proc
             PROVE  Pending(p) = {j.snap : j \in Jobs(p)} /\ Jobs(p) \subseteq Job
  BY DEF JobsWait
<1>1. Shape(p) /\ Working(p)
  BY DEF L2Inv, PInv
<1>2. ToSet(proc[p].queue) \subseteq Job
  BY <1>1, FiniteList DEF Shape
<1>3. writer[p].pc \notin Idle => writer[p].job \in Job /\ writer[p].job.snap # NoSnapshot
  BY <1>1, L2Assumption DEF Working, Job
<1>4. writer[p].pc \in Idle => {writer[p].job.snap} \ {NoSnapshot} = {}
  BY <1>1 DEF Working, NoJob
<1>5. {proc[p].queue[n].snap : n \in DOMAIN proc[p].queue} = {j.snap : j \in ToSet(proc[p].queue)}
  BY DEF ToSet
<1>6. Jobs(p) = ToSet(proc[p].queue) \cup (IF writer[p].pc \in Idle THEN {} ELSE {writer[p].job})
  BY DEF Jobs, ToSet
<1>7. CASE writer[p].pc \in Idle
  BY <1>2, <1>4, <1>5, <1>6, <1>7 DEF Pending
<1>8. CASE writer[p].pc \notin Idle
  BY <1>2, <1>3, <1>5, <1>6, <1>8 DEF Pending
<1> QED
  BY <1>7, <1>8


LEMMA DirInit == Init => DirInv
<1> SUFFICES ASSUME Init PROVE DirInv
  OBVIOUS
<1>1. disk \in Seq(Snapshot)
  BY L2Assumption DEF Init
<1>2. ASSUME NEW p \in Proc PROVE Fields(p) /\ Asking(p) /\ Walking(p)
  <2>1. proc[p] = Down /\ writer[p] = Asleep /\ client[p] = Quiet
    BY DEF Init
  <2>2. DOMAIN Down = {"up", "owner", "epoch", "tracked", "slots", "queue",
                       "poison", "stop", "active", "gate"}
    BY DEF Down
  <2>3. /\ DOMAIN Asleep = {"pc", "job", "woken", "tmp", "walk", "seen"}
        /\ Asleep.walk = << >> /\ Asleep.pc = "none" /\ << >> \in Seq(Snapshot)
    BY DEF Asleep
  <2>4. DOMAIN Quiet = {"pc", "req", "cands"} /\ Quiet.pc = "idle"
    BY DEF Quiet
  <2> QED
    BY <2>1, <2>2, <2>3, <2>4 DEF Fields, Asking, Walking
<1> QED
  BY <1>1, <1>2 DEF DirInv

\* The steps of a process, by what the lemmas above say of them.
Step(p) ==
  \/ Open(p) \/ Crash(p)
  \/ BeginRequest(p) \/ EndRequest(p)
  \/ \E s \in Snapshot : Insert(p, s)
  \/ \E r \in Request : Lookup(p, r, 0)
  \/ Load(p) \/ Recount(p)
  \/ Clear(p) \/ Shutdown(p) \/ Joined(p)
  \/ WriterStep(p)

\* A step of one process leaves the others alone.
LEMMA StepOthers ==
  ASSUME L2Inv, NEW p \in Proc, Step(p)
  PROVE  Others(p) /\ \A q \in Proc \ {p} : /\ Jobs(q)' = Jobs(q)
                                           /\ proc'[q] = proc[q] /\ writer'[q] = writer[q]
                                           /\ client'[q] = client[q]
<1>1. Others(p)
  BY L2Assumption, OpenInv, CrashInv, BeginInv, EndRequestInv, InsertInv, LookupInv, ClearInv,
     ShutdownInv, GetInv, WriterInv DEF Step
<1> QED
  BY <1>1 DEF Others, Jobs

LEMMA DirStep ==
  ASSUME L2Inv, DirInv, NEW p \in Proc, Step(p)
  PROVE  DirInv'
<1>1. Fields(p)' /\ Asking(p)' /\ Walking(p)'
  BY CallKeepsForm, WriterKeepsForm DEF Step
<1>2. ASSUME NEW q \in Proc \ {p} PROVE Fields(q)' /\ Asking(q)' /\ Walking(q)'
  BY StepOthers DEF DirInv, Fields, Asking, Walking
<1>3. disk' \in Seq(Snapshot)
  <2>1. CASE Open(p) \/ Crash(p)
    BY <2>1, OpenDoes DEF SameFiles
  <2>2. CASE \E s \in Snapshot : Insert(p, s)
    BY <2>2, InsertDoes DEF SameFiles
  <2>3. CASE Clear(p)
    BY <2>3, ClearDoes
  <2>4. CASE WriterStep(p)
    BY <2>4, WriterDoes DEF SameFiles, Files
  <2>5. CASE \/ BeginRequest(p) \/ EndRequest(p)
             \/ \E r \in Request : Lookup(p, r, 0)
             \/ Load(p) \/ Recount(p) \/ Shutdown(p) \/ Joined(p)
    BY <2>5, CallDoes DEF SameFiles
  <2> QED
    BY <2>1, <2>2, <2>3, <2>4, <2>5 DEF Step
<1> QED
  BY <1>1, <1>2, <1>3 DEF DirInv

LEMMA DirNext == L2Inv /\ DirInv /\ [Next]_vars => DirInv'
<1>1. ASSUME L2Inv, DirInv, Next PROVE DirInv'
  BY <1>1, DirStep DEF Next, Step
<1>2. ASSUME L2Inv, DirInv, UNCHANGED vars PROVE DirInv'
  BY <1>2 DEF DirInv, Fields, Asking, Walking, vars
<1> QED
  BY <1>1, <1>2

LEMMA AlwaysDirInv == Spec => [](L2Inv /\ DirInv)
  BY L2Assumption, InitInv, StepInv, DirInit, DirNext, PTL DEF Spec

-----------------------------------------------------------------------------
(* The promise of a prefix cache *)

LEMMA SameSnapshots ==
  ASSUME NEW s, NEW r
  PROVE  /\ UsableWhole(s, r) <=> Promise!UsableWhole(s, r)
         /\ Answers(s, r) <=> Promise!Answers(s, r)
BY DEF UsableWhole, Answers, Fits, CoversPrefix, IsPrefix,
       Promise!UsableWhole, Promise!Answers, Promise!Fits, Promise!CoversPrefix,
       Promise!IsPrefix

LEMMA StoredShrinks ==
  ASSUME L2Inv, NEW p \in Proc, Step(p), NEW new,
         {j.snap : j \in Jobs(p)'} \subseteq {j.snap : j \in Jobs(p)} \cup new, L2Inv',
         ToSet(disk') \subseteq Stored \cup new
  PROVE  Stored' \subseteq Stored \cup new
<1>1. JobsWait
  BY PendingJobs
<1>2. JobsWait'
  BY PendingJobs, PTL
<1>3. \A q \in Proc : Pending(q)' \subseteq Pending(q) \cup new
  BY <1>1, <1>2, StepOthers DEF JobsWait
<1> QED
  BY <1>3 DEF Stored


LEMMA StoredStays ==
  ASSUME L2Inv, DirInv, NEW p \in Proc, L2Inv',
         \/ Open(p) \/ Crash(p) \/ BeginRequest(p) \/ EndRequest(p)
         \/ \E r \in Request : Lookup(p, r, 0)
         \/ Load(p) \/ Recount(p) \/ Clear(p) \/ Shutdown(p) \/ Joined(p) \/ WriterStep(p)
  PROVE  Stored' \subseteq Stored
<1> Step(p)
  BY DEF Step
<1>1. JobsWait
  BY PendingJobs
<1>2. ASSUME NoNewJob(p), ToSet(disk') \subseteq Stored
      PROVE  Stored' \subseteq Stored
  <2>1. {j.snap : j \in Jobs(p)'} \subseteq {j.snap : j \in Jobs(p)} \cup {}
    BY <1>2 DEF NoNewJob
  <2> QED
    BY <1>2, <2>1, StoredShrinks
<1>3. CASE Open(p) \/ Crash(p)
  <2>1. {j.snap : j \in Jobs(p)'} \subseteq {j.snap : j \in Jobs(p)} \cup {}
    BY <1>3, OpenDoes
  <2> QED
    BY <1>3, <2>1, OpenDoes, StoredShrinks DEF SameFiles, Stored
<1>4. CASE Clear(p)
  <2>1. /\ {j.snap : j \in Jobs(p)'} \subseteq {j.snap : j \in Jobs(p)} \cup {}
        /\ ToSet(disk') \subseteq Stored \cup {}
    BY <1>4, ClearDoes DEF Stored
  <2> QED
    BY <2>1, StoredShrinks
<1>5. CASE WriterStep(p)
  <2>1. NoNewJob(p)
    BY <1>5, WriterDoes
  <2>2. CASE Files(p)
    <3>1. writer[p].job.snap \in Pending(p)
      BY <1>1, <2>2 DEF JobsWait, Files
    <3> QED
      BY <1>2, <2>1, <2>2, <3>1 DEF Files, Stored
  <2>3. CASE ~Files(p)
    <3>1. ToSet(disk') \subseteq ToSet(disk)
      BY <1>5, <2>3, WriterDoes DEF SameFiles
    <3> QED
      BY <1>2, <2>1, <3>1 DEF Stored
  <2> QED
    BY <2>2, <2>3
<1>6. CASE \/ BeginRequest(p) \/ EndRequest(p)
           \/ \E r \in Request : Lookup(p, r, 0)
           \/ Load(p) \/ Recount(p) \/ Shutdown(p) \/ Joined(p)
  <2>1. NoNewJob(p) /\ ToSet(disk') \subseteq ToSet(disk)
    BY <1>6, CallDoes DEF SameFiles
  <2> QED
    BY <1>2, <2>1 DEF Stored
<1> QED
  BY <1>3, <1>4, <1>5, <1>6

LEMMA InsertStores ==
  ASSUME L2Inv, DirInv, NEW p \in Proc, NEW s \in Snapshot, Insert(p, s), L2Inv'
  PROVE  Stored' \subseteq Stored \cup {s}
<1>1. ToSet(disk') \subseteq Stored
  BY InsertDoes DEF SameFiles, Stored
<1>2. {j.snap : j \in Jobs(p)'} \subseteq {j.snap : j \in Jobs(p)} \cup {s}
  BY InsertDoes DEF NoNewJob
<1> QED
  BY <1>1, <1>2, StoredShrinks DEF Step

LEMMA StoredSnapshots == L2Inv /\ DirInv => Stored \subseteq Snapshot
<1> SUFFICES ASSUME L2Inv, DirInv PROVE Stored \subseteq Snapshot
  OBVIOUS
<1>1. ToSet(disk) \subseteq Snapshot
  BY FiniteList DEF DirInv
<1>2. \A p \in Proc : Pending(p) \subseteq Snapshot
  BY PendingJobs DEF JobsWait, Job
<1> QED
  BY <1>1, <1>2 DEF Stored

LEMMA StepKeepsPromise ==
  ASSUME L2Inv, DirInv, NEW p \in Proc, Step(p), L2Inv'
  PROVE  Promise!Next
<1>1. ASSUME NEW s \in Snapshot, Insert(p, s)
      PROVE  Promise!Offer(s)
  <2>3. Stored' \subseteq Stored \cup {s}
    BY <1>1, InsertStores
  <2>4. reply' = reply
    BY <1>1 DEF Insert
  <2> QED
    BY <2>3, <2>4 DEF Promise!Offer
<1>2. CASE Load(p) /\ reply' # reply
  <2> DEFINE r == client[p].req
  <2>1. /\ r \in Request
        /\ \A s \in client[p].cands : s.key = r.key /\ CoversPrefix(s, r)
    BY <1>2 DEF DirInv, Asking, Load
  <2>2. Stored' \subseteq Stored
    BY <1>2, StoredStays
  <2>3. \/ reply' = [req |-> r, snap |-> NoSnapshot]
        \/ \E s \in client[p].cands :
             OnDisk(s) /\ Serves(s, r) /\ reply' = [req |-> r, snap |-> s]
    BY <1>2 DEF Load, MissReply, Foremost
  <2> HIDE DEF r
  <2>4. ASSUME NEW s \in client[p].cands, OnDisk(s), Serves(s, r)
        PROVE  s \in Stored /\ s \in Promise!Restorable(s, r)
    <3>1. UsableWhole(s, r) /\ Answers(s, r)
      BY <2>1, <2>4 DEF UsableWhole, Fits, Serves
    <3>2. Promise!UsableWhole(s, r) /\ Promise!Answers(s, r)
      BY <3>1, SameSnapshots
    <3> QED
      BY <2>4, <3>2 DEF Promise!Restorable, Stored, OnDisk
  <2>5. Promise!Serve(r)
    BY <2>2, <2>3, <2>4 DEF Promise!Serve
  <2> QED
    BY <2>1, <2>5 DEF Promise!Next
<1>3. CASE reply' = reply /\ ~ \E s \in Snapshot : Insert(p, s)
  BY <1>3, StoredStays DEF Step, Promise!Forget, Promise!Next
<1>4. reply' = reply \/ Load(p)
  BY DEF Step, Open, Crash, BeginRequest, EndRequest, Insert, Lookup, Recount, Clear,
     Shutdown, Joined, WriterStep, Get, PassGate, CheckEpoch, StartSave, FinishSave,
     CheckPayload, Replace, StartEvict, Walk, Observe, Sweep, Subtract
<1> QED
  BY <1>1, <1>2, <1>3, <1>4 DEF Promise!Next

\* The directory implements the promise of a prefix cache, whatever processes
\* share it, clear it, die, or find files of earlier ones or files that rot:
\* what a lookup returns was stored, fits the request, and comes with logits
\* when nothing is left to compute.
THEOREM DirectoryKeepsPromise == Spec => ImplementsPromise
<1>1. L2Inv /\ DirInv /\ Init => Promise!Init
  BY StoredSnapshots DEF Init, Promise!Init
<1>2. (L2Inv /\ DirInv) /\ (L2Inv /\ DirInv)' /\ [Next]_vars => [Promise!Next]_<<Stored, reply>>
  <2>1. ASSUME L2Inv, DirInv, L2Inv', Next PROVE Promise!Next
    BY <2>1, StepKeepsPromise DEF Next, Step
  <2>2. ASSUME UNCHANGED vars PROVE UNCHANGED <<Stored, reply>>
    BY <2>2 DEF vars, Stored, Pending
  <2> QED
    BY <2>1, <2>2
<1> QED
  BY <1>1, <1>2, AlwaysDirInv, PTL DEF Spec, ImplementsPromise, Promise!Spec


-----------------------------------------------------------------------------
(* One process writes: the owner of the directory, as long as the writer gets *)
(* to its end within the join of shutdown()                                   *)

OwnerInv ==
  /\ \A p, q \in Proc : proc[p].owner /\ proc[q].owner => p = q
  /\ \A p \in Proc : ~proc[p].owner => Ended(p)

LEMMA OwnerInit == Init => OwnerInv
<1> SUFFICES ASSUME Init PROVE OwnerInv
  OBVIOUS
<1>1. \A p \in Proc : proc[p] = Down /\ writer[p] = Asleep
  BY DEF Init
<1>2. Down.owner = FALSE /\ Asleep.pc = "none"
  BY DEF Down, Asleep
<1> QED
  BY <1>1, <1>2 DEF OwnerInv, Ended

LEMMA OwnerStep ==
  ASSUME SlowJoin = FALSE, L2Inv, DirInv, OwnerInv, NEW p \in Proc, Step(p)
  PROVE  OwnerInv'
<1>1. \A q \in Proc \ {p} : proc'[q] = proc[q] /\ writer'[q] = writer[q]
  BY StepOthers
<1>2. CASE Open(p)
  <2>1. /\ proc'[p].owner = (\A q \in Proc : ~proc[q].owner)
        /\ proc'[p].owner \/ writer'[p].pc = "none"
    BY <1>2, OpenDoes
  <2> QED
    BY <1>1, <2>1 DEF OwnerInv, Ended
<1>3. CASE Crash(p)
  <2>1. proc'[p].owner = FALSE /\ writer'[p].pc = "none"
    BY <1>3, OpenDoes
  <2> QED
    BY <1>1, <2>1 DEF OwnerInv, Ended
<1>4. CASE WriterStep(p)
  <2>1. proc'[p].owner = proc[p].owner /\ ~Ended(p)
    BY <1>4, WriterDoes
  <2> QED
    BY <1>1, <2>1 DEF OwnerInv, Ended
<1>5. CASE \E s \in Snapshot : Insert(p, s)
  <2>1. proc'[p].owner = proc[p].owner /\ writer' = writer
    BY <1>5, InsertDoes
  <2> QED
    BY <1>1, <2>1 DEF OwnerInv, Ended
<1>6. CASE Clear(p)
  <2>1. proc'[p].owner = proc[p].owner /\ writer'[p].pc = writer[p].pc
    BY <1>6, ClearDoes
  <2> QED
    BY <1>1, <2>1 DEF OwnerInv, Ended
<1>7. CASE \/ BeginRequest(p) \/ EndRequest(p)
           \/ \E r \in Request : Lookup(p, r, 0)
           \/ Load(p) \/ Recount(p) \/ Shutdown(p) \/ Joined(p)
  <2>1. /\ writer'[p].pc = writer[p].pc
        /\ proc'[p].owner = proc[p].owner \/ (proc'[p].owner = FALSE /\ Ended(p))
    BY <1>7, CallDoes
  <2> QED
    BY <1>1, <2>1 DEF OwnerInv, Ended
<1> QED
  BY <1>2, <1>3, <1>4, <1>5, <1>6, <1>7 DEF Step

\* The jobs of the owner that are still of its epoch were queued after the
\* last clear that would have undone them.
WipedInv ==
  /\ ToSet(disk) \cap wiped = {}
  /\ \A p \in Proc : proc[p].owner =>
       \A j \in Jobs(p) : /\ j.epoch <= proc[p].epoch
                          /\ j.epoch = proc[p].epoch => j.snap \notin wiped

LEMMA WipedInit == Init => WipedInv
<1> SUFFICES ASSUME Init PROVE WipedInv
  OBVIOUS
<1>1. \A p \in Proc : proc[p] = Down
  BY DEF Init
<1>2. Down.owner = FALSE
  BY DEF Down
<1> QED
  BY <1>1, <1>2 DEF WipedInv, Init

LEMMA WipedStep ==
  ASSUME L2Inv, DirInv, OwnerInv, WipedInv, NEW p \in Proc, Step(p)
  PROVE  WipedInv'
<1>1. \A q \in Proc \ {p} : proc'[q] = proc[q] /\ Jobs(q)' = Jobs(q)
  BY StepOthers
<1>2. ASSUME NoNewJob(p), proc'[p].owner => proc[p].owner, ToSet(disk') \cap wiped = {}
      PROVE  WipedInv'
  BY <1>1, <1>2 DEF WipedInv, NoNewJob
<1>3. CASE Open(p) \/ Crash(p)
  BY <1>1, <1>3, OpenDoes DEF WipedInv, SameFiles
<1>4. CASE WriterStep(p)
  <2>1. NoNewJob(p) /\ ~Ended(p) /\ proc'[p].owner = proc[p].owner
    BY <1>4, WriterDoes
  <2>2. CASE Files(p)
    <3>1. proc[p].owner
      BY <2>1 DEF OwnerInv
    <3>2. writer[p].job.snap \notin wiped
      BY <2>2, <3>1 DEF Files, WipedInv
    <3>3. ToSet(disk') \cap wiped = {}
      BY <2>2, <3>2 DEF Files, WipedInv
    <3> QED
      BY <1>2, <2>1, <3>3
  <2>3. CASE ~Files(p)
    <3>1. ToSet(disk') \subseteq ToSet(disk)
      BY <1>4, <2>3, WriterDoes DEF SameFiles
    <3> QED
      BY <1>2, <2>1, <3>1 DEF WipedInv
  <2> QED
    BY <2>2, <2>3
<1>5. ASSUME NEW s \in Snapshot, Insert(p, s) PROVE WipedInv'
  <2>1. CASE NoNewJob(p)
    BY <1>2, <1>5, <2>1, InsertDoes DEF SameFiles, WipedInv
  <2>2. CASE ~NoNewJob(p)
    <3> DEFINE job == [snap |-> s, epoch |-> proc[p].epoch]
    <3>1. /\ proc[p].owner /\ wiped' = wiped \ {s} /\ ToSet(disk') = ToSet(disk)
          /\ Jobs(p)' = Jobs(p) \cup {job} /\ proc'[p].epoch = proc[p].epoch
      BY <1>5, <2>2, InsertDoes DEF SameFiles
    <3>2. job.snap = s /\ job.epoch = proc[p].epoch /\ proc[p].epoch \in Nat
      BY DEF L2Inv, PInv, Shape
    <3> HIDE DEF job
    <3>3. \A j \in Jobs(p)' : /\ j.epoch <= proc'[p].epoch
                              /\ j.epoch = proc'[p].epoch => j.snap \notin wiped'
      BY <3>1, <3>2 DEF WipedInv
    <3>4. \A q \in Proc \ {p} : ~proc[q].owner
      BY <3>1 DEF OwnerInv
    <3> QED
      BY <1>1, <3>1, <3>3, <3>4 DEF WipedInv
  <2> QED
    BY <2>1, <2>2
<1>6. CASE Clear(p)
  <2>1. PICK kept : /\ ToSet(disk') = ToSet(disk) \cap kept
                    /\ wiped' = wiped \cup (Pending(p) \ kept)
    BY <1>6, ClearDoes
  <2>2. proc[p].owner /\ Jobs(p)' = Jobs(p) /\ proc'[p].epoch = proc[p].epoch + 1
    BY <1>6, ClearDoes
  <2>3. \A q \in Proc \ {p} : ~proc[q].owner
    BY <2>2 DEF OwnerInv
  <2>4. Jobs(p) \subseteq Job /\ proc[p].epoch \in Nat
    BY PendingJobs DEF JobsWait, L2Inv, PInv, Shape
  <2>5. \A j \in Jobs(p)' : j.epoch <= proc'[p].epoch /\ j.epoch # proc'[p].epoch
    <3> SUFFICES ASSUME NEW j \in Jobs(p)
                 PROVE  j.epoch <= proc[p].epoch + 1 /\ j.epoch # proc[p].epoch + 1
      BY <2>2
    <3>1. j.epoch \in Nat /\ j.epoch <= proc[p].epoch
      BY <2>2, <2>4 DEF WipedInv, Job
    <3> QED
      BY <2>4, <3>1
  <2> QED
    BY <1>1, <2>1, <2>3, <2>5 DEF WipedInv
<1>7. CASE \/ BeginRequest(p) \/ EndRequest(p)
           \/ \E r \in Request : Lookup(p, r, 0)
           \/ Load(p) \/ Recount(p) \/ Shutdown(p) \/ Joined(p)
  <2>1. NoNewJob(p) /\ ToSet(disk') \subseteq ToSet(disk)
    BY <1>7, CallDoes DEF SameFiles
  <2>2. proc'[p].owner => proc[p].owner
    BY <1>7, CallDoes
  <2> QED
    BY <1>2, <2>1, <2>2 DEF WipedInv
<1> QED
  BY <1>3, <1>4, <1>5, <1>6, <1>7 DEF Step

\* Clearing is final: a snapshot that was queued or half written when clear()
\* ran reaches the directory only if it is offered again, provided no writer
\* outlasts the join of shutdown() (SlowJoin).
THEOREM ClearIsFinal == SlowJoin = FALSE /\ Spec => []ClearedStaysCleared
<1>1. ASSUME SlowJoin = FALSE, L2Inv, DirInv, OwnerInv, WipedInv, [Next]_vars
      PROVE  OwnerInv' /\ WipedInv'
  <2>1. CASE Next
    BY <1>1, <2>1, OwnerStep, WipedStep DEF Next, Step
  <2>2. CASE UNCHANGED vars
    BY <1>1, <2>2 DEF vars, OwnerInv, Ended, WipedInv, Jobs
  <2> QED
    BY <1>1, <2>1, <2>2
<1>2. WipedInv => ClearedStaysCleared
  BY DEF WipedInv, ClearedStaysCleared
<1>3. ASSUME SlowJoin = FALSE PROVE Spec => []ClearedStaysCleared
  <2>1. L2Inv /\ DirInv /\ OwnerInv /\ WipedInv /\ [Next]_vars => OwnerInv' /\ WipedInv'
    BY <1>1, <1>3
  <2> QED
    BY <1>2, <2>1, AlwaysDirInv, OwnerInit, WipedInit, PTL DEF Spec
<1> QED
  BY <1>3


-----------------------------------------------------------------------------
(* The byte count, as long as nothing is removed behind the writer's back:    *)
(* no clear (MaxEpoch = 0) and no file that does not load (Rotten = {})       *)

\* What the owner's writer knows of the directory, wherever it stands.
Tracks(p) ==
  proc[p].owner =>
    /\ writer[p].pc # "subtract" => proc[p].tracked = Bytes(disk)
    /\ writer[p].pc = "subtract" =>
         /\ Head(writer[p].walk) \notin ToSet(disk)
         /\ ToSet(disk) \subseteq ToSet(Tail(writer[p].walk))
         /\ proc[p].tracked = Bytes(disk) + Head(writer[p].walk).size
    /\ writer[p].pc = "observed" => writer[p].seen = Bytes(disk)
    /\ writer[p].pc \in {"observed", "sweep"} => ToSet(disk) \subseteq ToSet(writer[p].walk)
    /\ writer[p].pc = "replace" => writer[p].job.snap \notin ToSet(disk)

Undisturbed == SlowJoin = FALSE /\ MaxEpoch = 0 /\ Rotten = {}

TrackInv == \A p \in Proc : client[p].pc # "recount" /\ Tracks(p)

LEMMA SameBytes == SameFiles => Bytes(disk') = Bytes(disk)
  BY DEF SameFiles, Bytes

\* A step that does not concern the writer of q.
LEMMA TracksStays ==
  ASSUME NEW q \in Proc, Tracks(q), SameFiles, proc'[q].owner => proc[q].owner,
         proc'[q].tracked = proc[q].tracked, writer'[q].pc = writer[q].pc,
         writer'[q].walk = writer[q].walk, writer'[q].seen = writer[q].seen,
         writer'[q].job = writer[q].job
  PROVE  Tracks(q)'
<1>1. ToSet(disk') = ToSet(disk) /\ Bytes(disk') = Bytes(disk)
  BY SameBytes DEF SameFiles
<1> QED
  BY <1>1 DEF Tracks

\* A step of the writer between jobs, or to a place where it knows no more than
\* the byte count.
LEMMA TracksPlainly ==
  ASSUME NEW p \in Proc, Tracks(p), SameFiles, proc'[p].owner = proc[p].owner,
         proc'[p].tracked = proc[p].tracked, writer[p].pc # "subtract",
         writer'[p].pc \in {"get", "gate", "check", "save", "saving", "payload", "evict",
                            "walk", "exited", "dead"}
  PROVE  Tracks(p)'
<1>1. Bytes(disk') = Bytes(disk)
  BY SameBytes
<1> QED
  BY <1>1 DEF Tracks

LEMMA EndJobTracks ==
  ASSUME NEW p \in Proc, NEW pc \in {"get", "dead"}, EndJob(p, pc), L2Inv, DirInv,
         Tracks(p), SameFiles, writer[p].pc # "subtract"
  PROVE  Tracks(p)'
<1>1. p \in DOMAIN proc /\ p \in DOMAIN writer /\ Fields(p)
  BY DEF L2Inv, DirInv
<1>2. writer'[p].pc = pc
  BY <1>1 DEF EndJob, Asleep
<1>3. proc'[p].owner = proc[p].owner /\ proc'[p].tracked = proc[p].tracked
  BY <1>1 DEF EndJob, Fields
<1> QED
  BY <1>2, <1>3, TracksPlainly

LEMMA WriterTracks ==
  ASSUME L2Inv, DirInv, NEW p \in Proc, proc[p].owner, Tracks(p), WriterStep(p)
  PROVE  Tracks(p)'
<1> USE DEF At, Goto
<1>1. /\ p \in DOMAIN proc /\ p \in DOMAIN writer /\ Fields(p) /\ Walking(p) /\ Working(p)
      /\ disk \in Seq(Snapshot)
  BY DEF L2Inv, PInv, DirInv
<1>2. disk' = disk => SameFiles
  BY <1>1 DEF SameFiles
<1>3. CASE Get(p)
  <2>1. /\ proc'[p].owner = proc[p].owner /\ proc'[p].tracked = proc[p].tracked
        /\ writer'[p].pc \in {"gate", "exited"}
    <3>1. CASE Goto(p, "exited") /\ UNCHANGED proc
      BY <1>1, <3>1 DEF Fields
    <3>2. CASE /\ writer' = [writer EXCEPT ![p].pc = "gate", ![p].job = Head(proc[p].queue)]
               /\ proc' = [proc EXCEPT ![p].queue = Tail(@)]
      BY <1>1, <3>2 DEF Fields
    <3> QED
      BY <1>3, <3>1, <3>2 DEF Get
  <2> QED
    BY <1>2, <1>3, <2>1, TracksPlainly DEF Get
<1>4. CASE PassGate(p) \/ StartSave(p)
  <2>1. /\ proc' = proc /\ writer'[p].pc \in {"check", "payload", "saving"}
    BY <1>1, <1>4 DEF PassGate, StartSave, Fields
  <2> QED
    BY <1>2, <1>4, <2>1, TracksPlainly DEF PassGate, StartSave
<1>5. CASE CheckEpoch(p)
  <2>1. CASE EndJob(p, "get")
    BY <1>2, <1>5, <2>1, EndJobTracks DEF CheckEpoch
  <2>2. CASE Goto(p, "save") /\ UNCHANGED proc
    <3>1. writer'[p].pc = "save"
      BY <1>1, <2>2 DEF Fields
    <3> QED
      BY <1>2, <1>5, <2>2, <3>1, TracksPlainly DEF CheckEpoch
  <2> QED
    BY <1>5, <2>1, <2>2 DEF CheckEpoch
<1>6. CASE FinishSave(p)
  <2>1. CASE EndJob(p, "get") \/ EndJob(p, "dead")
    BY <1>2, <1>6, <2>1, EndJobTracks DEF FinishSave
  <2>2. CASE Goto(p, "payload") /\ UNCHANGED proc
    <3>1. writer'[p].pc = "payload"
      BY <1>1, <2>2 DEF Fields
    <3> QED
      BY <1>2, <1>6, <2>2, <3>1, TracksPlainly DEF FinishSave
  <2> QED
    BY <1>6, <2>1, <2>2 DEF FinishSave
<1>7. CASE CheckPayload(p)
  <2>1. CASE EndJob(p, "get")
    BY <1>2, <1>7, <2>1, EndJobTracks DEF CheckPayload
  <2>2. CASE ~OnDisk(writer[p].job.snap) /\ Goto(p, "replace") /\ UNCHANGED proc
    <3>1. writer'[p].pc = "replace" /\ writer'[p].job = writer[p].job
      BY <1>1, <2>2 DEF Fields
    <3>2. disk' = disk /\ proc' = proc /\ writer[p].pc = "payload"
      BY <1>7, <2>2 DEF CheckPayload
    <3> QED
      BY <2>2, <3>1, <3>2 DEF Tracks, OnDisk
  <2> QED
    BY <1>7, <2>1, <2>2 DEF CheckPayload
<1>8. CASE Replace(p)
  <2>1. CASE EndJob(p, "get") /\ UNCHANGED disk
    BY <1>2, <1>8, <2>1, EndJobTracks DEF Replace
  <2>2. CASE /\ disk' = Append(disk, writer[p].job.snap)
             /\ proc' = [proc EXCEPT ![p].tracked = @ + writer[p].job.snap.size]
             /\ writer' = [writer EXCEPT ![p].pc = "evict", ![p].tmp = FALSE]
    <3> DEFINE s == writer[p].job.snap
    <3>1. s \in Snapshot /\ s \notin ToSet(disk) /\ proc[p].tracked = Bytes(disk)
      BY <1>1, <1>8 DEF Replace, Working, Idle, Job, Tracks
    <3>2. /\ proc'[p].tracked = proc[p].tracked + s.size
          /\ writer'[p].pc = "evict"
      BY <1>1, <2>2 DEF Fields
    <3> HIDE DEF s
    <3>3. disk' \in Seq(Snapshot) /\ ToSet(disk') = ToSet(disk) \cup {s}
      BY <1>1, <2>2, <3>1, ElementsOfAppend DEF s
    <3>4. Bytes(disk') = Bytes(disk) + s.size
      BY <1>1, <3>1, <3>3, BytesOfFile
    <3> QED
      BY <3>1, <3>2, <3>4 DEF Tracks
  <2> QED
    BY <1>8, <2>1, <2>2 DEF Replace
<1>9. CASE StartEvict(p)
  <2>1. CASE EndJob(p, "get")
    BY <1>2, <1>9, <2>1, EndJobTracks DEF StartEvict
  <2>2. CASE Goto(p, "walk") /\ UNCHANGED proc
    <3>1. writer'[p].pc = "walk"
      BY <1>1, <2>2 DEF Fields
    <3> QED
      BY <1>2, <1>9, <2>2, <3>1, TracksPlainly DEF StartEvict
  <2> QED
    BY <1>9, <2>1, <2>2 DEF StartEvict
<1>10. CASE Walk(p)
  <2>1. /\ writer'[p].pc = "observed" /\ writer'[p].walk = disk /\ writer'[p].seen = Bytes(disk)
        /\ disk' = disk /\ proc' = proc /\ writer[p].pc = "walk"
    BY <1>1, <1>10 DEF Walk, Fields
  <2> QED
    BY <2>1 DEF Tracks
<1>11. CASE Observe(p)
  <2>1. /\ writer'[p].pc = "sweep" /\ writer'[p].walk = writer[p].walk
        /\ disk' = disk /\ writer[p].pc = "observed"
    BY <1>1, <1>11 DEF Observe, Fields
  <2>2. proc'[p].tracked = writer[p].seen
    BY <1>1, <1>11 DEF Observe, Fields
  <2> QED
    BY <2>1, <2>2 DEF Tracks
<1>12. CASE Sweep(p)
  <2>1. CASE EndJob(p, "get") /\ UNCHANGED disk
    BY <1>2, <1>12, <2>1, EndJobTracks DEF Sweep
  <2>2. CASE ~(EndJob(p, "get") /\ UNCHANGED disk)
    <3> DEFINE s == Head(writer[p].walk)
               rest == Tail(writer[p].walk)
    <3>1. /\ writer[p].walk # << >> /\ proc' = proc /\ writer[p].pc = "sweep"
          /\ IF OnDisk(s)
             THEN /\ disk' = Unlink(disk, s)
                  /\ Goto(p, "subtract")
             ELSE /\ writer' = [writer EXCEPT ![p].walk = Tail(@)]
                  /\ UNCHANGED disk
      BY <1>12, <2>2 DEF Sweep
    <3>2. s \in Snapshot /\ ToSet(writer[p].walk) = {s} \cup ToSet(rest)
      BY <1>1, <3>1, ElementsOfTail DEF Walking
    <3>3. ToSet(disk) \subseteq ToSet(writer[p].walk) /\ proc[p].tracked = Bytes(disk)
      BY <3>1 DEF Tracks
    <3>4. CASE OnDisk(s)
      <4>1. writer'[p].pc = "subtract" /\ writer'[p].walk = writer[p].walk
        BY <1>1, <3>1, <3>4 DEF Fields
      <4> HIDE DEF s, rest
      <4>2. disk' \in Seq(Snapshot) /\ ToSet(disk') = ToSet(disk) \ {s}
        BY <1>1, <3>1, <3>4, UnlinkedFiles
      <4>3. Bytes(disk) = Bytes(disk') + s.size
        <5>1. s \notin ToSet(disk') /\ ToSet(disk) = ToSet(disk') \cup {s}
          BY <3>4, <4>2 DEF OnDisk
        <5> QED
          BY <1>1, <3>2, <4>2, <5>1, BytesOfFile
      <4>4. ToSet(disk') \subseteq ToSet(rest) /\ s \notin ToSet(disk')
        BY <3>2, <3>3, <4>2
      <4>5. proc'[p].tracked = Bytes(disk') + s.size
        BY <3>1, <3>3, <4>3
      <4> QED
        BY <4>1, <4>4, <4>5 DEF Tracks, s, rest
    <3>5. CASE ~OnDisk(s)
      <4>1. writer'[p].pc = "sweep" /\ writer'[p].walk = rest
        BY <1>1, <3>1, <3>5 DEF Fields
      <4>2. disk' = disk
        BY <3>1, <3>5
      <4> HIDE DEF s, rest
      <4>3. ToSet(disk) \subseteq ToSet(rest)
        BY <3>2, <3>3, <3>5 DEF OnDisk
      <4> QED
        BY <3>1, <3>3, <4>1, <4>2, <4>3 DEF Tracks
    <3> QED
      BY <3>4, <3>5
  <2> QED
    BY <2>1, <2>2
<1>13. CASE Subtract(p)
  <2> DEFINE s == Head(writer[p].walk)
             left == proc[p].tracked - s.size
  <2>1. /\ writer[p].pc = "subtract" /\ disk' = disk
        /\ writer[p].walk # << >>
    BY <1>1, <1>13 DEF Subtract, Walking
  <2>2. /\ proc'[p].tracked = (IF left > 0 THEN left ELSE 0)
        /\ writer'[p].pc = "sweep" /\ writer'[p].walk = Tail(writer[p].walk)
    BY <1>1, <1>13 DEF Subtract, Fields
  <2>3. s \in Snapshot
    BY <1>1, <2>1, ElementsOfTail DEF Walking
  <2>4. s.size \in Nat /\ Bytes(disk) \in Nat
    BY <1>1, <2>3, L2Assumption, BytesOfFiles DEF IsSnapshot
  <2>5. proc[p].tracked = Bytes(disk) + s.size
    BY <2>1 DEF Tracks
  <2>6. ToSet(disk) \subseteq ToSet(Tail(writer[p].walk))
    BY <2>1 DEF Tracks
  <2> HIDE DEF s
  <2>7. left = Bytes(disk) /\ (IF left > 0 THEN left ELSE 0) = Bytes(disk)
    BY <2>4, <2>5
  <2> QED
    BY <2>1, <2>2, <2>6, <2>7 DEF Tracks
<1> QED
  BY <1>3, <1>4, <1>5, <1>6, <1>7, <1>8, <1>9, <1>10, <1>11, <1>12, <1>13 DEF WriterStep


\* The rest of the world does not disturb the count.
LEMMA CallTracks ==
  ASSUME Undisturbed, L2Inv, DirInv, TrackInv, NEW p \in Proc, Step(p), ~WriterStep(p)
  PROVE  SameFiles /\ Tracks(p)' /\ client'[p].pc # "recount"
<1>1. /\ p \in DOMAIN proc /\ p \in DOMAIN writer /\ p \in DOMAIN client
      /\ Fields(p) /\ Tracks(p) /\ client[p].pc # "recount"
  BY DEF L2Inv, DirInv, TrackInv
<1>2. ~Clear(p)
  <2>1. proc[p].epoch \in Nat
    BY DEF L2Inv, PInv, Shape
  <2> QED
    BY <2>1 DEF Undisturbed, Clear
<1>3. ~Recount(p)
  BY <1>1 DEF Recount
<1>4. client'[p].pc # "recount"
  <2>1. CASE client' = client
    BY <1>1, <2>1
  <2>2. CASE Crash(p)
    BY <1>1, <2>2 DEF Crash, Quiet
  <2>3. CASE \E r \in Request : Lookup(p, r, 0)
    BY <1>1, <2>3 DEF Lookup
  <2>4. CASE Load(p)
    <3>1. \/ client' = [client EXCEPT ![p] = Quiet]
          \/ \E C : client' = [client EXCEPT ![p].cands = C]
      BY <2>4 DEF Load, Undisturbed
    <3> QED
      BY <1>1, <3>1 DEF Fields, Quiet
  <2>5. CASE Shutdown(p) \/ Joined(p)
    BY <1>1, <2>5 DEF Shutdown, Joined, Fields
  <2> QED
    BY <1>2, <1>3, <2>1, <2>2, <2>3, <2>4, <2>5
       DEF Step, Open, BeginRequest, EndRequest, Insert
<1>5. CASE Open(p)
  <2>1. SameFiles /\ proc'[p].tracked = Bytes(disk) /\ writer'[p].pc \in {"none", "get"}
    BY <1>5, OpenDoes
  <2>2. Tracks(p)'
    BY <2>1, SameBytes DEF Tracks
  <2> QED
    BY <1>4, <2>1, <2>2
<1>6. CASE Crash(p)
  <2>1. SameFiles /\ proc'[p].owner = FALSE
    BY <1>6, OpenDoes
  <2>2. Tracks(p)'
    BY <2>1 DEF Tracks
  <2> QED
    BY <1>4, <2>1, <2>2
<1>7. CASE \/ BeginRequest(p) \/ EndRequest(p)
           \/ \E s \in Snapshot : Insert(p, s)
           \/ \E r \in Request : Lookup(p, r, 0)
           \/ Load(p) \/ Shutdown(p) \/ Joined(p)
  <2>1. SameFiles /\ (proc'[p].owner => proc[p].owner)
    BY <1>7, CallDoes, InsertDoes DEF Undisturbed
  <2>2. proc'[p].tracked = proc[p].tracked
    <3>1. CASE UNCHANGED proc
      BY <3>1
    <3>2. CASE BeginRequest(p)
      BY <1>1, <3>2 DEF BeginRequest, Fields
    <3>3. CASE EndRequest(p)
      BY <1>1, <3>3 DEF EndRequest, Fields
    <3>4. ASSUME NEW s \in Snapshot, Insert(p, s)
          PROVE  proc'[p].tracked = proc[p].tracked
      BY <1>1, <3>4 DEF Insert, Fields
    <3>5. CASE Shutdown(p)
      BY <1>1, <3>5 DEF Shutdown, Fields
    <3>6. CASE Joined(p)
      BY <1>1, <3>6 DEF Joined, Fields
    <3> QED
      BY <1>7, <3>1, <3>2, <3>3, <3>4, <3>5, <3>6 DEF Lookup, Load
  <2>3. /\ writer'[p].pc = writer[p].pc /\ writer'[p].walk = writer[p].walk
        /\ writer'[p].seen = writer[p].seen /\ writer'[p].job = writer[p].job
    <3>1. CASE UNCHANGED writer
      BY <3>1
    <3>2. CASE OpenGate(p)
      BY <1>1, <3>2 DEF OpenGate, Fields
    <3> QED
      BY <1>7, <3>1, <3>2 DEF BeginRequest, EndRequest, Insert, Lookup, Load, Shutdown, Joined
  <2> QED
    BY <1>1, <1>4, <2>1, <2>2, <2>3, TracksStays
<1> QED
  BY <1>2, <1>3, <1>4, <1>5, <1>6, <1>7, OpenDoes DEF Step

LEMMA TrackStep ==
  ASSUME Undisturbed, L2Inv, DirInv, OwnerInv, TrackInv, NEW p \in Proc, Step(p)
  PROVE  TrackInv'
<1>1. \A q \in Proc \ {p} :
        proc'[q] = proc[q] /\ writer'[q] = writer[q] /\ client'[q] = client[q]
  BY StepOthers
<1>2. CASE WriterStep(p)
  <2>1. proc[p].owner
    BY <1>2, WriterDoes DEF OwnerInv
  <2>2. Tracks(p)'
    BY <1>2, <2>1, WriterTracks DEF TrackInv
  <2>3. UNCHANGED client
    BY <1>2 DEF WriterStep, Get, PassGate, CheckEpoch, StartSave, FinishSave, CheckPayload,
         Replace, StartEvict, Walk, Observe, Sweep, Subtract
  <2>4. \A q \in Proc \ {p} : ~proc'[q].owner
    BY <1>1, <2>1 DEF OwnerInv
  <2>5. \A q \in Proc \ {p} : Tracks(q)'
    BY <2>4 DEF Tracks
  <2> QED
    BY <2>2, <2>3, <2>5 DEF TrackInv
<1>3. CASE ~WriterStep(p)
  <2>1. SameFiles /\ Tracks(p)' /\ client'[p].pc # "recount"
    BY <1>3, CallTracks
  <2>2. \A q \in Proc \ {p} : Tracks(q)'
    BY <1>1, <2>1, TracksStays DEF TrackInv
  <2> QED
    BY <1>1, <2>1, <2>2 DEF TrackInv
<1> QED
  BY <1>2, <1>3

LEMMA TrackInit == Init => TrackInv
<1> SUFFICES ASSUME Init, NEW p \in Proc PROVE client[p].pc # "recount" /\ Tracks(p)
  BY DEF TrackInv
<1>1. proc[p] = Down /\ client[p] = Quiet
  BY DEF Init
<1>2. Down.owner = FALSE /\ Quiet.pc = "idle"
  BY DEF Down, Quiet
<1> QED
  BY <1>1, <1>2 DEF Tracks

\* All that is known of an undisturbed directory.
QuietInv == L2Inv /\ DirInv /\ OwnerInv /\ TrackInv

LEMMA QuietNext == Undisturbed /\ QuietInv /\ [Next]_vars => QuietInv'
<1> SUFFICES ASSUME Undisturbed, QuietInv, [Next]_vars PROVE QuietInv'
  OBVIOUS
<1>1. L2Inv /\ DirInv /\ OwnerInv /\ TrackInv
  BY DEF QuietInv
<1>2. L2Inv' /\ DirInv'
  BY <1>1, L2Assumption, StepInv, DirNext
<1>3. CASE Next
  <2>1. PICK p \in Proc : Step(p)
    BY <1>3 DEF Next, Step
  <2>2. OwnerInv' /\ TrackInv'
    BY <1>1, <2>1, OwnerStep, TrackStep DEF Undisturbed
  <2> QED
    BY <1>2, <2>2 DEF QuietInv
<1>4. CASE UNCHANGED vars
  <2>1. OwnerInv' /\ TrackInv'
    BY <1>1, <1>4 DEF vars, OwnerInv, Ended, TrackInv, Tracks
  <2> QED
    BY <1>2, <2>1 DEF QuietInv
<1> QED
  BY <1>3, <1>4

LEMMA AlwaysQuiet ==
  ASSUME Undisturbed
  PROVE  Spec => []QuietInv
<1>1. QuietInv /\ [Next]_vars => QuietInv'
  BY QuietNext
<1>2. Init => QuietInv
  BY InitInv, DirInit, OwnerInit, TrackInit DEF QuietInv
<1> QED
  BY <1>1, <1>2, PTL DEF Spec

\* The byte count that eviction goes by is the size of the directory, at every
\* moment but between an unlink and its account, when nothing is removed behind
\* the writer's back.
THEOREM CountIsExact == Undisturbed /\ Spec => []TrackedExact
<1>1. QuietInv => TrackedExact
  BY DEF QuietInv, TrackInv, Tracks, TrackedExact
<1>2. ASSUME Undisturbed PROVE Spec => []TrackedExact
  BY <1>1, <1>2, AlwaysQuiet, PTL
<1> QED
  BY <1>2


\* Eviction does what the budget asks and no more: when the writer is done with
\* a write the directory is within max_bytes, and a file is only unlinked while
\* the directory is over it.
THEOREM EvictionIsExact == Undisturbed /\ Spec => EvictsToBudget
<1>1. ASSUME QuietInv, Next, NEW p \in Proc, MaxBytes > 0, proc[p].owner,
             writer[p].pc \in {"evict", "sweep"}, writer'[p].pc = "get"
      PROVE  Bytes(disk) <= MaxBytes
  <2>1. PICK q \in Proc : Step(q)
    BY <1>1 DEF Next, Step
  <2>2. L2Inv /\ DirInv /\ Tracks(p) /\ Fields(p) /\ Working(p) /\ disk \in Seq(Snapshot)
        /\ p \in DOMAIN writer
    BY <1>1 DEF QuietInv, TrackInv, DirInv, L2Inv, PInv
  <2>3. q = p
    BY <1>1, <2>1, <2>2, StepOthers
  <2>4. WriterStep(p)
    <3>1. ~Open(p)
      BY <1>1, <2>2 DEF Open, Working
    <3>2. Crash(p) => writer'[p].pc = "none"
      BY <2>2, OpenDoes
    <3>3. (\E s \in Snapshot : Insert(p, s)) => writer' = writer
      BY DEF Insert
    <3>4. Clear(p) => writer'[p].pc = writer[p].pc
      BY <2>2, ClearDoes
    <3>5. \/ BeginRequest(p) \/ EndRequest(p)
          \/ \E r \in Request : Lookup(p, r, 0)
          \/ Load(p) \/ Recount(p) \/ Shutdown(p) \/ Joined(p)
          => writer'[p].pc = writer[p].pc
      BY <2>2, CallDoes
    <3> QED
      BY <1>1, <2>1, <2>3, <3>1, <3>2, <3>3, <3>4, <3>5 DEF Step
  <2>5. proc[p].tracked = Bytes(disk) /\ Bytes(disk) \in Nat
    BY <1>1, <2>2, BytesOfFiles DEF Tracks
  <2>6. CASE writer[p].pc = "evict"
    <3>1. StartEvict(p)
      BY <2>4, <2>6 DEF WriterStep, At, Get, PassGate, CheckEpoch, StartSave, FinishSave,
         CheckPayload, Replace, Walk, Observe, Sweep, Subtract
    <3>2. ~(proc[p].tracked > MaxBytes)
      BY <1>1, <2>2, <3>1 DEF StartEvict, Goto, Fields
    <3> QED
      BY <2>5, <3>2, L2Assumption DEF L2Assumption
  <2>7. CASE writer[p].pc = "sweep"
    <3>1. Sweep(p)
      BY <2>4, <2>7 DEF WriterStep, At, Get, PassGate, CheckEpoch, StartSave, FinishSave,
         CheckPayload, Replace, StartEvict, Walk, Observe, Subtract
    <3>2. writer[p].walk = << >> \/ proc[p].tracked <= MaxBytes
      BY <1>1, <2>2, <2>7, <3>1 DEF Sweep, Goto, Fields
    <3>3. CASE writer[p].walk = << >>
      <4>1. ToSet(disk) = {}
        BY <1>1, <2>2, <2>7, <3>3 DEF Tracks, ToSet
      <4>2. Bytes(disk) = 0
        BY <2>2, <4>1, BytesOfFiles
      <4> QED
        BY <4>2, L2Assumption
    <3> QED
      BY <2>5, <3>2, <3>3
  <2> QED
    BY <1>1, <2>6, <2>7
<1>2. ASSUME QuietInv, NEW p \in Proc, Sweep(p), disk' # disk
      PROVE  Bytes(disk) > MaxBytes
  <2>1. writer[p].pc = "sweep" /\ proc[p].tracked > MaxBytes
    BY <1>2 DEF Sweep, At
  <2>2. proc[p].owner /\ Tracks(p)
    BY <1>2, <2>1 DEF QuietInv, OwnerInv, Ended, TrackInv
  <2> QED
    BY <2>1, <2>2 DEF Tracks
<1>3. QuietInv /\ [Next]_vars =>
        [\A p \in Proc :
           /\ /\ MaxBytes > 0 /\ proc[p].owner /\ writer[p].pc \in {"evict", "sweep"}
              /\ writer'[p].pc = "get"
              => Bytes(disk) <= MaxBytes
           /\ Sweep(p) /\ disk' # disk => Bytes(disk) > MaxBytes]_vars
  BY <1>1, <1>2
<1>4. ASSUME Undisturbed PROVE Spec => EvictsToBudget
  BY <1>3, <1>4, AlwaysQuiet, PTL DEF Spec, EvictsToBudget
<1> QED
  BY <1>4

\* Only the process that holds the directory lock adds or removes files, as
\* long as no writer outlasts the join of shutdown() (SlowJoin).
THEOREM OwnerAlone == SlowJoin = FALSE /\ Spec => OnlyOwnerChangesFiles
<1>1. ASSUME L2Inv, DirInv, OwnerInv, NEW p \in Proc, Step(p), ToSet(disk') # ToSet(disk)
      PROVE  proc[p].owner
  <2>1. ~SameFiles
    BY <1>1 DEF SameFiles
  <2>2. ASSUME WriterStep(p) PROVE proc[p].owner
    BY <1>1, <2>2, WriterDoes DEF OwnerInv
  <2>3. ASSUME \/ BeginRequest(p) \/ EndRequest(p)
               \/ \E r \in Request : Lookup(p, r, 0)
               \/ Load(p) \/ Recount(p) \/ Shutdown(p) \/ Joined(p)
        PROVE  proc[p].owner
    BY <1>1, <2>1, <2>3, CallDoes
  <2>4. ~(Open(p) \/ Crash(p))
    BY <1>1, <2>1, OpenDoes
  <2>5. ASSUME NEW s \in Snapshot, Insert(p, s) PROVE FALSE
    BY <1>1, <2>1, <2>5, InsertDoes
  <2>6. ASSUME Clear(p) PROVE proc[p].owner
    BY <1>1, <2>6, ClearDoes
  <2> QED
    BY <1>1, <2>2, <2>3, <2>4, <2>5, <2>6 DEF Step
<1>2. ASSUME L2Inv, DirInv, OwnerInv, Next, ToSet(disk') # ToSet(disk)
      PROVE  \E p \in Proc : /\ proc[p].owner
                             /\ \A q \in Proc \ {p} :
                                  proc'[q] = proc[q] /\ writer'[q] = writer[q] /\ client'[q] = client[q]
  <2>1. PICK p \in Proc : Step(p)
    BY <1>2 DEF Next, Step
  <2>2. proc[p].owner
    BY <1>1, <1>2, <2>1
  <2> QED
    BY <1>2, <2>1, <2>2, StepOthers
<1>3. L2Inv /\ DirInv /\ OwnerInv /\ [Next]_vars =>
        [ToSet(disk') # ToSet(disk) =>
           \E p \in Proc : /\ proc[p].owner
                           /\ \A q \in Proc \ {p} :
                                proc'[q] = proc[q] /\ writer'[q] = writer[q] /\ client'[q] = client[q]]_vars
  BY <1>2
<1>4. ASSUME SlowJoin = FALSE, L2Inv, DirInv, OwnerInv, [Next]_vars
      PROVE  OwnerInv'
  <2>1. CASE Next
    BY <1>4, <2>1, OwnerStep DEF Next, Step
  <2>2. CASE UNCHANGED vars
    BY <1>4, <2>2 DEF vars, OwnerInv, Ended
  <2> QED
    BY <1>4, <2>1, <2>2
<1>5. ASSUME SlowJoin = FALSE PROVE Spec => OnlyOwnerChangesFiles
  <2>1. L2Inv /\ DirInv /\ OwnerInv /\ [Next]_vars => OwnerInv'
    BY <1>4, <1>5
  <2> QED
    BY <1>3, <2>1, AlwaysDirInv, OwnerInit, PTL DEF Spec, OnlyOwnerChangesFiles
<1> QED
  BY <1>5


-----------------------------------------------------------------------------
(* Where nothing takes files away - no budget, no failing save, no clear, no  *)
(* rotten file - what was stored stays stored                                 *)

Lossless ==
  MaxBytes = 0 /\ SaveErrors = {} /\ MaxEpoch = 0 /\ Rotten = {} /\ SlowJoin = FALSE

\* No job is out of date, and the writer gives none up before it is a file.
Filing(p) ==
  /\ writer[p].pc \in Idle \cup {"gate", "check", "save", "saving", "payload", "replace", "evict"}
  /\ writer[p].pc = "saving" => writer[p].tmp
  /\ writer[p].pc = "payload" => writer[p].tmp \/ writer[p].job.snap \in ToSet(disk)
  /\ writer[p].pc = "evict" => writer[p].job.snap \in ToSet(disk)

Safe(p) ==
  /\ proc[p].epoch = 0 /\ \A j \in Jobs(p) : j.epoch = 0
  /\ proc[p].up = "down" => proc[p].queue = << >>
  /\ Filing(p)

KeepsJobs(p) ==
  {j.snap : j \in Jobs(p)} \subseteq {j.snap : j \in Jobs(p)'} \cup ToSet(disk')

LEMMA SafeWriter ==
  ASSUME Lossless, L2Inv, DirInv, OwnerInv, NEW p \in Proc, Safe(p), WriterStep(p)
  PROVE  Safe(p)' /\ KeepsJobs(p) /\ ToSet(disk) \subseteq ToSet(disk')
<1> USE DEF At, Goto
<1>1. /\ p \in DOMAIN proc /\ p \in DOMAIN writer /\ Shape(p) /\ Working(p)
      /\ Fields(p) /\ disk \in Seq(Snapshot) /\ proc[p].owner
  BY WriterDoes DEF L2Inv, PInv, DirInv, OwnerInv
<1>2. writer[p].pc \notin Idle => writer[p].job \in Jobs(p) /\ Current(p)
  BY DEF Safe, Jobs, Current
<1>3. ASSUME disk' = disk, UNCHANGED proc, writer'[p].job = writer[p].job,
             writer[p].pc \notin Idle, writer'[p].pc \notin Idle, Filing(p)'
      PROVE  Safe(p)' /\ KeepsJobs(p) /\ ToSet(disk) \subseteq ToSet(disk')
  <2>1. Jobs(p)' = Jobs(p) /\ proc'[p] = proc[p]
    BY <1>3 DEF Jobs
  <2> QED
    BY <1>3, <2>1 DEF Safe, KeepsJobs
<1>4. ASSUME disk' = disk, EndJob(p, "get"), writer[p].pc \notin Idle,
             writer[p].job.snap \in ToSet(disk)
      PROVE  Safe(p)' /\ KeepsJobs(p) /\ ToSet(disk) \subseteq ToSet(disk')
  <2>1. /\ writer'[p].pc = "get"
        /\ proc'[p].queue = proc[p].queue /\ proc'[p].epoch = proc[p].epoch
        /\ proc'[p].up = proc[p].up
    BY <1>1, <1>4 DEF EndJob, Asleep, Fields
  <2>2. Jobs(p) = Jobs(p)' \cup {writer[p].job}
    BY <1>4, <2>1 DEF Jobs, Idle
  <2> QED
    BY <1>4, <2>1, <2>2 DEF Safe, Filing, KeepsJobs, Idle
<1>5. CASE Get(p)
  <2>1. disk' = disk /\ writer[p].pc = "get"
    BY <1>5 DEF Get
  <2>2. CASE proc[p].queue # << >>
    <3>1. /\ writer'[p].pc = "gate" /\ writer'[p].job = Head(proc[p].queue)
          /\ proc'[p].queue = Tail(proc[p].queue) /\ proc'[p].epoch = proc[p].epoch
          /\ proc'[p].up = proc[p].up
      <4>1. /\ writer' = [writer EXCEPT ![p].pc = "gate", ![p].job = Head(proc[p].queue)]
            /\ proc' = [proc EXCEPT ![p].queue = Tail(@)]
        BY <1>5, <2>2 DEF Get
      <4>2. writer'[p].pc = "gate" /\ writer'[p].job = Head(proc[p].queue)
        BY <1>1, <4>1 DEF Fields
      <4> QED
        BY <1>1, <4>1, <4>2 DEF Fields
    <3>2. ToSet(proc[p].queue) = {Head(proc[p].queue)} \cup ToSet(Tail(proc[p].queue))
      BY <1>1, <2>2, ElementsOfTail DEF Shape
    <3>3. Jobs(p)' = Jobs(p)
      BY <2>1, <3>1, <3>2 DEF Jobs, Idle, ToSet
    <3> QED
      BY <2>1, <2>2, <3>1, <3>3 DEF Safe, Filing, KeepsJobs
  <2>3. CASE proc[p].queue = << >>
    <3>1. writer'[p].pc = "exited" /\ proc' = proc
      BY <1>1, <1>5, <2>3 DEF Get, Fields
    <3>2. Jobs(p)' = Jobs(p)
      BY <2>1, <3>1 DEF Jobs, Idle
    <3> QED
      BY <2>1, <3>1, <3>2 DEF Safe, Filing, KeepsJobs, Idle
  <2> QED
    BY <2>2, <2>3
<1>6. CASE PassGate(p) \/ CheckEpoch(p) \/ StartSave(p) \/ FinishSave(p)
  <2>1. /\ disk' = disk /\ proc' = proc
        /\ \/ PassGate(p)
           \/ CheckEpoch(p) /\ Goto(p, "save")
           \/ StartSave(p)
           \/ FinishSave(p) /\ Goto(p, "payload")
    BY <1>2, <1>6 DEF PassGate, CheckEpoch, StartSave, FinishSave, Lossless, Idle
  <2>2. /\ writer[p].pc \in {"gate", "check", "save", "saving"}
        /\ writer'[p].job = writer[p].job
        /\ \/ writer'[p].pc \in {"check", "save"}
           \/ writer'[p].pc = "saving" /\ writer'[p].tmp
           \/ /\ writer'[p].pc = "payload"
              /\ \/ writer[p].job.snap \in ToSet(disk)
                 \/ writer[p].pc = "saving" /\ writer'[p].tmp = writer[p].tmp
    <3>1. CASE PassGate(p)
      BY <1>1, <3>1 DEF PassGate, Fields
    <3>2. CASE CheckEpoch(p) /\ Goto(p, "save")
      BY <1>1, <3>2 DEF CheckEpoch, Fields
    <3>3. CASE StartSave(p)
      <4>1. CASE OnDisk(writer[p].job.snap) /\ Goto(p, "payload")
        BY <1>1, <3>3, <4>1 DEF StartSave, OnDisk, Fields
      <4>2. CASE writer' = [writer EXCEPT ![p].pc = "saving", ![p].tmp = TRUE]
        BY <1>1, <3>3, <4>2 DEF StartSave, Fields
      <4> QED
        BY <3>3, <4>1, <4>2 DEF StartSave
    <3>4. CASE FinishSave(p) /\ Goto(p, "payload")
      BY <1>1, <3>4 DEF FinishSave, Fields
    <3> QED
      BY <2>1, <3>1, <3>2, <3>3, <3>4
  <2> QED
    BY <1>3, <2>1, <2>2 DEF Safe, Filing, Idle
<1>7. CASE CheckPayload(p)
  <2>1. disk' = disk /\ writer[p].pc = "payload"
    BY <1>7 DEF CheckPayload
  <2>2. CASE EndJob(p, "get") /\ (OnDisk(writer[p].job.snap) \/ ~writer[p].tmp)
    BY <1>4, <2>1, <2>2 DEF Safe, Filing, OnDisk, Idle
  <2>3. CASE UNCHANGED proc /\ Goto(p, "replace")
    <3>1. writer'[p].pc = "replace" /\ writer'[p].job = writer[p].job
      BY <1>1, <2>3 DEF Fields
    <3> QED
      BY <1>3, <2>1, <2>3, <3>1 DEF Filing, Idle
  <2> QED
    BY <1>1, <1>2, <1>7, <2>1, <2>2, <2>3 DEF CheckPayload, Idle
<1>8. CASE Replace(p)
  <2>1. /\ disk' = Append(disk, writer[p].job.snap) /\ writer[p].pc = "replace"
        /\ proc' = [proc EXCEPT ![p].tracked = @ + writer[p].job.snap.size]
        /\ writer' = [writer EXCEPT ![p].pc = "evict", ![p].tmp = FALSE]
    BY <1>2, <1>8 DEF Replace, Lossless, Idle
  <2>2. /\ writer'[p].pc = "evict" /\ writer'[p].job = writer[p].job
        /\ proc'[p].queue = proc[p].queue /\ proc'[p].epoch = proc[p].epoch
        /\ proc'[p].up = proc[p].up
    BY <1>1, <2>1 DEF Fields
  <2>3. ToSet(disk') = ToSet(disk) \cup {writer[p].job.snap}
    <3>1. writer[p].job.snap \in Snapshot
      BY <1>1, <2>1 DEF Working, Job, Idle
    <3> QED
      BY <1>1, <2>1, <3>1, ElementsOfAppend
  <2>4. Jobs(p)' = Jobs(p)
    BY <2>1, <2>2 DEF Jobs, Idle
  <2> QED
    BY <2>2, <2>3, <2>4 DEF Safe, Filing, KeepsJobs, Idle
<1>9. CASE StartEvict(p)
  <2>1. ~(proc[p].owner /\ MaxBytes > 0 /\ proc[p].tracked > MaxBytes)
    BY DEF Lossless
  <2>2. disk' = disk /\ writer[p].pc = "evict" /\ EndJob(p, "get")
    BY <1>9, <2>1 DEF StartEvict
  <2> QED
    BY <1>4, <2>2 DEF Safe, Filing, Idle
<1>10. CASE Walk(p) \/ Observe(p) \/ Sweep(p) \/ Subtract(p)
  BY <1>10 DEF Walk, Observe, Sweep, Subtract, Safe, Filing, Idle
<1> QED
  BY <1>5, <1>6, <1>7, <1>8, <1>9, <1>10 DEF WriterStep

\* No step but the death of its process loses a stored snapshot.
LEMMA SafeStep ==
  ASSUME Lossless, L2Inv, DirInv, OwnerInv, NEW p \in Proc, Safe(p), Step(p)
  PROVE  /\ Safe(p)' /\ ToSet(disk) \subseteq ToSet(disk')
         /\ ~Crash(p) => KeepsJobs(p)
<1>1. /\ p \in DOMAIN proc /\ p \in DOMAIN writer /\ Shape(p) /\ Working(p)
      /\ Fields(p) /\ disk \in Seq(Snapshot)
  BY DEF L2Inv, PInv, DirInv
<1>2. CASE WriterStep(p)
  BY <1>2, SafeWriter
<1>3. CASE Open(p) \/ Crash(p)
  <2>1. Jobs(p)' = {} /\ ToSet(disk') = ToSet(disk) /\ writer'[p].pc \in {"none", "get"}
    <3>1. Jobs(p)' = {} /\ SameFiles
      BY <1>3, OpenDoes
    <3>2. writer'[p].pc \in {"none", "get"}
      BY <1>3, OpenDoes
    <3> QED
      BY <3>1, <3>2 DEF SameFiles
  <2>2. proc'[p].epoch = 0 /\ proc'[p].queue = << >>
    <3>1. ASSUME NEW o, proc' = [proc EXCEPT ![p] = [Down EXCEPT !.up = "up", !.owner = o,
                                       !.slots = MaxInFlight, !.tracked = Bytes(disk)]]
          PROVE  proc'[p].epoch = 0 /\ proc'[p].queue = << >>
      BY <1>1, <3>1 DEF Down
    <3>2. CASE Open(p)
      BY <3>1, <3>2 DEF Open
    <3>3. CASE Crash(p)
      BY <1>1, <3>3 DEF Crash, Down
    <3> QED
      BY <1>3, <3>2, <3>3
  <2>3. Open(p) => Jobs(p) = {}
    BY <1>1 DEF Open, Safe, Filing, Jobs, Working, Idle
  <2> QED
    BY <1>3, <2>1, <2>2, <2>3 DEF Safe, Filing, KeepsJobs, Idle
<1>4. ~Clear(p)
  BY DEF Clear, Safe, Lossless
<1>5. CASE \/ BeginRequest(p) \/ EndRequest(p)
           \/ \E s \in Snapshot : Insert(p, s)
           \/ \E r \in Request : Lookup(p, r, 0)
           \/ Load(p) \/ Recount(p) \/ Shutdown(p) \/ Joined(p)
  <2>1. ToSet(disk') = ToSet(disk)
    BY <1>5, CallDoes, InsertDoes DEF SameFiles, Lossless
  <2>2. /\ writer'[p].pc = writer[p].pc /\ writer'[p].job = writer[p].job
        /\ writer'[p].tmp = writer[p].tmp
        /\ proc'[p].epoch = proc[p].epoch
        /\ proc'[p].up = "down" => proc[p].up = "down"
    <3>1. CASE EndRequest(p) \/ Shutdown(p)
      BY <1>1, <3>1 DEF EndRequest, Shutdown, OpenGate, Fields
    <3>2. CASE Load(p) \/ \E r \in Request : Lookup(p, r, 0)
      <4>1. proc' = proc /\ writer' = writer
        BY <3>2 DEF Load, Lookup
      <4> QED
        BY <4>1
    <3>3. CASE BeginRequest(p)
      BY <1>1, <3>3 DEF BeginRequest, Fields
    <3>4. CASE \E s \in Snapshot : Insert(p, s)
      BY <1>1, <3>4 DEF Insert, Fields
    <3>5. CASE Recount(p)
      BY <1>1, <3>5 DEF Recount, Fields
    <3>6. CASE Joined(p)
      BY <1>1, <3>6 DEF Joined, Fields
    <3> QED
      BY <1>5, <3>1, <3>2, <3>3, <3>4, <3>5, <3>6
  <2>3. \/ proc'[p].queue = proc[p].queue
        \/ \E s \in Snapshot : /\ Insert(p, s) /\ proc[p].up = "up"
                               /\ Jobs(p)' = Jobs(p) \cup {[snap |-> s, epoch |-> proc[p].epoch]}
    <3>1. CASE \E s \in Snapshot : Insert(p, s) /\ proc' # proc
      <4>1. PICK s \in Snapshot : Insert(p, s) /\ proc' # proc
        BY <3>1
      <4> DEFINE job == [snap |-> s, epoch |-> proc[p].epoch]
      <4>2. job \in Job /\ writer' = writer /\ proc[p].up = "up"
        BY <1>1, <4>1 DEF Shape, Job, Insert, Ready
      <4>3. proc'[p].queue = Append(proc[p].queue, job)
        BY <1>1, <4>1 DEF Insert, Fields
      <4> HIDE DEF job
      <4>4. ToSet(proc'[p].queue) = ToSet(proc[p].queue) \cup {job}
        BY <1>1, <4>2, <4>3, ElementsOfAppend DEF Shape
      <4>5. Jobs(p)' = Jobs(p) \cup {job}
        BY <4>2, <4>4 DEF Jobs, ToSet
      <4> QED
        BY <4>1, <4>2, <4>5 DEF job
    <3>2. CASE \/ proc' = proc
               \/ BeginRequest(p) \/ EndRequest(p) \/ Recount(p) \/ Shutdown(p) \/ Joined(p)
      BY <1>1, <3>2 DEF BeginRequest, EndRequest, Recount, Shutdown, Joined, Fields
    <3> QED
      BY <1>5, <3>1, <3>2 DEF Lookup, Load
  <2>4. proc'[p].queue = proc[p].queue => Jobs(p)' = Jobs(p)
    BY <2>2 DEF Jobs
  <2>5. KeepsJobs(p)
    BY <2>3, <2>4 DEF KeepsJobs
  <2>6. (\A j \in Jobs(p)' : j.epoch = 0) /\ (proc'[p].up = "down" => proc'[p].queue = << >>)
    BY <2>2, <2>3, <2>4 DEF Safe
  <2> QED
    BY <2>1, <2>2, <2>5, <2>6 DEF Safe, Filing
<1> QED
  BY <1>2, <1>3, <1>4, <1>5 DEF Step

LEMMA NothingIsLost ==
  ASSUME Lossless, L2Inv, DirInv, OwnerInv, NEW p \in Proc, Safe(p), Step(p), ~Crash(p), L2Inv'
  PROVE  Stored \subseteq Stored'
<1>1. JobsWait
  BY PendingJobs
<1>2. JobsWait'
  BY PendingJobs, PTL
<1>3. ToSet(disk) \subseteq ToSet(disk') /\ KeepsJobs(p)
  BY SafeStep
<1>4. ToSet(disk') \subseteq Stored' /\ \A q \in Proc : Pending(q)' \subseteq Stored'
  BY DEF Stored
<1>5. Pending(p) \subseteq Stored'
  BY <1>1, <1>2, <1>3, <1>4 DEF JobsWait, KeepsJobs
<1>6. \A q \in Proc \ {p} : Pending(q) = Pending(q)'
  BY <1>1, <1>2, StepOthers DEF JobsWait
<1> QED
  BY <1>3, <1>4, <1>5, <1>6 DEF Stored

\* An offer that is accepted is stored.
LEMMA AcceptedIsStored ==
  ASSUME L2Inv, DirInv, NEW p \in Proc, NEW s \in Snapshot, Insert(p, s), Accepts(p, s), L2Inv'
  PROVE  s \in Stored'
<1>1. /\ p \in DOMAIN proc /\ Shape(p) /\ Fields(p)
  BY DEF L2Inv, PInv, DirInv
<1>2. CASE OnDisk(s)
  BY <1>2 DEF Insert, OnDisk, Stored
<1>3. CASE ~OnDisk(s)
  <2> DEFINE job == [snap |-> s, epoch |-> proc[p].epoch]
  <2>1. proc'[p].queue = Append(proc[p].queue, job) /\ job \in Job /\ job.snap = s
    BY <1>1, <1>3 DEF Insert, Fields, Shape, Job
  <2> HIDE DEF job
  <2>2. job \in ToSet(proc'[p].queue)
    BY <1>1, <2>1, ElementsOfAppend DEF Shape
  <2>3. job \in Jobs(p)'
    BY <2>2 DEF Jobs, ToSet
  <2>4. JobsWait'
    BY PendingJobs, PTL
  <2> QED
    BY <2>1, <2>3, <2>4 DEF JobsWait, Stored
<1> QED
  BY <1>2, <1>3

=============================================================================
