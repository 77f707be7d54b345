--------------------------- MODULE TargetCachesProofs ---------------------------
(***************************************************************************)
(* Proofs about the caches and the arrays they share, for any size of      *)
(* array, ring, window, block and prompt, and any number of snapshots.     *)
(***************************************************************************)
EXTENDS TargetCaches, FiniteSetTheorems, SequenceTheorems, TLAPS

Rows == Nat \X Nat

\* What a memory of arrays is.
Memory(mem) ==
  /\ IsFiniteSet(DOMAIN mem) /\ DOMAIN mem \subseteq Nat \ {0}
  /\ \A a \in DOMAIN mem : mem[a] \in Seq(Rows)

Held(c) == Memory(c.mem) /\ (c.keys = Nowhere \/ c.keys \in DOMAIN c.mem)

\* The first n rows of array are those of t.
Begins(array, t, n) == n <= Len(array) /\ \A i \in 1 .. n : array[i] = t[i]

(* Full attention *)

KVShape(c) ==
  DOMAIN c = {"mem", "keys", "offset"} /\ Held(c)

KVReads(c, t) == c.offset = Len(t) /\ Begins(ArrayOf(c), t, Len(t))

\* An array a snapshot refers to as well is full: to write is to make another.
KVPrivate(c, kept) == c.keys \in KVReferences(kept) => c.offset = Len(ArrayOf(c))

KVKeeps(mem, kept) == \A s \in kept : s.kv \in DOMAIN mem /\ mem[s.kv] = s.text

(* Rings: an array, the offset and the index of a cache that stands for t *)

\* The rows up to the index are the last of t: all of them, or w at least.
Straight(array, offset, idx, t, w) ==
  /\ offset = Len(t) /\ idx \in Nat
  /\ idx <= Len(array) /\ idx <= Len(t)
  /\ idx = Len(t) \/ idx >= w
  /\ \A i \in 1 .. idx : array[i] = t[Len(t) - idx + i]

\* Nothing is behind them but what the next row takes the place of.
Settled(array, offset, idx) == idx = Len(array) \/ (idx = offset /\ Len(array) <= RingSize)

\* The ring is full, and the oldest row is the one behind the index.
Rotated(array, offset, idx, t) ==
  /\ offset = Len(t) /\ Len(t) >= RingSize
  /\ Len(array) = RingSize /\ idx \in 1 .. RingSize - 1
  /\ \A i \in 1 .. RingSize :
       array[i] = t[Len(t) - idx + i - (IF i > idx THEN RingSize ELSE 0)]

\* A ring that can read several rows, and one that can read a single one, too.
Legible(array, offset, idx, t) ==
  Straight(array, offset, idx, t, RingSize) \/ Rotated(array, offset, idx, t)
Ready(array, offset, idx, t) ==
  \/ Straight(array, offset, idx, t, RingSize) /\ Settled(array, offset, idx)
  \/ Rotated(array, offset, idx, t)

RingShape(c) == DOMAIN c = {"mem", "keys", "offset", "idx"} /\ Held(c)

RingReady(c, t) == Ready(ArrayOf(c), c.offset, c.idx, t)
RingLegible(c, t) == Legible(ArrayOf(c), c.offset, c.idx, t)
RingStraight(c, t, w) == Straight(ArrayOf(c), c.offset, c.idx, t, w)

RingKeeps(mem, kept) ==
  \A s \in kept : /\ s.ring.keys \in DOMAIN mem
                  /\ Ready(mem[s.ring.keys], s.ring.offset, s.ring.idx, s.text)

(* The three caches of a target *)

\* What the caches of the target have read.
HasRead == IF At("restore") THEN text \o Block(request.size, request.accepted + 1) ELSE text

KVServes(c, t, kept) ==
  KVShape(c) /\ KVReads(c, t) /\ KVPrivate(c, kept) /\ KVKeeps(c.mem, kept)

KVInv ==
  HasKV =>
    /\ KVServes(kv, HasRead, snaps)
    /\ At("restore") => kv.keys \notin KVReferences(snaps)

\* A window that is cut behind the accepted part of a block can read another
\* block, and no single token but the last of the answer.
Cut == target.window /\ request.block > 1 /\ request.pc \in {"draft", "verify", "restore", "done"}
Ending == Cut /\ (At("done") \/ (At("restore") /\ request.size = 1))

RingInv ==
  HasRing =>
    /\ RingShape(ring) /\ RingKeeps(ring.mem, snaps)
    /\ ~At("published") => ring.keys \notin RingReferences(snaps)
    /\ ~Ending =>
         IF At("restore") /\ request.size > 1
         THEN RingStraight(ring, HasRead, RingSize + request.size - 1) /\ ring.idx = Len(ArrayOf(ring))
         ELSE IF Cut THEN RingLegible(ring, HasRead) ELSE RingReady(ring, HasRead)

RecInv ==
  HasRec =>
    /\ DOMAIN rec = {"state", "conv", "armed", "saved", "tape"}
    /\ IF At("restore")
       THEN /\ rec.saved # << >> /\ RecReads(rec.saved[1].state, rec.saved[1].conv, text)
            /\ rec.tape = Block(request.size, request.accepted + 1)
            /\ request.accepted = request.size - 1 => RecReads(rec.state, rec.conv, HasRead)
       ELSE RecReads(rec.state, rec.conv, text)

SidecarInv(sidecar, t) ==
  /\ DOMAIN sidecar = {"at", "state", "conv"}
  /\ sidecar.at \in 0 .. Len(t)
  /\ sidecar.at > 0 => HasRec /\ ~HasRing /\ RecReads(sidecar.state, sidecar.conv, FirstN(t, sidecar.at))

SnapsInv ==
  /\ snaps # {} => HasKV
  /\ \A s \in snaps :
       /\ DOMAIN s = {"text", "kv", "ring", "state", "conv", "sidecar"} /\ s.text \in Seq(Rows)
       /\ DOMAIN s.ring = {"keys", "offset", "idx"}
       /\ HasRec => RecReads(s.state, s.conv, s.text)
       /\ SidecarInv(s.sidecar, s.text)

RequestInv ==
  /\ DOMAIN request = {"id", "pc", "block", "left", "size", "accepted", "sidecar"}
  /\ request.id \in Nat /\ request.pc \in {"none", "prefill", "draft", "verify", "restore", "done", "published"}
  /\ request.left \in Nat /\ request.size \in Nat
  /\ request.pc \in {"none", "prefill"} => request.block = 0 /\ request.left = 0
  /\ request.pc \in {"draft", "verify", "restore", "done", "published"} => request.block \in Blocks
  /\ At("restore") => request.size \in Sizes /\ request.accepted \in 0 .. request.size - 1
  /\ request.pc # "none" => SidecarInv(request.sidecar, text)
  /\ text \in Seq(Rows)
  /\ At("none") => text = << >>
  /\ request.pc \in {"draft", "verify", "restore"} => text # << >>
  /\ target \in Targets

(* The draft caches *)

FullShape(c) == DOMAIN c = {"mem", "keys", "length", "offset"} /\ Held(c)

FullReads(c, t) ==
  c.offset = Len(t) /\ c.length = Len(t) /\ Begins(ArrayOf(c), t, Len(t))

FullInv ==
  full.offset \in 0 .. Len(text) /\ FullShape(full) /\ FullReads(full, FirstN(text, full.offset))

\* The number of rows kept of n, and where the i-th of them comes from.
Size(n) == IF n <= Sink + Window THEN n ELSE Sink + Window
From(n, i) == IF n <= Sink + Window \/ i <= Sink THEN i ELSE n - Sink - Window + i

WindowedReads(c, t) ==
  /\ DOMAIN c = {"rows", "positions", "offset"}
  /\ c.offset = Len(t)
  /\ c.positions = [i \in 1 .. Size(Len(t)) |-> From(Len(t), i)]
  /\ c.rows = [i \in 1 .. Size(Len(t)) |-> t[From(Len(t), i)]]

WindowedInv ==
  windowed.offset = full.offset /\ WindowedReads(windowed, FirstN(text, full.offset))

\* After its first draft a request leaves no more unread than it has verified
\* since, and nothing unless it is about to end.
UnreadInv ==
  full.offset > 0 =>
    /\ ~At("none") /\ ~At("prefill")
    /\ At("draft") \/ At("verify") \/ At("restore") =>
         request.block > 1 /\ Len(text) <= full.offset + request.block
    /\ At("verify") \/ At("restore") => full.offset = Len(text) \/ request.left <= 1

TInv == RequestInv /\ SnapsInv /\ KVInv /\ RingInv /\ RecInv /\ FullInv

\* Every append of more than the prompt fits the window, or the sink is full
\* with the first of them.
Roomy == (\A b \in Blocks : b <= Window) \/ Sink <= 1

-----------------------------------------------------------------------------
(* The extremes of two numbers, and the parts of a sequence. *)

LEMMA MaxOfTwo ==
  ASSUME NEW a \in Int, NEW b \in Int
  PROVE  Max({a, b}) = IF a >= b THEN a ELSE b
BY DEF Max

LEMMA MinOfTwo ==
  ASSUME NEW a \in Int, NEW b \in Int
  PROVE  Min({a, b}) = IF a <= b THEN a ELSE b
BY DEF Min

LEMMA Elements ==
  ASSUME NEW s \in Seq(Rows)
  PROVE  Len(s) \in Nat /\ DOMAIN s = 1 .. Len(s) /\ \A i \in 1 .. Len(s) : s[i] \in Rows
BY LenProperties, ElementOfSeq

LEMMA SameRows ==
  ASSUME NEW s \in Seq(Rows), NEW t \in Seq(Rows), Len(s) = Len(t),
         \A i \in 1 .. Len(s) : s[i] = t[i]
  PROVE  s = t
BY SeqEqual

LEMMA Joined ==
  ASSUME NEW s \in Seq(Rows), NEW t \in Seq(Rows)
  PROVE  /\ s \o t \in Seq(Rows) /\ Len(s \o t) = Len(s) + Len(t)
         /\ \A i \in 1 .. Len(s) + Len(t) :
              (s \o t)[i] = IF i <= Len(s) THEN s[i] ELSE t[i - Len(s)]
BY ConcatProperties

LEMMA Slice ==
  ASSUME NEW s \in Seq(Rows), NEW m \in 1 .. Len(s) + 1, NEW n \in m - 1 .. Len(s)
  PROVE  /\ SubSeq(s, m, n) \in Seq(Rows) /\ Len(SubSeq(s, m, n)) = n - m + 1
         /\ \A i \in 1 .. n - m + 1 : SubSeq(s, m, n)[i] = s[m + i - 1]
<1>1. Len(s) \in Nat /\ \A i \in 1 .. Len(s) : s[i] \in Rows
  BY Elements
<1>2. m \in Int /\ n \in Int /\ \A i \in m .. n : s[i] \in Rows
  BY <1>1
<1> QED
  BY <1>1, <1>2, SubSeqProperties

LEMMA FirstRows ==
  ASSUME NEW s \in Seq(Rows), NEW n \in 0 .. Len(s)
  PROVE  /\ FirstN(s, n) \in Seq(Rows) /\ Len(FirstN(s, n)) = n
         /\ \A i \in 1 .. n : FirstN(s, n)[i] = s[i]
<1>1. Len(s) \in Nat
  BY Elements
<1>2. 1 \in 1 .. Len(s) + 1 /\ n \in 1 - 1 .. Len(s)
  BY <1>1
<1>3. /\ SubSeq(s, 1, n) \in Seq(Rows) /\ Len(SubSeq(s, 1, n)) = n - 1 + 1
      /\ \A i \in 1 .. n - 1 + 1 : SubSeq(s, 1, n)[i] = s[1 + i - 1]
  BY <1>2, Slice
<1> QED
  BY <1>3, <1>1 DEF FirstN

LEMMA LastRows ==
  ASSUME NEW s \in Seq(Rows), NEW n \in Nat
  PROVE  LET m == IF n <= Len(s) THEN n ELSE Len(s) IN
         /\ LastN(s, n) \in Seq(Rows) /\ Len(LastN(s, n)) = m
         /\ \A i \in 1 .. m : LastN(s, n)[i] = s[Len(s) - m + i]
<1> DEFINE m == IF n <= Len(s) THEN n ELSE Len(s)
<1>1. Len(s) \in Nat
  BY Elements
<1>2. Max({0, Len(s) - n}) = Len(s) - m
  <2>1. Len(s) - n \in Int /\ 0 \in Int
    BY <1>1
  <2>2. Max({0, Len(s) - n}) = IF 0 >= Len(s) - n THEN 0 ELSE Len(s) - n
    BY <2>1, MaxOfTwo
  <2> QED
    BY <2>2, <1>1
<1>9. m \in Nat /\ m <= Len(s)
  BY <1>1
<1> HIDE DEF m
<1>3. Len(s) - m + 1 \in 1 .. Len(s) + 1 /\ Len(s) \in Len(s) - m + 1 - 1 .. Len(s)
  BY <1>1, <1>9
<1>4. /\ SubSeq(s, Len(s) - m + 1, Len(s)) \in Seq(Rows)
      /\ Len(SubSeq(s, Len(s) - m + 1, Len(s))) = Len(s) - (Len(s) - m + 1) + 1
      /\ \A i \in 1 .. Len(s) - (Len(s) - m + 1) + 1 :
           SubSeq(s, Len(s) - m + 1, Len(s))[i] = s[(Len(s) - m + 1) + i - 1]
  BY <1>3, Slice
<1>5. LastN(s, n) = SubSeq(s, Len(s) - m + 1, Len(s))
  BY <1>2 DEF LastN
<1>6. m \in Int /\ Len(s) - (Len(s) - m + 1) + 1 = m
  BY <1>1, <1>9
<1>7. \A i \in 1 .. m : (Len(s) - m + 1) + i - 1 = Len(s) - m + i
  BY <1>1, <1>6
<1>8. /\ LastN(s, n) \in Seq(Rows) /\ Len(LastN(s, n)) = m
      /\ \A i \in 1 .. m : LastN(s, n)[i] = s[Len(s) - m + i]
  BY <1>4, <1>5, <1>6, <1>7
<1> QED
  BY <1>8 DEF m

LEMMA Listed ==
  ASSUME NEW s, NEW n \in Nat, s \in [1 .. n -> Rows]
  PROVE  s \in Seq(Rows) /\ Len(s) = n
BY SMT

LEMMA NoRows == << >> \in Seq(Rows) /\ Len(<< >>) = 0
  BY EmptySeq

LEMMA BlankRows ==
  ASSUME NEW n \in Nat
  PROVE  /\ Zeros(n) \in Seq(Rows) /\ Len(Zeros(n)) = n
         /\ \A i \in 1 .. n : Zeros(n)[i] = Blank
<1>1. Blank \in Rows
  BY DEF Blank, Row, Rows
<1>2. Zeros(n) \in [1 .. n -> Rows]
  BY <1>1 DEF Zeros
<1> QED
  BY <1>2, Listed DEF Zeros

-----------------------------------------------------------------------------
(* Memories. *)

LEMMA UnusedIsNew ==
  ASSUME NEW mem, Memory(mem)
  PROVE  Unused(mem) \in Nat \ {0} /\ Unused(mem) \notin DOMAIN mem
<1> DEFINE n == Cardinality(DOMAIN mem)
<1>1. IsFiniteSet(DOMAIN mem)
  BY DEF Memory
<1>2. n \in Nat
  BY <1>1, FS_CardinalityType
<1>3. \E a \in 1 .. n + 1 : a \notin DOMAIN mem
  <2> HIDE DEF n
  <2>1. SUFFICES ASSUME 1 .. n + 1 \subseteq DOMAIN mem
                 PROVE  FALSE
    OBVIOUS
  <2>2. Cardinality(1 .. n + 1) <= n
    BY <2>1, <1>1, FS_Subset DEF n
  <2>3. 1 \in Int /\ n + 1 \in Int
    BY <1>2
  <2>4. Cardinality(1 .. n + 1) = n + 1
    BY <2>3, <1>2, FS_Interval
  <2> QED
    BY <2>2, <2>4, <1>2
<1>4. Unused(mem) \in 1 .. n + 1 /\ Unused(mem) \notin DOMAIN mem
  BY <1>3 DEF Unused
<1> QED
  BY <1>4, <1>2

LEMMA WithArray ==
  ASSUME NEW mem, Memory(mem), NEW array \in Seq(Rows)
  PROVE  /\ Memory(With(mem, array))
         /\ DOMAIN With(mem, array) = DOMAIN mem \cup {Unused(mem)}
         /\ With(mem, array)[Unused(mem)] = array
         /\ \A a \in DOMAIN mem : With(mem, array)[a] = mem[a]
<1>1. Unused(mem) \in Nat \ {0} /\ Unused(mem) \notin DOMAIN mem
  BY UnusedIsNew
<1>2. /\ DOMAIN With(mem, array) = DOMAIN mem \cup {Unused(mem)}
      /\ With(mem, array)[Unused(mem)] = array
      /\ \A a \in DOMAIN mem : With(mem, array)[a] = mem[a]
  BY <1>1 DEF With
<1>3. IsFiniteSet(DOMAIN With(mem, array))
  BY <1>2, FS_AddElement DEF Memory
<1> QED
  BY <1>1, <1>2, <1>3 DEF Memory

-----------------------------------------------------------------------------
(* Caches that refer to an array. *)

\* The arrays of these numbers are in another memory as they were.
Keeping(mem, other, arrays) == \A a \in arrays : a \in DOMAIN other /\ other[a] = mem[a]

\* Everything else about two caches is the same.
Alike(c, d, changed) == DOMAIN d = DOMAIN c /\ \A f \in DOMAIN c \ changed : d[f] = c[f]

Referring(c) == {"mem", "keys"} \subseteq DOMAIN c /\ Held(c)

LEMMA ArrayIsRows ==
  ASSUME NEW c, Held(c)
  PROVE  ArrayOf(c) \in Seq(Rows)
BY NoRows DEF Held, Memory, ArrayOf, Nowhere

LEMMA ReferEffect ==
  ASSUME NEW c, Referring(c), NEW array \in Seq(Rows)
  PROVE  LET d == Refer(c, array) IN
         /\ Referring(d) /\ Alike(c, d, {"mem", "keys"})
         /\ ArrayOf(d) = array
         /\ d.keys # Nowhere /\ d.keys \notin DOMAIN c.mem
         /\ Keeping(c.mem, d.mem, DOMAIN c.mem)
<1> DEFINE d == Refer(c, array)
<1>1. Memory(c.mem)
  BY DEF Referring, Held
<1>2. Unused(c.mem) \in Nat \ {0} /\ Unused(c.mem) \notin DOMAIN c.mem
  BY <1>1, UnusedIsNew
<1>3. /\ Memory(With(c.mem, array))
      /\ DOMAIN With(c.mem, array) = DOMAIN c.mem \cup {Unused(c.mem)}
      /\ With(c.mem, array)[Unused(c.mem)] = array
      /\ \A a \in DOMAIN c.mem : With(c.mem, array)[a] = c.mem[a]
  BY <1>1, WithArray
<1>4. d.mem = With(c.mem, array) /\ d.keys = Unused(c.mem) /\ Alike(c, d, {"mem", "keys"})
  BY DEF Refer, Referring, Alike
<1> HIDE DEF d
<1>5. d.keys # Nowhere /\ d.keys \notin DOMAIN c.mem
  BY <1>2, <1>4 DEF Nowhere
<1>6. Referring(d)
  BY <1>3, <1>4, <1>5 DEF Referring, Held, Alike
<1>7. ArrayOf(d) = array
  BY <1>3, <1>4, <1>5 DEF ArrayOf
<1>8. Keeping(c.mem, d.mem, DOMAIN c.mem)
  BY <1>3, <1>4 DEF Keeping
<1> QED
  BY <1>4, <1>5, <1>6, <1>7, <1>8 DEF d

LEMMA WrittenRows ==
  ASSUME NEW array \in Seq(Rows), NEW from \in Nat, NEW rows \in Seq(Rows),
         from + Len(rows) <= Len(array)
  PROVE  /\ Written(array, from, rows) \in Seq(Rows)
         /\ Len(Written(array, from, rows)) = Len(array)
         /\ \A i \in 1 .. Len(array) :
              Written(array, from, rows)[i] =
                IF i > from /\ i <= from + Len(rows) THEN rows[i - from] ELSE array[i]
<1>1. /\ Len(rows) \in Nat /\ DOMAIN rows = 1 .. Len(rows)
      /\ \A i \in 1 .. Len(rows) : rows[i] \in Rows
  BY Elements
<1>2. /\ Len(array) \in Nat /\ DOMAIN array = 1 .. Len(array)
      /\ \A i \in 1 .. Len(array) : array[i] \in Rows
  BY Elements
<1>3. \A i \in 1 .. Len(array) : i - from \in DOMAIN rows <=> i > from /\ i <= from + Len(rows)
  BY <1>1, <1>2
<1>4. \A i \in 1 .. Len(array) : i - from \in DOMAIN rows => rows[i - from] \in Rows
  BY <1>1
<1>5. Written(array, from, rows) \in [1 .. Len(array) -> Rows]
  BY <1>2, <1>4 DEF Written
<1>6. \A i \in 1 .. Len(array) :
        Written(array, from, rows)[i] = IF i - from \in DOMAIN rows THEN rows[i - from] ELSE array[i]
  BY <1>2 DEF Written
<1> QED
  BY <1>2, <1>3, <1>5, <1>6, Listed

LEMMA WriteEffect ==
  ASSUME NEW c, Referring(c), c.keys # Nowhere, NEW from \in Nat, NEW rows \in Seq(Rows),
         from + Len(rows) <= Len(ArrayOf(c))
  PROVE  LET d == WriteAt(c, from, rows) IN
         /\ Referring(d) /\ Alike(c, d, {"mem"})
         /\ ArrayOf(d) = Written(ArrayOf(c), from, rows)
         /\ Keeping(c.mem, d.mem, DOMAIN c.mem \ {c.keys})
<1> DEFINE d == WriteAt(c, from, rows)
           array == Written(c.mem[c.keys], from, rows)
<1>1. c.keys \in DOMAIN c.mem /\ ArrayOf(c) = c.mem[c.keys] /\ c.mem[c.keys] \in Seq(Rows)
  BY DEF Referring, Held, Memory, ArrayOf
<1>2. array \in Seq(Rows)
  BY <1>1, WrittenRows
<1> HIDE DEF array
<1>3. d.mem = [c.mem EXCEPT ![c.keys] = array] /\ Alike(c, d, {"mem"})
  BY DEF WriteAt, Referring, Alike, array
<1> HIDE DEF d
<1>4. d.keys = c.keys
  BY <1>3 DEF Alike, Referring
<1>5. /\ DOMAIN d.mem = DOMAIN c.mem /\ d.mem[c.keys] = array
      /\ \A a \in DOMAIN c.mem \ {c.keys} : d.mem[a] = c.mem[a]
  BY <1>1, <1>3
<1>6. Memory(d.mem)
  BY <1>2, <1>5 DEF Memory, Referring, Held
<1>7. Referring(d)
  BY <1>1, <1>3, <1>4, <1>5, <1>6 DEF Referring, Held, Alike
<1>8. ArrayOf(d) = Written(ArrayOf(c), from, rows)
  BY <1>1, <1>4, <1>5 DEF ArrayOf, array
<1>9. Keeping(c.mem, d.mem, DOMAIN c.mem \ {c.keys})
  BY <1>5 DEF Keeping
<1> QED
  BY <1>3, <1>7, <1>8, <1>9 DEF d

LEMMA CollectedEffect ==
  ASSUME NEW c, Referring(c), NEW references
  PROVE  LET d == Collected(c, references) IN
         /\ Referring(d) /\ Alike(c, d, {"mem"})
         /\ ArrayOf(d) = ArrayOf(c)
         /\ Keeping(c.mem, d.mem, DOMAIN c.mem \cap references)
<1> DEFINE d == Collected(c, references)
           left == DOMAIN c.mem \cap (references \cup {c.keys})
<1>1. d.mem = [a \in left |-> c.mem[a]] /\ Alike(c, d, {"mem"})
  BY DEF Collected, Referring, Alike
<1>2. d.keys = c.keys
  BY <1>1 DEF Alike, Referring
<1> HIDE DEF d
<1>3. IsFiniteSet(DOMAIN c.mem) /\ left \in SUBSET DOMAIN c.mem
  BY DEF Referring, Held, Memory
<1>4. IsFiniteSet(left)
  BY <1>3, FS_Subset
<1>5. DOMAIN d.mem = left /\ \A a \in left : d.mem[a] = c.mem[a]
  BY <1>1
<1>6. Memory(d.mem)
  BY <1>4, <1>5 DEF Memory, Referring, Held
<1>7. Referring(d)
  BY <1>1, <1>2, <1>5, <1>6 DEF Referring, Held, Alike
<1>8. ArrayOf(d) = ArrayOf(c)
  BY <1>2, <1>5 DEF ArrayOf, Referring, Held
<1>9. Keeping(c.mem, d.mem, DOMAIN c.mem \cap references)
  BY <1>5 DEF Keeping
<1> QED
  BY <1>1, <1>7, <1>8, <1>9 DEF d

-----------------------------------------------------------------------------
(* Caches that are written in place: full attention, and the full context of *)
(* the draft model. *)

LEMMA RoundedUpCovers ==
  ASSUME NEW n \in Nat
  PROVE  RoundedUp(n) \in Nat /\ n <= RoundedUp(n)
<1> DEFINE m == n + Step - 1
<1>1. Step \in Nat /\ Step > 0 /\ m \in Nat
  BY SizeAssumption
<1> HIDE DEF m
<1>2. m \div Step \in Int /\ m % Step \in 0 .. Step - 1 /\ m = Step * (m \div Step) + (m % Step)
  BY <1>1
<1>3. RoundedUp(n) = (m \div Step) * Step
  BY DEF RoundedUp, m
<1>4. m \div Step \in Nat
  BY <1>1
<1>5. (m \div Step) * Step = Step * (m \div Step) /\ (m \div Step) * Step \in Nat
  BY <1>1, <1>4
<1> DEFINE p == (m \div Step) * Step
<1>6. p \in Nat /\ m = p + (m % Step)
  BY <1>2, <1>5
<1>7. RoundedUp(n) = p
  BY <1>3
<1> HIDE DEF p
<1>8. n <= p
  BY <1>1, <1>2, <1>6 DEF m
<1> QED
  BY <1>6, <1>7, <1>8

\* What is behind the rows of t does not matter when rows are put there.
LEMMA BeginsWritten ==
  ASSUME NEW array \in Seq(Rows), NEW t \in Seq(Rows), NEW rows \in Seq(Rows),
         Begins(array, t, Len(t)), Len(t) + Len(rows) <= Len(array)
  PROVE  Begins(Written(array, Len(t), rows), t \o rows, Len(t \o rows))
<1>1. Len(t) \in Nat /\ Len(rows) \in Nat /\ Len(array) \in Nat
  BY Elements
<1>2. /\ Len(t \o rows) = Len(t) + Len(rows)
      /\ \A i \in 1 .. Len(t) + Len(rows) :
           (t \o rows)[i] = IF i <= Len(t) THEN t[i] ELSE rows[i - Len(t)]
  BY Joined
<1>3. /\ Len(Written(array, Len(t), rows)) = Len(array)
      /\ \A i \in 1 .. Len(array) :
           Written(array, Len(t), rows)[i] =
             IF i > Len(t) /\ i <= Len(t) + Len(rows) THEN rows[i - Len(t)] ELSE array[i]
  BY <1>1, WrittenRows
<1>4. \A i \in 1 .. Len(t) : array[i] = t[i]
  BY DEF Begins
<1>5. ASSUME NEW i \in 1 .. Len(t) + Len(rows)
      PROVE  Written(array, Len(t), rows)[i] = (t \o rows)[i]
  <2>1. i \in 1 .. Len(array) /\ i \in Nat
    BY <1>1
  <2>2. CASE i <= Len(t)
    BY <1>1, <1>2, <1>3, <1>4, <2>1, <2>2
  <2>3. CASE i > Len(t)
    BY <1>1, <1>2, <1>3, <2>1, <2>3
  <2> QED
    BY <1>1, <2>1, <2>2, <2>3
<1> QED
  BY <1>1, <1>2, <1>3, <1>5 DEF Begins

\* The rows of t are kept by a longer array.
LEMMA BeginsExtended ==
  ASSUME NEW array \in Seq(Rows), NEW t \in Seq(Rows), Begins(array, t, Len(t)), NEW n \in Nat
  PROVE  /\ array \o Zeros(n) \in Seq(Rows) /\ Len(array \o Zeros(n)) = Len(array) + n
         /\ Begins(array \o Zeros(n), t, Len(t))
<1>1. Len(t) \in Nat /\ Len(array) \in Nat /\ Len(t) <= Len(array)
  BY Elements DEF Begins
<1>2. Zeros(n) \in Seq(Rows) /\ Len(Zeros(n)) = n
  BY BlankRows
<1>3. /\ array \o Zeros(n) \in Seq(Rows) /\ Len(array \o Zeros(n)) = Len(array) + n
      /\ \A i \in 1 .. Len(array) + n :
           (array \o Zeros(n))[i] = IF i <= Len(array) THEN array[i] ELSE Zeros(n)[i - Len(array)]
  BY <1>2, Joined
<1>4. \A i \in 1 .. Len(t) : (array \o Zeros(n))[i] = t[i]
  BY <1>1, <1>3 DEF Begins
<1> QED
  BY <1>1, <1>3, <1>4 DEF Begins

LEMMA BeginsCut ==
  ASSUME NEW array \in Seq(Rows), NEW t \in Seq(Rows), Begins(array, t, Len(t))
  PROVE  /\ FirstN(array, Len(t)) = t /\ FirstN(array, Len(t)) \in Seq(Rows)
         /\ Begins(FirstN(array, Len(t)), t, Len(t))
<1>1. Len(t) \in 0 .. Len(array)
  BY Elements DEF Begins
<1>2. /\ FirstN(array, Len(t)) \in Seq(Rows) /\ Len(FirstN(array, Len(t))) = Len(t)
      /\ \A i \in 1 .. Len(t) : FirstN(array, Len(t))[i] = array[i]
  BY <1>1, FirstRows
<1>3. \A i \in 1 .. Len(t) : FirstN(array, Len(t))[i] = t[i]
  BY <1>2 DEF Begins
<1>4. FirstN(array, Len(t)) = t
  BY <1>2, <1>3, SameRows
<1> QED
  BY <1>1, <1>2, <1>3, <1>4 DEF Begins

LEMMA KVUpdateEffect ==
  ASSUME NEW c, KVShape(c), NEW t \in Seq(Rows), KVReads(c, t),
         NEW rows \in Seq(Rows), rows # << >>,
         NEW shared \in SUBSET DOMAIN c.mem, c.keys \in shared => c.offset = Len(ArrayOf(c))
  PROVE  LET d == KVUpdate(c, rows) IN
         /\ KVShape(d) /\ KVReads(d, t \o rows)
         /\ Keeping(c.mem, d.mem, shared) /\ d.keys \notin shared /\ d.keys # Nowhere
<1> DEFINE old == ArrayOf(c)
           room == c.offset + Len(rows) <= Len(old)
           kept == IF c.offset % Step = 0 THEN old ELSE FirstN(old, c.offset)
           n == RoundedUp(Len(rows))
           grown == IF room THEN c ELSE Refer(c, kept \o Zeros(n))
           written == WriteAt(grown, c.offset, rows)
           d == KVUpdate(c, rows)
<1>1. Referring(c) /\ DOMAIN c = {"mem", "keys", "offset"}
  BY DEF KVShape, Referring
<1>2. old \in Seq(Rows)
  BY <1>1, ArrayIsRows DEF Referring
<1>3. c.offset = Len(t) /\ Begins(old, t, Len(t))
  BY DEF KVReads
<1>4. Len(t) \in Nat /\ Len(rows) \in Nat /\ Len(rows) > 0 /\ Len(old) \in Nat
  BY <1>2, Elements, EmptySeq
<1>5. kept \in Seq(Rows) /\ Begins(kept, t, Len(t))
  BY <1>2, <1>3, BeginsCut
<1>6. n \in Nat /\ Len(rows) <= n
  BY <1>4, RoundedUpCovers
<1>7. d = [written EXCEPT !.offset = @ + Len(rows)]
  BY DEF KVUpdate
<1> HIDE DEF kept, n, d
<1>8. /\ Referring(grown) /\ DOMAIN grown = DOMAIN c /\ grown.offset = c.offset
      /\ grown.keys # Nowhere /\ grown.keys \notin shared
      /\ Keeping(c.mem, grown.mem, shared)
      /\ ArrayOf(grown) \in Seq(Rows) /\ Begins(ArrayOf(grown), t, Len(t))
      /\ Len(t) + Len(rows) <= Len(ArrayOf(grown))
  <2>1. CASE room
    <3>1. c.keys # Nowhere
      BY <1>3, <1>4, <2>1, NoRows DEF ArrayOf
    <3>2. c.keys \notin shared
      BY <1>3, <1>4, <2>1
    <3>3. Keeping(c.mem, c.mem, shared)
      BY DEF Keeping
    <3> QED
      BY <1>1, <1>2, <1>3, <2>1, <3>1, <3>2, <3>3
  <2>2. CASE ~room
    <3> DEFINE array == kept \o Zeros(n)
    <3>1. /\ array \in Seq(Rows) /\ Len(array) = Len(kept) + n
          /\ Begins(array, t, Len(t))
      BY <1>5, <1>6, BeginsExtended
    <3> HIDE DEF array
    <3>2. /\ Referring(Refer(c, array)) /\ Alike(c, Refer(c, array), {"mem", "keys"})
          /\ ArrayOf(Refer(c, array)) = array
          /\ Refer(c, array).keys # Nowhere /\ Refer(c, array).keys \notin DOMAIN c.mem
          /\ Keeping(c.mem, Refer(c, array).mem, DOMAIN c.mem)
      BY <1>1, <3>1, ReferEffect
    <3>3. grown = Refer(c, array)
      BY <2>2 DEF array
    <3> HIDE DEF grown
    <3>4. Keeping(c.mem, grown.mem, shared) /\ grown.keys \notin shared
      BY <3>2, <3>3 DEF Keeping
    <3>5. DOMAIN grown = DOMAIN c /\ grown.offset = c.offset
      BY <3>2, <3>3, <1>1 DEF Alike
    <3>6. Len(kept) \in Nat /\ Len(t) <= Len(kept)
      BY <1>5, Elements DEF Begins
    <3>7. Len(t) + Len(rows) <= Len(array)
      BY <1>4, <1>6, <3>1, <3>6
    <3> QED
      BY <3>1, <3>2, <3>3, <3>4, <3>5, <3>7
  <2> QED
    BY <2>1, <2>2
<1> HIDE DEF grown
<1>9. /\ Referring(written) /\ Alike(grown, written, {"mem"})
      /\ ArrayOf(written) = Written(ArrayOf(grown), c.offset, rows)
      /\ Keeping(grown.mem, written.mem, DOMAIN grown.mem \ {grown.keys})
  BY <1>3, <1>4, <1>8, WriteEffect
<1> HIDE DEF written
<1>10. Alike(written, d, {"offset"}) /\ d.offset = c.offset + Len(rows)
  BY <1>1, <1>7, <1>8, <1>9 DEF Alike
<1>11. d.mem = written.mem /\ d.keys = written.keys /\ written.keys = grown.keys
  BY <1>1, <1>8, <1>9, <1>10 DEF Alike
<1>12. KVShape(d)
  BY <1>1, <1>8, <1>9, <1>10, <1>11 DEF KVShape, Alike, Referring, Held
<1>13. ArrayOf(d) = Written(ArrayOf(grown), Len(t), rows)
  BY <1>3, <1>9, <1>11 DEF ArrayOf
<1>14. Begins(Written(ArrayOf(grown), Len(t), rows), t \o rows, Len(t \o rows))
  BY <1>8, BeginsWritten
<1>15. Len(t \o rows) = Len(t) + Len(rows)
  BY Joined
<1>16. KVReads(d, t \o rows)
  BY <1>3, <1>10, <1>13, <1>14, <1>15 DEF KVReads
<1>17. Keeping(c.mem, d.mem, shared)
  BY <1>8, <1>9, <1>11 DEF Keeping
<1> QED
  BY <1>8, <1>11, <1>12, <1>16, <1>17 DEF d

LEMMA CopyEffect ==
  ASSUME NEW c, KVShape(c), NEW t \in Seq(Rows), KVReads(c, t),
         NEW array \in Seq(Rows), NEW u \in Seq(Rows), Begins(array, u, Len(u))
  PROVE  LET d == [Refer(c, array) EXCEPT !.offset = Len(u)] IN
         /\ KVShape(d) /\ KVReads(d, u) /\ ArrayOf(d) = array
         /\ Keeping(c.mem, d.mem, DOMAIN c.mem) /\ d.keys \notin DOMAIN c.mem /\ d.keys # Nowhere
<1> DEFINE e == Refer(c, array)
           d == [e EXCEPT !.offset = Len(u)]
<1>1. Referring(c) /\ DOMAIN c = {"mem", "keys", "offset"}
  BY DEF KVShape, Referring
<1>2. /\ Referring(e) /\ Alike(c, e, {"mem", "keys"})
      /\ ArrayOf(e) = array
      /\ e.keys # Nowhere /\ e.keys \notin DOMAIN c.mem
      /\ Keeping(c.mem, e.mem, DOMAIN c.mem)
  BY <1>1, ReferEffect
<1> HIDE DEF e
<1>3. DOMAIN e = {"mem", "keys", "offset"}
  BY <1>1, <1>2 DEF Alike
<1>4. DOMAIN d = DOMAIN e /\ d.mem = e.mem /\ d.keys = e.keys /\ d.offset = Len(u)
  BY <1>3
<1> HIDE DEF d
<1>5. KVShape(d) /\ ArrayOf(d) = array
  BY <1>2, <1>3, <1>4 DEF KVShape, Referring, Held, ArrayOf
<1> QED
  BY <1>2, <1>4, <1>5 DEF KVReads, d, e

\* An array referred to anew, with what the cache has read.
LEMMA ReferReads ==
  ASSUME NEW c, KVShape(c), NEW t \in Seq(Rows), KVReads(c, t),
         NEW array \in Seq(Rows), Begins(array, t, Len(t))
  PROVE  LET d == Refer(c, array) IN
         /\ KVShape(d) /\ KVReads(d, t) /\ ArrayOf(d) = array
         /\ Keeping(c.mem, d.mem, DOMAIN c.mem) /\ d.keys \notin DOMAIN c.mem /\ d.keys # Nowhere
<1> DEFINE d == Refer(c, array)
<1>1. Referring(c) /\ DOMAIN c = {"mem", "keys", "offset"}
  BY DEF KVShape, Referring
<1>2. /\ Referring(d) /\ Alike(c, d, {"mem", "keys"})
      /\ ArrayOf(d) = array
      /\ d.keys # Nowhere /\ d.keys \notin DOMAIN c.mem
      /\ Keeping(c.mem, d.mem, DOMAIN c.mem)
  BY <1>1, ReferEffect
<1> HIDE DEF d
<1>3. DOMAIN d = {"mem", "keys", "offset"} /\ d.offset = c.offset
  BY <1>1, <1>2 DEF Alike
<1> QED
  BY <1>2, <1>3 DEF KVShape, Referring, KVReads, d

LEMMA KVStateEffect ==
  ASSUME NEW c, KVShape(c), NEW t \in Seq(Rows), KVReads(c, t)
  PROVE  LET d == KVState(c) IN
         /\ KVShape(d) /\ KVReads(d, t) /\ ArrayOf(d) = t
         /\ Keeping(c.mem, d.mem, DOMAIN c.mem) /\ (d.keys = c.keys \/ d.keys \notin DOMAIN c.mem)
<1>1. ArrayOf(c) \in Seq(Rows) /\ Referring(c)
  BY ArrayIsRows DEF KVShape, Referring
<1>2. c.offset = Len(t) /\ Begins(ArrayOf(c), t, Len(t))
  BY DEF KVReads
<1>3. /\ FirstN(ArrayOf(c), Len(t)) = t /\ FirstN(ArrayOf(c), Len(t)) \in Seq(Rows)
      /\ Begins(FirstN(ArrayOf(c), Len(t)), t, Len(t))
  BY <1>1, <1>2, BeginsCut
<1>4. CASE c.offset = Len(ArrayOf(c))
  <2>1. ArrayOf(c) = t
    <3>1. \A i \in 1 .. Len(ArrayOf(c)) : ArrayOf(c)[i] = t[i]
      BY <1>2, <1>4 DEF Begins
    <3> QED
      BY <1>1, <1>2, <1>4, <3>1, SameRows
  <2>2. KVState(c) = c
    BY <1>4 DEF KVState
  <2> QED
    BY <2>1, <2>2 DEF Keeping
<1>5. CASE c.offset # Len(ArrayOf(c))
  <2>1. KVState(c) = Refer(c, t)
    BY <1>2, <1>3, <1>5 DEF KVState
  <2>2. Begins(t, t, Len(t))
    BY <1>3
  <2> QED
    BY <2>1, <2>2, ReferReads
<1> QED
  BY <1>4, <1>5

\* What a path picks of the slots of a tree.
Picked(rows, slots, path) == rows = [i \in DOMAIN path |-> slots[path[i]]]

LEMMA KVCommitTreeEffect ==
  ASSUME NEW c, KVShape(c), NEW t \in Seq(Rows), NEW slots \in Seq(Rows), KVReads(c, t \o slots),
         NEW n \in Nat, NEW path \in [1 .. n -> 1 .. Len(slots)],
         NEW rows, Picked(rows, slots, path)
  PROVE  LET d == KVCommitTree(c, Len(slots), path) IN
         /\ KVShape(d) /\ KVReads(d, t \o rows)
         /\ Keeping(c.mem, d.mem, DOMAIN c.mem) /\ d.keys \notin DOMAIN c.mem /\ d.keys # Nowhere
<1> DEFINE array == ArrayOf(c)
           prefix == c.offset - Len(slots)
           picked == [i \in DOMAIN path |-> slots[path[i]]]
           read == [i \in DOMAIN path |-> array[prefix + path[i]]]
<1>1. /\ Len(t) \in Nat /\ Len(slots) \in Nat /\ DOMAIN slots = 1 .. Len(slots)
      /\ \A i \in 1 .. Len(slots) : slots[i] \in Rows
  BY Elements
<1>2. /\ t \o slots \in Seq(Rows) /\ Len(t \o slots) = Len(t) + Len(slots)
      /\ \A i \in 1 .. Len(t) + Len(slots) :
           (t \o slots)[i] = IF i <= Len(t) THEN t[i] ELSE slots[i - Len(t)]
  BY Joined
<1>3. array \in Seq(Rows)
  BY ArrayIsRows DEF KVShape
<1>4. prefix = Len(t)
  BY <1>1, <1>2 DEF KVReads
<1>5. /\ Len(t) + Len(slots) <= Len(array)
      /\ \A i \in 1 .. Len(t) + Len(slots) : array[i] = (t \o slots)[i]
  BY <1>2 DEF KVReads, Begins
<1> HIDE DEF array, prefix
<1>6. Begins(array, t, Len(t))
  BY <1>1, <1>2, <1>3, <1>5, Elements DEF Begins
<1>7. FirstN(array, Len(t)) = t
  BY <1>3, <1>6, BeginsCut
<1>8. read = picked
  <2>1. ASSUME NEW i \in 1 .. n
        PROVE  array[prefix + path[i]] = slots[path[i]]
    <3>1. path[i] \in 1 .. Len(slots) /\ Len(t) + path[i] \in 1 .. Len(t) + Len(slots)
      BY <1>1
    <3>2. array[Len(t) + path[i]] = (t \o slots)[Len(t) + path[i]]
      BY <1>5, <3>1
    <3>3. ~(Len(t) + path[i] <= Len(t)) /\ Len(t) + path[i] - Len(t) = path[i]
      BY <1>1, <3>1
    <3>4. (t \o slots)[Len(t) + path[i]] = slots[path[i]]
      BY <1>2, <3>1, <3>3
    <3> QED
      BY <1>4, <3>2, <3>4
  <2>2. DOMAIN path = 1 .. n
    OBVIOUS
  <2> QED
    BY <2>1, <2>2
<1>9. picked \in Seq(Rows)
  <2>1. picked \in [1 .. n -> Rows]
    BY <1>1
  <2> QED
    BY <2>1, Listed
<1> HIDE DEF read, picked
<1> DEFINE u == t \o picked
<1>10. u \in Seq(Rows) /\ Len(u) \in Nat
  BY <1>9, Joined, Elements
<1>11. Begins(u, u, Len(u))
  BY <1>10 DEF Begins
<1>12. KVCommitTree(c, Len(slots), path) = [Refer(c, u) EXCEPT !.offset = Len(u)]
  BY <1>4, <1>7, <1>8 DEF KVCommitTree, array, prefix, read
<1> HIDE DEF u
<1>13. LET d == [Refer(c, u) EXCEPT !.offset = Len(u)] IN
         /\ KVShape(d) /\ KVReads(d, u)
         /\ Keeping(c.mem, d.mem, DOMAIN c.mem) /\ d.keys \notin DOMAIN c.mem /\ d.keys # Nowhere
  BY <1>2, <1>10, <1>11, CopyEffect
<1>14. u = t \o rows
  BY DEF u, picked, Picked
<1> QED
  BY <1>12, <1>13, <1>14

LEMMA KVTrimEffect ==
  ASSUME NEW c, KVShape(c), NEW t \in Seq(Rows), KVReads(c, t),
         NEW u \in Seq(Rows), Begins(t, u, Len(u))
  PROVE  LET d == KVTrim(c, c.offset - Len(u)) IN
         /\ KVShape(d) /\ KVReads(d, u) /\ d.mem = c.mem /\ d.keys = c.keys
<1> DEFINE d == KVTrim(c, c.offset - Len(u))
<1>1. Len(t) \in Nat /\ Len(u) \in Nat /\ c.offset = Len(t) /\ Len(u) <= Len(t)
  BY Elements DEF KVReads, Begins
<1>2. Len(t) - Len(u) \in Int /\ Len(t) \in Int
  BY <1>1
<1>3. Min({c.offset - Len(u), c.offset}) = c.offset - Len(u)
  BY <1>1, <1>2, MinOfTwo
<1>4. DOMAIN c = {"mem", "keys", "offset"}
  BY DEF KVShape
<1>5. DOMAIN d = DOMAIN c /\ d.mem = c.mem /\ d.keys = c.keys /\ d.offset = c.offset - (c.offset - Len(u))
  BY <1>3, <1>4 DEF KVTrim
<1> HIDE DEF d
<1>6. d.offset = Len(u) /\ ArrayOf(d) = ArrayOf(c)
  BY <1>1, <1>5 DEF ArrayOf
<1>7. Begins(ArrayOf(c), u, Len(u))
  <2>1. ArrayOf(c) \in Seq(Rows)
    BY ArrayIsRows DEF KVShape
  <2>2. Len(t) <= Len(ArrayOf(c)) /\ \A i \in 1 .. Len(t) : ArrayOf(c)[i] = t[i]
    BY DEF KVReads, Begins
  <2>3. \A i \in 1 .. Len(u) : t[i] = u[i]
    BY DEF Begins
  <2> QED
    BY <1>1, <2>1, <2>2, <2>3, Elements DEF Begins
<1>8. KVShape(d)
  BY <1>4, <1>5 DEF KVShape, Held
<1> QED
  BY <1>5, <1>6, <1>7, <1>8 DEF KVReads, d

LEMMA KVCollected ==
  ASSUME NEW c, KVShape(c), NEW t \in Seq(Rows), KVReads(c, t), NEW references
  PROVE  LET d == Collected(c, references) IN
         /\ KVShape(d) /\ KVReads(d, t) /\ d.keys = c.keys /\ ArrayOf(d) = ArrayOf(c)
         /\ Keeping(c.mem, d.mem, DOMAIN c.mem \cap references)
<1> DEFINE d == Collected(c, references)
<1>1. Referring(c) /\ DOMAIN c = {"mem", "keys", "offset"}
  BY DEF KVShape, Referring
<1>2. /\ Referring(d) /\ Alike(c, d, {"mem"})
      /\ ArrayOf(d) = ArrayOf(c)
      /\ Keeping(c.mem, d.mem, DOMAIN c.mem \cap references)
  BY <1>1, CollectedEffect
<1> HIDE DEF d
<1>3. DOMAIN d = DOMAIN c /\ d.offset = c.offset /\ d.keys = c.keys
  BY <1>1, <1>2 DEF Alike
<1> QED
  BY <1>1, <1>2, <1>3 DEF KVShape, KVReads, Referring, d

-----------------------------------------------------------------------------
(* Rings: what their arrays hold. *)

\* The last m rows of s are those of t.
EndsAs(s, t, m) ==
  /\ m \in Nat /\ m <= Len(s) /\ m <= Len(t)
  /\ \A i \in 1 .. m : s[Len(s) - m + i] = t[Len(t) - m + i]

\* All of t, or as much as a ring is ever asked for.
Enough(s, t, m) == (m = Len(s) /\ m = Len(t)) \/ m >= RingSize

LEMMA RingSizes == RingSize \in Nat /\ RingSize >= 1
  BY SizeAssumption

LEMMA OrderedStraight ==
  ASSUME NEW array \in Seq(Rows), NEW offset, NEW idx, NEW t \in Seq(Rows),
         Straight(array, offset, idx, t, RingSize)
  PROVE  LET s == Ordered(array, offset, idx) IN
         s \in Seq(Rows) /\ EndsAs(s, t, idx) /\ Enough(s, t, idx)
<1> DEFINE s == Ordered(array, offset, idx)
<1>1. Len(array) \in Nat /\ Len(t) \in Nat
  BY Elements
<1>2. /\ offset = Len(t) /\ idx \in Nat
      /\ idx <= Len(array) /\ idx <= Len(t)
      /\ idx = Len(t) \/ idx >= RingSize
  BY DEF Straight
<1>3. \A i \in 1 .. idx : array[i] = t[Len(t) - idx + i]
  BY DEF Straight
<1>4. CASE idx = Len(array)
  <2>1. s = array
    BY <1>4 DEF Ordered
  <2>2. \A i \in 1 .. idx : array[Len(array) - idx + i] = t[Len(t) - idx + i]
    BY <1>1, <1>3, <1>4
  <2> QED
    BY <1>2, <1>4, <2>1, <2>2 DEF EndsAs, Enough
<1>5. CASE idx # Len(array)
  <2>1. idx \in 0 .. Len(array)
    BY <1>1, <1>2
  <2>2. /\ FirstN(array, idx) \in Seq(Rows) /\ Len(FirstN(array, idx)) = idx
        /\ \A i \in 1 .. idx : FirstN(array, idx)[i] = array[i]
    BY <2>1, FirstRows
  <2>3. CASE idx < offset
    <3> DEFINE old == SubSeq(array, idx + 1, Len(array))
    <3>1. idx + 1 \in 1 .. Len(array) + 1 /\ Len(array) \in idx + 1 - 1 .. Len(array)
      BY <1>1, <1>2
    <3>2. old \in Seq(Rows) /\ Len(old) \in Nat
      BY <3>1, Slice, Elements
    <3>3. s = old \o FirstN(array, idx)
      BY <1>5, <2>3 DEF Ordered
    <3> HIDE DEF old, s
    <3>4. /\ s \in Seq(Rows) /\ Len(s) = Len(old) + idx
          /\ \A i \in 1 .. Len(old) + idx :
               s[i] = IF i <= Len(old) THEN old[i] ELSE FirstN(array, idx)[i - Len(old)]
      BY <2>2, <3>2, <3>3, Joined
    <3>5. ASSUME NEW i \in 1 .. idx
          PROVE  s[Len(s) - idx + i] = t[Len(t) - idx + i]
      <4>1. Len(s) - idx + i = Len(old) + i /\ Len(old) + i \in 1 .. Len(old) + idx
        BY <1>2, <3>2, <3>4
      <4>2. ~(Len(old) + i <= Len(old)) /\ Len(old) + i - Len(old) = i
        BY <1>2, <3>2
      <4>3. s[Len(old) + i] = FirstN(array, idx)[i]
        BY <3>4, <4>1, <4>2
      <4>4. FirstN(array, idx)[i] = t[Len(t) - idx + i]
        BY <1>3, <2>2
      <4> QED
        BY <4>1, <4>3, <4>4
    <3>6. idx >= RingSize
      BY <1>2, <2>3
    <3>7. idx <= Len(s)
      BY <1>2, <3>2, <3>4
    <3> QED
      BY <1>2, <3>4, <3>5, <3>6, <3>7 DEF EndsAs, Enough, s
  <2>4. CASE ~(idx < offset)
    <3>1. s = FirstN(array, idx) /\ idx = Len(t)
      BY <1>1, <1>2, <1>5, <2>4 DEF Ordered
    <3>2. \A i \in 1 .. idx : FirstN(array, idx)[idx - idx + i] = t[Len(t) - idx + i]
      BY <1>2, <1>3, <2>2
    <3> QED
      BY <1>2, <2>2, <3>1, <3>2 DEF EndsAs, Enough
  <2> QED
    BY <2>3, <2>4
<1> QED
  BY <1>4, <1>5

LEMMA OrderedRotated ==
  ASSUME NEW array \in Seq(Rows), NEW offset, NEW idx, NEW t \in Seq(Rows),
         Rotated(array, offset, idx, t)
  PROVE  LET s == Ordered(array, offset, idx) IN
         s \in Seq(Rows) /\ EndsAs(s, t, RingSize) /\ Enough(s, t, RingSize)
<1> DEFINE s == Ordered(array, offset, idx)
           old == SubSeq(array, idx + 1, Len(array))
<1>1. Len(array) = RingSize /\ Len(t) \in Nat /\ RingSize \in Nat /\ RingSize >= 1
  BY Elements, RingSizes DEF Rotated
<1>2. offset = Len(t) /\ Len(t) >= RingSize /\ idx \in 1 .. RingSize - 1
  BY DEF Rotated
<1>3. \A i \in 1 .. RingSize :
        array[i] = t[Len(t) - idx + i - (IF i > idx THEN RingSize ELSE 0)]
  BY DEF Rotated
<1>4. idx \in Nat /\ idx >= 1 /\ idx < RingSize
  BY <1>1, <1>2
<1>5. /\ FirstN(array, idx) \in Seq(Rows) /\ Len(FirstN(array, idx)) = idx
      /\ \A i \in 1 .. idx : FirstN(array, idx)[i] = array[i]
  <2>1. idx \in 0 .. Len(array)
    BY <1>1, <1>4
  <2> QED
    BY <2>1, FirstRows
<1>6. /\ old \in Seq(Rows) /\ Len(old) = RingSize - idx
      /\ \A i \in 1 .. RingSize - idx : old[i] = array[idx + i]
  <2>1. idx + 1 \in 1 .. Len(array) + 1 /\ Len(array) \in idx + 1 - 1 .. Len(array)
    BY <1>1, <1>4
  <2>2. /\ old \in Seq(Rows) /\ Len(old) = Len(array) - (idx + 1) + 1
        /\ \A i \in 1 .. Len(array) - (idx + 1) + 1 : old[i] = array[(idx + 1) + i - 1]
    BY <2>1, Slice
  <2>3. Len(array) - (idx + 1) + 1 = RingSize - idx
    BY <1>1, <1>4
  <2>4. \A i \in 1 .. RingSize - idx : (idx + 1) + i - 1 = idx + i
    BY <1>1, <1>4
  <2> QED
    BY <2>2, <2>3, <2>4
<1>7. s = old \o FirstN(array, idx)
  BY <1>1, <1>2, <1>4 DEF Ordered
<1> HIDE DEF s, old
<1>8. /\ s \in Seq(Rows) /\ Len(s) = Len(old) + idx
      /\ \A i \in 1 .. Len(old) + idx :
           s[i] = IF i <= Len(old) THEN old[i] ELSE FirstN(array, idx)[i - Len(old)]
  <2> DEFINE new == FirstN(array, idx)
  <2>1. new \in Seq(Rows) /\ Len(new) = idx /\ old \in Seq(Rows) /\ s = old \o new
    BY <1>5, <1>6, <1>7
  <2> HIDE DEF new
  <2>2. /\ old \o new \in Seq(Rows) /\ Len(old \o new) = Len(old) + Len(new)
        /\ \A i \in 1 .. Len(old) + Len(new) :
             (old \o new)[i] = IF i <= Len(old) THEN old[i] ELSE new[i - Len(old)]
    BY <2>1, Joined
  <2> QED
    BY <2>1, <2>2 DEF new
<1>9. Len(s) = RingSize
  BY <1>1, <1>4, <1>6, <1>8
<1>10. ASSUME NEW i \in 1 .. RingSize
       PROVE  s[Len(s) - RingSize + i] = t[Len(t) - RingSize + i]
  <2>1. Len(s) - RingSize + i = i /\ i \in 1 .. Len(old) + idx
    BY <1>1, <1>8, <1>9
  <2>2. CASE i <= RingSize - idx
    <3>1. i \in 1 .. RingSize - idx /\ idx + i \in 1 .. RingSize /\ idx + i > idx
      BY <1>1, <1>4, <2>2
    <3>2. s[i] = array[idx + i]
      BY <1>6, <1>8, <2>1, <2>2, <3>1
    <3>3. array[idx + i] = t[Len(t) - idx + (idx + i) - RingSize]
      BY <1>3, <3>1
    <3>4. Len(t) - idx + (idx + i) - RingSize = Len(t) - RingSize + i
      BY <1>1, <1>4
    <3> QED
      BY <2>1, <3>2, <3>3, <3>4
  <2>3. CASE ~(i <= RingSize - idx)
    <3> DEFINE k == i - (RingSize - idx)
    <3>1. k \in 1 .. idx /\ k \in 1 .. RingSize /\ ~(k > idx) /\ ~(i <= Len(old)) /\ i - Len(old) = k
      BY <1>1, <1>4, <1>6, <2>3
    <3>2. s[i] = FirstN(array, idx)[k]
      BY <1>8, <2>1, <3>1
    <3>3. s[i] = array[k]
      BY <1>5, <3>1, <3>2
    <3>4. array[k] = t[Len(t) - idx + k - 0]
      BY <1>3, <3>1
    <3>5. Len(t) - idx + k - 0 = Len(t) - RingSize + i
      BY <1>1, <1>4
    <3> QED
      BY <2>1, <3>3, <3>4, <3>5
  <2> QED
    BY <2>2, <2>3
<1> QED
  BY <1>1, <1>2, <1>8, <1>9, <1>10 DEF EndsAs, Enough, s

\* What a ring that can be read holds, in order.
LEMMA OrderedLegible ==
  ASSUME NEW array \in Seq(Rows), NEW offset, NEW idx, NEW t \in Seq(Rows),
         Legible(array, offset, idx, t)
  PROVE  /\ Ordered(array, offset, idx) \in Seq(Rows)
         /\ \E m \in Nat : /\ EndsAs(Ordered(array, offset, idx), t, m)
                           /\ Enough(Ordered(array, offset, idx), t, m)
<1>1. CASE Straight(array, offset, idx, t, RingSize)
  <2>1. idx \in Nat
    BY <1>1 DEF Straight
  <2> QED
    BY <1>1, <2>1, OrderedStraight
<1>2. CASE Rotated(array, offset, idx, t)
  BY <1>2, OrderedRotated, RingSizes
<1> QED
  BY <1>1, <1>2 DEF Legible

\* Several rows behind what is left of the old ones.
LEMMA ConcatStraight ==
  ASSUME NEW old \in Seq(Rows), NEW t \in Seq(Rows), NEW rows \in Seq(Rows),
         NEW m \in Nat, EndsAs(old, t, m), Enough(old, t, m)
  PROVE  LET cut == Max({0, Len(old) - RingSize + 1})
             new == SubSeq(old, cut + 1, Len(old)) \o rows
         IN new \in Seq(Rows) /\ Len(new) \in Nat
            /\ Straight(new, Len(t) + Len(rows), Len(new), t \o rows, RingSize - 1 + Len(rows))
<1> DEFINE cut == Max({0, Len(old) - RingSize + 1})
           k == IF Len(old) <= RingSize - 1 THEN Len(old) ELSE RingSize - 1
           left == SubSeq(old, cut + 1, Len(old))
           new == left \o rows
           u == t \o rows
<1>1. Len(old) \in Nat /\ Len(t) \in Nat /\ Len(rows) \in Nat /\ RingSize \in Nat /\ RingSize >= 1
  BY Elements, RingSizes
<1>2. Len(old) - RingSize + 1 \in Int /\ 0 \in Int
  BY <1>1
<1>3. cut = Len(old) - k
  BY <1>1, <1>2, MaxOfTwo
<1>4. k \in Nat /\ k <= Len(old) /\ k <= RingSize - 1
  BY <1>1
<1>5. m <= Len(old) /\ m <= Len(t) /\ \A i \in 1 .. m : old[Len(old) - m + i] = t[Len(t) - m + i]
  BY DEF EndsAs
<1>6. k <= m /\ k <= Len(t) /\ (k = Len(t) \/ k = RingSize - 1)
  BY <1>1, <1>4, <1>5 DEF Enough
<1> HIDE DEF k, cut
<1>7. /\ left \in Seq(Rows) /\ Len(left) = k
      /\ \A i \in 1 .. k : left[i] = old[Len(old) - k + i]
  <2>1. cut + 1 \in 1 .. Len(old) + 1 /\ Len(old) \in cut + 1 - 1 .. Len(old)
    BY <1>1, <1>3, <1>4
  <2>2. /\ left \in Seq(Rows) /\ Len(left) = Len(old) - (cut + 1) + 1
        /\ \A i \in 1 .. Len(old) - (cut + 1) + 1 : left[i] = old[(cut + 1) + i - 1]
    BY <2>1, Slice
  <2>3. Len(old) - (cut + 1) + 1 = k /\ \A i \in 1 .. k : (cut + 1) + i - 1 = Len(old) - k + i
    BY <1>1, <1>3, <1>4
  <2> QED
    BY <2>2, <2>3
<1> HIDE DEF left
<1>8. ASSUME NEW i \in 1 .. k
      PROVE  left[i] = t[Len(t) - k + i]
  <2>1. m - k + i \in 1 .. m
    BY <1>1, <1>4, <1>6
  <2>2. old[Len(old) - m + (m - k + i)] = t[Len(t) - m + (m - k + i)]
    BY <1>5, <2>1
  <2>3. Len(old) - m + (m - k + i) = Len(old) - k + i /\ Len(t) - m + (m - k + i) = Len(t) - k + i
    BY <1>1, <1>4
  <2> QED
    BY <1>7, <2>2, <2>3
<1>9. /\ new \in Seq(Rows) /\ Len(new) = k + Len(rows)
      /\ \A i \in 1 .. k + Len(rows) : new[i] = IF i <= k THEN left[i] ELSE rows[i - k]
  BY <1>7, Joined
<1>10. /\ u \in Seq(Rows) /\ Len(u) = Len(t) + Len(rows)
       /\ \A i \in 1 .. Len(t) + Len(rows) : u[i] = IF i <= Len(t) THEN t[i] ELSE rows[i - Len(t)]
  BY Joined
<1> HIDE DEF new, u
<1>11. ASSUME NEW i \in 1 .. Len(new)
       PROVE  new[i] = u[Len(u) - Len(new) + i]
  <2>1. Len(u) - Len(new) + i = Len(t) - k + i /\ i \in 1 .. k + Len(rows)
    BY <1>1, <1>4, <1>9, <1>10
  <2>2. Len(t) - k + i \in 1 .. Len(t) + Len(rows)
    BY <1>1, <1>4, <1>6, <2>1
  <2>3. CASE i <= k
    <3>1. i \in 1 .. k /\ Len(t) - k + i <= Len(t)
      BY <1>1, <1>4, <2>1, <2>3
    <3>2. new[i] = left[i] /\ u[Len(t) - k + i] = t[Len(t) - k + i]
      BY <1>9, <1>10, <2>1, <2>2, <2>3, <3>1
    <3> QED
      BY <1>8, <2>1, <3>1, <3>2
  <2>4. CASE ~(i <= k)
    <3>1. ~(Len(t) - k + i <= Len(t)) /\ Len(t) - k + i - Len(t) = i - k
      BY <1>1, <1>4, <2>1, <2>4
    <3>4. i \in 1 .. k + Len(rows) /\ ~(i <= k)
      BY <2>1, <2>4
    <3>2. new[i] = rows[i - k]
      BY <1>9, <3>4
    <3> DEFINE j == Len(t) - k + i
    <3>5. j \in 1 .. Len(t) + Len(rows) /\ ~(j <= Len(t)) /\ j - Len(t) = i - k
      BY <1>1, <1>4, <2>2, <3>1, <3>4
    <3> HIDE DEF j
    <3>6. u[j] = rows[j - Len(t)]
      BY <1>10, <3>5
    <3>3. u[Len(t) - k + i] = rows[i - k]
      BY <3>5, <3>6 DEF j
    <3> QED
      BY <2>1, <3>2, <3>3
  <2> QED
    BY <2>3, <2>4
<1>12. /\ Len(new) \in Nat /\ Len(new) <= Len(u) /\ Len(t) + Len(rows) = Len(u)
       /\ (Len(new) = Len(u) \/ Len(new) >= RingSize - 1 + Len(rows))
  <2>1. Len(new) = k + Len(rows) /\ Len(u) = Len(t) + Len(rows)
    BY <1>9, <1>10
  <2> QED
    BY <1>1, <1>4, <1>6, <2>1
<1>13. Straight(new, Len(t) + Len(rows), Len(new), u, RingSize - 1 + Len(rows))
  BY <1>11, <1>12 DEF Straight
<1> QED
  BY <1>9, <1>12, <1>13 DEF new, left, cut, u

LEMMA ReferRing ==
  ASSUME NEW c, RingShape(c), NEW array \in Seq(Rows),
         NEW d, Alike(Refer(c, array), d, {"offset", "idx"})
  PROVE  /\ RingShape(d) /\ ArrayOf(d) = array
         /\ Keeping(c.mem, d.mem, DOMAIN c.mem) /\ d.keys \notin DOMAIN c.mem /\ d.keys # Nowhere
<1> DEFINE e == Refer(c, array)
<1>1. Referring(c) /\ DOMAIN c = {"mem", "keys", "offset", "idx"}
  BY DEF RingShape, Referring
<1>2. /\ Referring(e) /\ Alike(c, e, {"mem", "keys"})
      /\ ArrayOf(e) = array
      /\ e.keys # Nowhere /\ e.keys \notin DOMAIN c.mem
      /\ Keeping(c.mem, e.mem, DOMAIN c.mem)
  BY <1>1, ReferEffect
<1>3. Alike(e, d, {"offset", "idx"})
  OBVIOUS
<1> HIDE DEF e
<1>4. DOMAIN d = {"mem", "keys", "offset", "idx"} /\ d.mem = e.mem /\ d.keys = e.keys
  BY <1>1, <1>2, <1>3 DEF Alike
<1>5. RingShape(d) /\ ArrayOf(d) = array
  BY <1>2, <1>4 DEF RingShape, Referring, Held, ArrayOf
<1> QED
  BY <1>2, <1>4, <1>5

LEMMA RingConcatEffect ==
  ASSUME NEW c, RingShape(c), NEW t \in Seq(Rows), RingLegible(c, t), NEW rows \in Seq(Rows)
  PROVE  LET d == RingConcat(c, rows) IN
         /\ RingShape(d) /\ Keeping(c.mem, d.mem, DOMAIN c.mem) /\ d.keys \notin DOMAIN c.mem
         /\ RingStraight(d, t \o rows, RingSize - 1 + Len(rows)) /\ d.idx = Len(ArrayOf(d))
<1> DEFINE old == RingText(c)
           cut == Max({0, Len(old) - RingSize + 1})
           new == SubSeq(old, cut + 1, Len(old)) \o rows
           d == RingConcat(c, rows)
<1>1. ArrayOf(c) \in Seq(Rows)
  BY ArrayIsRows DEF RingShape
<1>2. Legible(ArrayOf(c), c.offset, c.idx, t)
  BY DEF RingLegible
<1>3. old \in Seq(Rows) /\ \E m \in Nat : EndsAs(old, t, m) /\ Enough(old, t, m)
  BY <1>1, <1>2, OrderedLegible DEF RingText
<1>4. c.offset = Len(t)
  BY <1>2 DEF Legible, Straight, Rotated
<1> HIDE DEF old
<1>5. /\ new \in Seq(Rows) /\ Len(new) \in Nat
      /\ Straight(new, Len(t) + Len(rows), Len(new), t \o rows, RingSize - 1 + Len(rows))
  BY <1>3, ConcatStraight
<1>6. /\ Alike(Refer(c, new), d, {"offset", "idx"})
      /\ d.offset = c.offset + Len(rows) /\ d.idx = Len(new)
  BY DEF RingConcat, old, Refer, RingShape, Alike
<1> HIDE DEF new, d
<1>7. /\ RingShape(d) /\ ArrayOf(d) = new
      /\ Keeping(c.mem, d.mem, DOMAIN c.mem) /\ d.keys \notin DOMAIN c.mem
  BY <1>5, <1>6, ReferRing
<1>8. RingStraight(d, t \o rows, RingSize - 1 + Len(rows))
  BY <1>4, <1>5, <1>6, <1>7 DEF RingStraight
<1> QED
  BY <1>6, <1>7, <1>8 DEF d

\* A ring a single row can be written into: there is room behind the index, or
\* the ring is full.
Room(array, offset, idx, t) ==
  /\ Len(array) <= RingSize
  /\ \/ /\ Straight(array, offset, idx, t, RingSize)
        /\ (idx = offset /\ idx < Len(array)) \/ (idx = Len(array) /\ idx = RingSize)
     \/ Rotated(array, offset, idx, t)

LEMMA WriteStraight ==
  ASSUME NEW array \in Seq(Rows), NEW idx, NEW t \in Seq(Rows), NEW row \in Rows,
         Straight(array, Len(t), idx, t, RingSize), Len(array) <= RingSize,
         idx = Len(t), idx < Len(array)
  PROVE  Ready(Written(array, idx, <<row>>), Len(t) + 1, idx + 1, t \o <<row>>)
<1> DEFINE rows == <<row>>
           new == Written(array, Len(t), rows)
           u == t \o rows
<1>1. Len(array) \in Nat /\ Len(t) \in Nat /\ rows \in Seq(Rows) /\ Len(rows) = 1
  BY Elements
<1> HIDE DEF rows
<1>2. Begins(array, t, Len(t))
  <2>1. \A i \in 1 .. Len(t) : Len(t) - idx + i = i
    BY <1>1
  <2>2. \A i \in 1 .. Len(t) : array[i] = t[Len(t) - idx + i]
    BY DEF Straight
  <2> QED
    BY <1>1, <2>1, <2>2 DEF Begins
<1>8. Len(t) + Len(rows) <= Len(array)
  BY <1>1
<1>3. Begins(new, u, Len(u))
  BY <1>1, <1>2, <1>8, BeginsWritten
<1>4. new \in Seq(Rows) /\ Len(new) = Len(array)
  BY <1>1, <1>8, WrittenRows
<1>5. u \in Seq(Rows) /\ Len(u) = Len(t) + 1
  BY <1>1, Joined
<1> HIDE DEF new, u
<1>6. \A i \in 1 .. idx + 1 : new[i] = u[Len(u) - (idx + 1) + i]
  BY <1>1, <1>3, <1>5 DEF Begins
<1>7. Straight(new, Len(t) + 1, idx + 1, u, RingSize)
  BY <1>1, <1>4, <1>5, <1>6 DEF Straight
<1> QED
  BY <1>1, <1>4, <1>7 DEF Ready, Settled, new, u, rows

\* What a row that takes the place of the oldest leaves.
LEMMA WriteRound ==
  ASSUME NEW array \in Seq(Rows), NEW t \in Seq(Rows), NEW row \in Rows,
         NEW at \in 0 .. RingSize - 1, Len(array) = RingSize, Len(t) >= RingSize,
         \A i \in 1 .. RingSize :
           array[i] = t[Len(t) - at + i - (IF i > at THEN RingSize ELSE 0)]
  PROVE  Ready(Written(array, at, <<row>>), Len(t) + 1, at + 1, t \o <<row>>)
<1> DEFINE rows == <<row>>
           new == Written(array, at, rows)
           u == t \o rows
<1>1. /\ RingSize \in Nat /\ RingSize >= 1 /\ Len(t) \in Nat
      /\ at \in Nat /\ at < RingSize /\ at + 1 \in Nat
      /\ rows \in Seq(Rows) /\ Len(rows) = 1 /\ rows[1] = row
  BY RingSizes, Elements
<1> HIDE DEF rows
<1>8. at + Len(rows) <= Len(array) /\ at + Len(rows) = at + 1
  BY <1>1
<1>2. /\ new \in Seq(Rows) /\ Len(new) = RingSize
      /\ \A i \in 1 .. RingSize :
           new[i] = IF i > at /\ i <= at + 1 THEN rows[i - at] ELSE array[i]
  <2>1. /\ new \in Seq(Rows) /\ Len(new) = Len(array)
        /\ \A i \in 1 .. Len(array) :
             new[i] = IF i > at /\ i <= at + Len(rows) THEN rows[i - at] ELSE array[i]
    BY <1>1, <1>8, WrittenRows
  <2> QED
    BY <1>8, <2>1
<1>3. /\ u \in Seq(Rows) /\ Len(u) = Len(t) + 1
      /\ \A i \in 1 .. Len(t) + 1 : u[i] = IF i <= Len(t) THEN t[i] ELSE rows[i - Len(t)]
  <2>1. /\ u \in Seq(Rows) /\ Len(u) = Len(t) + Len(rows)
        /\ \A i \in 1 .. Len(t) + Len(rows) : u[i] = IF i <= Len(t) THEN t[i] ELSE rows[i - Len(t)]
    BY <1>1, Joined
  <2> QED
    BY <1>1, <2>1
<1> HIDE DEF new, u
<1>4. u[Len(t) + 1] = row
  <2>1. Len(t) + 1 \in 1 .. Len(t) + 1 /\ ~(Len(t) + 1 <= Len(t)) /\ Len(t) + 1 - Len(t) = 1
    BY <1>1
  <2> QED
    BY <1>1, <1>3, <2>1
<1>5. ASSUME NEW i \in 1 .. RingSize
      PROVE  new[i] = u[Len(u) - (at + 1) + i - (IF i > at + 1 THEN RingSize ELSE 0)]
  <2>1. i \in Nat /\ i >= 1 /\ i <= RingSize
    BY <1>1
  <2>2. CASE i <= at
    <3> DEFINE j == Len(t) - at + i
    <3>1. j \in 1 .. Len(t) + 1 /\ j <= Len(t) /\ ~(i > at) /\ ~(i > at + 1)
      BY <1>1, <2>1, <2>2
    <3>2. Len(t) - at + i - 0 = j /\ Len(u) - (at + 1) + i - 0 = j
      BY <1>1, <1>3, <2>1
    <3> HIDE DEF j
    <3>3. array[i] = t[j]
      BY <3>1, <3>2
    <3>4. new[i] = array[i]
      BY <1>2, <3>1
    <3>5. u[j] = t[j]
      BY <1>3, <3>1
    <3> QED
      BY <3>1, <3>2, <3>3, <3>4, <3>5
  <2>3. CASE i = at + 1
    <3>1. i > at /\ i <= at + 1 /\ i - at = 1 /\ ~(i > at + 1)
      BY <1>1, <2>3
    <3>2. Len(u) - (at + 1) + i - 0 = Len(t) + 1
      BY <1>1, <1>3, <2>3
    <3>3. new[i] = row
      BY <1>1, <1>2, <3>1
    <3> QED
      BY <1>4, <3>1, <3>2, <3>3
  <2>4. CASE i > at + 1
    <3> DEFINE j == Len(t) - at + i - RingSize
    <3>1. j \in 1 .. Len(t) + 1 /\ j <= Len(t) /\ i > at /\ ~(i <= at + 1)
      BY <1>1, <2>1, <2>4
    <3>2. Len(t) - at + i - RingSize = j /\ Len(u) - (at + 1) + i - RingSize = j
      BY <1>1, <1>3, <2>1
    <3> HIDE DEF j
    <3>3. array[i] = t[j]
      BY <3>1, <3>2
    <3>4. new[i] = array[i]
      BY <1>2, <3>1
    <3>5. u[j] = t[j]
      BY <1>3, <3>1
    <3> QED
      BY <2>4, <3>2, <3>3, <3>4, <3>5
  <2> QED
    BY <1>1, <2>1, <2>2, <2>3, <2>4
<1>6. CASE at + 1 = RingSize
  <2>1. ASSUME NEW i \in 1 .. at + 1
        PROVE  new[i] = u[Len(u) - (at + 1) + i]
    <3>1. i \in 1 .. RingSize /\ ~(i > at + 1) /\ Len(u) - (at + 1) + i - 0 = Len(u) - (at + 1) + i
      BY <1>1, <1>3, <1>6
    <3> QED
      BY <1>5, <3>1
  <2>2. Straight(new, Len(t) + 1, at + 1, u, RingSize)
    BY <1>1, <1>2, <1>3, <1>6, <2>1 DEF Straight
  <2> QED
    BY <1>2, <1>6, <2>2 DEF Ready, Settled, new, u, rows
<1>7. CASE at + 1 # RingSize
  <2>1. Rotated(new, Len(t) + 1, at + 1, u)
    BY <1>1, <1>2, <1>3, <1>5, <1>7 DEF Rotated
  <2> QED
    BY <2>1 DEF Ready, new, u, rows
<1> QED
  BY <1>6, <1>7

LEMMA WriteOpen ==
  ASSUME NEW array \in Seq(Rows), NEW offset, NEW idx, NEW t \in Seq(Rows), NEW row \in Rows,
         Room(array, offset, idx, t)
  PROVE  LET at == IF idx = RingSize THEN 0 ELSE idx IN
         /\ at \in Nat /\ at + 1 <= Len(array)
         /\ Ready(Written(array, at, <<row>>), offset + 1, at + 1, t \o <<row>>)
<1>1. Len(array) \in Nat /\ Len(t) \in Nat /\ RingSize \in Nat /\ RingSize >= 1 /\ Len(array) <= RingSize
  BY Elements, RingSizes DEF Room
<1>2. CASE Straight(array, offset, idx, t, RingSize) /\ idx = offset /\ idx < Len(array)
  <2>1. offset = Len(t) /\ idx = Len(t) /\ idx # RingSize /\ idx \in Nat /\ idx + 1 <= Len(array)
    BY <1>1, <1>2 DEF Straight
  <2> QED
    BY <1>1, <1>2, <2>1, WriteStraight
<1>3. CASE Straight(array, offset, idx, t, RingSize) /\ idx = Len(array) /\ idx = RingSize
  <2>1. offset = Len(t) /\ Len(t) >= RingSize
    BY <1>1, <1>3 DEF Straight
  <2>2. \A i \in 1 .. RingSize : array[i] = t[Len(t) - RingSize + i]
    BY <1>3 DEF Straight
  <2>3. \A i \in 1 .. RingSize : i > 0 /\ Len(t) - 0 + i - RingSize = Len(t) - RingSize + i
    BY <1>1
  <2>4. \A i \in 1 .. RingSize : array[i] = t[Len(t) - 0 + i - (IF i > 0 THEN RingSize ELSE 0)]
    BY <2>2, <2>3
  <2>5. 0 \in 0 .. RingSize - 1
    BY <1>1
  <2>6. Ready(Written(array, 0, <<row>>), Len(t) + 1, 0 + 1, t \o <<row>>)
    BY <1>3, <2>1, <2>4, <2>5, WriteRound
  <2> QED
    BY <1>1, <1>3, <2>1, <2>6
<1>4. CASE Rotated(array, offset, idx, t)
  <2>1. /\ offset = Len(t) /\ Len(t) >= RingSize
        /\ Len(array) = RingSize /\ idx \in 1 .. RingSize - 1
    BY <1>4 DEF Rotated
  <2>2. \A i \in 1 .. RingSize : array[i] = t[Len(t) - idx + i - (IF i > idx THEN RingSize ELSE 0)]
    BY <1>4 DEF Rotated
  <2>3. idx \in 0 .. RingSize - 1 /\ idx # RingSize /\ idx + 1 <= Len(array)
    BY <1>1, <2>1
  <2>4. Ready(Written(array, idx, <<row>>), Len(t) + 1, idx + 1, t \o <<row>>)
    BY <2>1, <2>2, <2>3, WriteRound
  <2> QED
    BY <1>1, <2>1, <2>3, <2>4
<1> QED
  BY <1>2, <1>3, <1>4 DEF Room

LEMMA GrowStraight ==
  ASSUME NEW array \in Seq(Rows), NEW t \in Seq(Rows), NEW offset, NEW idx,
         Straight(array, offset, idx, t, RingSize), idx = Len(array), idx = offset, Len(array) < RingSize
  PROVE  LET new == array \o Zeros(Min({Step, RingSize - offset})) IN
         new \in Seq(Rows) /\ Room(new, offset, offset, t)
<1> DEFINE n == Min({Step, RingSize - offset})
           new == array \o Zeros(n)
<1>1. /\ Len(array) \in Nat /\ Len(t) \in Nat /\ RingSize \in Nat /\ Step \in Nat /\ Step >= 1
      /\ offset = Len(t) /\ offset = Len(array)
  BY Elements, RingSizes, SizeAssumption DEF Straight
<1>2. n \in Nat /\ n >= 1 /\ n <= RingSize - offset
  <2>1. Step \in Int /\ RingSize - offset \in Int
    BY <1>1
  <2> QED
    BY <1>1, <2>1, MinOfTwo
<1> HIDE DEF n
<1>3. Begins(array, t, Len(t))
  <2>1. \A i \in 1 .. Len(t) : Len(t) - idx + i = i
    BY <1>1
  <2>2. \A i \in 1 .. Len(t) : array[i] = t[Len(t) - idx + i]
    BY <1>1 DEF Straight
  <2> QED
    BY <1>1, <2>1, <2>2 DEF Begins
<1>4. new \in Seq(Rows) /\ Len(new) = Len(array) + n /\ Begins(new, t, Len(t))
  BY <1>2, <1>3, BeginsExtended
<1> HIDE DEF new
<1>5. \A i \in 1 .. offset : new[i] = t[Len(t) - offset + i]
  <2>1. \A i \in 1 .. Len(t) : new[i] = t[i]
    BY <1>4 DEF Begins
  <2>2. \A i \in 1 .. offset : Len(t) - offset + i = i /\ i \in 1 .. Len(t)
    BY <1>1
  <2> QED
    BY <2>1, <2>2
<1>6. Len(new) <= RingSize /\ offset < Len(new)
  BY <1>1, <1>2, <1>4
<1>7. Straight(new, offset, offset, t, RingSize)
  BY <1>1, <1>5, <1>6, <1>4 DEF Straight
<1> QED
  BY <1>4, <1>6, <1>7 DEF Room, new, n

LEMMA CutStraight ==
  ASSUME NEW array \in Seq(Rows), NEW t \in Seq(Rows), NEW offset, NEW idx,
         Straight(array, offset, idx, t, RingSize), idx = Len(array), Len(array) > RingSize
  PROVE  LastN(array, RingSize) \in Seq(Rows) /\ Room(LastN(array, RingSize), offset, RingSize, t)
<1> DEFINE new == LastN(array, RingSize)
<1>1. Len(array) \in Nat /\ Len(t) \in Nat /\ RingSize \in Nat /\ RingSize >= 1
  BY Elements, RingSizes
<1>2. offset = Len(t) /\ Len(array) <= Len(t)
  BY DEF Straight
<1>3. \A i \in 1 .. Len(array) : array[i] = t[Len(t) - Len(array) + i]
  BY DEF Straight
<1>4. /\ new \in Seq(Rows) /\ Len(new) = RingSize
      /\ \A i \in 1 .. RingSize : new[i] = array[Len(array) - RingSize + i]
  <2> DEFINE m == IF RingSize <= Len(array) THEN RingSize ELSE Len(array)
  <2>1. /\ new \in Seq(Rows) /\ Len(new) = m
        /\ \A i \in 1 .. m : new[i] = array[Len(array) - m + i]
    BY <1>1, LastRows
  <2>2. m = RingSize
    BY <1>1
  <2> QED
    BY <2>1, <2>2
<1> HIDE DEF new
<1>5. ASSUME NEW i \in 1 .. RingSize
      PROVE  new[i] = t[Len(t) - RingSize + i]
  <2> DEFINE j == Len(array) - RingSize + i
  <2>1. j \in 1 .. Len(array) /\ Len(t) - Len(array) + j = Len(t) - RingSize + i
    BY <1>1
  <2>2. new[i] = array[j]
    BY <1>4
  <2> HIDE DEF j
  <2> QED
    BY <1>3, <2>1, <2>2
<1>6. Straight(new, offset, RingSize, t, RingSize)
  BY <1>1, <1>2, <1>4, <1>5 DEF Straight
<1> QED
  BY <1>1, <1>4, <1>6 DEF Room, new

LEMMA MakeRoom ==
  ASSUME NEW c, RingShape(c), NEW t \in Seq(Rows), RingReady(c, t),
         NEW shared \in SUBSET DOMAIN c.mem, c.keys \notin shared
  PROVE  LET d == RingCut(RingGrow(c)) IN
         /\ RingShape(d) /\ Keeping(c.mem, d.mem, shared) /\ d.keys \notin shared /\ d.keys # Nowhere
         /\ Room(ArrayOf(d), d.offset, d.idx, t)
<1> DEFINE array == ArrayOf(c)
<1>1. array \in Seq(Rows) /\ Len(array) \in Nat /\ Len(t) \in Nat /\ RingSize \in Nat /\ RingSize >= 1
  BY ArrayIsRows, Elements, RingSizes DEF RingShape
<1>2. Ready(array, c.offset, c.idx, t)
  BY DEF RingReady
<1>3. c.offset = Len(t)
  BY <1>2 DEF Ready, Straight, Rotated
<1>4. DOMAIN c = {"mem", "keys", "offset", "idx"}
  BY DEF RingShape
<1>5. CASE c.offset >= Len(array) /\ Len(array) < RingSize
  <2> DEFINE new == array \o Zeros(Min({Step, RingSize - c.offset}))
             d == [Refer(c, new) EXCEPT !.idx = c.offset]
  <2>1. Straight(array, c.offset, c.idx, t, RingSize)
    BY <1>1, <1>2, <1>5 DEF Ready, Rotated
  <2>2. c.idx = Len(array) /\ c.idx = c.offset
    BY <1>1, <1>3, <1>5, <2>1 DEF Straight
  <2>3. new \in Seq(Rows) /\ Room(new, c.offset, c.offset, t)
    BY <1>1, <1>5, <2>1, <2>2, GrowStraight
  <2> HIDE DEF new
  <2>4. Alike(Refer(c, new), d, {"offset", "idx"}) /\ d.offset = c.offset /\ d.idx = c.offset
    BY <1>4 DEF Refer, Alike
  <2>5. RingGrow(c) = d
    BY <1>5 DEF RingGrow, new
  <2> HIDE DEF d
  <2>6. /\ RingShape(d) /\ ArrayOf(d) = new
        /\ Keeping(c.mem, d.mem, DOMAIN c.mem) /\ d.keys \notin DOMAIN c.mem /\ d.keys # Nowhere
    BY <2>3, <2>4, ReferRing
  <2>7. Len(new) <= RingSize /\ Len(new) \in Nat
    BY <2>3, Elements DEF Room
  <2>8. RingCut(RingGrow(c)) = d
    BY <1>1, <2>5, <2>6, <2>7 DEF RingCut
  <2> QED
    BY <2>3, <2>4, <2>6, <2>8 DEF Keeping
<1>6. CASE ~(c.offset >= Len(array) /\ Len(array) < RingSize)
  <2>1. RingGrow(c) = c
    BY <1>6 DEF RingGrow
  <2>2. CASE Len(array) > RingSize
    <3> DEFINE new == LastN(array, RingSize)
               d == [Refer(c, new) EXCEPT !.idx = RingSize]
    <3>1. Straight(array, c.offset, c.idx, t, RingSize) /\ c.idx = Len(array)
      BY <1>1, <1>2, <2>2 DEF Ready, Rotated, Settled
    <3>2. new \in Seq(Rows) /\ Room(new, c.offset, RingSize, t)
      BY <1>1, <2>2, <3>1, CutStraight
    <3> HIDE DEF new
    <3>3. Alike(Refer(c, new), d, {"offset", "idx"}) /\ d.offset = c.offset /\ d.idx = RingSize
      BY <1>4 DEF Refer, Alike
    <3>4. RingCut(RingGrow(c)) = d
      BY <2>1, <2>2 DEF RingCut, new
    <3> HIDE DEF d
    <3>5. /\ RingShape(d) /\ ArrayOf(d) = new
          /\ Keeping(c.mem, d.mem, DOMAIN c.mem) /\ d.keys \notin DOMAIN c.mem /\ d.keys # Nowhere
      BY <3>2, <3>3, ReferRing
    <3> QED
      BY <3>2, <3>3, <3>4, <3>5 DEF Keeping
  <2>3. CASE ~(Len(array) > RingSize)
    <3>1. RingCut(RingGrow(c)) = c
      BY <2>1, <2>3 DEF RingCut
    <3>2. Room(array, c.offset, c.idx, t)
      <4>1. CASE Straight(array, c.offset, c.idx, t, RingSize) /\ Settled(array, c.offset, c.idx)
        <5>1. c.idx \in Nat /\ c.idx <= Len(array) /\ c.idx <= Len(t)
          BY <4>1 DEF Straight
        <5> QED
          BY <1>1, <1>3, <1>6, <2>3, <4>1, <5>1 DEF Settled, Room
      <4>2. CASE Rotated(array, c.offset, c.idx, t)
        BY <1>1, <2>3, <4>2 DEF Room
      <4> QED
        BY <1>2, <4>1, <4>2 DEF Ready
    <3>3. Len(array) >= 1
      BY <1>1, <1>3, <1>6
    <3>4. c.keys # Nowhere
      BY <1>1, <3>3, NoRows DEF ArrayOf
    <3> QED
      BY <3>1, <3>2, <3>4 DEF Keeping
  <2> QED
    BY <2>2, <2>3
<1> QED
  BY <1>5, <1>6

LEMMA RingWriteEffect ==
  ASSUME NEW c, RingShape(c), NEW t \in Seq(Rows), RingReady(c, t),
         NEW shared \in SUBSET DOMAIN c.mem, c.keys \notin shared, NEW row \in Rows
  PROVE  LET d == RingWrite(c, row) IN
         /\ RingShape(d) /\ Keeping(c.mem, d.mem, shared) /\ d.keys \notin shared
         /\ RingReady(d, t \o <<row>>) /\ Len(ArrayOf(d)) <= RingSize
<1> DEFINE e == RingCut(RingGrow(c))
           at == IF e.idx = RingSize THEN 0 ELSE e.idx
           rows == <<row>>
           f == WriteAt(e, at, rows)
           d == RingWrite(c, row)
<1>1. /\ RingShape(e) /\ Keeping(c.mem, e.mem, shared) /\ e.keys \notin shared /\ e.keys # Nowhere
      /\ Room(ArrayOf(e), e.offset, e.idx, t)
  BY MakeRoom
<1>2. d = [[f EXCEPT !.offset = @ + 1] EXCEPT !.idx = at + 1]
  BY DEF RingWrite
<1> HIDE DEF e
<1>3. ArrayOf(e) \in Seq(Rows) /\ Referring(e) /\ DOMAIN e = {"mem", "keys", "offset", "idx"}
  BY <1>1, ArrayIsRows DEF RingShape, Referring
<1>4. /\ at \in Nat /\ at + 1 <= Len(ArrayOf(e))
      /\ Ready(Written(ArrayOf(e), at, rows), e.offset + 1, at + 1, t \o rows)
  BY <1>1, <1>3, WriteOpen
<1>5. rows \in Seq(Rows) /\ Len(rows) = 1
  OBVIOUS
<1> HIDE DEF at, rows
<1>6. at + Len(rows) <= Len(ArrayOf(e))
  BY <1>4, <1>5
<1>7. /\ Referring(f) /\ Alike(e, f, {"mem"})
      /\ ArrayOf(f) = Written(ArrayOf(e), at, rows)
      /\ Keeping(e.mem, f.mem, DOMAIN e.mem \ {e.keys})
  BY <1>1, <1>3, <1>4, <1>5, <1>6, WriteEffect
<1> HIDE DEF f
<1>8. DOMAIN f = {"mem", "keys", "offset", "idx"} /\ f.offset = e.offset /\ f.keys = e.keys
  BY <1>3, <1>7 DEF Alike
<1>9. /\ DOMAIN d = DOMAIN f /\ d.mem = f.mem /\ d.keys = f.keys
      /\ d.offset = e.offset + 1 /\ d.idx = at + 1
  BY <1>2, <1>8
<1> HIDE DEF d
<1>10. RingShape(d) /\ ArrayOf(d) = ArrayOf(f)
  BY <1>7, <1>8, <1>9 DEF RingShape, Referring, Held, ArrayOf
<1>11. RingReady(d, t \o rows)
  BY <1>4, <1>7, <1>9, <1>10 DEF RingReady
<1>12. Len(ArrayOf(d)) = Len(ArrayOf(e))
  <2>1. Len(Written(ArrayOf(e), at, rows)) = Len(ArrayOf(e))
    BY <1>3, <1>4, <1>5, <1>6, WrittenRows
  <2> QED
    BY <1>7, <1>10, <2>1
<1>13. Len(ArrayOf(e)) <= RingSize
  BY <1>1 DEF Room
<1>14. Keeping(c.mem, d.mem, shared) /\ d.keys \notin shared
  BY <1>1, <1>7, <1>8, <1>9 DEF Keeping
<1> QED
  BY <1>10, <1>11, <1>12, <1>13, <1>14 DEF d, rows

LEMMA RingUpdateEffect ==
  ASSUME NEW c, RingShape(c), NEW t \in Seq(Rows), NEW rows \in Seq(Rows),
         RingLegible(c, t), Len(rows) = 1 => RingReady(c, t),
         NEW shared \in SUBSET DOMAIN c.mem, c.keys \notin shared
  PROVE  LET d == RingUpdate(c, rows) IN
         /\ RingShape(d) /\ Keeping(c.mem, d.mem, shared) /\ d.keys \notin shared
         /\ IF Len(rows) = 1
            THEN RingReady(d, t \o rows) /\ Len(ArrayOf(d)) <= RingSize
            ELSE /\ RingStraight(d, t \o rows, RingSize - 1 + Len(rows))
                 /\ d.idx = Len(ArrayOf(d))
<1>1. CASE Len(rows) = 1
  <2>1. rows[1] \in Rows /\ rows = <<rows[1]>>
    <3>1. rows[1] \in Rows
      BY <1>1, Elements
    <3>2. <<rows[1]>> \in Seq(Rows) /\ Len(<<rows[1]>>) = 1 /\ <<rows[1]>>[1] = rows[1]
      BY <3>1
    <3>3. \A i \in 1 .. 1 : rows[i] = <<rows[1]>>[i]
      BY <3>2
    <3> QED
      BY <1>1, <3>1, <3>2, <3>3, SameRows
  <2> DEFINE row == rows[1]
             d == RingWrite(c, row)
  <2>2. RingUpdate(c, rows) = d
    BY <1>1 DEF RingUpdate
  <2>3. row \in Rows /\ rows = <<row>>
    BY <2>1
  <2> HIDE DEF row
  <2>4. /\ RingShape(d) /\ Keeping(c.mem, d.mem, shared) /\ d.keys \notin shared
        /\ RingReady(d, t \o <<row>>) /\ Len(ArrayOf(d)) <= RingSize
    BY <1>1, <2>3, RingWriteEffect
  <2> HIDE DEF d
  <2>5. RingReady(d, t \o rows)
    BY <2>3, <2>4
  <2> QED
    BY <1>1, <2>2, <2>4, <2>5
<1>2. CASE Len(rows) # 1
  <2> DEFINE d == RingConcat(c, rows)
  <2>1. RingUpdate(c, rows) = d
    BY <1>2 DEF RingUpdate
  <2>2. /\ RingShape(d) /\ Keeping(c.mem, d.mem, DOMAIN c.mem) /\ d.keys \notin DOMAIN c.mem
        /\ RingStraight(d, t \o rows, RingSize - 1 + Len(rows)) /\ d.idx = Len(ArrayOf(d))
    BY RingConcatEffect
  <2> HIDE DEF d
  <2> QED
    BY <1>2, <2>1, <2>2 DEF Keeping
<1> QED
  BY <1>1, <1>2

\* Less is asked of what has more.
LEMMA StraightWeakened ==
  ASSUME NEW array, NEW offset, NEW idx, NEW t, NEW m \in Int, NEW n \in Int, m >= n,
         Straight(array, offset, idx, t, m)
  PROVE  Straight(array, offset, idx, t, n)
BY DEF Straight

LEMMA RingUpdateReady ==
  ASSUME NEW c, RingShape(c), NEW t \in Seq(Rows), NEW rows \in Seq(Rows), rows # << >>,
         RingReady(c, t),
         NEW shared \in SUBSET DOMAIN c.mem, c.keys \notin shared
  PROVE  LET d == RingUpdate(c, rows) IN
         /\ RingShape(d) /\ Keeping(c.mem, d.mem, shared) /\ d.keys \notin shared
         /\ RingReady(d, t \o rows)
         /\ Len(rows) # 1 => /\ RingStraight(d, t \o rows, RingSize - 1 + Len(rows))
                             /\ d.idx = Len(ArrayOf(d))
<1> DEFINE d == RingUpdate(c, rows)
<1>1. RingLegible(c, t)
  BY DEF RingReady, RingLegible, Ready, Legible
<1>2. /\ RingShape(d) /\ Keeping(c.mem, d.mem, shared) /\ d.keys \notin shared
      /\ IF Len(rows) = 1
         THEN RingReady(d, t \o rows) /\ Len(ArrayOf(d)) <= RingSize
         ELSE /\ RingStraight(d, t \o rows, RingSize - 1 + Len(rows))
              /\ d.idx = Len(ArrayOf(d))
  BY <1>1, RingUpdateEffect
<1> HIDE DEF d
<1>3. CASE Len(rows) # 1
  <2>1. RingSize - 1 + Len(rows) \in Int /\ RingSize \in Int /\ RingSize - 1 + Len(rows) >= RingSize
    BY Elements, EmptySeq, RingSizes
  <2>2. RingStraight(d, t \o rows, RingSize)
    BY <1>2, <1>3, <2>1, StraightWeakened DEF RingStraight
  <2>3. RingReady(d, t \o rows)
    BY <1>2, <1>3, <2>2 DEF RingReady, RingStraight, Ready, Settled
  <2> QED
    BY <1>2, <1>3, <2>3 DEF d
<1> QED
  BY <1>2, <1>3 DEF d

\* The last rows of what was read are taken back.
LEMMA TrimStraight ==
  ASSUME NEW array \in Seq(Rows), NEW offset, NEW idx, NEW t \in Seq(Rows), NEW w \in Int,
         Straight(array, offset, idx, t, w),
         NEW u \in Seq(Rows), Begins(t, u, Len(u)), Len(t) - Len(u) <= w
  PROVE  LET m == Len(t) - Len(u) IN
         m \in Nat /\ m <= idx /\ Straight(array, Len(u), idx - m, u, w - m)
<1> DEFINE m == Len(t) - Len(u)
<1>1. /\ Len(array) \in Nat /\ Len(t) \in Nat /\ Len(u) \in Nat /\ Len(u) <= Len(t)
      /\ \A i \in 1 .. Len(u) : t[i] = u[i]
  BY Elements DEF Begins
<1>2. /\ offset = Len(t) /\ idx \in Nat /\ idx <= Len(array) /\ idx <= Len(t)
      /\ idx = Len(t) \/ idx >= w
  BY DEF Straight
<1>3. \A i \in 1 .. idx : array[i] = t[Len(t) - idx + i]
  BY DEF Straight
<1>4. m \in Nat /\ m <= idx /\ Len(u) = Len(t) - m
  BY <1>1, <1>2
<1> HIDE DEF m
<1>5. ASSUME NEW i \in 1 .. idx - m
      PROVE  array[i] = u[Len(u) - (idx - m) + i]
  <2> DEFINE j == Len(t) - idx + i
  <2>1. i \in 1 .. idx /\ j \in 1 .. Len(u) /\ Len(u) - (idx - m) + i = j
    BY <1>1, <1>2, <1>4
  <2>2. array[i] = t[j]
    BY <1>3, <2>1
  <2> HIDE DEF j
  <2> QED
    BY <1>1, <2>1, <2>2
<1>6. /\ idx - m \in Nat /\ idx - m <= Len(array) /\ idx - m <= Len(u)
      /\ idx - m = Len(u) \/ idx - m >= w - m
  BY <1>1, <1>2, <1>4
<1>7. Straight(array, Len(u), idx - m, u, w - m)
  BY <1>5, <1>6 DEF Straight
<1> QED
  BY <1>4, <1>7 DEF m

LEMMA RingTrimEffect ==
  ASSUME NEW c, RingShape(c), NEW t \in Seq(Rows), NEW w \in Int, RingStraight(c, t, w),
         NEW u \in Seq(Rows), Begins(t, u, Len(u)), RingSize <= w - (Len(t) - Len(u))
  PROVE  LET d == RingTrim(c, c.offset - Len(u)) IN
         /\ RingShape(d) /\ d.mem = c.mem /\ d.keys = c.keys
         /\ RingStraight(d, u, RingSize)
<1> DEFINE m == Len(t) - Len(u)
           d == RingTrim(c, c.offset - Len(u))
<1>1. ArrayOf(c) \in Seq(Rows) /\ DOMAIN c = {"mem", "keys", "offset", "idx"}
  BY ArrayIsRows DEF RingShape
<1>2. Straight(ArrayOf(c), c.offset, c.idx, t, w)
  BY DEF RingStraight
<1>3. /\ Len(t) \in Nat /\ Len(u) \in Nat /\ RingSize \in Nat
      /\ c.offset = Len(t) /\ c.idx \in Nat
  BY <1>2, Elements, RingSizes DEF Straight
<1>4. m \in Int /\ m <= w
  BY <1>3
<1>5. m \in Nat /\ m <= c.idx /\ Straight(ArrayOf(c), Len(u), c.idx - m, u, w - m)
  BY <1>1, <1>2, <1>4, TrimStraight
<1>6. Min({c.offset - Len(u), c.offset}) = m
  <2>1. c.offset - Len(u) \in Int /\ c.offset \in Int
    BY <1>3
  <2> QED
    BY <1>3, <1>5, <2>1, MinOfTwo
<1>7. /\ DOMAIN d = DOMAIN c /\ d.mem = c.mem /\ d.keys = c.keys
      /\ d.offset = c.offset - m /\ d.idx = c.idx - m
  BY <1>1, <1>6 DEF RingTrim
<1> HIDE DEF d
<1>8. d.offset = Len(u) /\ ArrayOf(d) = ArrayOf(c)
  BY <1>3, <1>7 DEF ArrayOf
<1>9. w - m \in Int /\ RingSize \in Int /\ w - m >= RingSize
  BY <1>3, <1>4
<1> HIDE DEF m
<1>10. Straight(ArrayOf(c), Len(u), c.idx - m, u, RingSize)
  BY <1>5, <1>9, StraightWeakened
<1>11. RingShape(d)
  BY <1>1, <1>7 DEF RingShape, Held
<1> QED
  BY <1>7, <1>8, <1>10, <1>11 DEF RingStraight, d

LEMMA RingTrimRecentEffect ==
  ASSUME NEW c, RingShape(c), NEW t \in Seq(Rows), NEW w \in Int, RingStraight(c, t, w),
         c.idx = Len(ArrayOf(c)),
         NEW u \in Seq(Rows), Begins(t, u, Len(u)), RingSize <= w - (Len(t) - Len(u)),
         Len(u) < Len(t)
  PROVE  LET d == RingTrimRecent(c, c.offset - Len(u)) IN
         /\ RingShape(d) /\ Keeping(c.mem, d.mem, DOMAIN c.mem) /\ d.keys \notin DOMAIN c.mem
         /\ RingReady(d, u)
<1> DEFINE m == Len(t) - Len(u)
           d == RingTrimRecent(c, c.offset - Len(u))
           array == ArrayOf(c)
           new == FirstN(array, Len(array) - m)
<1>1. array \in Seq(Rows) /\ DOMAIN c = {"mem", "keys", "offset", "idx"}
  BY ArrayIsRows DEF RingShape
<1>2. Straight(array, c.offset, c.idx, t, w)
  BY DEF RingStraight
<1>3. /\ Len(t) \in Nat /\ Len(u) \in Nat /\ RingSize \in Nat /\ Len(array) \in Nat
      /\ c.offset = Len(t) /\ c.idx = Len(array)
  BY <1>1, <1>2, Elements, RingSizes DEF Straight
<1>4. m \in Int /\ m <= w /\ m > 0
  BY <1>3
<1>5. m \in Nat /\ m <= c.idx /\ Straight(array, Len(u), c.idx - m, u, w - m)
  BY <1>1, <1>2, <1>4, TrimStraight
<1>6. Min({c.offset - Len(u), c.offset}) = m
  <2>1. c.offset - Len(u) \in Int /\ c.offset \in Int
    BY <1>3
  <2> QED
    BY <1>3, <1>5, <2>1, MinOfTwo
<1>7. RingText(c) = array
  BY <1>3 DEF RingText, Ordered
<1>8. Max({0, Len(array) - m}) = Len(array) - m
  <2>1. 0 \in Int /\ Len(array) - m \in Int
    BY <1>3
  <2> QED
    BY <1>3, <1>5, <2>1, MaxOfTwo
<1>9. Len(array) - m \in 0 .. Len(array)
  BY <1>3, <1>5
<1>10. w - m \in Int /\ RingSize \in Int /\ w - m >= RingSize
  BY <1>3, <1>4
<1> HIDE DEF m
<1>11. /\ new \in Seq(Rows) /\ Len(new) = Len(array) - m
       /\ \A i \in 1 .. Len(array) - m : new[i] = array[i]
  BY <1>1, <1>9, FirstRows
<1>12. d = [[Refer(c, new) EXCEPT !.offset = @ - m] EXCEPT !.idx = Len(new)]
  <2>1. FirstN(RingText(c), Max({0, Len(RingText(c)) - m})) = new
    BY <1>7, <1>8
  <2>2. ~(m <= 0)
    BY <1>4
  <2> HIDE DEF new, array
  <2> QED
    BY <1>6, <2>1, <2>2 DEF RingTrimRecent
<1> HIDE DEF new, array
<1>13. Alike(Refer(c, new), d, {"offset", "idx"}) /\ d.offset = c.offset - m /\ d.idx = Len(new)
  BY <1>1, <1>12 DEF Refer, Alike
<1> HIDE DEF d
<1>14. /\ RingShape(d) /\ ArrayOf(d) = new
       /\ Keeping(c.mem, d.mem, DOMAIN c.mem) /\ d.keys \notin DOMAIN c.mem /\ d.keys # Nowhere
  BY <1>11, <1>13, ReferRing
<1>15. Straight(array, Len(u), Len(new), u, RingSize)
  BY <1>3, <1>5, <1>10, <1>11, StraightWeakened
<1>16. Straight(new, Len(u), Len(new), u, RingSize)
  BY <1>11, <1>15 DEF Straight
<1>17. c.offset - m = Len(u)
  BY <1>3 DEF m
<1> QED
  BY <1>13, <1>14, <1>16, <1>17 DEF RingReady, Ready, Settled, d

-----------------------------------------------------------------------------
(* What the attention of a ring reads. *)

\* Sequences that end in the same rows, one after the other.
LEMMA SameRange ==
  ASSUME NEW s \in Seq(Rows), NEW t \in Seq(Rows), Len(s) = Len(t),
         \A i \in 1 .. Len(s) : s[i] = t[i]
  PROVE  Range(s) = Range(t)
BY SameRows

LEMMA LastOfStraight ==
  ASSUME NEW array \in Seq(Rows), NEW offset, NEW t \in Seq(Rows), NEW w \in Nat, NEW n \in Nat,
         Straight(array, offset, Len(array), t, w), n <= w, n <= Len(t)
  PROVE  LastN(array, n) = LastN(t, n)
<1>1. Len(array) \in Nat /\ Len(t) \in Nat
  BY Elements
<1>2. /\ Len(array) <= Len(t) /\ (Len(array) = Len(t) \/ Len(array) >= w)
      /\ \A i \in 1 .. Len(array) : array[i] = t[Len(t) - Len(array) + i]
  BY DEF Straight
<1>3. n <= Len(array)
  BY <1>1, <1>2
<1>4. /\ LastN(array, n) \in Seq(Rows) /\ Len(LastN(array, n)) = n
      /\ \A i \in 1 .. n : LastN(array, n)[i] = array[Len(array) - n + i]
  <2> DEFINE m == IF n <= Len(array) THEN n ELSE Len(array)
  <2>1. /\ LastN(array, n) \in Seq(Rows) /\ Len(LastN(array, n)) = m
        /\ \A i \in 1 .. m : LastN(array, n)[i] = array[Len(array) - m + i]
    BY LastRows
  <2>2. m = n
    BY <1>3
  <2> QED
    BY <2>1, <2>2
<1>5. /\ LastN(t, n) \in Seq(Rows) /\ Len(LastN(t, n)) = n
      /\ \A i \in 1 .. n : LastN(t, n)[i] = t[Len(t) - n + i]
  <2> DEFINE m == IF n <= Len(t) THEN n ELSE Len(t)
  <2>1. /\ LastN(t, n) \in Seq(Rows) /\ Len(LastN(t, n)) = m
        /\ \A i \in 1 .. m : LastN(t, n)[i] = t[Len(t) - m + i]
    BY LastRows
  <2>2. m = n
    OBVIOUS
  <2> QED
    BY <2>1, <2>2
<1>6. ASSUME NEW i \in 1 .. n
      PROVE  LastN(array, n)[i] = LastN(t, n)[i]
  <2> DEFINE j == Len(array) - n + i
  <2>1. j \in 1 .. Len(array) /\ Len(t) - Len(array) + j = Len(t) - n + i
    BY <1>1, <1>3
  <2>2. LastN(array, n)[i] = array[j]
    BY <1>4
  <2> HIDE DEF j
  <2>3. array[j] = t[Len(t) - n + i]
    BY <1>2, <2>1
  <2> QED
    BY <1>5, <2>2, <2>3
<1> QED
  BY <1>4, <1>5, <1>6, SameRows

\* A ring that has just read a single row attends to all it holds.
LEMMA RangeOfReady ==
  ASSUME NEW array \in Seq(Rows), NEW offset, NEW idx, NEW t \in Seq(Rows),
         Ready(array, offset, idx, t), Len(array) <= RingSize
  PROVE  Range(FirstN(array, Min({offset, Len(array)}))) = Range(LastN(t, RingSize))
<1> DEFINE m == IF RingSize <= Len(t) THEN RingSize ELSE Len(t)
           k == Min({offset, Len(array)})
           s == FirstN(array, k)
           r == LastN(t, RingSize)
<1>1. Len(array) \in Nat /\ Len(t) \in Nat /\ RingSize \in Nat /\ RingSize >= 1
  BY Elements, RingSizes
<1>2. offset = Len(t)
  BY DEF Ready, Straight, Rotated
<1>3. k = IF Len(t) <= Len(array) THEN Len(t) ELSE Len(array)
  BY <1>1, <1>2, MinOfTwo
<1>4. /\ r \in Seq(Rows) /\ Len(r) = m
      /\ \A i \in 1 .. m : r[i] = t[Len(t) - m + i]
  BY <1>1, LastRows
<1> HIDE DEF k, m
<1>5. k \in 0 .. Len(array)
  BY <1>1, <1>3
<1>6. s \in Seq(Rows) /\ Len(s) = k /\ \A i \in 1 .. k : s[i] = array[i]
  BY <1>5, FirstRows
<1> HIDE DEF r, s
<1>7. CASE Straight(array, offset, idx, t, RingSize) /\ Settled(array, offset, idx)
  <2>1. /\ idx \in Nat /\ idx <= Len(array) /\ idx <= Len(t)
        /\ idx = Len(t) \/ idx >= RingSize
        /\ idx = Len(array) \/ idx = Len(t)
    BY <1>2, <1>7 DEF Straight, Settled
  <2>2. k = idx /\ m = idx
    BY <1>1, <1>3, <2>1 DEF m
  <2>3. \A i \in 1 .. idx : array[i] = t[Len(t) - idx + i]
    BY <1>7 DEF Straight
  <2>4. Len(s) = Len(r) /\ \A i \in 1 .. Len(s) : s[i] = r[i]
    BY <1>4, <1>6, <2>2, <2>3
  <2> QED
    BY <1>4, <1>6, <2>4, SameRange DEF r, s, k
<1>8. CASE Rotated(array, offset, idx, t)
  <2>1. /\ Len(t) >= RingSize /\ Len(array) = RingSize /\ idx \in 1 .. RingSize - 1
        /\ \A i \in 1 .. RingSize :
             array[i] = t[Len(t) - idx + i - (IF i > idx THEN RingSize ELSE 0)]
    BY <1>8 DEF Rotated
  <2>2. k = RingSize /\ m = RingSize
    BY <1>1, <1>3, <2>1 DEF m
  <2>3. DOMAIN s = 1 .. RingSize /\ DOMAIN r = 1 .. RingSize
    BY <1>4, <1>6, <2>2, Elements
  <2>4. ASSUME NEW i \in 1 .. RingSize
        PROVE  \E j \in 1 .. RingSize : s[i] = r[j]
    <3> DEFINE j == RingSize - idx + i - (IF i > idx THEN RingSize ELSE 0)
    <3>1. j \in 1 .. RingSize /\ Len(t) - RingSize + j = Len(t) - idx + i - (IF i > idx THEN RingSize ELSE 0)
      BY <1>1, <2>1
    <3>2. s[i] = t[Len(t) - idx + i - (IF i > idx THEN RingSize ELSE 0)]
      BY <1>6, <2>1, <2>2
    <3> HIDE DEF j
    <3>3. r[j] = t[Len(t) - RingSize + j]
      BY <1>4, <2>2, <3>1
    <3> QED
      BY <3>1, <3>2, <3>3
  <2>5. ASSUME NEW j \in 1 .. RingSize
        PROVE  \E i \in 1 .. RingSize : r[j] = s[i]
    <3> DEFINE i == j + idx - (IF j + idx > RingSize THEN RingSize ELSE 0)
    <3>1. /\ i \in 1 .. RingSize
          /\ Len(t) - RingSize + j = Len(t) - idx + i - (IF i > idx THEN RingSize ELSE 0)
      BY <1>1, <2>1
    <3>2. r[j] = t[Len(t) - RingSize + j]
      BY <1>4, <2>2
    <3> HIDE DEF i
    <3>3. s[i] = t[Len(t) - idx + i - (IF i > idx THEN RingSize ELSE 0)]
      BY <1>6, <2>1, <2>2, <3>1
    <3> QED
      BY <3>1, <3>2, <3>3
  <2>6. Range(s) = Range(r)
    <3>1. \A x \in Range(s) : x \in Range(r)
      BY <2>3, <2>4 DEF Range
    <3>2. \A x \in Range(r) : x \in Range(s)
      BY <2>3, <2>5 DEF Range
    <3> QED
      BY <3>1, <3>2
  <2> QED
    BY <2>6 DEF r, s, k
<1> QED
  BY <1>7, <1>8 DEF Ready

LEMMA LastNOfAll ==
  ASSUME NEW s \in Seq(Rows), NEW m \in Nat, NEW n \in Nat, m >= Len(s), n >= Len(s)
  PROVE  LastN(s, m) = LastN(s, n)
<1>1. Len(s) \in Nat /\ 0 \in Int /\ Len(s) - m \in Int /\ Len(s) - n \in Int
  BY Elements
<1>2. Max({0, Len(s) - m}) = 0
  BY <1>1, MaxOfTwo
<1>3. Max({0, Len(s) - n}) = 0
  BY <1>1, MaxOfTwo
<1> QED
  BY <1>2, <1>3 DEF LastN

LEMMA RingReads ==
  ASSUME NEW c, RingShape(c), NEW t \in Seq(Rows), NEW rows \in Seq(Rows),
         RingLegible(c, t), Len(rows) = 1 => RingReady(c, t)
  PROVE  Reads(c, t, rows)
<1> DEFINE d == RingUpdate(c, rows)
           u == t \o rows
<1>1. /\ RingShape(d)
      /\ IF Len(rows) = 1
         THEN RingReady(d, u) /\ Len(ArrayOf(d)) <= RingSize
         ELSE RingStraight(d, u, RingSize - 1 + Len(rows)) /\ d.idx = Len(ArrayOf(d))
  <2>1. {} \in SUBSET DOMAIN c.mem /\ c.keys \notin {}
    OBVIOUS
  <2> QED
    BY <2>1, RingUpdateEffect
<1> HIDE DEF d
<1>2. ArrayOf(d) \in Seq(Rows)
  BY <1>1, ArrayIsRows DEF RingShape
<1>3. u \in Seq(Rows) /\ Len(u) = Len(t) + Len(rows)
  BY Joined
<1> HIDE DEF u
<1>4. CASE Len(rows) = 1
  <2>1. Range(FirstN(ArrayOf(d), Min({d.offset, Len(ArrayOf(d))}))) = Range(LastN(u, RingSize))
    BY <1>1, <1>2, <1>3, <1>4, RangeOfReady DEF RingReady
  <2> QED
    BY <1>4, <2>1 DEF Reads, Attended, d, u
<1>5. CASE Len(rows) # 1
  <2> DEFINE n == Min({RingSize - 1, c.offset}) + Len(rows)
             w == RingSize - 1 + Len(rows)
  <2>1. c.offset = Len(t) /\ Len(t) \in Nat /\ Len(rows) \in Nat /\ RingSize \in Nat /\ RingSize >= 1
    BY Elements, RingSizes DEF RingLegible, Legible, Straight, Rotated
  <2>2. Min({RingSize - 1, c.offset}) = IF RingSize - 1 <= Len(t) THEN RingSize - 1 ELSE Len(t)
    <3>1. RingSize - 1 \in Int /\ c.offset \in Int
      BY <2>1
    <3> QED
      BY <2>1, <3>1, MinOfTwo
  <2>3. n \in Nat /\ w \in Nat /\ n <= w /\ n <= Len(u) /\ (n = w \/ n = Len(u))
    BY <1>3, <2>1, <2>2
  <2>4. Straight(ArrayOf(d), d.offset, Len(ArrayOf(d)), u, w)
    BY <1>1, <1>5 DEF RingStraight
  <2> HIDE DEF n, w
  <2>5. LastN(ArrayOf(d), n) = LastN(u, n)
    BY <1>2, <1>3, <2>3, <2>4, LastOfStraight
  <2>6. LastN(u, n) = LastN(u, w)
    <3>1. CASE n = w
      BY <3>1
    <3>2. CASE n = Len(u)
      BY <1>3, <2>3, <3>2, LastNOfAll
    <3> QED
      BY <2>3, <3>1, <3>2
  <2> QED
    BY <1>5, <2>5, <2>6 DEF Reads, Attended, d, u, n, w
<1> QED
  BY <1>4, <1>5

-----------------------------------------------------------------------------
(* The recurrent cache. *)

\* The window of the convolution after n more rows.
LEMMA Slid ==
  ASSUME NEW s \in Seq(Rows), Len(s) >= Keep, NEW rows \in Seq(Rows), NEW n \in 0 .. Len(rows)
  PROVE  /\ LastN(s, Keep) \o rows \in Seq(Rows)
         /\ Len(LastN(s, Keep) \o rows) = Keep + Len(rows)
         /\ SubSeq(LastN(s, Keep) \o rows, n + 1, n + Keep) = LastN(s \o FirstN(rows, n), Keep)
<1> DEFINE w == LastN(s, Keep)
           x == w \o rows
           r == FirstN(rows, n)
           y == s \o r
           z == LastN(y, Keep)
           v == SubSeq(x, n + 1, n + Keep)
<1>1. Keep \in Nat /\ Len(s) \in Nat /\ Len(rows) \in Nat /\ n \in Nat /\ n <= Len(rows)
  BY Elements, SizeAssumption
<1>2. w \in Seq(Rows) /\ Len(w) = Keep /\ \A i \in 1 .. Keep : w[i] = s[Len(s) - Keep + i]
  <2> DEFINE m == IF Keep <= Len(s) THEN Keep ELSE Len(s)
  <2>1. w \in Seq(Rows) /\ Len(w) = m /\ \A i \in 1 .. m : w[i] = s[Len(s) - m + i]
    BY <1>1, LastRows
  <2>2. m = Keep
    BY <1>1
  <2> QED
    BY <2>1, <2>2
<1>3. r \in Seq(Rows) /\ Len(r) = n /\ \A i \in 1 .. n : r[i] = rows[i]
  BY FirstRows
<1> HIDE DEF w, r
<1>4. /\ x \in Seq(Rows) /\ Len(x) = Keep + Len(rows)
      /\ \A i \in 1 .. Keep + Len(rows) : x[i] = IF i <= Keep THEN w[i] ELSE rows[i - Keep]
  <2>1. /\ x \in Seq(Rows) /\ Len(x) = Len(w) + Len(rows)
        /\ \A i \in 1 .. Len(w) + Len(rows) : x[i] = IF i <= Len(w) THEN w[i] ELSE rows[i - Len(w)]
    BY <1>2, Joined
  <2> QED
    BY <1>2, <2>1
<1>5. /\ y \in Seq(Rows) /\ Len(y) = Len(s) + n
      /\ \A i \in 1 .. Len(s) + n : y[i] = IF i <= Len(s) THEN s[i] ELSE r[i - Len(s)]
  <2>1. /\ y \in Seq(Rows) /\ Len(y) = Len(s) + Len(r)
        /\ \A i \in 1 .. Len(s) + Len(r) : y[i] = IF i <= Len(s) THEN s[i] ELSE r[i - Len(s)]
    BY <1>3, Joined
  <2> QED
    BY <1>3, <2>1
<1> HIDE DEF x, y
<1>6. z \in Seq(Rows) /\ Len(z) = Keep /\ \A i \in 1 .. Keep : z[i] = y[Len(s) + n - Keep + i]
  <2> DEFINE m == IF Keep <= Len(y) THEN Keep ELSE Len(y)
  <2>1. z \in Seq(Rows) /\ Len(z) = m /\ \A i \in 1 .. m : z[i] = y[Len(y) - m + i]
    BY <1>1, <1>5, LastRows
  <2>2. m = Keep
    BY <1>1, <1>5
  <2>3. Len(y) - Keep = Len(s) + n - Keep
    BY <1>1, <1>5
  <2> HIDE DEF z, m
  <2> QED
    BY <2>1, <2>2, <2>3
<1>7. v \in Seq(Rows) /\ Len(v) = Keep /\ \A i \in 1 .. Keep : v[i] = x[n + i]
  <2> DEFINE a == n + 1
             b == n + Keep
  <2>1. a \in 1 .. Len(x) + 1 /\ b \in a - 1 .. Len(x)
    BY <1>1, <1>4
  <2>3. b - a + 1 = Keep /\ \A i \in 1 .. Keep : a + i - 1 = n + i
    BY <1>1
  <2>4. v = SubSeq(x, a, b)
    OBVIOUS
  <2> HIDE DEF a, b, v
  <2>2. /\ v \in Seq(Rows) /\ Len(v) = b - a + 1
        /\ \A i \in 1 .. b - a + 1 : v[i] = x[a + i - 1]
    BY <1>4, <2>1, <2>4, Slice
  <2> QED
    BY <2>2, <2>3
<1> HIDE DEF z, v
<1>8. ASSUME NEW i \in 1 .. Keep
      PROVE  v[i] = z[i]
  <2> DEFINE j == n + i
             k == Len(s) + n - Keep + i
  <2>1. j \in 1 .. Keep + Len(rows) /\ k \in 1 .. Len(s) + n
    BY <1>1
  <2>2. v[i] = x[j] /\ z[i] = y[k]
    BY <1>6, <1>7
  <2>3. CASE j <= Keep
    <3>1. j \in 1 .. Keep /\ k <= Len(s) /\ Len(s) - Keep + j = k
      BY <1>1, <2>3
    <3> HIDE DEF j, k
    <3>2. x[j] = w[j] /\ y[k] = s[k]
      BY <1>4, <1>5, <2>1, <3>1
    <3>3. w[j] = s[Len(s) - Keep + j]
      BY <1>2, <3>1
    <3> QED
      BY <2>2, <3>1, <3>2, <3>3
  <2>4. CASE ~(j <= Keep)
    <3>1. ~(k <= Len(s)) /\ k - Len(s) = j - Keep /\ j - Keep \in 1 .. n
      BY <1>1, <2>4
    <3> HIDE DEF j, k
    <3>2. x[j] = rows[j - Keep] /\ y[k] = r[k - Len(s)]
      BY <1>4, <1>5, <2>1, <2>4, <3>1
    <3>3. r[j - Keep] = rows[j - Keep]
      BY <1>3, <3>1
    <3> QED
      BY <2>2, <3>1, <3>2, <3>3
  <2> QED
    BY <2>3, <2>4
<1>9. v = z
  BY <1>6, <1>7, <1>8, SameRows
<1> QED
  BY <1>4, <1>9 DEF v, x, w, z, y, r

\* The window of what was read, of a longer text.
LEMMA Convolved ==
  ASSUME NEW t \in Seq(Rows), NEW rows \in Seq(Rows), NEW n \in 0 .. Len(rows)
  PROVE  LET w == LastN(Zeros(Keep) \o t, Keep) IN
         /\ w \o rows \in Seq(Rows) /\ Len(w \o rows) = Keep + Len(rows)
         /\ SubSeq(w \o rows, n + 1, n + Keep) = LastN(Zeros(Keep) \o (t \o FirstN(rows, n)), Keep)
<1> DEFINE s == Zeros(Keep) \o t
           r == FirstN(rows, n)
<1>1. Keep \in Nat /\ Zeros(Keep) \in Seq(Rows) /\ Len(Zeros(Keep)) = Keep
  BY SizeAssumption, BlankRows
<1>2. s \in Seq(Rows) /\ Len(s) = Keep + Len(t) /\ Len(t) \in Nat
  BY <1>1, Joined, Elements
<1>3. r \in Seq(Rows)
  BY FirstRows
<1>4. s \o r = Zeros(Keep) \o (t \o r)
  BY <1>1, <1>3, ConcatAssociative
<1>5. Len(s) >= Keep
  BY <1>1, <1>2
<1> HIDE DEF s
<1>6. /\ LastN(s, Keep) \o rows \in Seq(Rows)
      /\ Len(LastN(s, Keep) \o rows) = Keep + Len(rows)
      /\ SubSeq(LastN(s, Keep) \o rows, n + 1, n + Keep) = LastN(s \o r, Keep)
  BY <1>2, <1>5, Slid
<1> QED
  BY <1>4, <1>6 DEF s

LEMMA FirstOfAll ==
  ASSUME NEW s \in Seq(Rows)
  PROVE  FirstN(s, Len(s)) = s
<1>1. Len(s) \in 0 .. Len(s)
  BY Elements
<1> QED
  BY <1>1, FirstRows, SameRows

LEMMA RecAppend ==
  ASSUME NEW state, NEW conv, NEW t \in Seq(Rows), RecReads(state, conv, t), NEW rows \in Seq(Rows)
  PROVE  RecReads(state \o rows, LastN(conv \o rows, Keep), t \o rows)
<1> DEFINE w == LastN(Zeros(Keep) \o t, Keep)
           x == w \o rows
<1>1. Len(rows) \in Nat /\ Len(rows) \in 0 .. Len(rows) /\ Keep \in Nat
  BY Elements, SizeAssumption
<1>2. /\ x \in Seq(Rows) /\ Len(x) = Keep + Len(rows)
      /\ SubSeq(x, Len(rows) + 1, Len(rows) + Keep) = LastN(Zeros(Keep) \o (t \o rows), Keep)
  BY <1>1, Convolved, FirstOfAll
<1> HIDE DEF x
<1>3. Max({0, Len(x) - Keep}) = Len(rows)
  <2> DEFINE n == Len(x) - Keep
  <2>1. 0 \in Int /\ n \in Int /\ n = Len(rows)
    BY <1>1, <1>2
  <2> HIDE DEF n
  <2>2. Max({0, n}) = IF 0 >= n THEN 0 ELSE n
    BY <2>1, MaxOfTwo
  <2>3. Max({0, n}) = Len(rows)
    BY <1>1, <2>1, <2>2
  <2> QED
    BY <2>3 DEF n
<1>4. Len(rows) + Keep = Len(x)
  BY <1>1, <1>2
<1>5. LastN(x, Keep) = LastN(Zeros(Keep) \o (t \o rows), Keep)
  BY <1>2, <1>3, <1>4 DEF LastN
<1> QED
  BY <1>5 DEF RecReads, x

RecShape(c) == DOMAIN c = {"state", "conv", "armed", "saved", "tape"}

LEMMA RecUpdateEffect ==
  ASSUME NEW c, RecShape(c), NEW t \in Seq(Rows), RecReads(c.state, c.conv, t), NEW rows \in Seq(Rows)
  PROVE  LET d == RecUpdate(c, rows) IN
         /\ RecShape(d) /\ RecReads(d.state, d.conv, t \o rows)
         /\ d.saved = c.saved /\ d.armed = c.armed /\ (c.armed => d.tape = rows)
<1> DEFINE d == RecUpdate(c, rows)
<1>1. /\ DOMAIN d = DOMAIN c /\ d.state = c.state \o rows /\ d.conv = LastN(c.conv \o rows, Keep)
      /\ d.saved = c.saved /\ d.armed = c.armed /\ (c.armed => d.tape = rows)
  BY DEF RecUpdate, RecShape
<1>2. RecReads(c.state \o rows, LastN(c.conv \o rows, Keep), t \o rows)
  BY RecAppend
<1> QED
  BY <1>1, <1>2 DEF RecShape

LEMMA ArmEffect ==
  ASSUME NEW c, RecShape(c)
  PROVE  LET d == ArmRollback(c) IN
         /\ RecShape(d) /\ d.state = c.state /\ d.conv = c.conv /\ d.armed
         /\ d.saved = <<[state |-> c.state, conv |-> c.conv]>>
BY DEF ArmRollback, RecShape

LEMMA ClearedEffect ==
  ASSUME NEW c, RecShape(c)
  PROVE  RecShape(Cleared(c)) /\ Cleared(c).state = c.state /\ Cleared(c).conv = c.conv
BY DEF Cleared, RecShape

LEMMA RollbackEffect ==
  ASSUME NEW c, RecShape(c), NEW t \in Seq(Rows), NEW accepted \in Nat,
         c.saved # << >>, RecReads(c.saved[1].state, c.saved[1].conv, t),
         c.tape \in Seq(Rows), accepted + 1 <= Len(c.tape)
  PROVE  LET d == Rollback(c, accepted) IN
         RecShape(d) /\ RecReads(d.state, d.conv, t \o FirstN(c.tape, accepted + 1))
<1> DEFINE saved == c.saved[1]
           n == accepted + 1
           tape == c.tape
           back == [c EXCEPT !.state = saved.state, !.conv = saved.conv]
           redone == [back EXCEPT !.state = saved.state \o FirstN(tape, n),
                                  !.conv = RebuildConvState(saved, tape, n)]
<1>1. tape # << >>
  BY NoRows
<1>2. Rollback(c, accepted) = Cleared(redone)
  BY <1>1 DEF Rollback
<1>3. RecShape(redone) /\ redone.state = saved.state \o FirstN(tape, n)
      /\ redone.conv = RebuildConvState(saved, tape, n)
  BY DEF RecShape
<1> HIDE DEF redone, back, saved, n, tape
<1>4. RecShape(Cleared(redone)) /\ Cleared(redone).state = redone.state /\ Cleared(redone).conv = redone.conv
  BY <1>3, ClearedEffect
<1>5. /\ saved.state = t /\ saved.conv = LastN(Zeros(Keep) \o t, Keep)
      /\ tape \in Seq(Rows) /\ Len(tape) \in Nat /\ n \in Nat /\ n <= Len(tape)
  BY Elements DEF RecReads, saved, tape, n
<1>6. Min({n + Keep, Keep + Len(tape)}) = n + Keep
  <2>1. n + Keep \in Int /\ Keep + Len(tape) \in Int /\ Keep \in Int
    BY <1>5, SizeAssumption
  <2> QED
    BY <1>5, <2>1, MinOfTwo
<1>7. SubSeq(saved.conv \o tape, n + 1, n + Keep) = LastN(Zeros(Keep) \o (t \o FirstN(tape, n)), Keep)
  <2>1. n \in 0 .. Len(tape)
    BY <1>5
  <2> QED
    <3> DEFINE w == LastN(Zeros(Keep) \o t, Keep)
    <3>1. SubSeq(w \o tape, n + 1, n + Keep) = LastN(Zeros(Keep) \o (t \o FirstN(tape, n)), Keep)
      BY <1>5, <2>1, Convolved
    <3>2. saved.conv = w
      BY <1>5
    <3> QED
      BY <3>1, <3>2
<1>8. RebuildConvState(saved, tape, n) = LastN(Zeros(Keep) \o (t \o FirstN(tape, n)), Keep)
  BY <1>6, <1>7 DEF RebuildConvState
<1> QED
  BY <1>2, <1>3, <1>4, <1>5, <1>8 DEF RecReads, n, tape

-----------------------------------------------------------------------------
(* The full context of the draft model. *)

\* Every array is as it was, or has these rows behind the first n.
Overlaid(mem, other, n, rows) ==
  \A a \in DOMAIN mem :
    /\ a \in DOMAIN other
    /\ \/ other[a] = mem[a]
       \/ n + Len(rows) <= Len(mem[a]) /\ other[a] = Written(mem[a], n, rows)

LEMMA FullPutEffect ==
  ASSUME NEW c, FullShape(c), NEW t \in Seq(Rows), FullReads(c, t),
         NEW rows \in Seq(Rows), rows # << >> \/ t # << >>
  PROVE  LET d == FullPut(c, rows) IN
         /\ FullShape(d) /\ d.offset = c.offset /\ d.length = c.length
         /\ Begins(ArrayOf(d), t \o rows, Len(t \o rows))
         /\ Overlaid(c.mem, d.mem, Len(t), rows)
         /\ \A a \in DOMAIN c.mem \ {c.keys} : d.mem[a] = c.mem[a]
         /\ d.keys = c.keys \/ d.keys \notin DOMAIN c.mem
<1> DEFINE old == ArrayOf(c)
           needed == c.length + Len(rows)
           room == needed <= Len(old)
           n == RoundedUp(needed) - c.length
           array == FirstN(old, c.length) \o Zeros(n)
           e == IF room THEN c ELSE Refer(c, array)
           d == FullPut(c, rows)
<1>1. Referring(c) /\ DOMAIN c = {"mem", "keys", "length", "offset"}
  BY DEF FullShape, Referring
<1>2. old \in Seq(Rows)
  BY <1>1, ArrayIsRows DEF Referring
<1>3. c.length = Len(t) /\ Begins(old, t, Len(t))
  BY DEF FullReads
<1>4. Len(t) \in Nat /\ Len(rows) \in Nat /\ Len(t) + Len(rows) > 0 /\ Len(old) \in Nat
  BY <1>2, Elements, EmptySeq
<1>5. d = WriteAt(e, c.length, rows)
  BY DEF FullPut
<1>6. n \in Nat /\ Len(rows) <= n
  <2>1. RoundedUp(needed) \in Nat /\ needed <= RoundedUp(needed)
    BY <1>3, <1>4, RoundedUpCovers
  <2> QED
    BY <1>3, <1>4, <2>1
<1> HIDE DEF n, d
<1>7. /\ Referring(e) /\ DOMAIN e = DOMAIN c /\ e.offset = c.offset /\ e.length = c.length
      /\ e.keys # Nowhere /\ (e.keys = c.keys \/ e.keys \notin DOMAIN c.mem)
      /\ Keeping(c.mem, e.mem, DOMAIN c.mem)
      /\ ArrayOf(e) \in Seq(Rows) /\ Begins(ArrayOf(e), t, Len(t))
      /\ Len(t) + Len(rows) <= Len(ArrayOf(e))
  <2>1. CASE room
    <3>1. c.keys # Nowhere
      BY <1>3, <1>4, <2>1, NoRows DEF ArrayOf
    <3>2. Keeping(c.mem, c.mem, DOMAIN c.mem)
      BY DEF Keeping
    <3> QED
      BY <1>1, <1>2, <1>3, <2>1, <3>1, <3>2
  <2>2. CASE ~room
    <3> DEFINE kept == FirstN(old, Len(t))
    <3>1. kept = t /\ kept \in Seq(Rows) /\ Begins(kept, t, Len(t))
      BY <1>2, <1>3, BeginsCut
    <3>2. array = kept \o Zeros(n)
      BY <1>3
    <3> HIDE DEF array, kept
    <3>3. /\ array \in Seq(Rows) /\ Len(array) = Len(kept) + n
          /\ Begins(array, t, Len(t))
      BY <1>6, <3>1, <3>2, BeginsExtended
    <3>4. Len(t) + Len(rows) <= Len(array)
      BY <1>4, <1>6, <3>1, <3>3
    <3>5. /\ Referring(Refer(c, array)) /\ Alike(c, Refer(c, array), {"mem", "keys"})
          /\ ArrayOf(Refer(c, array)) = array
          /\ Refer(c, array).keys # Nowhere /\ Refer(c, array).keys \notin DOMAIN c.mem
          /\ Keeping(c.mem, Refer(c, array).mem, DOMAIN c.mem)
      BY <1>1, <3>3, ReferEffect
    <3>6. e = Refer(c, array)
      BY <2>2
    <3> HIDE DEF e
    <3>7. DOMAIN e = DOMAIN c /\ e.offset = c.offset /\ e.length = c.length
      BY <3>5, <3>6, <1>1 DEF Alike
    <3> QED
      BY <3>3, <3>4, <3>5, <3>6, <3>7
  <2> QED
    BY <2>1, <2>2
<1> HIDE DEF e
<1>8. /\ Referring(d) /\ Alike(e, d, {"mem"})
      /\ ArrayOf(d) = Written(ArrayOf(e), Len(t), rows)
      /\ Keeping(e.mem, d.mem, DOMAIN e.mem \ {e.keys})
  BY <1>3, <1>4, <1>5, <1>7, WriteEffect
<1>9. DOMAIN d = DOMAIN c /\ d.offset = c.offset /\ d.length = c.length /\ d.keys = e.keys
  BY <1>1, <1>7, <1>8 DEF Alike
<1>10. FullShape(d)
  BY <1>1, <1>8, <1>9 DEF FullShape, Referring
<1>11. Begins(ArrayOf(d), t \o rows, Len(t \o rows))
  BY <1>7, <1>8, BeginsWritten
<1>12. \A a \in DOMAIN c.mem \ {c.keys} : d.mem[a] = c.mem[a]
  BY <1>7, <1>8 DEF Keeping
<1>13. d.keys \in DOMAIN d.mem /\ ArrayOf(d) = d.mem[d.keys] /\ ArrayOf(e) = e.mem[e.keys]
  BY <1>7, <1>8, <1>9 DEF ArrayOf, Referring, Held
<1>14. Overlaid(c.mem, d.mem, Len(t), rows)
  <2>1. SUFFICES ASSUME NEW a \in DOMAIN c.mem
                 PROVE  /\ a \in DOMAIN d.mem
                        /\ \/ d.mem[a] = c.mem[a]
                           \/ /\ Len(t) + Len(rows) <= Len(c.mem[a])
                              /\ d.mem[a] = Written(c.mem[a], Len(t), rows)
    BY DEF Overlaid
  <2>2. CASE a # e.keys
    BY <1>7, <1>8, <2>2 DEF Keeping
  <2>3. CASE a = e.keys
    <3>1. e.mem[a] = c.mem[a]
      BY <1>7 DEF Keeping
    <3> QED
      BY <1>7, <1>8, <1>9, <1>13, <2>3, <3>1
  <2> QED
    BY <2>2, <2>3
<1> QED
  BY <1>7, <1>9, <1>10, <1>11, <1>12, <1>14 DEF d

\* Rows put where they belong, or behind.
LEMMA WrittenKeeps ==
  ASSUME NEW array \in Seq(Rows), NEW t \in Seq(Rows), Begins(array, t, Len(t)),
         NEW n \in Nat, NEW rows \in Seq(Rows), n + Len(rows) <= Len(array),
         \A i \in 1 .. Len(t) : i > n /\ i <= n + Len(rows) => t[i] = rows[i - n]
  PROVE  Begins(Written(array, n, rows), t, Len(t))
<1>1. Len(t) \in Nat /\ Len(array) \in Nat /\ Len(t) <= Len(array)
  BY Elements DEF Begins
<1>2. /\ Len(Written(array, n, rows)) = Len(array)
      /\ \A i \in 1 .. Len(array) :
           Written(array, n, rows)[i] =
             IF i > n /\ i <= n + Len(rows) THEN rows[i - n] ELSE array[i]
  BY WrittenRows
<1>3. \A i \in 1 .. Len(t) : array[i] = t[i] /\ i \in 1 .. Len(array)
  BY <1>1 DEF Begins
<1>4. \A i \in 1 .. Len(t) : Written(array, n, rows)[i] = t[i]
  BY <1>2, <1>3
<1> QED
  BY <1>1, <1>2, <1>4 DEF Begins

\* A longer beginning is a shorter one.
LEMMA BeginsLess ==
  ASSUME NEW array \in Seq(Rows), NEW t \in Seq(Rows), NEW u \in Seq(Rows),
         Begins(array, t \o u, Len(t \o u))
  PROVE  Begins(array, t, Len(t))
<1>1. Len(t) \in Nat /\ Len(u) \in Nat /\ Len(array) \in Nat
  BY Elements
<1>2. /\ Len(t \o u) = Len(t) + Len(u)
      /\ \A i \in 1 .. Len(t) + Len(u) : (t \o u)[i] = IF i <= Len(t) THEN t[i] ELSE u[i - Len(t)]
  BY Joined
<1>3. /\ Len(t) + Len(u) <= Len(array)
      /\ \A i \in 1 .. Len(t) + Len(u) : array[i] = (t \o u)[i]
  BY <1>2 DEF Begins
<1>4. \A i \in 1 .. Len(t) : i \in 1 .. Len(t) + Len(u) /\ i <= Len(t)
  BY <1>1
<1> QED
  BY <1>1, <1>2, <1>3, <1>4 DEF Begins

\* The arrays that begin with t still do.
TextKept(mem, other, t) ==
  \A a \in DOMAIN mem :
    a \in DOMAIN other /\ (Begins(mem[a], t, Len(t)) => Begins(other[a], t, Len(t)))

LEMMA OverlaidKeeps ==
  ASSUME NEW mem, Memory(mem), NEW other, NEW n \in Nat, NEW rows \in Seq(Rows),
         Overlaid(mem, other, n, rows), NEW t \in Seq(Rows),
         \A i \in 1 .. Len(t) : i > n /\ i <= n + Len(rows) => t[i] = rows[i - n]
  PROVE  TextKept(mem, other, t)
<1>1. SUFFICES ASSUME NEW a \in DOMAIN mem
               PROVE  a \in DOMAIN other /\ (Begins(mem[a], t, Len(t)) => Begins(other[a], t, Len(t)))
  BY DEF TextKept
<1>2. mem[a] \in Seq(Rows)
  BY DEF Memory
<1>3. /\ a \in DOMAIN other
      /\ \/ other[a] = mem[a]
         \/ n + Len(rows) <= Len(mem[a]) /\ other[a] = Written(mem[a], n, rows)
  BY DEF Overlaid
<1>4. CASE other[a] = mem[a]
  BY <1>3, <1>4
<1>5. CASE n + Len(rows) <= Len(mem[a]) /\ other[a] = Written(mem[a], n, rows)
  BY <1>2, <1>3, <1>5, WrittenKeeps
<1> QED
  BY <1>3, <1>4, <1>5

LEMMA FullAppendEffect ==
  ASSUME NEW c, FullShape(c), NEW t \in Seq(Rows), FullReads(c, t), NEW rows \in Seq(Rows)
  PROVE  LET d == FullAppend(c, rows) IN
         /\ FullShape(d) /\ FullReads(d, t \o rows)
         /\ TextKept(c.mem, d.mem, t) /\ TextKept(c.mem, d.mem, t \o rows)
<1> DEFINE e == FullPut(c, rows)
           d == FullAppend(c, rows)
           u == t \o rows
<1>1. Len(t) \in Nat /\ Len(rows) \in Nat
  BY Elements
<1>2. /\ u \in Seq(Rows) /\ Len(u) = Len(t) + Len(rows)
      /\ \A i \in 1 .. Len(t) + Len(rows) : u[i] = IF i <= Len(t) THEN t[i] ELSE rows[i - Len(t)]
  BY Joined
<1>3. CASE rows = << >>
  <2>1. d = c /\ u = t
    BY <1>3, ConcatEmptySeq DEF FullAppend
  <2> QED
    BY <2>1 DEF TextKept
<1>4. CASE rows # << >>
  <2>1. /\ FullShape(e) /\ e.offset = c.offset /\ e.length = c.length
        /\ Begins(ArrayOf(e), u, Len(u))
        /\ Overlaid(c.mem, e.mem, Len(t), rows)
    BY <1>4, FullPutEffect
  <2>2. d = [[e EXCEPT !.length = @ + Len(rows)] EXCEPT !.offset = @ + Len(rows)]
    BY <1>4 DEF FullAppend
  <2> HIDE DEF e, d, u
  <2>3. DOMAIN e = {"mem", "keys", "length", "offset"} /\ c.length = Len(t) /\ c.offset = Len(t)
    BY <2>1 DEF FullShape, FullReads
  <2>4. /\ DOMAIN d = DOMAIN e /\ d.mem = e.mem /\ d.keys = e.keys
        /\ d.length = Len(u) /\ d.offset = Len(u)
    BY <1>1, <1>2, <2>1, <2>2, <2>3
  <2>5. FullShape(d) /\ FullReads(d, u)
    BY <2>1, <2>4 DEF FullShape, FullReads, Held, ArrayOf
  <2>6. Memory(c.mem)
    BY DEF FullShape, Held
  <2>7. TextKept(c.mem, d.mem, t)
    <3>1. \A i \in 1 .. Len(t) : i > Len(t) /\ i <= Len(t) + Len(rows) => t[i] = rows[i - Len(t)]
      BY <1>1
    <3> QED
      BY <1>1, <2>1, <2>4, <2>6, <3>1, OverlaidKeeps
  <2>8. TextKept(c.mem, d.mem, u)
    <3>1. \A i \in 1 .. Len(u) : i > Len(t) /\ i <= Len(t) + Len(rows) => u[i] = rows[i - Len(t)]
      BY <1>1, <1>2
    <3> QED
      BY <1>1, <1>2, <2>1, <2>4, <2>6, <3>1, OverlaidKeeps
  <2> QED
    BY <2>5, <2>7, <2>8 DEF d, u
<1> QED
  BY <1>3, <1>4

\* A draft reads what it has not read, and leaves the block behind it.
LEMMA DraftFullEffect ==
  ASSUME NEW c, FullShape(c), NEW t \in Seq(Rows), FullReads(c, t), NEW rows \in Seq(Rows),
         t \o rows # << >>, NEW block \in Seq(Rows)
  PROVE  LET d == FullFetchWithBlock(FullAppend(c, rows), block) IN
         /\ FullShape(d) /\ FullReads(d, t \o rows)
         /\ TextKept(c.mem, d.mem, t) /\ TextKept(c.mem, d.mem, t \o rows)
<1> DEFINE e == FullAppend(c, rows)
           d == FullPut(e, block)
           u == t \o rows
<1>1. /\ FullShape(e) /\ FullReads(e, u)
      /\ TextKept(c.mem, e.mem, t) /\ TextKept(c.mem, e.mem, u)
  BY FullAppendEffect
<1>2. /\ u \in Seq(Rows) /\ Len(u) \in Nat /\ Len(u) > 0 /\ Len(u) = Len(t) + Len(rows)
      /\ Len(t) \in Nat /\ Len(rows) \in Nat /\ u # << >>
  BY Joined, EmptySeq, Elements
<1> HIDE DEF e, u
<1>3. FullFetchWithBlock(e, block) = d
  BY <1>1, <1>2 DEF FullFetchWithBlock, FullReads
<1>4. /\ FullShape(d) /\ d.offset = e.offset /\ d.length = e.length
      /\ Begins(ArrayOf(d), u \o block, Len(u \o block))
      /\ Overlaid(e.mem, d.mem, Len(u), block)
  BY <1>1, <1>2, FullPutEffect
<1> HIDE DEF d
<1>5. ArrayOf(d) \in Seq(Rows)
  BY <1>4, ArrayIsRows DEF FullShape
<1>6. Begins(ArrayOf(d), u, Len(u))
  BY <1>2, <1>4, <1>5, BeginsLess
<1>7. FullReads(d, u)
  BY <1>1, <1>4, <1>6 DEF FullReads
<1>8. Memory(e.mem)
  BY <1>1 DEF FullShape, Held
<1>9. TextKept(e.mem, d.mem, t)
  <2>1. \A i \in 1 .. Len(t) : i > Len(u) /\ i <= Len(u) + Len(block) => t[i] = block[i - Len(u)]
    BY <1>2
  <2> QED
    BY <1>2, <1>4, <1>8, <2>1, OverlaidKeeps
<1>10. TextKept(e.mem, d.mem, u)
  <2>1. \A i \in 1 .. Len(u) : i > Len(u) /\ i <= Len(u) + Len(block) => u[i] = block[i - Len(u)]
    BY <1>2
  <2> QED
    BY <1>2, <1>4, <1>8, <2>1, OverlaidKeeps
<1>11. TextKept(c.mem, d.mem, t) /\ TextKept(c.mem, d.mem, u)
  BY <1>1, <1>9, <1>10 DEF TextKept
<1> QED
  BY <1>3, <1>4, <1>7, <1>11 DEF e, u

\* A branch writes in the memory of the greedy draft, and the greedy draft's
\* fields are put back.
LEMMA BranchEffect ==
  ASSUME NEW c, FullShape(c), NEW t \in Seq(Rows), FullReads(c, t), NEW rows \in Seq(Rows),
         t \o rows # << >>, NEW block \in Seq(Rows),
         NEW g, g = FullFetchWithBlock(FullAppend(c, rows), block),
         NEW f, f = [c EXCEPT !.mem = g.mem],
         NEW b, b = FullFetchWithBlock(FullAppend(f, rows), block)
  PROVE  LET d == [g EXCEPT !.mem = b.mem] IN FullShape(d) /\ FullReads(d, t \o rows)
<1> DEFINE u == t \o rows
           d == [g EXCEPT !.mem = b.mem]
<1>1. /\ FullShape(g) /\ FullReads(g, u)
      /\ TextKept(c.mem, g.mem, t) /\ TextKept(c.mem, g.mem, u)
  BY DraftFullEffect
<1>2. u \in Seq(Rows) /\ Len(u) \in Nat /\ Len(u) > 0
  BY Joined, EmptySeq, Elements
<1>3. DOMAIN f = DOMAIN c /\ f.mem = g.mem /\ f.keys = c.keys /\ f.offset = c.offset /\ f.length = c.length
  BY DEF FullShape
<1>4. FullShape(f)
  BY <1>1, <1>3 DEF FullShape, Held, TextKept
<1>5. Begins(ArrayOf(f), t, Len(t))
  <2>1. CASE c.keys = Nowhere
    <3>1. ArrayOf(f) = ArrayOf(c)
      BY <1>3, <2>1 DEF ArrayOf
    <3> QED
      BY <3>1 DEF FullReads
  <2>2. CASE c.keys # Nowhere
    <3>1. c.keys \in DOMAIN c.mem /\ ArrayOf(c) = c.mem[c.keys] /\ ArrayOf(f) = g.mem[c.keys]
      BY <1>3, <2>2 DEF ArrayOf, FullShape, Held
    <3> QED
      BY <1>1, <3>1 DEF FullReads, TextKept
  <2> QED
    BY <2>1, <2>2
<1>6. FullReads(f, t)
  BY <1>3, <1>5 DEF FullReads
<1>7. FullShape(b) /\ TextKept(f.mem, b.mem, u)
  BY <1>4, <1>6, DraftFullEffect
<1> HIDE DEF u
<1>8. DOMAIN d = DOMAIN g /\ d.mem = b.mem /\ d.keys = g.keys /\ d.offset = g.offset /\ d.length = g.length
  BY <1>1 DEF FullShape
<1>9. g.keys # Nowhere
  BY <1>1, <1>2, NoRows DEF FullReads, Begins, ArrayOf
<1>10. g.keys \in DOMAIN g.mem /\ ArrayOf(g) = g.mem[g.keys]
  BY <1>1, <1>9 DEF FullShape, Held, ArrayOf
<1>11. g.keys \in DOMAIN b.mem /\ Begins(b.mem[g.keys], u, Len(u))
  BY <1>1, <1>3, <1>7, <1>10 DEF TextKept, FullReads
<1> HIDE DEF d
<1>12. FullShape(d) /\ ArrayOf(d) = b.mem[g.keys]
  BY <1>1, <1>7, <1>8, <1>9, <1>11 DEF FullShape, Held, ArrayOf
<1>13. FullReads(d, u)
  BY <1>1, <1>8, <1>11, <1>12 DEF FullReads
<1> QED
  BY <1>12, <1>13 DEF d, u

LEMMA FullCollected ==
  ASSUME NEW c, FullShape(c), NEW t \in Seq(Rows), FullReads(c, t), NEW references
  PROVE  FullShape(Collected(c, references)) /\ FullReads(Collected(c, references), t)
<1> DEFINE d == Collected(c, references)
<1>1. Referring(c) /\ DOMAIN c = {"mem", "keys", "length", "offset"}
  BY DEF FullShape, Referring
<1>2. Referring(d) /\ Alike(c, d, {"mem"}) /\ ArrayOf(d) = ArrayOf(c)
  BY <1>1, CollectedEffect
<1> HIDE DEF d
<1>3. DOMAIN d = DOMAIN c /\ d.offset = c.offset /\ d.length = c.length
  BY <1>1, <1>2 DEF Alike
<1> QED
  BY <1>1, <1>2, <1>3 DEF FullShape, FullReads, Referring, d

-----------------------------------------------------------------------------
(* The windowed context of the draft model. *)

LEMMA WindowSizes == Sink \in Nat /\ Window \in Nat /\ Window >= 1
  BY SizeAssumption

LEMMA WindowedPicks ==
  ASSUME NEW S, NEW s \in Seq(S)
  PROVE  /\ Windowed(s) \in Seq(S) /\ Len(Windowed(s)) = Size(Len(s))
         /\ \A i \in 1 .. Size(Len(s)) : From(Len(s), i) \in 1 .. Len(s) /\ Windowed(s)[i] = s[From(Len(s), i)]
<1>1. Len(s) \in Nat /\ \A i \in 1 .. Len(s) : s[i] \in S
  BY LenProperties, ElementOfSeq
<1>2. CASE Len(s) <= Sink + Window
  <2>1. Windowed(s) = s /\ Size(Len(s)) = Len(s) /\ \A i : From(Len(s), i) = i
    BY <1>2 DEF Windowed, Size, From
  <2> QED
    BY <1>1, <2>1
<1>3. CASE ~(Len(s) <= Sink + Window)
  <2> DEFINE front == SubSeq(s, 1, Sink)
             a == Len(s) - Window + 1
             back == SubSeq(s, a, Len(s))
  <2>1. /\ front \in Seq(S) /\ Len(front) = Sink /\ \A i \in 1 .. Sink : front[i] = s[i]
    <3>1. 1 \in Int /\ Sink \in Int /\ \A i \in 1 .. Sink : s[i] \in S
      BY <1>1, <1>3, WindowSizes
    <3>2. /\ front \in Seq(S) /\ Len(front) = IF 1 <= Sink THEN Sink - 1 + 1 ELSE 0
          /\ \A i \in 1 .. Sink - 1 + 1 : front[i] = s[1 + i - 1]
      BY <3>1, SubSeqProperties
    <3> QED
      BY <3>2, WindowSizes
  <2>2. a \in Int /\ Len(s) \in Int /\ a >= 1 /\ Len(s) - a + 1 = Window /\ a <= Len(s)
    BY <1>1, <1>3, WindowSizes
  <2> HIDE DEF a
  <2>3. back \in Seq(S) /\ Len(back) = Window /\ \A i \in 1 .. Window : back[i] = s[a + i - 1]
    <3>1. \A i \in a .. Len(s) : s[i] \in S
      BY <1>1, <2>2
    <3> QED
      BY <2>2, <3>1, SubSeqProperties
  <2>4. Windowed(s) = front \o back
    <3>1. 0 \in Int /\ Len(s) - Window \in Int
      BY <1>1, WindowSizes
    <3>2. Max({0, Len(s) - Window}) = Len(s) - Window
      BY <1>1, <1>3, <3>1, MaxOfTwo, WindowSizes
    <3> QED
      BY <1>3, <3>2 DEF Windowed, FirstN, LastN, a
  <2> HIDE DEF front, back
  <2>5. /\ front \o back \in Seq(S) /\ Len(front \o back) = Sink + Window
        /\ \A i \in 1 .. Sink + Window :
             (front \o back)[i] = IF i <= Sink THEN front[i] ELSE back[i - Sink]
    BY <2>1, <2>3, ConcatProperties
  <2>6. Size(Len(s)) = Sink + Window
    BY <1>3 DEF Size
  <2>7. ASSUME NEW i \in 1 .. Sink + Window
        PROVE  From(Len(s), i) \in 1 .. Len(s) /\ (front \o back)[i] = s[From(Len(s), i)]
    <3>1. CASE i <= Sink
      <4>1. From(Len(s), i) = i /\ i \in 1 .. Sink /\ i \in 1 .. Len(s)
        BY <1>1, <1>3, <3>1, WindowSizes DEF From
      <4> QED
        BY <2>1, <2>5, <3>1, <4>1
    <3>2. CASE ~(i <= Sink)
      <4> DEFINE j == i - Sink
      <4>1. From(Len(s), i) = a + j - 1 /\ j \in 1 .. Window /\ From(Len(s), i) \in 1 .. Len(s)
        BY <1>1, <1>3, <3>2, WindowSizes DEF From, a
      <4>2. (front \o back)[i] = back[j]
        BY <2>5, <3>2
      <4> HIDE DEF j
      <4> QED
        BY <2>3, <4>1, <4>2
    <3> QED
      BY <3>1, <3>2
  <2> QED
    BY <2>4, <2>5, <2>6, <2>7
<1> QED
  BY <1>2, <1>3

\* The features of n positions that are projected, of which there are Count.
Count(fresh, n) == IF fresh THEN Size(n) ELSE IF n <= Window THEN n ELSE Window
Pick(fresh, n, i) == IF fresh THEN From(n, i) ELSE n - Count(fresh, n) + i

LEMMA SpansEffect ==
  ASSUME NEW c, NEW n \in Nat
  PROVE  LET spans == SpansToAppend(c, n)
             fresh == c.rows = << >>
         IN /\ Count(fresh, n) \in Nat /\ DOMAIN spans = 1 .. Count(fresh, n)
            /\ \A i \in 1 .. Count(fresh, n) :
                 spans[i] = Pick(fresh, n, i) /\ Pick(fresh, n, i) \in 1 .. n
<1> DEFINE spans == SpansToAppend(c, n)
           fresh == c.rows = << >>
<1>1. n \in Nat /\ n \in Int /\ Sink \in Int /\ 0 \in Int /\ n - Window \in Int
  BY WindowSizes
<1>2. CASE ~fresh
  <2>1. Max({0, n - Window}) = n - Count(fresh, n)
    BY <1>1, <1>2, MaxOfTwo, WindowSizes DEF Count
  <2>2. spans = Span(n - Count(fresh, n), n)
    BY <1>2, <2>1 DEF SpansToAppend
  <2>3. Count(fresh, n) \in Nat /\ Count(fresh, n) <= n /\ n - (n - Count(fresh, n)) = Count(fresh, n)
    BY <1>2, WindowSizes DEF Count
  <2>4. spans = [i \in 1 .. Count(fresh, n) |-> n - Count(fresh, n) + i]
    BY <2>2, <2>3 DEF Span
  <2>5. \A i \in 1 .. Count(fresh, n) :
          Pick(fresh, n, i) = n - Count(fresh, n) + i /\ n - Count(fresh, n) + i \in 1 .. n
    BY <1>1, <1>2, <2>3 DEF Pick
  <2> QED
    BY <2>3, <2>4, <2>5
<1>3. CASE fresh /\ n <= Sink + Window
  <2>1. spans = [i \in 1 .. n |-> i]
    <3>1. n - 0 = n /\ \A i \in 1 .. n : 0 + i = i
      OBVIOUS
    <3>2. spans = Span(0, n)
      BY <1>3 DEF SpansToAppend
    <3>3. spans = [i \in 1 .. n |-> 0 + i]
      BY <3>1, <3>2 DEF Span
    <3> QED
      BY <3>1, <3>3
  <2>2. Count(fresh, n) = n /\ \A i \in 1 .. n : Pick(fresh, n, i) = i
    BY <1>3 DEF Count, Pick, Size, From
  <2> QED
    BY <2>1, <2>2
<1>4. CASE fresh /\ ~(n <= Sink + Window)
  <2> DEFINE front == Span(0, Sink)
             back == Span(n - Window, n)
  <2>1. Max({Sink, n - Window}) = n - Window
    BY <1>1, <1>4, MaxOfTwo, WindowSizes
  <2>2. spans = front \o back
    BY <1>4, <2>1 DEF SpansToAppend
  <2>3. front \in Seq(Int) /\ Len(front) = Sink /\ \A i \in 1 .. Sink : front[i] = i
    <3>1. Sink - 0 = Sink /\ \A i \in 1 .. Sink : 0 + i = i
      BY WindowSizes
    <3>2. front = [i \in 1 .. Sink |-> i]
      BY <3>1 DEF Span
    <3> HIDE DEF front
    <3>3. front \in [1 .. Sink -> Int]
      BY <3>2
    <3> QED
      BY <3>2, <3>3, WindowSizes
  <2>4. back \in Seq(Int) /\ Len(back) = Window /\ \A i \in 1 .. Window : back[i] = n - Window + i
    <3>1. n - (n - Window) = Window
      BY WindowSizes
    <3>2. back = [i \in 1 .. Window |-> n - Window + i]
      BY <3>1 DEF Span
    <3> HIDE DEF back
    <3>3. back \in [1 .. Window -> Int]
      BY <3>2, WindowSizes
    <3> QED
      BY <3>2, <3>3, WindowSizes
  <2> HIDE DEF front, back
  <2>5. /\ front \o back \in Seq(Int) /\ Len(front \o back) = Sink + Window
        /\ \A i \in 1 .. Sink + Window :
             (front \o back)[i] = IF i <= Sink THEN front[i] ELSE back[i - Sink]
    BY <2>3, <2>4, ConcatProperties
  <2>6. Count(fresh, n) = Sink + Window /\ Sink + Window \in Nat
    BY <1>4, WindowSizes DEF Count, Size
  <2>7. DOMAIN spans = 1 .. Sink + Window
    BY <2>2, <2>5, LenProperties
  <2>8. ASSUME NEW i \in 1 .. Sink + Window
        PROVE  (front \o back)[i] = Pick(fresh, n, i) /\ Pick(fresh, n, i) \in 1 .. n
    <3>1. CASE i <= Sink
      <4>1. Pick(fresh, n, i) = i /\ i \in 1 .. Sink /\ i \in 1 .. n
        BY <1>1, <1>4, <3>1, WindowSizes DEF Pick, From
      <4> QED
        BY <2>3, <2>5, <3>1, <4>1
    <3>2. CASE ~(i <= Sink)
      <4> DEFINE j == i - Sink
      <4>1. Pick(fresh, n, i) = n - Window + j /\ j \in 1 .. Window /\ n - Window + j \in 1 .. n
        BY <1>1, <1>4, <3>2, WindowSizes DEF Pick, From
      <4>2. (front \o back)[i] = back[j]
        BY <2>5, <3>2
      <4> HIDE DEF j
      <4> QED
        BY <2>4, <4>1, <4>2
    <3> QED
      BY <3>1, <3>2
  <2> QED
    BY <2>2, <2>6, <2>7, <2>8
<1> QED
  BY <1>2, <1>3, <1>4

LEMMA FromWithin ==
  ASSUME NEW n \in Nat
  PROVE  /\ Size(n) \in Nat /\ (Size(n) = 0 <=> n = 0)
         /\ \A i \in 1 .. Size(n) : From(n, i) \in 1 .. n
BY WindowSizes DEF Size, From

\* Nothing is dropped before its time: with fewer rows read than the sink
\* holds, an append of more than a window would lose some.
Fits(n, m) == n > 0 => m <= Window \/ n >= Sink

LEMMA PicksCompose ==
  ASSUME NEW n \in Nat, NEW m \in Nat \ {0}, Fits(n, m), NEW l, l = Size(n) + Count(n = 0, m),
         NEW i \in 1 .. Size(n + m)
  PROVE  /\ Size(l) = Size(n + m)
         /\ From(l, i) \in 1 .. l
         /\ IF From(l, i) <= Size(n) THEN From(n, From(l, i)) = From(n + m, i)
            ELSE n + Pick(n = 0, m, From(l, i) - Size(n)) = From(n + m, i)
<1>1. Sink \in Nat /\ Window \in Nat /\ Window >= 1
  BY WindowSizes
<1>2. CASE n = 0
  BY <1>1, <1>2 DEF Size, From, Count, Pick
<1>3. CASE n # 0 /\ m <= Window
  BY <1>1, <1>3 DEF Size, From, Count, Pick
<1>4. CASE n # 0 /\ ~(m <= Window)
  <2>1. n >= Sink
    BY <1>4 DEF Fits
  <2> QED
    BY <1>1, <1>4, <2>1 DEF Size, From, Count, Pick
<1> QED
  BY <1>2, <1>3, <1>4

\* How many of m rows are added to n, and which position each of them has.
Added(n, m) == Count(n = 0, m)
Place(n, m, k) == n + Pick(n = 0, m, k)

\* What a cache holds of f after n positions, and what m more add.
Old(old, f, n) == Len(old) = Size(n) /\ \A k \in 1 .. Size(n) : old[k] = f[From(n, k)]
New(new, f, n, m) == Len(new) = Added(n, m) /\ \A k \in 1 .. Added(n, m) : new[k] = f[Place(n, m, k)]
KeptOf(f, n) == [i \in 1 .. Size(n) |-> f[From(n, i)]]

LEMMA WindowSlides ==
  ASSUME NEW S, NEW n \in Nat, NEW m \in Nat \ {0}, Fits(n, m),
         NEW old \in Seq(S), NEW new \in Seq(S), NEW f, Old(old, f, n), New(new, f, n, m)
  PROVE  Windowed(old \o new) = KeptOf(f, n + m)
<1> DEFINE both == old \o new
           q == Count(n = 0, m)
           p == Size(n)
           l == p + q
           r == Size(n + m)
<1>0. /\ Len(new) = q /\ \A k \in 1 .. q : new[k] = f[n + Pick(n = 0, m, k)]
      /\ Len(old) = p /\ \A k \in 1 .. p : old[k] = f[From(n, k)]
  BY DEF Old, New, Added, Place
<1>1. p \in Nat /\ q \in Nat /\ n + m \in Nat
  BY FromWithin, WindowSizes DEF Count, Size
<1>2. /\ both \in Seq(S) /\ Len(both) = l
      /\ \A k \in 1 .. l : both[k] = IF k <= p THEN old[k] ELSE new[k - p]
  <2>1. Len(old) = p /\ Len(new) = q
    BY <1>0
  <2>2. /\ both \in Seq(S) /\ Len(both) = Len(old) + Len(new)
        /\ \A k \in 1 .. Len(old) + Len(new) : both[k] = IF k <= Len(old) THEN old[k] ELSE new[k - Len(old)]
    BY ConcatProperties
  <2> HIDE DEF p, q, both
  <2> QED
    BY <2>1, <2>2
<1>3. /\ Windowed(both) \in Seq(S) /\ Len(Windowed(both)) = Size(l)
      /\ \A i \in 1 .. Size(l) : Windowed(both)[i] = both[From(l, i)]
  <2> HIDE DEF l, both
  <2> QED
    BY <1>2, WindowedPicks
<1>4. ASSUME NEW i \in 1 .. r
      PROVE  Size(l) = r /\ both[From(l, i)] = f[From(n + m, i)]
  <2> DEFINE k == From(l, i)
  <2>1. /\ Size(l) = r /\ k \in 1 .. l
        /\ IF k <= p THEN From(n, k) = From(n + m, i) ELSE n + Pick(n = 0, m, k - p) = From(n + m, i)
    <3>1. i \in 1 .. Size(n + m) /\ l = Size(n) + Count(n = 0, m)
      OBVIOUS
    <3> HIDE DEF l, p, q, r, k
    <3>2. /\ Size(l) = Size(n + m) /\ From(l, i) \in 1 .. l
          /\ IF From(l, i) <= Size(n) THEN From(n, From(l, i)) = From(n + m, i)
             ELSE n + Pick(n = 0, m, From(l, i) - Size(n)) = From(n + m, i)
      BY <3>1, PicksCompose
    <3> QED
      BY <3>2 DEF k, p, r
  <2> HIDE DEF k, l, p, q, r, both
  <2>2. CASE k <= p
    <3>1. k \in 1 .. p
      BY <1>1, <2>1, <2>2 DEF l
    <3>2. old[k] = f[From(n, k)]
      BY <1>0, <3>1
    <3> QED
      BY <1>2, <2>1, <2>2, <3>2 DEF k
  <2>3. CASE ~(k <= p)
    <3> DEFINE j == k - p
    <3>1. j \in 1 .. q
      BY <1>1, <2>1, <2>3 DEF l
    <3> HIDE DEF j
    <3>2. new[j] = f[n + Pick(n = 0, m, j)]
      BY <1>0, <3>1
    <3>3. both[k] = new[j]
      BY <1>2, <2>1, <2>3 DEF j
    <3>4. n + Pick(n = 0, m, j) = From(n + m, i)
      BY <2>1, <2>3 DEF j
    <3> QED
      BY <2>1, <3>2, <3>3, <3>4 DEF k
  <2> QED
    BY <2>1, <2>2, <2>3 DEF k
<1>5. Size(l) = r
  <2>1. r \in Nat /\ r >= 1
    BY <1>1, WindowSizes DEF Size
  <2>2. 1 \in 1 .. r
    BY <2>1
  <2> QED
    BY <1>4, <2>2
<1> HIDE DEF l, r, p, q, both
<1>6. DOMAIN Windowed(both) = 1 .. r /\ \A i \in 1 .. r : Windowed(both)[i] = f[From(n + m, i)]
  BY <1>3, <1>4, <1>5, LenProperties
<1>7. Windowed(both) = [i \in 1 .. Len(Windowed(both)) |-> Windowed(both)[i]]
  BY <1>3, LenProperties
<1>8. Windowed(both) = [i \in 1 .. r |-> Windowed(both)[i]]
  BY <1>3, <1>5, <1>7
<1>9. Windowed(both) = [i \in 1 .. r |-> f[From(n + m, i)]]
  BY <1>6, <1>8
<1> QED
  BY <1>9 DEF both, r, KeptOf

LEMMA WindowedAppendEffect ==
  ASSUME NEW c, NEW t \in Seq(Rows), WindowedReads(c, t), NEW rows \in Seq(Rows),
         Fits(Len(t), Len(rows))
  PROVE  WindowedReads(WindowedAppend(c, rows), t \o rows)
<1> DEFINE n == Len(t)
           m == Len(rows)
           fresh == c.rows = << >>
           q == Count(n = 0, m)
           u == t \o rows
           d == WindowedAppend(c, rows)
<1>1. n \in Nat /\ m \in Nat /\ \A i \in 1 .. n : t[i] \in Rows
  BY Elements
<1>2. /\ u \in Seq(Rows) /\ Len(u) = n + m
      /\ \A i \in 1 .. n + m : u[i] = IF i <= n THEN t[i] ELSE rows[i - n]
  BY Joined
<1>3. CASE rows = << >>
  BY <1>3, ConcatEmptySeq DEF WindowedAppend
<1>4. CASE rows # << >>
  <2>1. m \in Nat \ {0}
    BY <1>1, <1>4, EmptySeq
  <2>2. Size(n) \in Nat /\ (Size(n) = 0 <=> n = 0) /\ \A i \in 1 .. Size(n) : From(n, i) \in 1 .. n
    BY <1>1, FromWithin
  <2>3. c.rows \in Seq(Rows) /\ Len(c.rows) = Size(n) /\ \A k \in 1 .. Size(n) : c.rows[k] = t[From(n, k)]
    <3>1. c.rows = [i \in 1 .. Size(n) |-> t[From(n, i)]]
      BY DEF WindowedReads
    <3> HIDE DEF n
    <3>2. c.rows \in [1 .. Size(n) -> Rows]
      BY <1>1, <2>2, <3>1
    <3>3. c.rows \in Seq(Rows) /\ Len(c.rows) = Size(n)
      BY <2>2, <3>2, Listed
    <3> QED
      BY <3>1, <3>3
  <2>4. c.positions \in Seq(Int) /\ Len(c.positions) = Size(n) /\ \A k \in 1 .. Size(n) : c.positions[k] = From(n, k)
    <3>1. c.positions = [i \in 1 .. Size(n) |-> From(n, i)]
      BY DEF WindowedReads
    <3> HIDE DEF n
    <3>2. c.positions \in [1 .. Size(n) -> Int]
      BY <1>1, <2>2, <3>1
    <3> QED
      BY <2>2, <3>1, <3>2
  <2>5. fresh <=> n = 0
    BY <2>2, <2>3, EmptySeq
  <2>6. /\ q \in Nat /\ DOMAIN SpansToAppend(c, m) = 1 .. q
        /\ \A i \in 1 .. q : SpansToAppend(c, m)[i] = Pick(n = 0, m, i) /\ Pick(n = 0, m, i) \in 1 .. m
    <3>1. /\ Count(fresh, m) \in Nat /\ DOMAIN SpansToAppend(c, m) = 1 .. Count(fresh, m)
          /\ \A i \in 1 .. Count(fresh, m) :
               SpansToAppend(c, m)[i] = Pick(fresh, m, i) /\ Pick(fresh, m, i) \in 1 .. m
      BY <1>1, SpansEffect
    <3>2. fresh = (n = 0)
      BY <2>5
    <3> QED
      BY <3>1, <3>2
  <2>7. c.offset = n
    BY DEF WindowedReads
  <2> DEFINE new == Selected(c, rows)
             at == RopePositions(c, m)
  <2>17. n \in Nat /\ n + m \in Nat /\ \A i \in 1 .. n + m : u[i] = IF i <= n THEN t[i] ELSE rows[i - n]
    BY <1>1, <1>2
  <2> HIDE DEF n, m, fresh, q, u
  <2>8. new \in Seq(Rows) /\ Len(new) = q /\ \A k \in 1 .. q : new[k] = u[n + Pick(n = 0, m, k)]
    <3>1. new = [i \in 1 .. q |-> rows[SpansToAppend(c, m)[i]]]
      BY <2>6 DEF Selected, m
    <3> HIDE DEF new
    <3>2. ASSUME NEW k \in 1 .. q
          PROVE  new[k] \in Rows /\ new[k] = u[n + Pick(n = 0, m, k)]
      <4> DEFINE p == Pick(n = 0, m, k)
      <4>1. new[k] = rows[p] /\ p \in 1 .. m
        BY <2>6, <3>1
      <4> HIDE DEF p
      <4>2. rows[p] \in Rows
        BY <4>1, Elements DEF m
      <4> DEFINE j == n + p
      <4>3. j \in 1 .. n + m /\ ~(j <= n) /\ j - n = p
        BY <2>1, <2>17, <4>1
      <4> HIDE DEF j
      <4>4. u[j] = rows[p]
        BY <2>17, <4>3
      <4> QED
        BY <4>1, <4>2, <4>4 DEF p, j
    <3>3. new \in [1 .. q -> Rows]
      BY <3>1, <3>2
    <3> QED
      BY <2>6, <3>2, <3>3, Listed
  <2> DEFINE f == [j \in 1 .. n + m |-> j]
  <2>9. at \in Seq(Int) /\ Len(at) = q /\ \A k \in 1 .. q : at[k] = f[n + Pick(n = 0, m, k)]
    <3>1. at = [i \in 1 .. q |-> n + SpansToAppend(c, m)[i]]
      BY <2>6, <2>7 DEF RopePositions
    <3> HIDE DEF at
    <3>2. ASSUME NEW k \in 1 .. q
          PROVE  at[k] \in Int /\ at[k] = f[n + Pick(n = 0, m, k)]
      <4>1. at[k] = n + Pick(n = 0, m, k) /\ Pick(n = 0, m, k) \in 1 .. m
        BY <2>6, <3>1
      <4>2. n + Pick(n = 0, m, k) \in 1 .. n + m
        BY <1>1, <4>1 DEF n, m
      <4> QED
        BY <4>1, <4>2
    <3>3. at \in [1 .. q -> Int]
      BY <3>1, <3>2
    <3> QED
      BY <2>6, <3>2, <3>3
  <2>10. Windowed(c.rows \o new) = KeptOf(u, n + m)
    <3>1. \A k \in 1 .. Size(n) : c.rows[k] = u[From(n, k)]
      <4>1. SUFFICES ASSUME NEW k \in 1 .. Size(n)
                     PROVE  c.rows[k] = u[From(n, k)]
        OBVIOUS
      <4> DEFINE p == From(n, k)
      <4>2. c.rows[k] = t[p] /\ p \in 1 .. n
        BY <2>2, <2>3
      <4> HIDE DEF p
      <4>3. p \in 1 .. n + m /\ p <= n
        BY <2>1, <2>17, <4>2
      <4>4. u[p] = t[p]
        BY <2>17, <4>3
      <4> QED
        BY <4>2, <4>4 DEF p
    <3>2. Fits(n, m) /\ n \in Nat
      BY <1>1 DEF n, m
    <3>3. New(new, u, n, m) /\ Old(c.rows, u, n)
      BY <2>3, <2>8, <3>1 DEF q, New, Old, Added, Place
    <3>4. new \in Seq(Rows) /\ c.rows \in Seq(Rows)
      BY <2>3, <2>8
    <3> HIDE DEF new
    <3> QED
      BY <2>1, <3>2, <3>3, <3>4, WindowSlides
  <2>11. Windowed(c.positions \o at) = KeptOf(f, n + m)
    <3>1. \A k \in 1 .. Size(n) : c.positions[k] = f[From(n, k)]
      <4>1. \A k \in 1 .. Size(n) : From(n, k) \in 1 .. n + m
        BY <1>1, <2>2 DEF n, m
      <4> QED
        BY <2>4, <4>1
    <3>2. Fits(n, m) /\ n \in Nat
      BY <1>1 DEF n, m
    <3>3. New(at, f, n, m) /\ Old(c.positions, f, n)
      BY <2>4, <2>9, <3>1 DEF q, New, Old, Added, Place
    <3>4. at \in Seq(Int) /\ c.positions \in Seq(Int)
      BY <2>4, <2>9
    <3> HIDE DEF at, f
    <3> QED
      BY <2>1, <3>2, <3>3, <3>4, WindowSlides
  <2>12. KeptOf(f, n + m) = [i \in 1 .. Size(n + m) |-> From(n + m, i)]
    <3>1. n + m \in Nat
      BY <1>1 DEF n, m
    <3>2. \A i \in 1 .. Size(n + m) : From(n + m, i) \in 1 .. n + m
      BY <3>1, FromWithin
    <3> QED
      BY <3>2 DEF KeptOf
  <2>13. d = [rows |-> Windowed(c.rows \o new), positions |-> Windowed(c.positions \o at), offset |-> n + m]
    BY <1>4, <2>7 DEF WindowedAppend, m
  <2>14. Len(u) = n + m
    BY <1>2 DEF n, m
  <2> HIDE DEF new, at, f, u, d
  <2>15. /\ DOMAIN d = {"rows", "positions", "offset"} /\ d.offset = n + m
         /\ d.rows = Windowed(c.rows \o new) /\ d.positions = Windowed(c.positions \o at)
    BY <2>13
  <2>16. WindowedReads(d, u)
    BY <2>10, <2>11, <2>12, <2>14, <2>15 DEF WindowedReads, KeptOf
  <2> QED
    BY <2>16 DEF d, u
<1> QED
  BY <1>3, <1>4

LEMMA WindowedRead ==
  ASSUME NEW c, NEW t \in Seq(Rows), WindowedReads(c, t)
  PROVE  c.rows = IF Len(t) <= Sink + Window THEN t ELSE FirstN(t, Sink) \o LastN(t, Window)
<1>1. /\ Windowed(t) \in Seq(Rows) /\ Len(Windowed(t)) = Size(Len(t))
      /\ \A i \in 1 .. Size(Len(t)) : Windowed(t)[i] = t[From(Len(t), i)]
  BY WindowedPicks
<1>2. c.rows = [i \in 1 .. Size(Len(t)) |-> t[From(Len(t), i)]]
  BY DEF WindowedReads
<1>3. Windowed(t) = [i \in 1 .. Len(Windowed(t)) |-> Windowed(t)[i]]
  BY <1>1, LenProperties
<1>4. Windowed(t) = [i \in 1 .. Size(Len(t)) |-> t[From(Len(t), i)]]
  BY <1>1, <1>3
<1> QED
  BY <1>2, <1>4 DEF Windowed

\* A sliding layer looks no further back than the window.
LEMMA WindowedAttends ==
  ASSUME NEW c, NEW t \in Seq(Rows), WindowedReads(c, t), NEW query \in Int, query > Len(t)
  PROVE  DraftAttends(c, query) = Range(SubSeq(t, Max({0, query - Sliding}) + 1, Len(t)))
<1> DEFINE n == Len(t)
           a == Max({0, query - Sliding}) + 1
           part == SubSeq(t, a, n)
<1>1. n \in Nat /\ \A i \in 1 .. n : t[i] \in Rows
  BY Elements
<1>2. Sliding \in Int /\ Sliding >= 1 /\ Sliding <= Window
  BY SlidingAssumption, WindowSizes
<1>3. a \in Int /\ a >= 1 /\ a >= query - Sliding + 1 /\ (a = 1 \/ a = query - Sliding + 1)
  <2>1. 0 \in Int /\ query - Sliding \in Int
    BY <1>2
  <2>2. Max({0, query - Sliding}) = IF 0 >= query - Sliding THEN 0 ELSE query - Sliding
    BY <2>1, MaxOfTwo
  <2> QED
    BY <1>2, <2>1, <2>2
<1>4. Size(n) \in Nat /\ \A i \in 1 .. Size(n) : From(n, i) \in 1 .. n
  BY <1>1, FromWithin
<1>5. /\ DOMAIN c.rows = 1 .. Size(n)
      /\ \A i \in 1 .. Size(n) : c.rows[i] = t[From(n, i)] /\ c.positions[i] = From(n, i)
  BY DEF WindowedReads
<1> HIDE DEF a
<1>6. /\ part \in Seq(Rows) /\ Len(part) = IF a <= n THEN n - a + 1 ELSE 0
      /\ \A i \in 1 .. n - a + 1 : part[i] = t[a + i - 1]
  <2>1. n \in Int /\ \A i \in a .. n : t[i] \in Rows
    BY <1>1, <1>3
  <2> QED
    BY <1>3, <2>1, SubSeqProperties
<1>7. DOMAIN part = 1 .. Len(part) /\ Len(part) \in Nat
  BY <1>6, LenProperties
<1> HIDE DEF n, part
<1>8. ASSUME NEW x \in DraftAttends(c, query)
      PROVE  x \in Range(part)
  <2>1. PICK i \in 1 .. Size(n) : /\ x = c.rows[i]
                                  /\ c.positions[i] <= query /\ query < c.positions[i] + Sliding
    BY <1>5 DEF DraftAttends
  <2> DEFINE p == From(n, i)
             j == p - a + 1
  <2>2. x = t[p] /\ query < p + Sliding /\ p \in 1 .. n
    BY <1>4, <1>5, <2>1
  <2> HIDE DEF p
  <2>3. j \in 1 .. n - a + 1 /\ a <= n /\ a + j - 1 = p
    BY <1>1, <1>2, <1>3, <2>2
  <2> HIDE DEF j
  <2>4. part[j] = x
    BY <1>6, <2>2, <2>3
  <2>5. j \in DOMAIN part
    BY <1>6, <1>7, <2>3
  <2> QED
    BY <2>4, <2>5 DEF Range
<1>9. ASSUME NEW x \in Range(part)
      PROVE  x \in DraftAttends(c, query)
  <2>1. PICK j \in 1 .. Len(part) : x = part[j]
    BY <1>7 DEF Range
  <2> DEFINE p == a + j - 1
             i == IF n <= Sink + Window THEN p ELSE p - n + Sink + Window
  <2>2. j \in 1 .. n - a + 1
    BY <1>6, <1>7, <2>1
  <2>3. x = t[p] /\ p \in 1 .. n /\ p <= query /\ query < p + Sliding
    BY <1>1, <1>2, <1>3, <1>6, <2>1, <2>2 DEF n
  <2> HIDE DEF p
  <2>4. i \in 1 .. Size(n) /\ From(n, i) = p
    <3>1. n \in Nat /\ p \in 1 .. n /\ p > n - Window
      BY <1>1, <1>2, <2>3, WindowSizes DEF n
    <3>2. CASE n <= Sink + Window
      BY <3>1, <3>2, WindowSizes DEF Size, From, i
    <3>3. CASE ~(n <= Sink + Window)
      <4>1. i = p - n + Sink + Window /\ i > Sink /\ i <= Sink + Window /\ i \in Nat
        BY <3>1, <3>3, WindowSizes DEF i
      <4> HIDE DEF i
      <4> QED
        BY <3>1, <3>3, <4>1, WindowSizes DEF Size, From
    <3> QED
      BY <3>2, <3>3
  <2> HIDE DEF i
  <2>5. c.rows[i] = x /\ c.positions[i] = p
    BY <1>5, <2>3, <2>4
  <2> QED
    BY <1>5, <2>3, <2>4, <2>5 DEF DraftAttends
<1> QED
  BY <1>8, <1>9 DEF n, a, part

-----------------------------------------------------------------------------
(* The rows of a request's text and of its blocks. *)

Served == request.id \in Nat /\ text \in Seq(Rows)

LEMMA NextRowsAre ==
  ASSUME Served, NEW n \in Nat
  PROVE  /\ NextRows(n) \in Seq(Rows) /\ Len(NextRows(n)) = n
         /\ \A i \in 1 .. n : NextRows(n)[i] = Row(request.id, Len(text) + i)
<1>1. Len(text) \in Nat
  BY Elements DEF Served
<1>2. NextRows(n) \in [1 .. n -> Rows]
  BY <1>1 DEF Served, NextRows, Row, Rows
<1> QED
  BY <1>2, Listed DEF NextRows

LEMMA BlockIs ==
  ASSUME Served, NEW size \in Nat, NEW n \in 0 .. size
  PROVE  /\ Block(size, n) \in Seq(Rows) /\ Len(Block(size, n)) = size
         /\ FirstN(Block(size, n), n) = NextRows(n)
         /\ n = size => Block(size, n) = NextRows(n)
<1>1. Len(text) \in Nat
  BY Elements DEF Served
<1>2. Block(size, n) \in [1 .. size -> Rows]
  BY <1>1 DEF Served, Block, Row, Rows
<1>3. Block(size, n) \in Seq(Rows) /\ Len(Block(size, n)) = size
  BY <1>2, Listed
<1>4. /\ NextRows(n) \in Seq(Rows) /\ Len(NextRows(n)) = n
      /\ \A i \in 1 .. n : NextRows(n)[i] = Row(request.id, Len(text) + i)
  BY NextRowsAre
<1>5. \A i \in 1 .. n : Block(size, n)[i] = NextRows(n)[i]
  BY <1>4 DEF Block
<1> DEFINE b == Block(size, n)
           r == NextRows(n)
<1> HIDE DEF b, r
<1>6. /\ FirstN(b, n) \in Seq(Rows) /\ Len(FirstN(b, n)) = n
      /\ \A i \in 1 .. n : FirstN(b, n)[i] = b[i]
  BY <1>3, FirstRows DEF b
<1>7. FirstN(b, n) = r
  <2>1. \A i \in 1 .. n : FirstN(b, n)[i] = r[i]
    BY <1>5, <1>6 DEF b, r
  <2>2. r \in Seq(Rows) /\ Len(r) = n
    BY <1>4 DEF r
  <2> QED
    BY <1>6, <2>1, <2>2, SameRows
<1>8. n = size => b = r
  <2>1. b \in Seq(Rows) /\ Len(b) = size /\ r \in Seq(Rows) /\ Len(r) = n
    BY <1>3, <1>4 DEF b, r
  <2>2. \A i \in 1 .. n : b[i] = r[i]
    BY <1>5 DEF b, r
  <2> QED
    BY <2>1, <2>2, SameRows
<1> QED
  BY <1>3, <1>7, <1>8 DEF b, r

LEMMA NoiseIs ==
  ASSUME Served, NEW n \in Nat
  PROVE  Noise(n) \in Seq(Rows) /\ Len(Noise(n)) = n
<1>1. Len(text) \in Nat
  BY Elements DEF Served
<1>2. Noise(n) \in [1 .. n -> Rows]
  BY <1>1 DEF Noise, Row, Rows
<1> QED
  BY <1>2, Listed

\* A text and the first of some rows begin a text and all of them.
LEMMA BeginsBoth ==
  ASSUME NEW t \in Seq(Rows), NEW b \in Seq(Rows), NEW n \in 0 .. Len(b)
  PROVE  /\ t \o FirstN(b, n) \in Seq(Rows) /\ Len(t \o FirstN(b, n)) = Len(t) + n
         /\ Begins(t \o b, t \o FirstN(b, n), Len(t \o FirstN(b, n)))
<1> DEFINE r == FirstN(b, n)
<1>1. Len(t) \in Nat /\ Len(b) \in Nat
  BY Elements
<1>2. r \in Seq(Rows) /\ Len(r) = n /\ \A i \in 1 .. n : r[i] = b[i]
  BY FirstRows
<1> HIDE DEF r
<1>3. /\ t \o r \in Seq(Rows) /\ Len(t \o r) = Len(t) + n
      /\ \A i \in 1 .. Len(t) + n : (t \o r)[i] = IF i <= Len(t) THEN t[i] ELSE r[i - Len(t)]
  BY <1>2, Joined
<1>4. /\ Len(t \o b) = Len(t) + Len(b)
      /\ \A i \in 1 .. Len(t) + Len(b) : (t \o b)[i] = IF i <= Len(t) THEN t[i] ELSE b[i - Len(t)]
  BY Joined
<1>5. ASSUME NEW i \in 1 .. Len(t) + n
      PROVE  (t \o b)[i] = (t \o r)[i]
  <2>1. i \in 1 .. Len(t) + Len(b)
    BY <1>1
  <2>2. CASE i <= Len(t)
    BY <1>3, <1>4, <2>1, <2>2
  <2>3. CASE ~(i <= Len(t))
    <3> DEFINE j == i - Len(t)
    <3>1. j \in 1 .. n
      BY <1>1, <2>3
    <3>2. (t \o b)[i] = b[j] /\ (t \o r)[i] = r[j]
      BY <1>3, <1>4, <2>1, <2>3
    <3> HIDE DEF j
    <3> QED
      BY <1>2, <3>1, <3>2
  <2> QED
    BY <2>2, <2>3
<1>6. Begins(t \o b, t \o r, Len(t) + n)
  <2>1. Len(t) + n <= Len(t) + Len(b)
    BY <1>1
  <2>2. Len(t) + n <= Len(t \o b)
    BY <1>4, <2>1
  <2> QED
    BY <1>5, <2>2 DEF Begins
<1> QED
  BY <1>3, <1>6 DEF r

LEMMA UnreadFollows ==
  ASSUME NEW t \in Seq(Rows), NEW n \in 0 .. Len(t)
  PROVE  LET rows == SubSeq(t, n + 1, Len(t)) IN
         /\ FirstN(t, n) \in Seq(Rows) /\ Len(FirstN(t, n)) = n
         /\ rows \in Seq(Rows) /\ Len(rows) = Len(t) - n
         /\ FirstN(t, n) \o rows = t
<1> DEFINE r == FirstN(t, n)
           rows == SubSeq(t, n + 1, Len(t))
<1>1. Len(t) \in Nat
  BY Elements
<1>2. r \in Seq(Rows) /\ Len(r) = n /\ \A i \in 1 .. n : r[i] = t[i]
  BY FirstRows
<1>3. rows \in Seq(Rows) /\ Len(rows) = Len(t) - n /\ \A i \in 1 .. Len(t) - n : rows[i] = t[n + i]
  <2>1. n + 1 \in 1 .. Len(t) + 1 /\ Len(t) \in n + 1 - 1 .. Len(t)
    BY <1>1
  <2>2. /\ rows \in Seq(Rows) /\ Len(rows) = Len(t) - (n + 1) + 1
        /\ \A i \in 1 .. Len(t) - (n + 1) + 1 : rows[i] = t[n + 1 + i - 1]
    BY <2>1, Slice
  <2>3. Len(t) - (n + 1) + 1 = Len(t) - n /\ \A i \in 1 .. Len(t) - n : n + 1 + i - 1 = n + i
    BY <1>1
  <2> QED
    BY <2>2, <2>3
<1> HIDE DEF r, rows
<1>4. /\ r \o rows \in Seq(Rows) /\ Len(r \o rows) = Len(t)
      /\ \A i \in 1 .. Len(t) : (r \o rows)[i] = IF i <= n THEN r[i] ELSE rows[i - n]
  <2>1. /\ r \o rows \in Seq(Rows) /\ Len(r \o rows) = Len(r) + Len(rows)
        /\ \A i \in 1 .. Len(r) + Len(rows) : (r \o rows)[i] = IF i <= Len(r) THEN r[i] ELSE rows[i - Len(r)]
    BY <1>2, <1>3, Joined
  <2>2. Len(r) = n /\ Len(r) + Len(rows) = Len(t)
    BY <1>1, <1>2, <1>3
  <2> QED
    BY <2>1, <2>2
<1>5. ASSUME NEW i \in 1 .. Len(t)
      PROVE  (r \o rows)[i] = t[i]
  <2>1. CASE i <= n
    BY <1>2, <1>4, <2>1
  <2>2. CASE ~(i <= n)
    <3> DEFINE j == i - n
    <3>1. j \in 1 .. Len(t) - n /\ n + j = i
      BY <1>1, <2>2
    <3>2. (r \o rows)[i] = rows[j]
      BY <1>4, <2>2
    <3> HIDE DEF j
    <3> QED
      BY <1>3, <3>1, <3>2
  <2> QED
    BY <2>1, <2>2
<1>6. r \o rows = t
  BY <1>4, <1>5, SameRows
<1> QED
  BY <1>2, <1>3, <1>6 DEF r, rows

\* What a committed path picks of the slots of a tree.
LEMMA TreePicked ==
  ASSUME Served, NEW size \in Nat, NEW path \in Paths(size)
  PROVE  /\ Len(path) \in 1 .. size /\ path \in [1 .. Len(path) -> 1 .. size]
         /\ TreeSlots(size, path) \in Seq(Rows) /\ Len(TreeSlots(size, path)) = size
         /\ Picked(NextRows(Len(path)), TreeSlots(size, path), path)
<1> DEFINE slots == TreeSlots(size, path)
<1>1. Len(text) \in Nat
  BY Elements DEF Served
<1>2. PICK n \in 1 .. size : path \in [1 .. n -> 1 .. size]
  BY DEF Paths
<1>3. n \in Nat /\ Len(path) = n /\ DOMAIN path = 1 .. n
  BY <1>2
<1>4. \A i, j \in 1 .. n : i < j => path[i] < path[j]
  BY <1>3 DEF Paths
<1>5. ASSUME NEW k \in 1 .. n
      PROVE  /\ path[k] \in 1 .. size /\ path[k] \in Range(path)
             /\ (CHOOSE j \in DOMAIN path : path[j] = path[k]) = k
  <2>1. path[k] \in 1 .. size /\ path[k] \in Range(path)
    BY <1>2, <1>3 DEF Range
  <2>2. \A j \in 1 .. n : path[j] = path[k] => j = k
    <3>1. SUFFICES ASSUME NEW j \in 1 .. n, path[j] = path[k]
                   PROVE  j = k
      OBVIOUS
    <3>2. path[j] \in Int /\ path[k] \in Int
      BY <1>2
    <3> QED
      BY <1>4, <3>1, <3>2
  <2> QED
    BY <1>3, <2>1, <2>2
<1>6. ASSUME NEW i \in 1 .. size
      PROVE  slots[i] \in Rows
  <2>1. CASE i \in Range(path)
    <3>1. PICK k \in 1 .. n : path[k] = i
      BY <1>3, <2>1 DEF Range
    <3>2. (CHOOSE j \in DOMAIN path : path[j] = i) = k
      BY <1>5, <3>1
    <3>3. slots[i] = Row(request.id, Len(text) + k)
      BY <2>1, <3>2 DEF TreeSlots
    <3> QED
      BY <1>1, <3>3 DEF Served, Row, Rows
  <2>2. CASE i \notin Range(path)
    <3>1. slots[i] = Row(0, Len(text) + i)
      BY <2>2 DEF TreeSlots
    <3> QED
      BY <1>1, <3>1 DEF Row, Rows
  <2> QED
    BY <2>1, <2>2
<1>7. slots \in Seq(Rows) /\ Len(slots) = size
  <2>1. slots \in [1 .. size -> Rows]
    <3>1. slots = [i \in 1 .. size |-> slots[i]]
      BY DEF TreeSlots
    <3> HIDE DEF slots
    <3> QED
      BY <1>6, <3>1
  <2> QED
    BY <2>1, Listed
<1>8. ASSUME NEW k \in 1 .. n
      PROVE  slots[path[k]] = Row(request.id, Len(text) + k)
  BY <1>5 DEF TreeSlots
<1>9. [i \in DOMAIN path |-> slots[path[i]]] = NextRows(n)
  BY <1>3, <1>8 DEF NextRows
<1> QED
  BY <1>2, <1>3, <1>7, <1>9 DEF Picked

\* How much of a block there may be.
LEMMA SizesAre ==
  ASSUME request.block \in Nat, request.left \in Nat, NEW size \in Sizes
  PROVE  /\ size \in Nat /\ size <= request.block /\ size <= request.left
         /\ size = 0 => request.block = 0 \/ request.left = 0
         /\ size = 1 => request.block = 1 \/ request.left = 1
<1>1. Min({request.block, request.left})
        = IF request.block <= request.left THEN request.block ELSE request.left
  BY MinOfTwo
<1> DEFINE m == Min({2, request.block, request.left})
<1>2. m \in {2, request.block, request.left} /\ m <= 2 /\ m <= request.block /\ m <= request.left
  <2> DEFINE S == {2, request.block, request.left}
  <2>1. \E x \in S : \A y \in S : x <= y
    <3>1. CASE 2 <= request.block /\ 2 <= request.left
      BY <3>1
    <3>2. CASE request.block <= 2 /\ request.block <= request.left
      BY <3>2
    <3>3. CASE request.left <= 2 /\ request.left <= request.block
      BY <3>3
    <3> QED
      BY <3>1, <3>2, <3>3
  <2>2. m \in S /\ \A y \in S : m <= y
    BY <2>1 DEF Min
  <2> QED
    BY <2>2
<1> HIDE DEF m
<1>3. size = m \/ size = Min({request.block, request.left})
  BY DEF Sizes, m
<1> QED
  BY <1>1, <1>2, <1>3

-----------------------------------------------------------------------------
(* The request: its stages, its block and its sidecar. *)

LEMMA ServedNow ==
  ASSUME RequestInv
  PROVE  /\ Served /\ request.block \in Nat /\ request.left \in Nat
         /\ target \in [model : {"qwen_gdn", "gemma4"}, window : BOOLEAN, ddtree : BOOLEAN]
         /\ target.model = "gemma4" => ~target.window
<1>1. request.block \in Nat
  <2>1. Blocks \subseteq Nat
    BY RequestAssumption
  <2> QED
    BY <2>1 DEF RequestInv
<1> QED
  BY <1>1, TargetAssumption DEF RequestInv, Served

LEMMA FirstOfJoined ==
  ASSUME NEW t \in Seq(Rows), NEW rows \in Seq(Rows), NEW n \in 0 .. Len(t)
  PROVE  FirstN(t \o rows, n) = FirstN(t, n)
<1>1. Len(t) \in Nat /\ Len(rows) \in Nat
  BY Elements
<1>2. /\ t \o rows \in Seq(Rows) /\ Len(t \o rows) = Len(t) + Len(rows)
      /\ \A i \in 1 .. Len(t) + Len(rows) : (t \o rows)[i] = IF i <= Len(t) THEN t[i] ELSE rows[i - Len(t)]
  BY Joined
<1>3. n \in 0 .. Len(t \o rows)
  BY <1>1, <1>2
<1> DEFINE u == t \o rows
<1>4. \A i \in 1 .. n : u[i] = t[i]
  BY <1>1, <1>2
<1> HIDE DEF u
<1>5. u \in Seq(Rows) /\ n \in 0 .. Len(u)
  BY <1>2, <1>3 DEF u
<1>6. FirstN(u, n) \in Seq(Rows) /\ Len(FirstN(u, n)) = n /\ \A i \in 1 .. n : FirstN(u, n)[i] = u[i]
  BY <1>5, FirstRows
<1>7. FirstN(t, n) \in Seq(Rows) /\ Len(FirstN(t, n)) = n /\ \A i \in 1 .. n : FirstN(t, n)[i] = t[i]
  BY FirstRows
<1>8. FirstN(u, n) = FirstN(t, n)
  BY <1>4, <1>6, <1>7, SameRows
<1> QED
  BY <1>8 DEF u

\* A sidecar lies at or before the end of a text, and further tokens are behind it.
LEMMA SidecarGrows ==
  ASSUME NEW sidecar, NEW t \in Seq(Rows), NEW rows \in Seq(Rows), SidecarInv(sidecar, t)
  PROVE  SidecarInv(sidecar, t \o rows)
<1>1. Len(t) \in Nat /\ Len(rows) \in Nat /\ Len(t \o rows) = Len(t) + Len(rows)
  BY Elements, Joined
<1>2. FirstN(t \o rows, sidecar.at) = FirstN(t, sidecar.at)
  BY FirstOfJoined DEF SidecarInv
<1> QED
  BY <1>1, <1>2 DEF SidecarInv

LEMMA NoSidecar ==
  ASSUME NEW t \in Seq(Rows)
  PROVE  SidecarInv(None, t)
BY Elements DEF SidecarInv, None

\* The best of the batch, of which the accepted length is taken.
LEMMA BestAccepted ==
  ASSUME NEW size \in Nat, NEW n \in 1 .. 2, NEW accepted \in [1 .. n -> 0 .. size - 1]
  PROVE  LET best == CHOOSE i \in 1 .. Len(accepted) : \A j \in 1 .. Len(accepted) :
                       accepted[j] <= accepted[i] /\ (accepted[j] = accepted[i] => i <= j)
         IN Len(accepted) = n /\ accepted[best] \in 0 .. size - 1
<1> DEFINE Best(i) == \A j \in 1 .. Len(accepted) :
                        accepted[j] <= accepted[i] /\ (accepted[j] = accepted[i] => i <= j)
<1>1. Len(accepted) = n /\ n \in Nat
  OBVIOUS
<1>2. \A i \in 1 .. n : accepted[i] \in 0 .. size - 1
  OBVIOUS
<1>3. \E i \in 1 .. Len(accepted) : Best(i)
  <2>1. CASE n = 1
    BY <1>1, <1>2, <2>1
  <2>2. CASE n = 2
    <3>1. accepted[1] \in Int /\ accepted[2] \in Int
      BY <1>2, <2>2
    <3>2. CASE accepted[1] >= accepted[2]
      <4>1. Best(1)
        BY <1>1, <2>2, <3>1, <3>2
      <4> QED
        BY <1>1, <4>1
    <3>3. CASE accepted[1] < accepted[2]
      <4>1. Best(2)
        BY <1>1, <2>2, <3>1, <3>3
      <4> QED
        BY <1>1, <2>2, <4>1
    <3> QED
      BY <3>1, <3>2, <3>3
  <2> QED
    BY <2>1, <2>2
<1>4. (CHOOSE i \in 1 .. Len(accepted) : Best(i)) \in 1 .. n
  <2> HIDE DEF Best
  <2> QED
    BY <1>1, <1>3
<1> QED
  BY <1>1, <1>2, <1>4

\* The request after another n tokens of its text.
LEMMA CommittedRequest ==
  ASSUME RequestInv, request.pc \in {"verify", "restore"}, NEW n \in Nat \ {0}, n <= request.left,
         Committed(n)
  PROVE  RequestInv'
<1>1. Served /\ request.left \in Nat
  BY ServedNow
<1>2. NextRows(n) \in Seq(Rows) /\ Len(NextRows(n)) = n
  BY <1>1, NextRowsAre
<1> DEFINE rows == NextRows(n)
<1>3. text' = text \o rows /\ target' = target
  BY DEF Committed
<1>4. PICK pc \in {"done", "draft"} :
        request' = [request EXCEPT !.pc = pc, !.left = @ - n, !.size = 0, !.accepted = 0]
  BY DEF Committed
<1> HIDE DEF rows
<1>5. text' \in Seq(Rows) /\ text' # << >>
  <2>1. rows \in Seq(Rows) /\ Len(rows) = n /\ text \in Seq(Rows)
    BY <1>1, <1>2 DEF rows, Served
  <2>2. text \o rows \in Seq(Rows) /\ Len(text \o rows) = Len(text) + Len(rows) /\ Len(text) \in Nat
    BY <2>1, Joined, Elements
  <2>3. text \o rows # << >>
    BY <2>1, <2>2, EmptySeq
  <2> QED
    BY <1>3, <2>2, <2>3
<1>6. SidecarInv(request.sidecar, text')
  <2>1. SidecarInv(request.sidecar, text)
    BY DEF RequestInv
  <2> QED
    BY <1>1, <1>2, <1>3, <2>1, SidecarGrows DEF Served, rows
<1>7. /\ request'.sidecar = request.sidecar /\ request'.pc = pc /\ request'.left = request.left - n
      /\ request'.id = request.id /\ request'.block = request.block /\ request'.size = 0
      /\ DOMAIN request' = DOMAIN request
  BY <1>4 DEF RequestInv
<1>8. SidecarInv(request.sidecar, text)'
  BY <1>3, <1>6, <1>7 DEF SidecarInv, HasRec, HasRing, RecReads
<1>9. request.left - n \in Nat
  BY <1>1
<1>10. request.block \in Blocks
  BY DEF RequestInv
<1> QED
  BY <1>3, <1>5, <1>7, <1>8, <1>9, <1>10 DEF RequestInv, At

\* A request that opens has an identity of its own and no sidecar yet.
LEMMA OpenedRequest ==
  ASSUME RequestInv, NEW start \in Seq(Rows), NEW newKV, NEW newRing, NEW newRec,
         Opens(start, newKV, newRing, newRec)
  PROVE  RequestInv'
<1>1. /\ request' = [NoRequest EXCEPT !.id = request.id + 1, !.pc = "prefill"]
      /\ text' = start /\ target' = target
  BY DEF Opens
<1>2. /\ DOMAIN request' = {"id", "pc", "block", "left", "size", "accepted", "sidecar"}
      /\ request'.id = request.id + 1 /\ request'.pc = "prefill" /\ request'.block = 0
      /\ request'.left = 0 /\ request'.size = 0 /\ request'.sidecar = None
  BY <1>1 DEF NoRequest
<1>3. SidecarInv(None, start)
  BY NoSidecar
<1>4. SidecarInv(request.sidecar, text)'
  BY <1>1, <1>2, <1>3 DEF SidecarInv, HasRec, HasRing, RecReads
<1> QED
  BY <1>1, <1>2, <1>4 DEF RequestInv, At

LEMMA RequestStep ==
  ASSUME RequestInv, SnapsInv, RecInv, Next
  PROVE  RequestInv'
<1>1. Served /\ request.block \in Nat /\ request.left \in Nat
  BY ServedNow
<1>2. CASE Open
  BY <1>2, NoRows, OpenedRequest DEF Open
<1>3. ASSUME NEW s \in snaps, Hydrate(s)
      PROVE  RequestInv'
  <2>1. s.text \in Seq(Rows)
    BY DEF SnapsInv
  <2> QED
    BY <1>3, <2>1, OpenedRequest DEF Hydrate
<1>4. ASSUME NEW s \in snaps, HydrateAtSidecar(s)
      PROVE  RequestInv'
  <2>1. s.text \in Seq(Rows) /\ s.sidecar.at \in 0 .. Len(s.text)
    BY DEF SnapsInv, SidecarInv
  <2>2. FirstN(s.text, s.sidecar.at) \in Seq(Rows)
    BY <2>1, FirstRows
  <2> QED
    BY <1>4, <2>2, OpenedRequest DEF HydrateAtSidecar
<1>5. ASSUME UNCHANGED <<target, request, text>>
      PROVE  RequestInv'
  BY <1>5 DEF RequestInv, At, SidecarInv, HasRec, HasRing, RecReads, Sizes
<1>6. ASSUME NEW s \in snaps, Evict(s) \/ Reload(s)
      PROVE  RequestInv'
  BY <1>5, <1>6 DEF Evict, Reload
<1>7. ASSUME NEW n \in 1 .. MaxChunk, Prefill(n)
      PROVE  RequestInv'
  <2>1. n \in Nat
    OBVIOUS
  <2>2. NextRows(n) \in Seq(Rows)
    BY <1>1, <2>1, NextRowsAre
  <2> DEFINE rows == NextRows(n)
  <2>3. text' = text \o rows /\ target' = target /\ request' = request /\ request.pc = "prefill"
    BY <1>7 DEF Prefill, At
  <2> HIDE DEF rows
  <2>4. text' \in Seq(Rows) /\ SidecarInv(request.sidecar, text')
    <3>1. SidecarInv(request.sidecar, text)
      BY <2>3 DEF RequestInv
    <3>2. rows \in Seq(Rows) /\ text \in Seq(Rows)
      BY <1>1, <2>2 DEF rows, Served
    <3> QED
      BY <2>3, <3>1, <3>2, SidecarGrows, Joined
  <2>5. SidecarInv(request.sidecar, text)'
    BY <2>3, <2>4 DEF SidecarInv, HasRec, HasRing, RecReads
  <2> QED
    BY <2>3, <2>4, <2>5 DEF RequestInv, At
<1>8. CASE PublishPrompt
  BY <1>5, <1>8 DEF PublishPrompt, Keeps
<1>9. CASE CaptureSidecar
  <2>1. /\ request' = [request EXCEPT !.sidecar = [at |-> Len(text), state |-> rec.state, conv |-> rec.conv]]
        /\ text' = text /\ target' = target /\ ~HasRing /\ request.pc = "prefill"
    BY <1>9 DEF CaptureSidecar, At
  <2>2. HasRec
    BY <2>1, ServedNow DEF HasRec, HasRing
  <2>3. RecReads(rec.state, rec.conv, text)
    BY <2>1, <2>2 DEF RecInv, At
  <2>4. SidecarInv([at |-> Len(text), state |-> rec.state, conv |-> rec.conv], text)
    <3>1. Len(text) \in Nat /\ FirstN(text, Len(text)) = text
      BY <1>1, Elements, FirstOfAll DEF Served
    <3> QED
      BY <2>1, <2>2, <2>3, <3>1 DEF SidecarInv
  <2>5. /\ request'.sidecar = [at |-> Len(text), state |-> rec.state, conv |-> rec.conv]
        /\ request'.pc = request.pc /\ request'.id = request.id /\ request'.block = request.block
        /\ request'.left = request.left /\ request'.size = request.size
        /\ DOMAIN request' = DOMAIN request
    BY <2>1 DEF RequestInv
  <2>6. SidecarInv(request.sidecar, text)'
    BY <2>1, <2>4, <2>5 DEF SidecarInv, HasRec, HasRing, RecReads
  <2> QED
    BY <2>1, <2>5, <2>6 DEF RequestInv, At
<1>10. ASSUME NEW block \in Blocks, Start(block)
       PROVE  RequestInv'
  <2>1. /\ request' = [request EXCEPT !.pc = "draft", !.block = block, !.left = Answer]
        /\ text' = text /\ target' = target /\ text # << >> /\ request.pc = "prefill"
    BY <1>10 DEF Start, At
  <2>2. /\ request'.sidecar = request.sidecar /\ request'.pc = "draft" /\ request'.id = request.id
        /\ request'.block = block /\ request'.left = Answer /\ request'.size = request.size
        /\ DOMAIN request' = DOMAIN request
    BY <2>1 DEF RequestInv
  <2>3. SidecarInv(request.sidecar, text)'
    BY <2>1, <2>2 DEF RequestInv, SidecarInv, HasRec, HasRing, RecReads
  <2> QED
    BY <2>1, <2>2, <2>3, RequestAssumption DEF RequestInv, At
<1>11. ASSUME NEW pc \in {"verify", "published"}, Goto(pc), text' = text, target' = target,
              request.pc \in {"draft", "done"}, pc = "verify" => request.pc = "draft"
       PROVE  RequestInv'
  <2>1. request' = [request EXCEPT !.pc = pc]
    BY <1>11 DEF Goto
  <2>2. /\ request'.sidecar = request.sidecar /\ request'.pc = pc /\ request'.id = request.id
        /\ request'.block = request.block /\ request'.left = request.left /\ request'.size = request.size
        /\ DOMAIN request' = DOMAIN request
    BY <2>1 DEF RequestInv
  <2>3. SidecarInv(request.sidecar, text)'
    BY <1>11, <2>2 DEF RequestInv, SidecarInv, HasRec, HasRing, RecReads
  <2> QED
    BY <1>11, <2>2, <2>3 DEF RequestInv, At
<1>12. ASSUME NEW size \in Sizes, Draft(size) \/ DraftNothing(size)
       PROVE  RequestInv'
  BY <1>11, <1>12 DEF Draft, DraftNothing, At
<1>13. ASSUME NEW size \in Sizes, NEW branches \in 1 .. 2, DraftBranches(size, branches)
       PROVE  RequestInv'
  BY <1>11, <1>13 DEF DraftBranches, At
<1>14. ASSUME NEW size \in Sizes, NEW accepted \in 0 .. size - 1, Verified(size, accepted, "restore"),
              request.pc = "verify"
       PROVE  RequestInv'
  <2>1. /\ request' = [request EXCEPT !.pc = "restore", !.size = size, !.accepted = accepted]
        /\ text' = text /\ target' = target
    BY <1>14 DEF Verified
  <2>2. /\ request'.sidecar = request.sidecar /\ request'.pc = "restore" /\ request'.id = request.id
        /\ request'.block = request.block /\ request'.left = request.left /\ request'.size = size
        /\ request'.accepted = accepted /\ DOMAIN request' = DOMAIN request
    BY <2>1 DEF RequestInv
  <2>3. SidecarInv(request.sidecar, text)'
    BY <1>14, <2>1, <2>2 DEF RequestInv, SidecarInv, HasRec, HasRing, RecReads
  <2>4. size \in Nat /\ size \in Sizes'
    BY <1>1, <2>2, SizesAre DEF Sizes
  <2> QED
    BY <1>14, <2>1, <2>2, <2>3, <2>4 DEF RequestInv, At
<1>15. ASSUME NEW size \in Sizes, NEW accepted \in 0 .. size - 1, Verify(size, accepted)
       PROVE  RequestInv'
  BY <1>14, <1>15 DEF Verify, At
<1>16. ASSUME NEW size \in Sizes, NEW n \in 1 .. 2, NEW accepted \in [1 .. n -> 0 .. size - 1],
              VerifyBatch(size, accepted)
       PROVE  RequestInv'
  <2> DEFINE best == CHOOSE i \in 1 .. Len(accepted) : \A j \in 1 .. Len(accepted) :
                       accepted[j] <= accepted[i] /\ (accepted[j] = accepted[i] => i <= j)
  <2>1. size \in Nat
    BY <1>1, SizesAre
  <2>2. accepted[best] \in 0 .. size - 1
    BY <2>1, BestAccepted
  <2>3. Verified(size, accepted[best], "restore") /\ request.pc = "verify"
    BY <1>16 DEF VerifyBatch, At
  <2> HIDE DEF best
  <2> QED
    BY <1>14, <2>2, <2>3
<1>17. CASE Restore
  <2>1. /\ request.pc = "restore" /\ Committed(request.accepted + 1)
        /\ request.size \in Sizes /\ request.accepted \in 0 .. request.size - 1
    BY <1>17 DEF Restore, At, RequestInv
  <2>2. request.size \in Nat /\ request.size <= request.left
    BY <1>1, <2>1, SizesAre
  <2>3. request.accepted + 1 \in Nat \ {0} /\ request.accepted + 1 <= request.left
    BY <1>1, <2>1, <2>2
  <2> QED
    BY <2>1, <2>3, CommittedRequest
<1>18. ASSUME NEW size \in Sizes, NEW path \in Paths(size), VerifyTree(size, path)
       PROVE  RequestInv'
  <2>1. size \in Nat
    BY <1>1, SizesAre
  <2>2. Len(path) \in 1 .. size
    BY <1>1, <2>1, TreePicked
  <2>3. Committed(Len(path)) /\ request.pc = "verify" /\ Len(path) <= request.left
    BY <1>18 DEF VerifyTree, At
  <2>4. Len(path) \in Nat \ {0}
    BY <2>2
  <2> QED
    BY <2>3, <2>4, CommittedRequest
<1>19. CASE PublishAnswer
  BY <1>11, <1>19 DEF PublishAnswer, Keeps, At
<1>20. CASE Close
  <2>1. request' = [NoRequest EXCEPT !.id = request.id] /\ text' = << >> /\ target' = target
    BY <1>20 DEF Close
  <2>2. /\ DOMAIN request' = {"id", "pc", "block", "left", "size", "accepted", "sidecar"}
        /\ request'.id = request.id /\ request'.pc = "none" /\ request'.block = 0
        /\ request'.left = 0 /\ request'.size = 0
    BY <2>1 DEF NoRequest
  <2> QED
    BY <2>1, <2>2, NoRows DEF RequestInv, At
<1> QED
  BY <1>2, <1>3, <1>4, <1>6, <1>7, <1>8, <1>9, <1>10, <1>12, <1>13, <1>15, <1>16, <1>17, <1>18,
     <1>19, <1>20 DEF Next, Cycle

-----------------------------------------------------------------------------
(* The arrays of full attention, through every step. *)

LEMMA TargetStays == Next => target' = target
BY DEF Next, Open, Opens, Hydrate, HydrateAtSidecar, Evict, Reload, Prefill, PublishPrompt, Keeps,
       CaptureSidecar, Start, Cycle, Draft, DraftNothing, DraftBranches, Verify, VerifyBatch,
       Verified, VerifyTree, Committed, Restore, PublishAnswer, Close

LEMMA KVKeptOn ==
  ASSUME NEW kept, NEW mem, KVKeeps(mem, kept)
  PROVE  /\ KVReferences(kept) \subseteq DOMAIN mem
         /\ \A other : Keeping(mem, other, KVReferences(kept)) => KVKeeps(other, kept)
BY DEF KVKeeps, KVReferences, Keeping

LEMMA KVServed ==
  ASSUME NEW d, KVShape(d), NEW t \in Seq(Rows), KVReads(d, t), NEW kept,
         KVPrivate(d, kept), KVKeeps(d.mem, kept)
  PROVE  LET e == Collected(d, KVReferences(kept)) IN KVServes(e, t, kept) /\ e.keys = d.keys
<1> DEFINE e == Collected(d, KVReferences(kept))
<1>1. /\ KVShape(e) /\ KVReads(e, t) /\ e.keys = d.keys /\ ArrayOf(e) = ArrayOf(d)
      /\ Keeping(d.mem, e.mem, DOMAIN d.mem \cap KVReferences(kept))
  BY KVCollected
<1>2. KVReferences(kept) \subseteq DOMAIN d.mem
  BY KVKeptOn
<1> HIDE DEF e
<1>3. Keeping(d.mem, e.mem, KVReferences(kept))
  BY <1>1, <1>2 DEF Keeping
<1>4. KVKeeps(e.mem, kept)
  BY <1>3, KVKeptOn
<1>5. KVPrivate(e, kept)
  BY <1>1 DEF KVPrivate, KVReads
<1> QED
  BY <1>1, <1>4, <1>5 DEF KVServes, e

\* A cache of its own, made in the memory of another.
LEMMA KVAnew ==
  ASSUME NEW c, NEW kept, KVKeeps(c.mem, kept), NEW d, KVShape(d), NEW t \in Seq(Rows), KVReads(d, t),
         Keeping(c.mem, d.mem, KVReferences(kept)), d.keys \notin KVReferences(kept)
  PROVE  LET e == Collected(d, KVReferences(kept)) IN
         KVServes(e, t, kept) /\ e.keys \notin KVReferences(kept)
<1>1. KVKeeps(d.mem, kept)
  BY KVKeptOn
<1>2. KVPrivate(d, kept)
  BY DEF KVPrivate
<1> QED
  BY <1>1, <1>2, KVServed

\* No cache at all.
LEMMA KVEmptied ==
  ASSUME NEW c, KVShape(c), NEW kept, KVKeeps(c.mem, kept)
  PROVE  LET d == [EmptyKV EXCEPT !.mem = c.mem] IN
         /\ KVShape(d) /\ KVReads(d, << >>) /\ d.mem = c.mem
         /\ d.keys = Nowhere /\ Nowhere \notin KVReferences(kept)
<1> DEFINE d == [EmptyKV EXCEPT !.mem = c.mem]
<1>1. DOMAIN d = {"mem", "keys", "offset"} /\ d.mem = c.mem /\ d.keys = Nowhere /\ d.offset = 0
  BY DEF EmptyKV
<1> HIDE DEF d
<1>2. Memory(c.mem)
  BY DEF KVShape, Held
<1>3. Nowhere \notin DOMAIN c.mem
  BY <1>2 DEF Memory, Nowhere
<1>4. KVReferences(kept) \subseteq DOMAIN c.mem
  BY KVKeptOn
<1>5. KVShape(d)
  BY <1>1, <1>2 DEF KVShape, Held
<1>6. KVReads(d, << >>)
  BY <1>1 DEF KVReads, ArrayOf, Begins
<1> QED
  BY <1>1, <1>3, <1>4, <1>5, <1>6 DEF d

\* A snapshot more: of the array in use, or of one of its own.
LEMMA KVPublished ==
  ASSUME NEW c, NEW t \in Seq(Rows), t # << >>, NEW kept, KVServes(c, t, kept),
         NEW e, KVShape(e), KVReads(e, t), ArrayOf(e) = t,
         Keeping(c.mem, e.mem, DOMAIN c.mem), e.keys = c.keys \/ e.keys \notin DOMAIN c.mem,
         NEW s, s.kv = e.keys, s.text = t
  PROVE  KVServes(Collected([e EXCEPT !.keys = c.keys], KVReferences(kept \cup {s})), t, kept \cup {s})
<1> DEFINE d == [e EXCEPT !.keys = c.keys]
           more == kept \cup {s}
<1>1. DOMAIN d = {"mem", "keys", "offset"} /\ d.mem = e.mem /\ d.keys = c.keys /\ d.offset = e.offset
  BY DEF KVShape
<1> HIDE DEF d
<1>2. /\ c.keys = Nowhere \/ c.keys \in DOMAIN c.mem
      /\ Memory(e.mem) /\ c.offset = Len(t) /\ e.offset = Len(t)
  BY DEF KVServes, KVShape, Held, KVReads
<1>3. ArrayOf(d) = ArrayOf(c)
  BY <1>1, <1>2 DEF ArrayOf, Keeping
<1>4. KVShape(d)
  BY <1>1, <1>2 DEF KVShape, Held, Keeping
<1>5. KVReads(d, t)
  BY <1>1, <1>2, <1>3 DEF KVServes, KVReads
<1>6. e.keys \in DOMAIN e.mem /\ e.mem[e.keys] = t
  BY DEF KVShape, Held, ArrayOf
<1>7. KVKeeps(d.mem, more)
  <2>1. KVKeeps(c.mem, kept)
    BY DEF KVServes
  <2>2. Keeping(c.mem, e.mem, KVReferences(kept))
    BY <2>1, KVKeptOn DEF Keeping
  <2>3. KVKeeps(e.mem, kept)
    BY <2>1, <2>2, KVKeptOn
  <2> QED
    BY <1>1, <1>6, <2>3 DEF KVKeeps
<1>8. KVPrivate(d, more)
  <2>1. SUFFICES ASSUME c.keys \in KVReferences(more)
                 PROVE  Len(t) = Len(ArrayOf(c))
    BY <1>1, <1>2, <1>3 DEF KVPrivate
  <2>2. CASE c.keys \in KVReferences(kept)
    BY <1>2, <2>2 DEF KVServes, KVPrivate
  <2>3. CASE c.keys = e.keys
    <3>1. ArrayOf(d) = ArrayOf(e)
      BY <1>1, <2>3 DEF ArrayOf
    <3> QED
      BY <1>3, <3>1
  <2> QED
    BY <2>1, <2>2, <2>3 DEF KVReferences
<1> QED
  BY <1>4, <1>5, <1>7, <1>8, KVServed DEF d

\* A snapshot less.
LEMMA KVEvicted ==
  ASSUME NEW c, NEW t \in Seq(Rows), NEW kept, KVServes(c, t, kept), NEW less \in SUBSET kept
  PROVE  LET e == Collected(c, KVReferences(less)) IN KVServes(e, t, less) /\ e.keys = c.keys
<1>1. KVPrivate(c, less) /\ KVKeeps(c.mem, less)
  BY DEF KVServes, KVPrivate, KVKeeps, KVReferences
<1> QED
  BY <1>1, KVServed DEF KVServes

\* A snapshot whose array is a copy.
LEMMA KVReloaded ==
  ASSUME NEW c, NEW t \in Seq(Rows), NEW kept, KVServes(c, t, kept), NEW s \in kept, s.text \in Seq(Rows),
         NEW r, r.kv = Unused(c.mem), r.text = s.text
  PROVE  LET d == [c EXCEPT !.mem = With(@, c.mem[s.kv])]
             other == (kept \ {s}) \cup {r}
         IN KVServes(Collected(d, KVReferences(other)), t, other)
<1> DEFINE d == [c EXCEPT !.mem = With(@, c.mem[s.kv])]
           other == (kept \ {s}) \cup {r}
<1>1. c.mem[s.kv] = s.text /\ s.kv \in DOMAIN c.mem /\ Memory(c.mem) /\ KVKeeps(c.mem, kept)
  BY DEF KVServes, KVKeeps, KVShape, Held
<1>2. /\ DOMAIN d = {"mem", "keys", "offset"} /\ d.mem = With(c.mem, s.text)
      /\ d.keys = c.keys /\ d.offset = c.offset
  BY <1>1 DEF KVServes, KVShape
<1> HIDE DEF d
<1>3. /\ Memory(d.mem) /\ DOMAIN d.mem = DOMAIN c.mem \cup {Unused(c.mem)}
      /\ d.mem[Unused(c.mem)] = s.text /\ \A a \in DOMAIN c.mem : d.mem[a] = c.mem[a]
  <2> DEFINE m == c.mem
             array == s.text
  <2>1. Memory(m) /\ array \in Seq(Rows)
    BY <1>1
  <2> HIDE DEF m, array
  <2>2. /\ Memory(With(m, array)) /\ DOMAIN With(m, array) = DOMAIN m \cup {Unused(m)}
        /\ With(m, array)[Unused(m)] = array /\ \A a \in DOMAIN m : With(m, array)[a] = m[a]
    BY <2>1, WithArray
  <2> QED
    BY <1>2, <2>2 DEF m, array
<1>4. Unused(c.mem) \notin DOMAIN c.mem /\ Unused(c.mem) # Nowhere
  BY <1>1, UnusedIsNew DEF Nowhere
<1>5. c.keys = Nowhere \/ c.keys \in DOMAIN c.mem
  BY DEF KVServes, KVShape, Held
<1>6. ArrayOf(d) = ArrayOf(c)
  BY <1>2, <1>3, <1>5 DEF ArrayOf
<1>7. KVShape(d) /\ KVReads(d, t)
  BY <1>2, <1>3, <1>5, <1>6 DEF KVShape, Held, KVReads, KVServes
<1>8. KVKeeps(d.mem, other)
  BY <1>1, <1>3 DEF KVKeeps
<1>9. KVPrivate(d, other)
  <2>1. SUFFICES ASSUME c.keys \in KVReferences(other)
                 PROVE  c.offset = Len(ArrayOf(c))
    BY <1>2, <1>6 DEF KVPrivate
  <2>2. c.keys \in KVReferences(kept)
    BY <1>4, <1>5, <2>1 DEF KVReferences
  <2> QED
    BY <2>2 DEF KVServes, KVPrivate
<1> QED
  BY <1>7, <1>8, <1>9, KVServed DEF d, other

\* A cache whose array is its own.
KVOwn(c, t, kept) == KVServes(c, t, kept) /\ c.keys \notin KVReferences(kept)

LEMMA KVUpdateOwn ==
  ASSUME NEW c, NEW t \in Seq(Rows), NEW kept, KVServes(c, t, kept), NEW rows \in Seq(Rows), rows # << >>
  PROVE  KVOwn(KVUpdate(c, rows), t \o rows, kept)
<1> DEFINE shared == KVReferences(kept)
           d == KVUpdate(c, rows)
<1>1. KVShape(c) /\ KVReads(c, t) /\ KVKeeps(c.mem, kept)
  BY DEF KVServes
<1>2. shared \in SUBSET DOMAIN c.mem
  BY <1>1, KVKeptOn
<1>3. c.keys \in shared => c.offset = Len(ArrayOf(c))
  BY DEF KVServes, KVPrivate
<1> HIDE DEF shared
<1>4. KVShape(d) /\ KVReads(d, t \o rows) /\ Keeping(c.mem, d.mem, shared) /\ d.keys \notin shared
  BY <1>1, <1>2, <1>3, KVUpdateEffect
<1> HIDE DEF d
<1>5. KVKeeps(d.mem, kept)
  BY <1>1, <1>4, KVKeptOn DEF shared
<1> QED
  BY <1>4, <1>5 DEF KVOwn, KVServes, KVPrivate, shared, d

LEMMA KVCopyServes ==
  ASSUME NEW c, NEW t \in Seq(Rows), NEW kept, KVServes(c, t, kept)
  PROVE  KVServes(Copy(c), t, kept) /\ (KVOwn(c, t, kept) => KVOwn(Copy(c), t, kept))
<1> DEFINE d == Copy(c)
<1>1. KVShape(c) /\ KVReads(c, t) /\ KVKeeps(c.mem, kept)
  BY DEF KVServes
<1>2. CASE c.keys = Nowhere
  BY <1>2 DEF Copy
<1>3. CASE c.keys # Nowhere
  <2>1. d = Refer(c, ArrayOf(c))
    BY <1>3 DEF Copy
  <2>2. ArrayOf(c) \in Seq(Rows) /\ Begins(ArrayOf(c), t, Len(t))
    BY <1>1, ArrayIsRows DEF KVShape, KVReads
  <2> HIDE DEF d
  <2>3. /\ KVShape(d) /\ KVReads(d, t) /\ Keeping(c.mem, d.mem, DOMAIN c.mem)
        /\ d.keys \notin DOMAIN c.mem
    BY <1>1, <2>1, <2>2, ReferReads
  <2>4. KVReferences(kept) \subseteq DOMAIN c.mem
    BY <1>1, KVKeptOn
  <2>5. Keeping(c.mem, d.mem, KVReferences(kept))
    BY <2>3, <2>4 DEF Keeping
  <2>6. KVKeeps(d.mem, kept)
    BY <1>1, <2>5, KVKeptOn
  <2>7. KVOwn(d, t, kept)
    BY <2>3, <2>4, <2>6 DEF KVOwn, KVServes, KVPrivate
  <2> QED
    BY <2>7 DEF KVOwn, d
<1> QED
  BY <1>2, <1>3

LEMMA KVCollectOwn ==
  ASSUME NEW c, NEW t \in Seq(Rows), NEW kept, KVServes(c, t, kept)
  PROVE  LET d == Collected(c, KVReferences(kept)) IN
         KVServes(d, t, kept) /\ (c.keys \notin KVReferences(kept) => KVOwn(d, t, kept))
<1>1. LET d == Collected(c, KVReferences(kept)) IN KVServes(d, t, kept) /\ d.keys = c.keys
  BY KVServed DEF KVServes
<1> QED
  BY <1>1 DEF KVOwn

LEMMA KVStep ==
  ASSUME RequestInv, SnapsInv, KVInv, Next
  PROVE  KVInv'
<1>1. target' = target
  BY TargetStays
<1>2. CASE ~HasKV
  BY <1>1, <1>2 DEF KVInv, HasKV
<1>3. CASE HasKV
  <2> DEFINE refs == KVReferences(snaps)
             Same == KVServes(kv', HasRead', snaps') /\ request'.pc # "restore"
             Own == KVOwn(kv', HasRead', snaps')
  <2>1. Same \/ Own => KVInv'
    BY <1>1, <1>3 DEF KVInv, KVOwn, HasKV, At
  <2>2. SUFFICES Same \/ Own
    BY <2>1
  <2>3. Served /\ text \in Seq(Rows) /\ request.block \in Nat /\ request.left \in Nat
    BY ServedNow DEF Served
  <2>4. /\ KVServes(kv, HasRead, snaps) /\ (request.pc = "restore" => kv.keys \notin refs)
        /\ KVShape(kv) /\ KVReads(kv, HasRead) /\ KVKeeps(kv.mem, snaps)
        /\ refs \subseteq DOMAIN kv.mem
    BY <1>3, KVKeptOn DEF KVInv, KVServes, At
  <2>5. request.pc # "restore" => HasRead = text
    BY DEF HasRead, At
  <2>6. request'.pc # "restore" => HasRead' = text'
    BY DEF HasRead, At
  <2>7. ASSUME NEW d, NEW t \in Seq(Rows), KVServes(d, t, snaps), kv' = Collected(d, refs),
               snaps' = snaps, request'.pc # "restore", text' = t
        PROVE  Same
    BY <2>6, <2>7, KVCollectOwn
  <2>8. ASSUME UNCHANGED <<text, kv, snaps>>, request.pc # "restore", request'.pc # "restore"
        PROVE  Same
    BY <2>4, <2>5, <2>6, <2>8
  <2>9. CASE Open
    <3> DEFINE d == [EmptyKV EXCEPT !.mem = kv.mem]
    <3>1. /\ KVShape(d) /\ KVReads(d, << >>) /\ d.mem = kv.mem
          /\ d.keys = Nowhere /\ Nowhere \notin refs
      BY <2>4, KVEmptied
    <3>2. kv' = Collected(d, refs) /\ snaps' = snaps /\ request'.pc = "prefill" /\ text' = << >>
      BY <2>9 DEF Open, Opens, Become, NoRequest
    <3> HIDE DEF d
    <3>3. KVServes(d, << >>, snaps)
      BY <2>4, <3>1 DEF KVServes, KVPrivate
    <3> QED
      BY <2>7, <3>2, <3>3, NoRows
  <2>10. ASSUME NEW s \in snaps, Hydrate(s)
         PROVE  Same
    <3> DEFINE d == AdoptedKV(s)
    <3>1. s.text \in Seq(Rows)
      BY DEF SnapsInv
    <3>2. s.kv \in DOMAIN kv.mem /\ kv.mem[s.kv] = s.text
      BY <2>4 DEF KVKeeps
    <3>3. DOMAIN d = {"mem", "keys", "offset"} /\ d.mem = kv.mem /\ d.keys = s.kv /\ d.offset = Len(s.text)
      BY DEF AdoptedKV
    <3>4. kv' = Collected(d, refs) /\ snaps' = snaps /\ request'.pc = "prefill" /\ text' = s.text
      BY <2>10 DEF Hydrate, Opens, Become, NoRequest
    <3> HIDE DEF d
    <3>5. Memory(kv.mem) /\ s.kv # Nowhere
      BY <2>4, <3>2 DEF KVShape, Held, Memory, Nowhere
    <3>6. ArrayOf(d) = s.text
      BY <3>2, <3>3, <3>5 DEF ArrayOf
    <3>7. KVShape(d) /\ KVReads(d, s.text) /\ KVPrivate(d, snaps)
      <4>1. Len(s.text) \in Nat
        BY <3>1, Elements
      <4> QED
        BY <3>2, <3>3, <3>5, <3>6, <4>1 DEF KVShape, Held, KVReads, Begins, KVPrivate
    <3>8. KVServes(d, s.text, snaps)
      BY <2>4, <3>3, <3>7 DEF KVServes
    <3> QED
      BY <2>7, <3>1, <3>4, <3>8
  <2>11. ASSUME NEW s \in snaps, HydrateAtSidecar(s)
         PROVE  Same
    <3> DEFINE n == s.sidecar.at
               c == [EmptyKV EXCEPT !.mem = kv.mem]
               u == FirstN(s.text, n)
               d == [Refer(c, u) EXCEPT !.offset = Len(u)]
    <3>1. s.text \in Seq(Rows) /\ n \in 0 .. Len(s.text)
      BY DEF SnapsInv, SidecarInv
    <3>2. kv.mem[s.kv] = s.text
      BY <2>4 DEF KVKeeps
    <3>3. u \in Seq(Rows) /\ Len(u) = n /\ Begins(u, u, Len(u))
      BY <3>1, FirstRows DEF Begins
    <3>4. /\ KVShape(c) /\ KVReads(c, << >>) /\ c.mem = kv.mem
      BY <2>4, KVEmptied
    <3>5. kv' = Collected(d, refs) /\ snaps' = snaps /\ request'.pc = "prefill" /\ text' = u
      BY <2>11, <3>2, <3>3 DEF HydrateAtSidecar, Opens, Become, NoRequest
    <3> HIDE DEF c, u, n
    <3>6. /\ KVShape(d) /\ KVReads(d, u)
          /\ Keeping(c.mem, d.mem, DOMAIN c.mem) /\ d.keys \notin DOMAIN c.mem
      BY <3>3, <3>4, NoRows, CopyEffect
    <3> HIDE DEF d
    <3>7. Keeping(kv.mem, d.mem, refs) /\ d.keys \notin refs
      BY <2>4, <3>4, <3>6 DEF Keeping
    <3>8. KVKeeps(d.mem, snaps)
      BY <2>4, <3>7, KVKeptOn
    <3>9. KVServes(d, u, snaps)
      BY <3>6, <3>7, <3>8 DEF KVServes, KVPrivate
    <3> QED
      BY <2>7, <3>3, <3>5, <3>9
  <2>12. ASSUME NEW s \in snaps, Evict(s)
         PROVE  Same \/ Own
    <3>1. /\ snaps' = snaps \ {s} /\ kv' = Collected(kv, KVReferences(snaps'))
          /\ UNCHANGED <<request, text>>
      BY <2>12 DEF Evict
    <3>2. HasRead' = HasRead
      BY <3>1 DEF HasRead, At, Block
    <3>3. HasRead \in Seq(Rows)
      <4>1. CASE request.pc # "restore"
        BY <2>3, <2>5, <4>1
      <4>2. CASE request.pc = "restore"
        <5>1. request.size \in Nat /\ request.accepted + 1 \in 0 .. request.size
          <6>1. request.size \in Nat /\ request.accepted \in 0 .. request.size - 1
            BY <4>2 DEF RequestInv, At
          <6> QED
            BY <6>1
        <5>2. Block(request.size, request.accepted + 1) \in Seq(Rows)
          BY <2>3, <5>1, BlockIs
        <5> QED
          BY <2>3, <4>2, <5>2, Joined DEF HasRead, At
      <4> QED
        BY <4>1, <4>2
    <3>4. snaps' \in SUBSET snaps
      BY <3>1
    <3>5. KVServes(kv', HasRead, snaps') /\ kv'.keys = kv.keys
      BY <2>4, <3>1, <3>3, <3>4, KVEvicted
    <3>6. request.pc = "restore" => kv'.keys \notin KVReferences(snaps')
      BY <2>4, <3>4, <3>5 DEF KVReferences
    <3> QED
      BY <3>1, <3>2, <3>5, <3>6 DEF KVOwn
  <2>13. ASSUME NEW s \in snaps, Reload(s)
         PROVE  Same
    <3> DEFINE r == Deserialized(Serialized(s))
               d == [kv EXCEPT !.mem = With(@, kv.mem[s.kv])]
    <3>1. /\ s.kv \in DOMAIN kv.mem /\ Memory(kv.mem) /\ s.text \in Seq(Rows)
      BY <2>4 DEF KVKeeps, KVShape, Held, SnapsInv
    <3>2. s.kv # Nowhere
      BY <3>1 DEF Memory, Nowhere
    <3>3. "kv" \in DOMAIN Serialized(s).arrays /\ Serialized(s).arrays["kv"] = kv.mem[s.kv]
      BY <3>2 DEF Serialized
    <3>4. r.kv = Unused(kv.mem) /\ r.text = s.text
      <4>1. Serialized(s).text = s.text
        BY DEF Serialized
      <4> QED
        BY <3>3, <4>1 DEF Deserialized
    <3>5. /\ snaps' = (snaps \ {s}) \cup {r} /\ kv' = Collected(d, KVReferences(snaps'))
          /\ UNCHANGED <<request, text>> /\ request.pc = "none"
      BY <2>13, <3>3 DEF Reload, At
    <3> HIDE DEF r, d
    <3>6. KVServes(kv', text, snaps')
      BY <2>3, <2>4, <2>5, <3>1, <3>4, <3>5, KVReloaded DEF d
    <3> QED
      BY <2>6, <3>5, <3>6
  <2>14. ASSUME NEW n \in 1 .. MaxChunk, Prefill(n)
         PROVE  Same
    <3> DEFINE rows == NextRows(n)
    <3>1. n \in Nat \ {0}
      OBVIOUS
    <3>2. rows \in Seq(Rows) /\ rows # << >> /\ text \o rows \in Seq(Rows)
      <4>1. rows \in Seq(Rows) /\ Len(rows) = n
        BY <2>3, <3>1, NextRowsAre
      <4> QED
        BY <2>3, <3>1, <4>1, EmptySeq, Joined
    <3>3. /\ request' = request /\ request.pc = "prefill" /\ snaps' = snaps /\ text' = text \o rows
          /\ kv' = Collected(KVUpdate(kv, rows), refs)
      BY <1>3, <2>14 DEF Prefill, At, Forward, ForwardQwen, ForwardGemma4, Become
    <3> HIDE DEF rows
    <3>4. KVServes(KVUpdate(kv, rows), text \o rows, snaps)
      BY <2>3, <2>4, <2>5, <3>2, <3>3, KVUpdateOwn DEF KVOwn
    <3> QED
      BY <2>7, <3>2, <3>3, <3>4
  <2>15. ASSUME NEW e, NEW ringEntry, NEW sidecar, Keeps(e, ringEntry, sidecar),
                KVShape(e), KVReads(e, text), ArrayOf(e) = text,
                Keeping(kv.mem, e.mem, DOMAIN kv.mem), e.keys = kv.keys \/ e.keys \notin DOMAIN kv.mem,
                request.pc # "restore", request'.pc # "restore"
         PROVE  Same
    <3> DEFINE s == Snapshot(e, ringEntry, sidecar)
    <3>1. s.kv = e.keys /\ s.text = text
      BY DEF Snapshot
    <3>2. /\ text # << >> /\ text' = text /\ snaps' = snaps \cup {s}
          /\ kv' = Collected([e EXCEPT !.keys = kv.keys], KVReferences(snaps \cup {s}))
      BY <2>15 DEF Keeps
    <3> HIDE DEF s
    <3>3. KVServes(kv', text, snaps \cup {s})
      BY <2>3, <2>4, <2>5, <2>15, <3>1, <3>2, KVPublished
    <3> QED
      BY <2>6, <2>15, <3>2, <3>3
  <2>16. CASE PublishPrompt
    <3> DEFINE e == Refer(kv, KVText(kv))
    <3>1. /\ Keeps(e, IF HasRing THEN Refer(ring, ArrayOf(ring)) ELSE ring, None)
          /\ request.pc = "prefill" /\ request' = request
      BY <2>16 DEF PublishPrompt, At
    <3>2. ArrayOf(kv) \in Seq(Rows) /\ Begins(ArrayOf(kv), text, Len(text)) /\ kv.offset = Len(text)
      BY <2>4, <2>5, <3>1, ArrayIsRows DEF KVShape, KVReads
    <3>3. KVText(kv) = text /\ Begins(text, text, Len(text))
      BY <2>3, <3>2, BeginsCut DEF KVText
    <3>4. e = Refer(kv, text)
      BY <3>3
    <3> HIDE DEF e
    <3>5. /\ KVShape(e) /\ KVReads(e, text) /\ ArrayOf(e) = text
          /\ Keeping(kv.mem, e.mem, DOMAIN kv.mem) /\ e.keys \notin DOMAIN kv.mem
      BY <2>3, <2>4, <2>5, <3>1, <3>3, <3>4, ReferReads
    <3> QED
      BY <2>15, <3>1, <3>5
  <2>17. CASE PublishAnswer
    <3> DEFINE e == KVState(kv)
               sidecar == IF request.sidecar.at < Len(text) THEN request.sidecar ELSE None
    <3>1. Keeps(e, ring, sidecar) /\ request.pc = "done" /\ request'.pc = "published"
      BY <2>17 DEF PublishAnswer, At, Goto, RequestInv
    <3>2. /\ KVShape(e) /\ KVReads(e, text) /\ ArrayOf(e) = text
          /\ Keeping(kv.mem, e.mem, DOMAIN kv.mem) /\ (e.keys = kv.keys \/ e.keys \notin DOMAIN kv.mem)
      BY <2>3, <2>4, <2>5, <3>1, KVStateEffect
    <3> HIDE DEF e, sidecar
    <3> QED
      BY <2>15, <3>1, <3>2
  <2>18. CASE CaptureSidecar
    <3>1. UNCHANGED <<text, kv, snaps>> /\ request.pc = "prefill" /\ request'.pc = "prefill"
      BY <2>18 DEF CaptureSidecar, At, RequestInv
    <3> QED
      BY <2>8, <3>1
  <2>19. ASSUME NEW block \in Blocks, Start(block)
         PROVE  Same
    <3>1. UNCHANGED <<text, kv, snaps>> /\ request.pc = "prefill" /\ request'.pc = "draft"
      BY <2>19 DEF Start, At, RequestInv
    <3> QED
      BY <2>8, <3>1
  <2>20. ASSUME NEW size \in Sizes,
                \/ Draft(size) \/ DraftNothing(size)
                \/ \E branches \in 1 .. 2 : DraftBranches(size, branches)
         PROVE  Same
    <3>1. UNCHANGED <<text, kv, snaps>> /\ request.pc = "draft" /\ request'.pc = "verify"
      BY <2>20 DEF Draft, DraftNothing, DraftBranches, Goto, At, RequestInv
    <3> QED
      BY <2>8, <3>1
  <2>21. ASSUME NEW size \in Sizes, NEW accepted \in 0 .. size - 1, Verified(size, accepted, "restore"),
                request.pc = "verify", NEW d, kv' = Collected(d, refs),
                KVOwn(d, text \o Block(size, accepted + 1), snaps)
         PROVE  Own
    <3> DEFINE rows == Block(size, accepted + 1)
    <3>1. size \in Nat /\ accepted + 1 \in 0 .. size
      BY <2>3, SizesAre
    <3>2. rows \in Seq(Rows)
      BY <2>3, <3>1, BlockIs
    <3>3. HasRead' = text \o rows /\ snaps' = snaps
      <4>1. /\ request'.id = request.id /\ request'.pc = "restore" /\ request'.size = size
            /\ request'.accepted = accepted /\ text' = text /\ snaps' = snaps
        BY <2>21 DEF Verified, RequestInv
      <4> QED
        BY <4>1 DEF HasRead, At, Block
    <3> HIDE DEF rows
    <3>4. text \o rows \in Seq(Rows)
      BY <2>3, <3>2, Joined
    <3>5. KVServes(d, text \o rows, snaps) /\ d.keys \notin refs
      BY <2>21 DEF KVOwn, rows
    <3> QED
      BY <2>21, <3>3, <3>4, <3>5, KVCollectOwn
  <2>22. ASSUME NEW size \in Sizes, NEW accepted \in 0 .. size - 1
         PROVE  Block(size, accepted + 1) \in Seq(Rows) /\ Block(size, accepted + 1) # << >>
    <3>1. size \in Nat \ {0} /\ accepted + 1 \in 0 .. size
      BY <2>3, SizesAre
    <3>2. Block(size, accepted + 1) \in Seq(Rows) /\ Len(Block(size, accepted + 1)) = size
      BY <2>3, <3>1, BlockIs
    <3> QED
      BY <3>1, <3>2, EmptySeq
  <2>23. ASSUME NEW size \in Sizes, NEW accepted \in 0 .. size - 1, Verify(size, accepted)
         PROVE  Own
    <3> DEFINE rows == Block(size, accepted + 1)
               d == KVUpdate(kv, rows)
    <3>1. Verified(size, accepted, "restore") /\ request.pc = "verify" /\ kv' = Collected(d, refs)
      BY <1>3, <2>23 DEF Verify, At, Forward, ForwardQwen, ForwardGemma4, Become
    <3> HIDE DEF d
    <3>2. KVOwn(d, text \o rows, snaps)
      BY <2>3, <2>4, <2>5, <2>22, <3>1, KVUpdateOwn DEF d
    <3> QED
      BY <2>21, <3>1, <3>2
  <2>24. ASSUME NEW size \in Sizes, NEW n \in 1 .. 2, NEW accepted \in [1 .. n -> 0 .. size - 1],
                VerifyBatch(size, accepted)
         PROVE  Own
    <3> DEFINE best == CHOOSE i \in 1 .. Len(accepted) : \A j \in 1 .. Len(accepted) :
                         accepted[j] <= accepted[i] /\ (accepted[j] = accepted[i] => i <= j)
               a == accepted[best]
               rows == Block(size, a + 1)
               c == Repeated(kv, Len(accepted))
               d == Copy(KVUpdate(c, rows))
    <3>1. size \in Nat
      BY <2>3, SizesAre
    <3>2. a \in 0 .. size - 1
      BY <3>1, BestAccepted
    <3>3. Verified(size, a, "restore") /\ request.pc = "verify" /\ kv' = Collected(d, refs)
      BY <1>3, <2>24 DEF VerifyBatch, At, Become
    <3> HIDE DEF best, a
    <3>4. rows \in Seq(Rows) /\ rows # << >>
      BY <2>22, <3>2
    <3>5. KVServes(c, text, snaps)
      BY <2>3, <2>4, <2>5, <3>3, KVCopyServes DEF Repeated
    <3> HIDE DEF rows, c
    <3>6. text \o rows \in Seq(Rows)
      BY <2>3, <3>4, Joined
    <3>7. KVOwn(KVUpdate(c, rows), text \o rows, snaps)
      BY <2>3, <3>4, <3>5, KVUpdateOwn
    <3>8. KVOwn(d, text \o rows, snaps)
      BY <3>6, <3>7, KVCopyServes DEF KVOwn
    <3> HIDE DEF d
    <3> QED
      BY <2>21, <3>2, <3>3, <3>8 DEF rows
  <2>25. CASE Restore
    <3> DEFINE size == request.size
               a == request.accepted
               b == Block(size, a + 1)
               u == text \o FirstN(b, a + 1)
               d == RestoredKV(Len(text) + a + 1)
    <3>1. /\ request.pc = "restore" /\ size \in Nat /\ a \in 0 .. size - 1
          /\ Committed(a + 1) /\ kv' = Collected(d, refs)
      BY <2>25 DEF Restore, At, RequestInv, Become
    <3>2. a + 1 \in 0 .. size /\ a \in Nat
      BY <3>1
    <3>3. /\ b \in Seq(Rows) /\ Len(b) = size /\ FirstN(b, a + 1) = NextRows(a + 1)
          /\ a + 1 = size => b = NextRows(a + 1)
      BY <2>3, <3>1, <3>2, BlockIs
    <3>4. text' = u /\ snaps' = snaps /\ request'.pc # "restore"
      BY <3>3, <3>1 DEF Committed, RequestInv
    <3>5. HasRead = text \o b
      BY <3>1 DEF HasRead, At
    <3> HIDE DEF b, size, a
    <3>6. /\ u \in Seq(Rows) /\ Len(u) = Len(text) + (a + 1)
          /\ Begins(text \o b, u, Len(u))
      BY <2>3, <3>2, <3>3, BeginsBoth
    <3>7. text \o b \in Seq(Rows) /\ Len(text \o b) = Len(text) + size /\ Len(text) \in Nat
      BY <2>3, <3>3, Joined, Elements
    <3>8. kv.offset = Len(text) + size /\ KVReads(kv, text \o b)
      BY <2>4, <3>5, <3>7 DEF KVReads
    <3>9. Len(text) + a + 1 = Len(u)
      BY <3>2, <3>6, <3>7
    <3>10. KVServes(d, u, snaps)
      <4>1. CASE kv.offset > Len(u)
        <5>1. d = KVTrim(kv, kv.offset - Len(u))
          BY <3>9, <4>1 DEF RestoredKV
        <5> HIDE DEF d, u
        <5>2. KVShape(d) /\ KVReads(d, u) /\ d.mem = kv.mem /\ d.keys = kv.keys
          BY <2>4, <3>6, <3>7, <3>8, <5>1, KVTrimEffect
        <5> QED
          BY <2>4, <3>1, <5>2 DEF KVServes, KVPrivate
      <4>2. CASE ~(kv.offset > Len(u))
        <5>1. d = kv
          BY <3>9, <4>2 DEF RestoredKV
        <5>2. a + 1 = size
          BY <3>1, <3>2, <3>6, <3>7, <3>8, <4>2
        <5>3. u = text \o b
          BY <3>3, <5>2
        <5> QED
          BY <2>4, <3>5, <5>1, <5>3
      <4> QED
        BY <4>1, <4>2
    <3> HIDE DEF u, d
    <3> QED
      BY <2>7, <3>1, <3>4, <3>6, <3>10
  <2>26. ASSUME NEW size \in Sizes, NEW path \in Paths(size), VerifyTree(size, path)
         PROVE  Same
    <3> DEFINE slots == TreeSlots(size, path)
               n == Len(path)
               c == KVUpdate(kv, slots)
               d == KVCommitTree(c, size, path)
               u == text \o NextRows(n)
    <3>1. size \in Nat
      BY <2>3, SizesAre
    <3>2. /\ n \in 1 .. size /\ path \in [1 .. n -> 1 .. size]
          /\ slots \in Seq(Rows) /\ Len(slots) = size
          /\ Picked(NextRows(n), slots, path)
      BY <2>3, <3>1, TreePicked
    <3>3. /\ request.pc = "verify" /\ kv' = Collected(d, refs) /\ Committed(n)
      BY <2>26 DEF VerifyTree, At, Become, TreeAttention
    <3>4. text' = u /\ snaps' = snaps /\ request'.pc # "restore"
      BY <3>3 DEF Committed, RequestInv
    <3> HIDE DEF slots, n
    <3>5. slots # << >> /\ n \in Nat
      BY <3>1, <3>2, EmptySeq
    <3>6. KVOwn(c, text \o slots, snaps)
      BY <2>3, <2>4, <2>5, <3>2, <3>3, <3>5, KVUpdateOwn
    <3> HIDE DEF c
    <3>7. KVShape(c) /\ KVReads(c, text \o slots) /\ KVKeeps(c.mem, snaps)
      BY <3>6 DEF KVOwn, KVServes
    <3>8. /\ KVShape(d) /\ KVReads(d, text \o NextRows(n))
          /\ Keeping(c.mem, d.mem, DOMAIN c.mem) /\ d.keys \notin DOMAIN c.mem
      <4>1. path \in [1 .. n -> 1 .. Len(slots)] /\ d = KVCommitTree(c, Len(slots), path)
        BY <3>2
      <4>2. LET e == KVCommitTree(c, Len(slots), path) IN
            /\ KVShape(e) /\ KVReads(e, text \o NextRows(n))
            /\ Keeping(c.mem, e.mem, DOMAIN c.mem) /\ e.keys \notin DOMAIN c.mem
        <5> HIDE DEF d
        <5> QED
          BY <2>3, <3>2, <3>5, <3>7, <4>1, KVCommitTreeEffect
      <4> HIDE DEF d
      <4> QED
        BY <4>1, <4>2
    <3>9. KVReads(d, u)
      BY <3>8
    <3>10. u \in Seq(Rows)
      BY <2>3, <3>5, NextRowsAre, Joined
    <3> HIDE DEF d, u
    <3>11. KVReferences(snaps) \subseteq DOMAIN c.mem
      BY <3>7, KVKeptOn
    <3>12. Keeping(c.mem, d.mem, KVReferences(snaps)) /\ d.keys \notin KVReferences(snaps)
      BY <3>8, <3>11 DEF Keeping
    <3>13. KVKeeps(d.mem, snaps)
      BY <3>7, <3>12, KVKeptOn
    <3>14. KVServes(d, u, snaps)
      BY <3>8, <3>9, <3>12, <3>13 DEF KVServes, KVPrivate
    <3> QED
      BY <2>7, <3>3, <3>4, <3>10, <3>14
  <2>27. CASE Close
    <3> DEFINE d == [EmptyKV EXCEPT !.mem = kv.mem]
    <3>1. /\ KVShape(d) /\ KVReads(d, << >>) /\ d.mem = kv.mem
          /\ d.keys = Nowhere /\ Nowhere \notin refs
      BY <2>4, KVEmptied
    <3>2. kv' = Collected(d, refs) /\ snaps' = snaps /\ request'.pc = "none" /\ text' = << >>
      BY <2>27 DEF Close, Become, NoRequest
    <3> HIDE DEF d
    <3>3. KVServes(d, << >>, snaps)
      BY <2>4, <3>1 DEF KVServes, KVPrivate
    <3> QED
      BY <2>7, <3>2, <3>3, NoRows
  <2> QED
    BY <2>9, <2>10, <2>11, <2>12, <2>13, <2>14, <2>16, <2>17, <2>18, <2>19, <2>20, <2>23, <2>24,
       <2>25, <2>26, <2>27 DEF Next, Cycle
<1> QED
  BY <1>2, <1>3

-----------------------------------------------------------------------------
(* The recurrent state and the snapshots of it, through every step. *)

LEMMA LastOfAll ==
  ASSUME NEW s \in Seq(Rows)
  PROVE  LastN(s, Len(s)) = s
<1>1. Len(s) \in Nat /\ Len(s) <= Len(s)
  BY Elements
<1>2. /\ LastN(s, Len(s)) \in Seq(Rows) /\ Len(LastN(s, Len(s))) = Len(s)
      /\ \A i \in 1 .. Len(s) : LastN(s, Len(s))[i] = s[Len(s) - Len(s) + i]
  BY <1>1, LastRows
<1>3. \A i \in 1 .. Len(s) : Len(s) - Len(s) + i = i
  BY <1>1
<1> QED
  BY <1>2, <1>3, SameRows

LEMMA EmptyRecReads ==
  RecShape(EmptyRec) /\ RecReads(EmptyRec.state, EmptyRec.conv, << >>)
<1>1. Zeros(Keep) \in Seq(Rows) /\ Len(Zeros(Keep)) = Keep
  BY SizeAssumption, BlankRows
<1>2. LastN(Zeros(Keep) \o << >>, Keep) = Zeros(Keep)
  BY <1>1, ConcatEmptySeq, LastOfAll
<1> QED
  BY <1>2 DEF EmptyRec, RecShape, RecReads

\* A snapshot more has what the request has read.
LEMMA KeptSnaps ==
  ASSUME RequestInv, SnapsInv, RecInv, request.pc \in {"prefill", "done"},
         NEW kvEntry, NEW ringEntry, NEW sidecar, SidecarInv(sidecar, text),
         Keeps(kvEntry, ringEntry, sidecar)
  PROVE  SnapsInv'
<1> DEFINE s == Snapshot(kvEntry, ringEntry, sidecar)
<1>1. target' = target /\ HasKV /\ snaps' = snaps \cup {s}
  BY DEF Keeps, Restorable, HasKV
<1>2. /\ DOMAIN s = {"text", "kv", "ring", "state", "conv", "sidecar"} /\ s.text = text
      /\ DOMAIN s.ring = {"keys", "offset", "idx"} /\ s.state = rec.state /\ s.conv = rec.conv
      /\ s.sidecar = sidecar
  BY DEF Snapshot
<1> HIDE DEF s
<1>3. text \in Seq(Rows)
  BY DEF RequestInv
<1>4. HasRec => RecReads(rec.state, rec.conv, text)
  BY DEF RecInv, At
<1>5. ASSUME NEW x \in snaps'
      PROVE  /\ DOMAIN x = {"text", "kv", "ring", "state", "conv", "sidecar"} /\ x.text \in Seq(Rows)
             /\ DOMAIN x.ring = {"keys", "offset", "idx"}
             /\ HasRec => RecReads(x.state, x.conv, x.text)
             /\ SidecarInv(x.sidecar, x.text)
  <2>1. CASE x \in snaps
    BY <2>1 DEF SnapsInv
  <2>2. CASE x = s
    BY <1>2, <1>3, <1>4, <2>2
  <2> QED
    BY <1>1, <2>1, <2>2
<1> QED
  BY <1>1, <1>5 DEF SnapsInv, HasKV, HasRec, HasRing, SidecarInv, RecReads

LEMMA SnapsStep ==
  ASSUME RequestInv, SnapsInv, RecInv, KVInv, Next
  PROVE  SnapsInv'
<1>1. target' = target
  BY TargetStays
<1>2. ASSUME snaps' \subseteq snaps
      PROVE  SnapsInv'
  BY <1>1, <1>2 DEF SnapsInv, HasKV, HasRec, HasRing, SidecarInv, RecReads
<1>3. CASE PublishPrompt
  <2>1. request.pc = "prefill" /\ text \in Seq(Rows)
    BY <1>3 DEF PublishPrompt, At, RequestInv
  <2>2. SidecarInv(None, text)
    BY <2>1, NoSidecar
  <2> QED
    BY <1>3, <2>1, <2>2, KeptSnaps DEF PublishPrompt
<1>4. CASE PublishAnswer
  <2> DEFINE sidecar == IF request.sidecar.at < Len(text) THEN request.sidecar ELSE None
  <2>1. request.pc = "done" /\ text \in Seq(Rows) /\ SidecarInv(request.sidecar, text)
    BY <1>4 DEF PublishAnswer, At, RequestInv
  <2>2. SidecarInv(sidecar, text)
    BY <2>1, NoSidecar
  <2>3. Keeps(KVState(kv), ring, sidecar)
    BY <1>4 DEF PublishAnswer
  <2> HIDE DEF sidecar
  <2> QED
    BY <2>1, <2>2, <2>3, KeptSnaps
<1>5. ASSUME NEW s \in snaps, Reload(s)
      PROVE  SnapsInv'
  <2> DEFINE file == Serialized(s)
             r == Deserialized(file)
  <2>1. /\ DOMAIN s = {"text", "kv", "ring", "state", "conv", "sidecar"} /\ s.text \in Seq(Rows)
        /\ HasRec => RecReads(s.state, s.conv, s.text)
        /\ SidecarInv(s.sidecar, s.text) /\ HasKV
    BY DEF SnapsInv
  <2>2. snaps' = (snaps \ {s}) \cup {r}
    BY <1>5 DEF Reload
  <2>3. /\ file.text = s.text /\ file.state = s.state /\ file.conv = s.conv
        /\ file.sidecar = IF s.sidecar.at > 0 THEN s.sidecar ELSE None
    BY DEF Serialized
  <2> HIDE DEF file
  <2>4. /\ DOMAIN r = {"text", "kv", "ring", "state", "conv", "sidecar"} /\ r.text = s.text
        /\ DOMAIN r.ring = {"keys", "offset", "idx"} /\ r.state = s.state /\ r.conv = s.conv
        /\ r.sidecar = IF s.sidecar.at > 0 THEN s.sidecar ELSE None
    BY <2>3 DEF Deserialized
  <2> HIDE DEF r
  <2>5. SidecarInv(r.sidecar, r.text)
    BY <2>1, <2>4, NoSidecar
  <2>6. ASSUME NEW x \in snaps'
        PROVE  /\ DOMAIN x = {"text", "kv", "ring", "state", "conv", "sidecar"} /\ x.text \in Seq(Rows)
               /\ DOMAIN x.ring = {"keys", "offset", "idx"}
               /\ HasRec => RecReads(x.state, x.conv, x.text)
               /\ SidecarInv(x.sidecar, x.text)
    <3>1. CASE x \in snaps
      BY <3>1 DEF SnapsInv
    <3>2. CASE x = r
      BY <2>1, <2>4, <2>5, <3>2
    <3> QED
      BY <2>2, <3>1, <3>2
  <2> QED
    BY <1>1, <2>1, <2>6 DEF SnapsInv, HasKV, HasRec, HasRing, SidecarInv, RecReads
<1>6. ASSUME NEW s \in snaps, Evict(s)
      PROVE  SnapsInv'
  BY <1>2, <1>6 DEF Evict
<1>7. CASE snaps' = snaps
  BY <1>2, <1>7
<1>8. ASSUME NEW s \in snaps, Hydrate(s) \/ HydrateAtSidecar(s)
      PROVE  snaps' = snaps
  BY <1>8 DEF Hydrate, HydrateAtSidecar, Opens
<1>9. Open \/ Close \/ Restore \/ CaptureSidecar => snaps' = snaps
  BY DEF Open, Opens, Close, Restore, Committed, CaptureSidecar
<1>10. (\E n \in 1 .. MaxChunk : Prefill(n)) \/ (\E block \in Blocks : Start(block)) => snaps' = snaps
  BY DEF Prefill, Start
<1>11. Cycle => snaps' = snaps
  BY DEF Cycle, Draft, DraftNothing, DraftBranches, Verify, VerifyBatch, Verified, VerifyTree, Committed
<1> QED
  BY <1>3, <1>4, <1>5, <1>6, <1>7, <1>8, <1>9, <1>10, <1>11 DEF Next

LEMMA RecStep ==
  ASSUME RequestInv, SnapsInv, RecInv, Next
  PROVE  RecInv'
<1>1. target' = target
  BY TargetStays
<1>2. CASE ~HasRec
  BY <1>1, <1>2 DEF RecInv, HasRec
<1>3. CASE HasRec
  <2> DEFINE Same == RecShape(rec') /\ RecReads(rec'.state, rec'.conv, text') /\ request'.pc # "restore"
             Own == /\ RecShape(rec') /\ request'.pc = "restore"
                    /\ rec'.saved # << >> /\ RecReads(rec'.saved[1].state, rec'.saved[1].conv, text')
                    /\ rec'.tape = Block(request.size, request.accepted + 1)'
                    /\ RecReads(rec'.state, rec'.conv, HasRead')
  <2>1. Same \/ Own => RecInv'
    BY <1>1, <1>3 DEF RecInv, RecShape, HasRec, At, RecReads, Block
  <2>2. SUFFICES RecInv'
    OBVIOUS
  <2>3. Served /\ text \in Seq(Rows) /\ request.block \in Nat /\ request.left \in Nat
    BY ServedNow DEF Served
  <2>4. RecShape(rec) /\ (request.pc # "restore" => RecReads(rec.state, rec.conv, text))
    BY <1>3 DEF RecInv, RecShape, At
  <2>5. ASSUME UNCHANGED <<text, rec>>, request.pc # "restore", request'.pc # "restore"
        PROVE  Same
    BY <2>4, <2>5
  <2>6. CASE Open
    <3>1. rec' = EmptyRec /\ text' = << >> /\ request'.pc = "prefill"
      BY <2>6 DEF Open, Opens, Become, NoRequest
    <3>2. Same
      BY <3>1, EmptyRecReads
    <3> QED
      BY <2>1, <3>2
  <2>7. ASSUME NEW s \in snaps, Hydrate(s)
        PROVE  Same
    <3>1. rec' = [EmptyRec EXCEPT !.state = s.state, !.conv = s.conv] /\ text' = s.text /\ request'.pc = "prefill"
      BY <2>7 DEF Hydrate, Opens, Become, NoRequest
    <3>2. RecReads(s.state, s.conv, s.text)
      BY <1>3 DEF SnapsInv
    <3>3. RecShape(rec') /\ rec'.state = s.state /\ rec'.conv = s.conv
      BY <3>1 DEF EmptyRec, RecShape
    <3> QED
      BY <3>1, <3>2, <3>3
  <2>8. ASSUME NEW s \in snaps, HydrateAtSidecar(s)
        PROVE  Same
    <3>1. /\ rec' = [EmptyRec EXCEPT !.state = s.sidecar.state, !.conv = s.sidecar.conv]
          /\ text' = FirstN(s.text, s.sidecar.at) /\ request'.pc = "prefill" /\ s.sidecar.at > 0
      BY <2>8 DEF HydrateAtSidecar, Opens, Become, NoRequest
    <3>2. RecReads(s.sidecar.state, s.sidecar.conv, FirstN(s.text, s.sidecar.at))
      BY <3>1 DEF SnapsInv, SidecarInv
    <3>3. RecShape(rec') /\ rec'.state = s.sidecar.state /\ rec'.conv = s.sidecar.conv
      BY <3>1 DEF EmptyRec, RecShape
    <3> QED
      BY <3>1, <3>2, <3>3
  <2>9. ASSUME UNCHANGED <<request, text, rec>>
        PROVE  RecInv'
    BY <1>1, <2>9 DEF RecInv, HasRec, HasRead, At, RecReads, Block
  <2>10. ASSUME NEW s \in snaps, Evict(s) \/ Reload(s)
         PROVE  RecInv'
    BY <2>9, <2>10 DEF Evict, Reload
  <2>11. ASSUME NEW n \in 1 .. MaxChunk, Prefill(n)
         PROVE  Same
    <3> DEFINE rows == NextRows(n)
    <3>1. n \in Nat
      OBVIOUS
    <3>2. rows \in Seq(Rows)
      BY <2>3, <3>1, NextRowsAre
    <3>3. request' = request /\ request.pc = "prefill" /\ text' = text \o rows /\ rec' = RecUpdate(rec, rows)
      BY <1>3, <2>11 DEF Prefill, At, Forward, ForwardQwen, Become
    <3> HIDE DEF rows
    <3> QED
      BY <2>3, <2>4, <3>2, <3>3, RecUpdateEffect
  <2>12. PublishPrompt => RecInv'
    BY <2>9 DEF PublishPrompt, Keeps
  <2>13. PublishAnswer => Same
    BY <2>5 DEF PublishAnswer, Keeps, Goto, At, RequestInv
  <2>14. CaptureSidecar => Same
    <3>1. CaptureSidecar => UNCHANGED <<text, rec>> /\ request.pc = "prefill" /\ request'.pc = "prefill"
      BY DEF CaptureSidecar, At, RequestInv
    <3> QED
      BY <2>5, <3>1
  <2>15. ASSUME NEW block \in Blocks, Start(block)
         PROVE  Same
    <3>1. UNCHANGED <<text, rec>> /\ request.pc = "prefill" /\ request'.pc = "draft"
      BY <2>15 DEF Start, At, RequestInv
    <3> QED
      BY <2>5, <3>1
  <2>16. ASSUME NEW size \in Sizes,
                \/ Draft(size) \/ DraftNothing(size)
                \/ \E branches \in 1 .. 2 : DraftBranches(size, branches)
         PROVE  Same
    <3>1. UNCHANGED <<text, rec>> /\ request.pc = "draft" /\ request'.pc = "verify"
      BY <2>16 DEF Draft, DraftNothing, DraftBranches, Goto, At, RequestInv
    <3> QED
      BY <2>5, <3>1
  <2>17. ASSUME NEW size \in Sizes, NEW accepted \in 0 .. size - 1, Verified(size, accepted, "restore"),
                request.pc = "verify", rec' = RecUpdate(ArmRollback(rec), Block(size, accepted + 1))
         PROVE  Own
    <3> DEFINE rows == Block(size, accepted + 1)
               c == ArmRollback(rec)
    <3>1. size \in Nat /\ accepted + 1 \in 0 .. size
      BY <2>3, SizesAre
    <3>2. rows \in Seq(Rows)
      BY <2>3, <3>1, BlockIs
    <3>3. /\ request'.id = request.id /\ request'.pc = "restore" /\ request'.size = size
          /\ request'.accepted = accepted /\ text' = text
      BY <2>17 DEF Verified, RequestInv
    <3>4. Block(request.size, request.accepted + 1)' = rows /\ HasRead' = text \o rows
      BY <3>3 DEF HasRead, At, Block
    <3>5. /\ RecShape(c) /\ c.state = rec.state /\ c.conv = rec.conv /\ c.armed
          /\ c.saved = <<[state |-> rec.state, conv |-> rec.conv]>>
      BY <2>4, ArmEffect
    <3>6. rec' = RecUpdate(c, rows)
      BY <2>17
    <3> HIDE DEF rows, c
    <3>7. /\ RecShape(rec') /\ RecReads(rec'.state, rec'.conv, text \o rows)
          /\ rec'.saved = c.saved /\ rec'.tape = rows
      BY <2>3, <2>4, <2>17, <3>2, <3>5, <3>6, RecUpdateEffect
    <3>8. c.saved # << >> /\ c.saved[1].state = rec.state /\ c.saved[1].conv = rec.conv
      BY <3>5
    <3> QED
      BY <2>4, <2>17, <3>3, <3>4, <3>7, <3>8
  <2>18. ASSUME NEW size \in Sizes, NEW accepted \in 0 .. size - 1, Verify(size, accepted)
         PROVE  Own
    BY <1>3, <2>17, <2>18 DEF Verify, At, Forward, ForwardQwen, Become
  <2>19. ASSUME NEW size \in Sizes, NEW n \in 1 .. 2, NEW accepted \in [1 .. n -> 0 .. size - 1],
                VerifyBatch(size, accepted)
         PROVE  Own
    <3> DEFINE best == CHOOSE i \in 1 .. Len(accepted) : \A j \in 1 .. Len(accepted) :
                         accepted[j] <= accepted[i] /\ (accepted[j] = accepted[i] => i <= j)
               a == accepted[best]
    <3>1. size \in Nat
      BY <2>3, SizesAre
    <3>2. a \in 0 .. size - 1
      BY <3>1, BestAccepted
    <3>3. /\ Verified(size, a, "restore") /\ request.pc = "verify"
          /\ rec' = RecUpdate(ArmRollback(rec), Block(size, a + 1))
      BY <1>3, <2>19 DEF VerifyBatch, At, Become
    <3> HIDE DEF a
    <3> QED
      BY <2>17, <3>2, <3>3
  <2>20. CASE Restore
    <3> DEFINE size == request.size
               a == request.accepted
               b == Block(size, a + 1)
    <3>1. /\ request.pc = "restore" /\ size \in Nat /\ a \in 0 .. size - 1
          /\ Committed(a + 1) /\ rec' = RestoredRec
      BY <2>20 DEF Restore, At, RequestInv, Become
    <3>2. a + 1 \in 0 .. size /\ a \in Nat
      BY <3>1
    <3>3. /\ b \in Seq(Rows) /\ Len(b) = size /\ FirstN(b, a + 1) = NextRows(a + 1)
          /\ a + 1 = size => b = NextRows(a + 1)
      BY <2>3, <3>1, <3>2, BlockIs
    <3>4. text' = text \o NextRows(a + 1) /\ request'.pc # "restore"
      BY <3>1 DEF Committed, RequestInv
    <3>5. /\ rec.saved # << >> /\ RecReads(rec.saved[1].state, rec.saved[1].conv, text)
          /\ rec.tape = b
          /\ a = size - 1 => RecReads(rec.state, rec.conv, text \o b)
      BY <1>3, <3>1 DEF RecInv, At, HasRead
    <3>6. RestoredRec = IF a = size - 1 THEN Cleared(rec) ELSE Rollback(rec, a)
      BY DEF RestoredRec
    <3> HIDE DEF b, size, a
    <3>7. RecShape(rec') /\ RecReads(rec'.state, rec'.conv, text')
      <4>1. CASE a = size - 1
        <5>1. a + 1 = size
          BY <3>1, <4>1
        <5>2. rec' = Cleared(rec) /\ RecReads(rec.state, rec.conv, text')
          BY <3>1, <3>3, <3>4, <3>5, <3>6, <4>1, <5>1
        <5> QED
          BY <2>4, <5>2, ClearedEffect
      <4>2. CASE a # size - 1
        <5>1. rec' = Rollback(rec, a)
          BY <3>1, <3>6, <4>2
        <5>2. rec.tape \in Seq(Rows) /\ a + 1 <= Len(rec.tape) /\ FirstN(rec.tape, a + 1) = NextRows(a + 1)
          BY <3>2, <3>3, <3>5
        <5>3. LET d == Rollback(rec, a) IN
              RecShape(d) /\ RecReads(d.state, d.conv, text \o FirstN(rec.tape, a + 1))
          BY <2>3, <2>4, <3>2, <3>5, <5>2, RollbackEffect
        <5> QED
          BY <3>4, <5>1, <5>2, <5>3
      <4> QED
        BY <4>1, <4>2
    <3> QED
      BY <2>1, <3>4, <3>7
  <2>21. ASSUME NEW size \in Sizes, NEW path \in Paths(size), VerifyTree(size, path)
         PROVE  Same
    <3> DEFINE slots == TreeSlots(size, path)
               rows == NextRows(Len(path))
    <3>1. size \in Nat
      BY <2>3, SizesAre
    <3>2. Len(path) \in 1 .. size /\ Picked(rows, slots, path)
      BY <2>3, <3>1, TreePicked
    <3>3. request.pc = "verify" /\ rec' = RecCommitTree(rec, slots, path) /\ Committed(Len(path))
      BY <2>21 DEF VerifyTree, At, Become
    <3>4. text' = text \o rows /\ request'.pc # "restore"
      BY <3>3 DEF Committed, RequestInv
    <3>5. rows \in Seq(Rows)
      BY <2>3, <3>2, NextRowsAre
    <3>6. rec' = [rec EXCEPT !.state = @ \o rows, !.conv = LastN(@ \o rows, Keep)]
      <4> HIDE DEF slots, rows
      <4> QED
        BY <3>2, <3>3 DEF RecCommitTree, Picked
    <3> HIDE DEF rows
    <3>7. RecReads(rec.state \o rows, LastN(rec.conv \o rows, Keep), text \o rows)
      BY <2>3, <2>4, <3>3, <3>5, RecAppend
    <3>8. RecShape(rec') /\ rec'.state = rec.state \o rows /\ rec'.conv = LastN(rec.conv \o rows, Keep)
      BY <2>4, <3>6 DEF RecShape
    <3> QED
      BY <3>4, <3>7, <3>8
  <2>22. CASE Close
    <3>1. rec' = EmptyRec /\ text' = << >> /\ request'.pc = "none"
      BY <2>22 DEF Close, Become, NoRequest
    <3>2. Same
      BY <3>1, EmptyRecReads
    <3> QED
      BY <2>1, <3>2
  <2> HIDE DEF Same, Own
  <2> QED
    BY <2>1, <2>6, <2>7, <2>8, <2>10, <2>11, <2>12, <2>13, <2>14, <2>15, <2>16, <2>18, <2>19,
       <2>20, <2>21, <2>22 DEF Next, Cycle
<1> QED
  BY <1>2, <1>3

-----------------------------------------------------------------------------
(* The draft caches, through every step. *)

LEMMA EmptyFirst ==
  ASSUME NEW t \in Seq(Rows)
  PROVE  FirstN(t, 0) = << >>
<1>1. 0 \in 0 .. Len(t)
  BY Elements
<1>2. FirstN(t, 0) \in Seq(Rows) /\ Len(FirstN(t, 0)) = 0
  BY <1>1, FirstRows
<1> QED
  BY <1>2, EmptySeq

LEMMA EmptyFullReads == FullShape(EmptyFull) /\ FullReads(EmptyFull, << >>)
<1>1. /\ DOMAIN EmptyFull = {"mem", "keys", "length", "offset"} /\ EmptyFull.mem = << >>
      /\ EmptyFull.keys = Nowhere /\ EmptyFull.length = 0 /\ EmptyFull.offset = 0
  BY DEF EmptyFull
<1>2. Memory(<< >>)
  BY FS_EmptySet DEF Memory
<1>3. Held(EmptyFull)
  BY <1>1, <1>2 DEF Held
<1>4. ArrayOf(EmptyFull) = << >>
  BY <1>1 DEF ArrayOf
<1> QED
  BY <1>1, <1>3, <1>4 DEF FullShape, FullReads, Begins

\* Every step leaves the draft caches and what they have read of the text
\* alone, or empties them, or has them read the text up to its end.
Unchanged == /\ UNCHANGED <<full, windowed>>
             /\ text' \in Seq(Rows) /\ Len(text) <= Len(text')
             /\ \A n \in 0 .. Len(text) : FirstN(text', n) = FirstN(text, n)
Emptied == full' = EmptyFull /\ windowed' = EmptyWindowed
Drafted(size) ==
  /\ size \in Nat /\ size > 1 /\ request.pc = "draft" /\ text' = text
  /\ windowed' = WindowedAppend(windowed, Unread)
  /\ \/ \E block \in {<< >>, Noise(size)} : full' = Collected(DraftFull(full, block), {})
     \/ LET greedy == DraftFull(full, Noise(size))
            branch == DraftFull([full EXCEPT !.mem = greedy.mem], Noise(size))
        IN full' = Collected(greedy, {}) \/ full' = Collected([greedy EXCEPT !.mem = branch.mem], {})

LEMMA DraftCases ==
  ASSUME RequestInv, Next
  PROVE  Unchanged \/ Emptied \/ \E size \in Sizes : Drafted(size)
<1>1. Served /\ text \in Seq(Rows) /\ request.block \in Nat /\ request.left \in Nat
  BY ServedNow DEF Served
<1>2. ASSUME UNCHANGED <<text, full, windowed>>
      PROVE  Unchanged
  <2>1. Len(text) \in Nat
    BY <1>1, Elements
  <2> QED
    BY <1>1, <1>2, <2>1 DEF Unchanged
<1>3. ASSUME NEW n \in Nat, text' = text \o NextRows(n), UNCHANGED <<full, windowed>>
      PROVE  Unchanged
  <2> DEFINE rows == NextRows(n)
  <2>1. rows \in Seq(Rows)
    BY <1>1, NextRowsAre
  <2> HIDE DEF rows
  <2>2. text' = text \o rows
    BY <1>3 DEF rows
  <2>3. text \o rows \in Seq(Rows) /\ Len(text \o rows) = Len(text) + Len(rows)
    BY <1>1, <2>1, Joined
  <2>4. \A k \in 0 .. Len(text) : FirstN(text \o rows, k) = FirstN(text, k)
    BY <1>1, <2>1, FirstOfJoined
  <2>5. Len(text) \in Nat /\ Len(rows) \in Nat
    BY <1>1, <2>1, Elements
  <2> QED
    BY <1>3, <2>2, <2>3, <2>4, <2>5 DEF Unchanged
<1>4. Open \/ Close => Emptied
  BY DEF Open, Opens, Close, Emptied
<1>5. ASSUME NEW s \in snaps, Hydrate(s) \/ HydrateAtSidecar(s)
      PROVE  Emptied
  BY <1>5 DEF Hydrate, HydrateAtSidecar, Opens, Emptied
<1>6. ASSUME NEW s \in snaps, Evict(s) \/ Reload(s)
      PROVE  Unchanged
  BY <1>2, <1>6 DEF Evict, Reload
<1>7. PublishPrompt \/ PublishAnswer \/ CaptureSidecar => Unchanged
  BY <1>2 DEF PublishPrompt, PublishAnswer, CaptureSidecar, Keeps
<1>8. ASSUME NEW block \in Blocks, Start(block)
      PROVE  Unchanged
  BY <1>2, <1>8 DEF Start
<1>9. ASSUME NEW n \in 1 .. MaxChunk, Prefill(n)
      PROVE  Unchanged
  BY <1>3, <1>9 DEF Prefill
<1>10. Restore => Unchanged
  <2>1. Restore => request.accepted + 1 \in Nat
    BY DEF Restore, RequestInv, At
  <2> QED
    BY <1>3, <2>1 DEF Restore, Committed
<1>11. ASSUME NEW size \in Sizes
       PROVE  /\ Draft(size) => Drafted(size)
              /\ DraftNothing(size) => Unchanged
              /\ \A branches \in 1 .. 2 : DraftBranches(size, branches) => Drafted(size)
              /\ \A accepted \in 0 .. size - 1 : Verify(size, accepted) => Unchanged
              /\ \A accepted : VerifyBatch(size, accepted) => Unchanged
              /\ \A path \in Paths(size) : VerifyTree(size, path) => Unchanged
  <2>1. size \in Nat
    BY <1>1, SizesAre
  <2>2. Draft(size) => Drafted(size)
    BY <2>1 DEF Draft, Drafted, At
  <2>3. DraftNothing(size) => Unchanged
    BY <1>2 DEF DraftNothing
  <2>4. \A branches \in 1 .. 2 : DraftBranches(size, branches) => Drafted(size)
    BY <2>1 DEF DraftBranches, Drafted, At
  <2>5. \A accepted \in 0 .. size - 1 : Verify(size, accepted) => Unchanged
    BY <1>2 DEF Verify, Verified
  <2>6. \A accepted : VerifyBatch(size, accepted) => Unchanged
    BY <1>2 DEF VerifyBatch, Verified
  <2>7. \A path \in Paths(size) : VerifyTree(size, path) => Unchanged
    <3>1. \A path \in Paths(size) : Len(path) \in Nat
      BY <1>1, <2>1, TreePicked
    <3> QED
      BY <1>3, <3>1 DEF VerifyTree, Committed
  <2> QED
    BY <2>2, <2>3, <2>4, <2>5, <2>6, <2>7
<1>12. Cycle => Unchanged \/ \E size \in Sizes : Drafted(size)
  BY <1>11 DEF Cycle
<1> QED
  BY <1>4, <1>5, <1>6, <1>7, <1>8, <1>9, <1>10, <1>12 DEF Next

\* A draft has read the whole text.
LEMMA DraftedReads ==
  ASSUME RequestInv, FullInv, NEW size \in Sizes, Drafted(size)
  PROVE  FullShape(full') /\ FullReads(full', text) /\ full'.offset = Len(text)
<1> DEFINE o == full.offset
           t == FirstN(text, o)
<1>1. Served /\ text \in Seq(Rows) /\ Len(text) \in Nat
  BY ServedNow, Elements DEF Served
<1>2. o \in 0 .. Len(text) /\ FullShape(full) /\ FullReads(full, t)
  BY DEF FullInv
<1> DEFINE rows == Unread
<1>3. /\ t \in Seq(Rows) /\ Len(t) = o /\ rows \in Seq(Rows) /\ t \o rows = text
  BY <1>1, <1>2, UnreadFollows DEF Unread
<1>4. text # << >> /\ text' = text /\ size \in Nat
  BY DEF Drafted, RequestInv
<1>5. ASSUME NEW d, FullShape(d), FullReads(d, text), full' = Collected(d, {})
      PROVE  FullShape(full') /\ FullReads(full', text) /\ full'.offset = Len(text)
  <2>1. FullShape(full') /\ FullReads(full', text)
    BY <1>1, <1>5, FullCollected
  <2> QED
    BY <2>1 DEF FullReads
<1>6. ASSUME NEW block \in Seq(Rows)
      PROVE  FullShape(DraftFull(full, block)) /\ FullReads(DraftFull(full, block), text)
  <2> HIDE DEF t, rows
  <2>1. DraftFull(full, block) = FullFetchWithBlock(FullAppend(full, rows), block)
    BY DEF DraftFull, Advanced, rows
  <2>2. LET d == FullFetchWithBlock(FullAppend(full, rows), block) IN
        FullShape(d) /\ FullReads(d, t \o rows)
    BY <1>2, <1>3, <1>4, DraftFullEffect
  <2> QED
    BY <1>3, <2>1, <2>2
<1>7. Noise(size) \in Seq(Rows) /\ << >> \in Seq(Rows)
  BY <1>1, <1>4, NoiseIs, NoRows
<1>8. CASE \E block \in {<< >>, Noise(size)} : full' = Collected(DraftFull(full, block), {})
  BY <1>5, <1>6, <1>7, <1>8
<1>9. CASE full' = Collected(DraftFull(full, Noise(size)), {})
  BY <1>5, <1>6, <1>7, <1>9
<1> DEFINE block == Noise(size)
           g == DraftFull(full, block)
           f == [full EXCEPT !.mem = g.mem]
           b == DraftFull(f, block)
           d == [g EXCEPT !.mem = b.mem]
<1>10. CASE full' = Collected(d, {})
  <2>1. g = FullFetchWithBlock(FullAppend(full, rows), block)
    BY DEF DraftFull, Advanced
  <2>2. f.offset = full.offset
    BY <1>2 DEF FullShape
  <2>3. b = FullFetchWithBlock(FullAppend(f, rows), block)
    BY <2>2 DEF DraftFull, Advanced, Unread
  <2>4. f = [full EXCEPT !.mem = g.mem] /\ d = [g EXCEPT !.mem = b.mem] /\ full' = Collected(d, {})
    BY <1>10
  <2>5. block \in Seq(Rows)
    BY <1>7
  <2> HIDE DEF t, rows, g, f, b, block
  <2>6. FullShape([g EXCEPT !.mem = b.mem]) /\ FullReads([g EXCEPT !.mem = b.mem], t \o rows)
    <3>1. t \o rows # << >>
      BY <1>3, <1>4
    <3> QED
      BY <1>2, <1>3, <2>1, <2>3, <2>4, <2>5, <3>1, BranchEffect
  <2> HIDE DEF d
  <2>7. FullShape(d) /\ FullReads(d, text)
    BY <1>3, <2>4, <2>6
  <2> QED
    BY <1>5, <2>4, <2>7
<1> QED
  BY <1>8, <1>9, <1>10 DEF Drafted

LEMMA FullStep ==
  ASSUME RequestInv, RequestInv', FullInv, Next
  PROVE  FullInv'
<1> DEFINE o == full.offset
           t == FirstN(text, o)
<1>1. Served /\ text \in Seq(Rows) /\ Len(text) \in Nat
  BY ServedNow, Elements DEF Served
<1>2. o \in 0 .. Len(text) /\ FullShape(full) /\ FullReads(full, t)
  BY DEF FullInv
<1>3. CASE Unchanged
  <2>1. o \in 0 .. Len(text') /\ FirstN(text', o) = t /\ full' = full
    <3>1. Len(text') \in Nat
      BY <1>3, Elements DEF Unchanged
    <3> QED
      BY <1>1, <1>2, <1>3, <3>1 DEF Unchanged
  <2> QED
    BY <1>2, <2>1 DEF FullInv
<1>4. CASE Emptied
  <2>1. full' = EmptyFull /\ EmptyFull.offset = 0
    BY <1>4 DEF Emptied, EmptyFull
  <2>2. text' \in Seq(Rows)
    BY DEF RequestInv
  <2>3. FirstN(text', 0) = << >> /\ 0 \in 0 .. Len(text')
    BY <2>2, EmptyFirst, Elements
  <2> QED
    BY <2>1, <2>3, EmptyFullReads DEF FullInv
<1>5. ASSUME NEW size \in Sizes, Drafted(size)
      PROVE  FullInv'
  <2>1. FullShape(full') /\ FullReads(full', text) /\ full'.offset = Len(text) /\ text' = text
    BY <1>5, DraftedReads DEF Drafted
  <2>2. FirstN(text, Len(text)) = text
    BY <1>1, FirstOfAll
  <2> QED
    BY <1>1, <2>1, <2>2 DEF FullInv
<1> QED
  BY <1>3, <1>4, <1>5, DraftCases

LEMMA UnreadStep ==
  ASSUME RequestInv, FullInv, UnreadInv, Next
  PROVE  UnreadInv'
<1>1. Served /\ text \in Seq(Rows) /\ Len(text) \in Nat /\ request.block \in Nat /\ request.left \in Nat
  BY ServedNow, Elements DEF Served
<1>2. full.offset \in 0 .. Len(text)
  BY DEF FullInv
<1>3. CASE full'.offset = 0
  BY <1>3 DEF UnreadInv
<1>4. CASE Emptied
  BY <1>3, <1>4 DEF Emptied, EmptyFull
<1>5. ASSUME UNCHANGED <<text, full>>, request'.pc = request.pc \/ request'.pc = "published",
             request'.block = request.block, request'.left = request.left
      PROVE  UnreadInv'
  BY <1>5 DEF UnreadInv, At
<1>6. Open \/ Close => UnreadInv'
  BY <1>4 DEF Open, Opens, Close, Emptied
<1>7. ASSUME NEW s \in snaps, Hydrate(s) \/ HydrateAtSidecar(s)
      PROVE  UnreadInv'
  BY <1>4, <1>7 DEF Hydrate, HydrateAtSidecar, Opens, Emptied
<1>8. ASSUME NEW s \in snaps, Evict(s) \/ Reload(s)
      PROVE  UnreadInv'
  BY <1>5, <1>8 DEF Evict, Reload
<1>9. PublishPrompt => UnreadInv'
  BY <1>5 DEF PublishPrompt, Keeps
<1>10. PublishAnswer => UnreadInv'
  <2>1. PublishAnswer => /\ UNCHANGED <<text, full>> /\ request'.pc = "published"
                         /\ request'.block = request.block /\ request'.left = request.left
    BY DEF PublishAnswer, Keeps, Goto, RequestInv
  <2> QED
    BY <1>5, <2>1
<1>11. CaptureSidecar => UnreadInv'
  <2>1. CaptureSidecar => /\ UNCHANGED <<text, full>> /\ request'.pc = request.pc
                          /\ request'.block = request.block /\ request'.left = request.left
    BY DEF CaptureSidecar, RequestInv
  <2> QED
    BY <1>5, <2>1
<1>12. At("prefill") => full.offset = 0
  BY <1>2 DEF UnreadInv
<1>13. ASSUME NEW block \in Blocks, Start(block)
       PROVE  UnreadInv'
  BY <1>3, <1>12, <1>13 DEF Start
<1>14. ASSUME NEW n \in 1 .. MaxChunk, Prefill(n)
       PROVE  UnreadInv'
  BY <1>3, <1>12, <1>14 DEF Prefill
<1>15. ASSUME NEW n \in Nat \ {0}, Committed(n), n <= request.block, request.pc \in {"verify", "restore"}
       PROVE  UnreadInv'
  <2>1. full' = full /\ text' = text \o NextRows(n)
    BY <1>15 DEF Committed
  <2>2. NextRows(n) \in Seq(Rows) /\ Len(NextRows(n)) = n
    BY <1>1, NextRowsAre
  <2>3. Len(text') = Len(text) + n
    BY <1>1, <2>1, <2>2, Joined
  <2>4. request'.block = request.block /\ (request'.pc = "done" \/ (request'.pc = "draft" /\ request.left > n))
    BY <1>15 DEF Committed, RequestInv
  <2>5. CASE request'.pc = "done"
    BY <2>5 DEF UnreadInv, At
  <2>6. CASE request'.pc = "draft" /\ request.left > n /\ full.offset > 0
    <3>1. full.offset = Len(text) /\ request.block > 1
      BY <1>1, <1>15, <2>6 DEF UnreadInv, At
    <3> QED
      BY <1>1, <1>15, <2>1, <2>3, <2>4, <2>6, <3>1 DEF UnreadInv, At
  <2>7. CASE ~(full.offset > 0)
    BY <2>1, <2>7 DEF UnreadInv
  <2> QED
    BY <2>4, <2>5, <2>6, <2>7
<1>16. CASE Restore
  <2>1. /\ request.pc = "restore" /\ Committed(request.accepted + 1)
        /\ request.size \in Sizes /\ request.accepted \in 0 .. request.size - 1
    BY <1>16 DEF Restore, At, RequestInv
  <2>2. request.size \in Nat /\ request.size <= request.block
    BY <1>1, <2>1, SizesAre
  <2>3. request.accepted + 1 \in Nat \ {0} /\ request.accepted + 1 <= request.block
    BY <1>1, <2>1, <2>2
  <2> QED
    BY <1>15, <2>1, <2>3
<1>17. ASSUME NEW size \in Sizes
       PROVE  /\ Draft(size) => UnreadInv'
              /\ DraftNothing(size) => UnreadInv'
              /\ \A branches \in 1 .. 2 : DraftBranches(size, branches) => UnreadInv'
              /\ \A accepted \in 0 .. size - 1 : Verify(size, accepted) => UnreadInv'
              /\ \A accepted : VerifyBatch(size, accepted) => UnreadInv'
              /\ \A path \in Paths(size) : VerifyTree(size, path) => UnreadInv'
  <2>1. /\ size \in Nat /\ size <= request.block /\ size <= request.left
        /\ size = 1 => request.block = 1 \/ request.left = 1
    BY <1>1, SizesAre
  <2>2. ASSUME Drafted(size), Goto("verify")
        PROVE  UnreadInv'
    <3>1. full'.offset = Len(text) /\ text' = text /\ size > 1
      BY <2>2, DraftedReads DEF Drafted
    <3>2. request'.pc = "verify" /\ request'.block = request.block
      BY <2>2 DEF Goto, RequestInv
    <3> QED
      BY <1>1, <2>1, <3>1, <3>2 DEF UnreadInv, At
  <2>3. Draft(size) => UnreadInv'
    BY <2>1, <2>2 DEF Draft, Drafted, At
  <2>4. \A branches \in 1 .. 2 : DraftBranches(size, branches) => UnreadInv'
    BY <2>1, <2>2 DEF DraftBranches, Drafted, At
  <2>5. DraftNothing(size) => UnreadInv'
    <3>1. SUFFICES ASSUME DraftNothing(size), full.offset > 0
                   PROVE  UnreadInv'
      BY DEF DraftNothing, UnreadInv
    <3>2. /\ request.pc = "draft" /\ size = 1 /\ full' = full /\ text' = text
          /\ request'.pc = "verify" /\ request'.block = request.block /\ request'.left = request.left
      BY <3>1 DEF DraftNothing, At, Goto, RequestInv
    <3>3. request.block > 1 /\ Len(text) <= full.offset + request.block
      BY <3>1, <3>2 DEF UnreadInv, At
    <3>4. request.left = 1
      BY <1>1, <2>1, <3>2, <3>3
    <3> QED
      BY <3>2, <3>3, <3>4 DEF UnreadInv, At
  <2>6. ASSUME NEW accepted, Verified(size, accepted, "restore"), request.pc = "verify"
        PROVE  UnreadInv'
    <3>1. /\ full' = full /\ text' = text
          /\ request'.pc = "restore" /\ request'.block = request.block /\ request'.left = request.left
      BY <2>6 DEF Verified, RequestInv
    <3> QED
      BY <2>6, <3>1 DEF UnreadInv, At
  <2>7. \A accepted \in 0 .. size - 1 : Verify(size, accepted) => UnreadInv'
    BY <2>6 DEF Verify, At
  <2>8. \A accepted : VerifyBatch(size, accepted) => UnreadInv'
    BY <2>6 DEF VerifyBatch, At
  <2>9. \A path \in Paths(size) : VerifyTree(size, path) => UnreadInv'
    <3>1. SUFFICES ASSUME NEW path \in Paths(size), VerifyTree(size, path)
                   PROVE  UnreadInv'
      OBVIOUS
    <3>2. Len(path) \in 1 .. size
      BY <1>1, <2>1, TreePicked
    <3>3. Len(path) \in Nat \ {0} /\ Len(path) <= request.block
      BY <1>1, <2>1, <3>2
    <3>4. Committed(Len(path)) /\ request.pc = "verify"
      BY <3>1 DEF VerifyTree, At
    <3> QED
      BY <1>15, <3>3, <3>4
  <2> QED
    BY <2>3, <2>4, <2>5, <2>7, <2>8, <2>9
<1>18. Cycle => UnreadInv'
  BY <1>17 DEF Cycle
<1> QED
  BY <1>6, <1>7, <1>8, <1>9, <1>10, <1>11, <1>13, <1>14, <1>16, <1>18 DEF Next

LEMMA EmptyWindowedReads == EmptyWindowed.offset = 0 /\ WindowedReads(EmptyWindowed, << >>)
<1>1. /\ DOMAIN EmptyWindowed = {"rows", "positions", "offset"} /\ EmptyWindowed.rows = << >>
      /\ EmptyWindowed.positions = << >> /\ EmptyWindowed.offset = 0
  BY DEF EmptyWindowed
<1>2. Size(0) = 0
  BY FromWithin
<1>3. Len(<< >>) = 0
  OBVIOUS
<1>4. << >> = [i \in 1 .. 0 |-> From(0, i)] /\ << >> = [i \in 1 .. 0 |-> << >>[From(0, i)]]
  OBVIOUS
<1> QED
  BY <1>1, <1>2, <1>3, <1>4 DEF WindowedReads

LEMMA WindowedStep ==
  ASSUME Roomy, RequestInv, RequestInv', FullInv, UnreadInv, WindowedInv, Next
  PROVE  WindowedInv'
<1> DEFINE o == full.offset
           t == FirstN(text, o)
<1>1. Served /\ text \in Seq(Rows) /\ Len(text) \in Nat /\ request.block \in Nat
  BY ServedNow, Elements DEF Served
<1>2. o \in 0 .. Len(text) /\ windowed.offset = o /\ WindowedReads(windowed, t)
  BY DEF FullInv, WindowedInv
<1>3. CASE Unchanged
  BY <1>2, <1>3 DEF Unchanged, WindowedInv
<1>4. CASE Emptied
  <2>1. full' = EmptyFull /\ EmptyFull.offset = 0 /\ windowed' = EmptyWindowed
    BY <1>4 DEF Emptied, EmptyFull
  <2>2. FirstN(text', 0) = << >>
    BY EmptyFirst DEF RequestInv
  <2> QED
    BY <2>1, <2>2, EmptyWindowedReads DEF WindowedInv
<1>5. ASSUME NEW size \in Sizes, Drafted(size)
      PROVE  WindowedInv'
  <2> DEFINE rows == Unread
  <2>1. /\ t \in Seq(Rows) /\ Len(t) = o /\ rows \in Seq(Rows) /\ Len(rows) = Len(text) - o /\ t \o rows = text
    BY <1>1, <1>2, UnreadFollows DEF Unread
  <2>2. full'.offset = Len(text) /\ text' = text /\ windowed' = WindowedAppend(windowed, rows)
    BY <1>5, DraftedReads DEF Drafted
  <2>3. Fits(o, Len(text) - o)
    <3>1. SUFFICES ASSUME o > 0
                   PROVE  Len(text) - o <= Window \/ o >= Sink
      BY DEF Fits
    <3>2. Len(text) <= o + request.block /\ request.block \in Blocks
      BY <1>5, <3>1 DEF Drafted, UnreadInv, At, RequestInv
    <3>3. CASE \A b \in Blocks : b <= Window
      BY <1>1, <1>2, <3>2, <3>3, WindowSizes
    <3>4. CASE Sink <= 1
      BY <1>2, <3>1, <3>4, WindowSizes
    <3> QED
      BY <3>3, <3>4 DEF Roomy
  <2> HIDE DEF t, rows
  <2>4. Fits(Len(t), Len(rows))
    BY <2>1, <2>3
  <2>5. WindowedReads(windowed', text)
    BY <1>2, <2>1, <2>2, <2>4, WindowedAppendEffect
  <2>6. windowed'.offset = Len(text) /\ FirstN(text, Len(text)) = text
    BY <1>1, <2>5, FirstOfAll DEF WindowedReads
  <2> QED
    BY <2>2, <2>5, <2>6 DEF WindowedInv
<1> QED
  BY <1>3, <1>4, <1>5, DraftCases


-----------------------------------------------------------------------------
(* The rings, through every step. *)

\* Two rings hold the same rows, at the same place.
Likewise(c, d) == ArrayOf(d) = ArrayOf(c) /\ d.offset = c.offset /\ d.idx = c.idx

RingServes(c, kept) == RingShape(c) /\ RingKeeps(c.mem, kept)
RingOwn(c, kept) == RingServes(c, kept) /\ c.keys \notin RingReferences(kept)

LEMMA LikewiseReads ==
  ASSUME NEW c, NEW d, Likewise(c, d), NEW t
  PROVE  (RingReady(c, t) => RingReady(d, t)) /\ (RingLegible(c, t) => RingLegible(d, t))
BY DEF Likewise, RingReady, RingLegible

LEMMA ReadyIsLegible ==
  ASSUME NEW c, NEW t, RingReady(c, t)
  PROVE  RingLegible(c, t)
BY DEF RingReady, RingLegible, Ready, Legible

LEMMA RingKeptOn ==
  ASSUME NEW kept, NEW mem, RingKeeps(mem, kept)
  PROVE  /\ RingReferences(kept) \subseteq DOMAIN mem
         /\ \A other : Keeping(mem, other, RingReferences(kept)) => RingKeeps(other, kept)
BY DEF RingKeeps, RingReferences, Keeping

LEMMA RingServed ==
  ASSUME NEW d, NEW kept, RingServes(d, kept)
  PROVE  LET e == Collected(d, RingReferences(kept)) IN
         RingServes(e, kept) /\ e.keys = d.keys /\ Likewise(d, e)
<1> DEFINE e == Collected(d, RingReferences(kept))
<1>1. Referring(d) /\ DOMAIN d = {"mem", "keys", "offset", "idx"} /\ RingKeeps(d.mem, kept)
  BY DEF RingServes, RingShape, Referring
<1>2. /\ Referring(e) /\ Alike(d, e, {"mem"}) /\ ArrayOf(e) = ArrayOf(d)
      /\ Keeping(d.mem, e.mem, DOMAIN d.mem \cap RingReferences(kept))
  BY <1>1, CollectedEffect
<1> HIDE DEF e
<1>3. DOMAIN e = DOMAIN d /\ e.offset = d.offset /\ e.idx = d.idx /\ e.keys = d.keys
  BY <1>1, <1>2 DEF Alike
<1>4. RingReferences(kept) \subseteq DOMAIN d.mem
  BY <1>1, RingKeptOn
<1>5. Keeping(d.mem, e.mem, RingReferences(kept))
  BY <1>2, <1>4 DEF Keeping
<1>6. RingKeeps(e.mem, kept)
  BY <1>1, <1>5, RingKeptOn
<1>7. RingShape(e)
  BY <1>1, <1>2, <1>3 DEF RingShape, Referring
<1> QED
  BY <1>2, <1>3, <1>6, <1>7 DEF RingServes, Likewise, e

\* A ring of its own, made in the memory of another.
LEMMA RingAnew ==
  ASSUME NEW c, NEW kept, RingKeeps(c.mem, kept), NEW d, RingShape(d),
         Keeping(c.mem, d.mem, RingReferences(kept)), d.keys \notin RingReferences(kept)
  PROVE  RingOwn(d, kept)
BY RingKeptOn DEF RingOwn, RingServes

LEMMA RingEmptied ==
  ASSUME NEW c, NEW kept, RingServes(c, kept)
  PROVE  LET d == [EmptyRing EXCEPT !.mem = c.mem] IN RingOwn(d, kept) /\ RingReady(d, << >>)
<1> DEFINE d == [EmptyRing EXCEPT !.mem = c.mem]
<1>1. /\ DOMAIN d = {"mem", "keys", "offset", "idx"} /\ d.mem = c.mem
      /\ d.keys = Nowhere /\ d.offset = 0 /\ d.idx = 0
  BY DEF EmptyRing
<1> HIDE DEF d
<1>2. Memory(c.mem) /\ RingKeeps(c.mem, kept)
  BY DEF RingServes, RingShape, Held
<1>3. Nowhere \notin DOMAIN c.mem
  BY <1>2 DEF Memory, Nowhere
<1>4. RingReferences(kept) \subseteq DOMAIN c.mem
  BY <1>2, RingKeptOn
<1>5. RingShape(d)
  BY <1>1, <1>2 DEF RingShape, Held
<1>6. RingReady(d, << >>)
  BY <1>1 DEF RingReady, Ready, Straight, Settled, ArrayOf
<1> QED
  BY <1>1, <1>2, <1>3, <1>4, <1>5, <1>6 DEF RingOwn, RingServes, d

LEMMA RingCopied ==
  ASSUME NEW c, NEW kept, RingOwn(c, kept)
  PROVE  RingOwn(Copy(c), kept) /\ Likewise(c, Copy(c))
<1> DEFINE d == Copy(c)
<1>1. RingShape(c) /\ RingKeeps(c.mem, kept) /\ DOMAIN c = {"mem", "keys", "offset", "idx"}
  BY DEF RingOwn, RingServes, RingShape
<1>2. CASE c.keys = Nowhere
  BY <1>2 DEF Copy, Likewise
<1>3. CASE c.keys # Nowhere
  <2>1. d = Refer(c, ArrayOf(c)) /\ ArrayOf(c) \in Seq(Rows)
    BY <1>1, <1>3, ArrayIsRows DEF Copy, RingShape
  <2>2. Alike(Refer(c, ArrayOf(c)), d, {"offset", "idx"}) /\ d.offset = c.offset /\ d.idx = c.idx
    BY <1>1, <2>1 DEF Alike, Refer
  <2> HIDE DEF d
  <2>3. /\ RingShape(d) /\ ArrayOf(d) = ArrayOf(c)
        /\ Keeping(c.mem, d.mem, DOMAIN c.mem) /\ d.keys \notin DOMAIN c.mem
    BY <1>1, <2>1, <2>2, ReferRing
  <2>4. RingReferences(kept) \subseteq DOMAIN c.mem
    BY <1>1, RingKeptOn
  <2>5. Keeping(c.mem, d.mem, RingReferences(kept)) /\ d.keys \notin RingReferences(kept)
    BY <2>3, <2>4 DEF Keeping
  <2>6. RingOwn(d, kept)
    BY <1>1, <2>3, <2>5, RingAnew
  <2> QED
    BY <2>2, <2>3, <2>6 DEF Likewise, d
<1> QED
  BY <1>2, <1>3

\* A snapshot more: of the array in use, or of one of its own.
LEMMA RingPublished ==
  ASSUME NEW c, NEW t \in Seq(Rows), NEW kept, RingServes(c, kept), RingReady(c, t),
         NEW e, RingShape(e), Likewise(c, e), e.keys # Nowhere,
         Keeping(c.mem, e.mem, DOMAIN c.mem),
         NEW s, s.ring.keys = e.keys, s.ring.offset = e.offset, s.ring.idx = e.idx, s.text = t
  PROVE  LET d == Collected([e EXCEPT !.keys = c.keys], RingReferences(kept \cup {s})) IN
         RingServes(d, kept \cup {s}) /\ d.keys = c.keys /\ RingReady(d, t)
<1> DEFINE d == [e EXCEPT !.keys = c.keys]
           more == kept \cup {s}
<1>1. /\ DOMAIN d = {"mem", "keys", "offset", "idx"} /\ d.mem = e.mem /\ d.keys = c.keys
      /\ d.offset = e.offset /\ d.idx = e.idx
  BY DEF RingShape
<1> HIDE DEF d
<1>2. (c.keys = Nowhere \/ c.keys \in DOMAIN c.mem) /\ Memory(e.mem)
  BY DEF RingServes, RingShape, Held
<1>3. ArrayOf(d) = ArrayOf(c)
  BY <1>1, <1>2 DEF ArrayOf, Keeping
<1>4. RingShape(d)
  BY <1>1, <1>2 DEF RingShape, Held, Keeping
<1>5. Likewise(c, d)
  BY <1>1, <1>3 DEF Likewise
<1>6. e.keys \in DOMAIN e.mem /\ e.mem[e.keys] = ArrayOf(e)
  BY DEF RingShape, Held, ArrayOf
<1>7. Ready(e.mem[e.keys], e.offset, e.idx, t)
  BY <1>6, LikewiseReads DEF RingReady
<1>8. RingKeeps(d.mem, more)
  <2>1. RingKeeps(c.mem, kept)
    BY DEF RingServes
  <2>2. Keeping(c.mem, e.mem, RingReferences(kept))
    BY <2>1, RingKeptOn DEF Keeping
  <2>3. RingKeeps(e.mem, kept)
    BY <2>1, <2>2, RingKeptOn
  <2> QED
    BY <1>1, <1>6, <1>7, <2>3 DEF RingKeeps
<1>9. RingServes(d, more) /\ RingReady(d, t)
  BY <1>4, <1>5, <1>8, LikewiseReads DEF RingServes
<1>10. LET f == Collected(d, RingReferences(more)) IN
       RingServes(f, more) /\ f.keys = d.keys /\ Likewise(d, f)
  BY <1>9, RingServed
<1> QED
  BY <1>1, <1>9, <1>10, LikewiseReads DEF d, more

\* A snapshot less.
LEMMA RingEvicted ==
  ASSUME NEW c, NEW kept, RingServes(c, kept), NEW less \in SUBSET kept
  PROVE  LET e == Collected(c, RingReferences(less)) IN
         RingServes(e, less) /\ e.keys = c.keys /\ Likewise(c, e)
<1>1. RingServes(c, less)
  BY DEF RingServes, RingKeeps
<1> QED
  BY <1>1, RingServed

\* A snapshot whose array is a copy.
LEMMA RingReloaded ==
  ASSUME NEW c, NEW kept, RingOwn(c, kept), NEW s \in kept,
         NEW r, r.ring.keys = Unused(c.mem), r.ring.offset = s.ring.offset,
         r.ring.idx = s.ring.idx, r.text = s.text
  PROVE  LET d == [c EXCEPT !.mem = With(@, c.mem[s.ring.keys])]
             other == (kept \ {s}) \cup {r}
             e == Collected(d, RingReferences(other))
         IN RingOwn(e, other) /\ Likewise(c, e)
<1> DEFINE array == c.mem[s.ring.keys]
           d == [c EXCEPT !.mem = With(@, array)]
           other == (kept \ {s}) \cup {r}
<1>1. /\ s.ring.keys \in DOMAIN c.mem /\ Memory(c.mem) /\ RingKeeps(c.mem, kept)
      /\ Ready(array, s.ring.offset, s.ring.idx, s.text)
  BY DEF RingOwn, RingServes, RingKeeps, RingShape, Held
<1>2. array \in Seq(Rows)
  BY <1>1 DEF Memory
<1>3. /\ DOMAIN d = {"mem", "keys", "offset", "idx"} /\ d.mem = With(c.mem, array)
      /\ d.keys = c.keys /\ d.offset = c.offset /\ d.idx = c.idx
  BY DEF RingOwn, RingServes, RingShape
<1> HIDE DEF d
<1>4. /\ Memory(d.mem) /\ DOMAIN d.mem = DOMAIN c.mem \cup {Unused(c.mem)}
      /\ d.mem[Unused(c.mem)] = array /\ \A a \in DOMAIN c.mem : d.mem[a] = c.mem[a]
  <2> DEFINE m == c.mem
  <2>1. Memory(m)
    BY <1>1
  <2> HIDE DEF m, array
  <2>2. /\ Memory(With(m, array)) /\ DOMAIN With(m, array) = DOMAIN m \cup {Unused(m)}
        /\ With(m, array)[Unused(m)] = array /\ \A a \in DOMAIN m : With(m, array)[a] = m[a]
    BY <1>2, <2>1, WithArray
  <2> QED
    BY <1>3, <2>2 DEF m
<1>5. Unused(c.mem) \notin DOMAIN c.mem /\ Unused(c.mem) # Nowhere
  BY <1>1, UnusedIsNew DEF Nowhere
<1>6. (c.keys = Nowhere \/ c.keys \in DOMAIN c.mem) /\ c.keys \notin RingReferences(kept)
  BY DEF RingOwn, RingServes, RingShape, Held
<1>7. ArrayOf(d) = ArrayOf(c)
  BY <1>3, <1>4, <1>6 DEF ArrayOf
<1>8. RingShape(d) /\ Likewise(c, d)
  BY <1>3, <1>4, <1>6, <1>7 DEF RingShape, Held, Likewise
<1>9. RingKeeps(d.mem, other)
  <2>1. ASSUME NEW x \in kept
        PROVE  /\ x.ring.keys \in DOMAIN d.mem
               /\ Ready(d.mem[x.ring.keys], x.ring.offset, x.ring.idx, x.text)
    BY <1>1, <1>4 DEF RingKeeps
  <2>2. /\ r.ring.keys \in DOMAIN d.mem
        /\ Ready(d.mem[r.ring.keys], r.ring.offset, r.ring.idx, r.text)
    BY <1>1, <1>4
  <2> QED
    BY <2>1, <2>2 DEF RingKeeps
<1>10. c.keys \notin RingReferences(other)
  BY <1>5, <1>6 DEF RingReferences
<1>11. LET e == Collected(d, RingReferences(other)) IN
       RingServes(e, other) /\ e.keys = d.keys /\ Likewise(d, e)
  BY <1>8, <1>9, RingServed DEF RingServes
<1> QED
  BY <1>3, <1>8, <1>10, <1>11 DEF RingOwn, Likewise, d, other, array


\* The single row behind which nothing is read: whatever it takes the place
\* of, it takes it in an array of the ring's own.
LEMMA RingWriteStays ==
  ASSUME NEW c, RingShape(c), NEW t \in Seq(Rows), RingLegible(c, t),
         NEW shared \in SUBSET DOMAIN c.mem, c.keys \notin shared, NEW row \in Rows
  PROVE  LET d == RingWrite(c, row) IN
         RingShape(d) /\ Keeping(c.mem, d.mem, shared) /\ d.keys \notin shared
<1> DEFINE array == ArrayOf(c)
           d == RingWrite(c, row)
<1>1. CASE RingReady(c, t)
  BY <1>1, RingWriteEffect
<1>2. CASE ~RingReady(c, t)
  <2> DEFINE e == RingCut(RingGrow(c))
             at == IF e.idx = RingSize THEN 0 ELSE e.idx
             rows == <<row>>
             f == WriteAt(e, at, rows)
  <2>1. /\ array \in Seq(Rows) /\ Len(array) \in Nat /\ Len(t) \in Nat
        /\ RingSize \in Nat /\ RingSize >= 1 /\ DOMAIN c = {"mem", "keys", "offset", "idx"}
    BY ArrayIsRows, Elements, RingSizes DEF RingShape
  <2>2. Straight(array, c.offset, c.idx, t, RingSize) /\ ~Settled(array, c.offset, c.idx)
    BY <1>2 DEF RingReady, RingLegible, Ready, Legible
  <2>3. c.offset = Len(t) /\ c.idx \in Nat /\ c.idx < Len(array) /\ (c.idx = c.offset \/ c.idx >= RingSize)
    BY <2>1, <2>2 DEF Straight, Settled
  <2>4. RingGrow(c) = c
    BY <2>1, <2>3 DEF RingGrow
  <2>5. /\ RingShape(e) /\ Keeping(c.mem, e.mem, shared) /\ e.keys \notin shared /\ e.keys # Nowhere
        /\ at \in Nat /\ at + 1 <= Len(ArrayOf(e))
    <3>1. CASE Len(array) > RingSize
      <4> DEFINE new == LastN(array, RingSize)
      <4>1. new \in Seq(Rows) /\ Len(new) = RingSize
        <5> DEFINE m == IF RingSize <= Len(array) THEN RingSize ELSE Len(array)
        <5>1. m = RingSize
          BY <2>1, <3>1
        <5> HIDE DEF m, array
        <5>2. LastN(array, RingSize) \in Seq(Rows) /\ Len(LastN(array, RingSize)) = m
          BY <2>1, LastRows DEF m
        <5> QED
          BY <5>1, <5>2
      <4> HIDE DEF new
      <4>2. e = [Refer(c, new) EXCEPT !.idx = RingSize]
        BY <2>4, <3>1 DEF RingCut, new
      <4>3. Alike(Refer(c, new), e, {"offset", "idx"}) /\ e.idx = RingSize
        BY <2>1, <4>2 DEF Refer, Alike
      <4> HIDE DEF e
      <4>4. /\ RingShape(e) /\ ArrayOf(e) = new
            /\ Keeping(c.mem, e.mem, DOMAIN c.mem) /\ e.keys \notin DOMAIN c.mem /\ e.keys # Nowhere
        BY <4>1, <4>3, ReferRing
      <4> QED
        BY <2>1, <4>1, <4>3, <4>4 DEF Keeping
    <3>2. CASE ~(Len(array) > RingSize)
      <4>1. e = c
        BY <2>4, <3>2 DEF RingCut
      <4>2. c.keys # Nowhere
        BY <2>1, <2>3, NoRows DEF ArrayOf
      <4>3. at = c.idx
        BY <2>1, <2>3, <3>2, <4>1
      <4> QED
        BY <2>1, <2>3, <4>1, <4>2, <4>3 DEF Keeping
    <3> QED
      BY <3>1, <3>2
  <2>6. d = [[f EXCEPT !.offset = @ + 1] EXCEPT !.idx = at + 1]
    BY DEF RingWrite
  <2> HIDE DEF e, d
  <2>7. Referring(e) /\ DOMAIN e = {"mem", "keys", "offset", "idx"}
    BY <2>5 DEF RingShape, Referring
  <2>8. rows \in Seq(Rows) /\ Len(rows) = 1
    OBVIOUS
  <2> HIDE DEF at, rows
  <2>9. at + Len(rows) <= Len(ArrayOf(e))
    BY <2>5, <2>8
  <2>10. /\ Referring(f) /\ Alike(e, f, {"mem"})
         /\ Keeping(e.mem, f.mem, DOMAIN e.mem \ {e.keys})
    BY <2>5, <2>7, <2>8, <2>9, WriteEffect
  <2> HIDE DEF f
  <2>11. DOMAIN f = {"mem", "keys", "offset", "idx"} /\ f.keys = e.keys
    BY <2>7, <2>10 DEF Alike
  <2>12. DOMAIN d = DOMAIN f /\ d.mem = f.mem /\ d.keys = f.keys
    BY <2>6, <2>11
  <2>13. RingShape(d)
    BY <2>10, <2>11, <2>12 DEF RingShape, Referring, Held
  <2>14. Keeping(c.mem, d.mem, shared) /\ d.keys \notin shared
    BY <2>5, <2>10, <2>11, <2>12 DEF Keeping
  <2> QED
    BY <2>13, <2>14 DEF d
<1> QED
  BY <1>1, <1>2

LEMMA RingUpdateOwn ==
  ASSUME NEW c, NEW t \in Seq(Rows), NEW kept, RingOwn(c, kept), RingLegible(c, t),
         NEW rows \in Seq(Rows), rows # << >>
  PROVE  LET d == RingUpdate(c, rows) IN
         /\ RingOwn(d, kept)
         /\ RingReady(c, t) => RingReady(d, t \o rows)
         /\ Len(rows) > 1 => /\ RingStraight(d, t \o rows, RingSize + Len(rows) - 1)
                             /\ d.idx = Len(ArrayOf(d))
<1> DEFINE shared == RingReferences(kept)
           d == RingUpdate(c, rows)
<1>1. RingShape(c) /\ RingKeeps(c.mem, kept)
  BY DEF RingOwn, RingServes
<1>2. shared \in SUBSET DOMAIN c.mem /\ c.keys \notin shared
  BY <1>1, RingKeptOn DEF RingOwn
<1>3. Len(rows) \in Nat /\ Len(rows) # 0
  BY Elements, EmptySeq
<1> HIDE DEF shared
<1>4. RingShape(d) /\ Keeping(c.mem, d.mem, shared) /\ d.keys \notin shared
  <2>1. CASE Len(rows) = 1
    <3>1. rows[1] \in Rows
      BY <2>1, Elements
    <3>2. d = RingWrite(c, rows[1])
      BY <2>1 DEF RingUpdate
    <3> HIDE DEF d
    <3> QED
      BY <1>1, <1>2, <3>1, <3>2, RingWriteStays
  <2>2. CASE Len(rows) # 1
    BY <1>1, <1>2, <2>2, RingUpdateEffect
  <2> QED
    BY <2>1, <2>2
<1>5. RingReady(c, t) => RingReady(d, t \o rows)
  BY <1>1, <1>2, RingUpdateReady
<1>6. Len(rows) > 1 => /\ RingStraight(d, t \o rows, RingSize + Len(rows) - 1)
                       /\ d.idx = Len(ArrayOf(d))
  <2>1. SUFFICES ASSUME Len(rows) > 1
                 PROVE  /\ RingStraight(d, t \o rows, RingSize + Len(rows) - 1)
                        /\ d.idx = Len(ArrayOf(d))
    OBVIOUS
  <2> DEFINE n == Len(rows)
  <2>2. n \in Nat /\ RingSize \in Nat /\ n > 1
    BY <1>3, <2>1, RingSizes
  <2>3. RingStraight(d, t \o rows, RingSize - 1 + n) /\ d.idx = Len(ArrayOf(d))
    <3>1. Len(rows) # 1
      BY <2>2
    <3>2. /\ RingShape(d) /\ Keeping(c.mem, d.mem, shared) /\ d.keys \notin shared
          /\ IF Len(rows) = 1
             THEN RingReady(d, t \o rows) /\ Len(ArrayOf(d)) <= RingSize
             ELSE /\ RingStraight(d, t \o rows, RingSize - 1 + Len(rows))
                  /\ d.idx = Len(ArrayOf(d))
      BY <1>1, <1>2, <3>1, RingUpdateEffect
    <3> HIDE DEF d
    <3> QED
      BY <3>1, <3>2
  <2> HIDE DEF n
  <2>4. RingSize - 1 + n = RingSize + n - 1
    BY <2>2
  <2> QED
    BY <2>3, <2>4 DEF n
<1> HIDE DEF d
<1>7. RingOwn(d, kept)
  BY <1>1, <1>4, RingAnew DEF shared
<1> QED
  BY <1>5, <1>6, <1>7 DEF d


LEMMA RingStep ==
  ASSUME RequestInv, SnapsInv, RingInv, Next
  PROVE  RingInv'
<1>1. target' = target
  BY TargetStays
<1>2. CASE ~HasRing
  BY <1>1, <1>2 DEF RingInv, HasRing
<1>3. CASE HasRing
  <2> DEFINE refs == RingReferences(snaps)
             windowed_block == target.window /\ request.block > 1
             later_block == target.window /\ request'.block > 1
  <2>1. Served /\ text \in Seq(Rows) /\ request.block \in Nat /\ request.left \in Nat
    BY ServedNow DEF Served
  <2>2. /\ target.model \in {"qwen_gdn", "gemma4"} /\ (target.model = "gemma4" => ~target.window)
        /\ target.model # "gemma4" => target.window
    BY <1>3, ServedNow DEF HasRing
  <2>3. RingServes(ring, snaps) /\ (request.pc # "published" => RingOwn(ring, snaps))
    BY <1>3 DEF RingInv, RingServes, RingOwn, At
  <2>4. request.pc \in {"none", "prefill", "published"} => RingReady(ring, text)
    BY <1>3 DEF RingInv, Ending, Cut, At, HasRead
  <2>5. request.pc \in {"draft", "verify"} =>
          /\ windowed_block => RingLegible(ring, text)
          /\ ~windowed_block => RingReady(ring, text)
    BY <1>3 DEF RingInv, Ending, Cut, At, HasRead
  <2>6. request.pc = "done" /\ ~windowed_block => RingReady(ring, text)
    BY <1>3 DEF RingInv, Ending, Cut, At, HasRead
  <2>7. request.pc = "restore" =>
          /\ request.size > 1 => /\ RingStraight(ring, HasRead, RingSize + request.size - 1)
                                 /\ ring.idx = Len(ArrayOf(ring))
          /\ ~(request.size > 1) /\ ~windowed_block => RingReady(ring, HasRead)
    BY <1>3 DEF RingInv, Ending, Cut, At
  <2>8. ASSUME request'.pc # "restore", RingReady(ring', text'), RingServes(ring', snaps'),
               request'.pc # "published" => RingOwn(ring', snaps')
        PROVE  RingInv'
    <3>1. RingLegible(ring', text')
      BY <2>8, ReadyIsLegible
    <3> QED
      BY <1>1, <2>8, <3>1 DEF RingInv, RingServes, RingOwn, HasRead, At
  <2>9. ASSUME request'.pc \in {"draft", "verify", "done"}, later_block,
               RingLegible(ring', text'), RingOwn(ring', snaps')
        PROVE  RingInv'
    BY <1>1, <2>9 DEF RingInv, RingServes, RingOwn, HasRead, At, Cut
  <2>10. ASSUME NEW d, RingOwn(d, snaps), ring' = Collected(d, refs), snaps' = snaps,
                request'.pc # "restore", RingReady(d, text')
         PROVE  RingInv'
    <3> DEFINE e == Collected(d, refs)
    <3>1. RingServes(e, snaps) /\ e.keys = d.keys /\ Likewise(d, e)
      BY <2>10, RingServed DEF RingOwn
    <3> HIDE DEF e
    <3>2. RingOwn(e, snaps) /\ RingReady(e, text')
      BY <2>10, <3>1, LikewiseReads DEF RingOwn
    <3>3. ring' = e
      BY <2>10 DEF e
    <3> QED
      BY <2>8, <2>10, <3>1, <3>2, <3>3
  <2>11. ASSUME UNCHANGED <<text, ring, snaps>>, request.pc \in {"prefill", "draft"},
                request'.pc \in {"draft", "verify"},
                request.pc = "draft" => request'.block = request.block
         PROVE  RingInv'
    <3>1. RingOwn(ring', snaps')
      BY <2>3, <2>11
    <3>2. CASE RingReady(ring, text)
      BY <2>8, <2>11, <3>1, <3>2 DEF RingOwn
    <3>3. CASE ~RingReady(ring, text)
      BY <2>4, <2>5, <2>9, <2>11, <3>1, <3>3
    <3> QED
      BY <3>2, <3>3
  <2>12. CASE Open \/ Close
    <3> DEFINE d == [EmptyRing EXCEPT !.mem = ring.mem]
    <3>1. RingOwn(d, snaps) /\ RingReady(d, << >>)
      BY <2>3, RingEmptied
    <3>2. ring' = Collected(d, refs) /\ snaps' = snaps /\ request'.pc # "restore" /\ text' = << >>
      BY <2>12 DEF Open, Close, Opens, Become, NoRequest
    <3> HIDE DEF d
    <3> QED
      BY <2>10, <3>1, <3>2
  <2>13. ASSUME NEW s \in snaps, Hydrate(s)
         PROVE  RingInv'
    <3> DEFINE c == [mem |-> ring.mem, keys |-> Nowhere, offset |-> s.ring.offset, idx |-> s.ring.idx]
               array == ring.mem[s.ring.keys]
               d == HydratedRing(s)
    <3>1. /\ Memory(ring.mem) /\ s.ring.keys \in DOMAIN ring.mem
          /\ Ready(array, s.ring.offset, s.ring.idx, s.text) /\ RingKeeps(ring.mem, snaps)
      BY <2>3 DEF RingServes, RingShape, Held, RingKeeps
    <3>2. s.ring.keys # Nowhere /\ array \in Seq(Rows)
      BY <3>1 DEF Memory, Nowhere
    <3>3. ring' = Collected(d, refs) /\ snaps' = snaps /\ request'.pc = "prefill" /\ text' = s.text
      BY <2>13, <3>2 DEF Hydrate, Opens, Become, NoRequest
    <3>4. RingShape(c) /\ c.mem = ring.mem /\ c.offset = s.ring.offset /\ c.idx = s.ring.idx
      BY <3>1 DEF RingShape, Held
    <3>5. d = Refer(c, array)
      BY DEF HydratedRing
    <3> HIDE DEF c, d, array
    <3>6. Alike(Refer(c, array), d, {"offset", "idx"}) /\ d.offset = c.offset /\ d.idx = c.idx
      BY <3>4, <3>5 DEF Alike, Refer, RingShape
    <3>7. /\ RingShape(d) /\ ArrayOf(d) = array
          /\ Keeping(c.mem, d.mem, DOMAIN c.mem) /\ d.keys \notin DOMAIN c.mem
      BY <3>2, <3>4, <3>6, ReferRing
    <3>8. refs \subseteq DOMAIN c.mem
      BY <3>1, <3>4, RingKeptOn
    <3>9. Keeping(c.mem, d.mem, refs) /\ d.keys \notin refs /\ RingKeeps(c.mem, snaps)
      BY <3>1, <3>4, <3>7, <3>8 DEF Keeping
    <3>10. RingOwn(d, snaps)
      BY <3>7, <3>9, RingAnew
    <3>11. RingReady(d, s.text)
      BY <3>1, <3>4, <3>6, <3>7 DEF RingReady, array
    <3> QED
      BY <2>10, <3>3, <3>10, <3>11
  <2>14. ASSUME NEW s \in snaps
         PROVE  ~HydrateAtSidecar(s)
    BY <1>3 DEF HydrateAtSidecar, SnapsInv, SidecarInv
  <2>15. ASSUME NEW s \in snaps, Evict(s)
         PROVE  RingInv'
    <3>1. /\ snaps' \in SUBSET snaps /\ ring' = Collected(ring, RingReferences(snaps'))
          /\ UNCHANGED <<request, text>>
      BY <2>15 DEF Evict
    <3>2. HasRead' = HasRead
      BY <3>1 DEF HasRead, At, Block
    <3>3. RingServes(ring', snaps') /\ ring'.keys = ring.keys /\ Likewise(ring, ring')
      BY <2>3, <3>1, RingEvicted
    <3>4. request.pc # "published" => ring'.keys \notin RingReferences(snaps')
      BY <2>3, <3>1, <3>3 DEF RingOwn, RingReferences
    <3>5. /\ ArrayOf(ring') = ArrayOf(ring) /\ ring'.offset = ring.offset /\ ring'.idx = ring.idx
      BY <3>3 DEF Likewise
    <3>6. /\ \A w : RingStraight(ring', HasRead, w) <=> RingStraight(ring, HasRead, w)
          /\ RingReady(ring', HasRead) <=> RingReady(ring, HasRead)
          /\ RingLegible(ring', HasRead) <=> RingLegible(ring, HasRead)
      BY <3>5 DEF RingStraight, RingReady, RingLegible
    <3>7. /\ ~Ending =>
               IF request.pc = "restore" /\ request.size > 1
               THEN RingStraight(ring', HasRead, RingSize + request.size - 1) /\ ring'.idx = Len(ArrayOf(ring'))
               ELSE IF Cut THEN RingLegible(ring', HasRead) ELSE RingReady(ring', HasRead)
      BY <1>3, <3>5, <3>6 DEF RingInv, At
    <3>8. (Ending <=> Ending') /\ (Cut <=> Cut')
      BY <1>1, <3>1 DEF Ending, Cut, At
    <3> QED
      BY <1>1, <3>1, <3>2, <3>3, <3>4, <3>7, <3>8 DEF RingInv, RingServes, At
  <2>16. ASSUME NEW s \in snaps, Reload(s)
         PROVE  RingInv'
    <3> DEFINE r == Deserialized(Serialized(s))
               d == [ring EXCEPT !.mem = With(@, ring.mem[s.ring.keys])]
    <3>1. s.ring.keys \in DOMAIN ring.mem /\ Memory(ring.mem)
      BY <2>3 DEF RingServes, RingShape, Held, RingKeeps
    <3>2. s.ring.keys # Nowhere
      BY <3>1 DEF Memory, Nowhere
    <3>3. "ring" \in DOMAIN Serialized(s).arrays /\ Serialized(s).arrays["ring"] = ring.mem[s.ring.keys]
      BY <3>2 DEF Serialized
    <3>4. /\ r.ring.keys = Unused(ring.mem) /\ r.ring.offset = s.ring.offset
          /\ r.ring.idx = s.ring.idx /\ r.text = s.text
      <4>1. /\ Serialized(s).text = s.text /\ Serialized(s).offset = s.ring.offset
            /\ Serialized(s).idx = s.ring.idx
        BY DEF Serialized
      <4> QED
        BY <3>3, <4>1 DEF Deserialized
    <3>5. /\ snaps' = (snaps \ {s}) \cup {r} /\ ring' = Collected(d, RingReferences(snaps'))
          /\ UNCHANGED <<request, text>> /\ request.pc = "none"
      BY <2>16, <3>3 DEF Reload, At
    <3> HIDE DEF r
    <3>6. RingOwn(ring, snaps)
      BY <2>3, <3>5
    <3>7. RingOwn(ring', snaps') /\ Likewise(ring, ring')
      BY <3>4, <3>5, <3>6, RingReloaded
    <3>8. RingReady(ring', text')
      BY <2>4, <3>5, <3>7, LikewiseReads
    <3> QED
      BY <2>8, <3>5, <3>7, <3>8 DEF RingOwn
  <2>17. ASSUME NEW n \in 1 .. MaxChunk, Prefill(n)
         PROVE  RingInv'
    <3> DEFINE rows == NextRows(n)
               d == RingUpdate(ring, rows)
    <3>1. rows \in Seq(Rows) /\ rows # << >>
      <4>1. n \in Nat \ {0}
        OBVIOUS
      <4>2. rows \in Seq(Rows) /\ Len(rows) = n
        BY <2>1, <4>1, NextRowsAre
      <4> QED
        BY <4>1, <4>2, EmptySeq
    <3>2. /\ request' = request /\ request.pc = "prefill" /\ snaps' = snaps /\ text' = text \o rows
          /\ ring' = Collected(d, refs)
      BY <1>3, <2>17 DEF Prefill, At, Forward, ForwardQwen, ForwardGemma4, Become
    <3>3. RingReady(ring, text) /\ RingLegible(ring, text) /\ RingOwn(ring, snaps)
      BY <2>3, <2>4, <3>2, ReadyIsLegible
    <3> HIDE DEF rows
    <3>4. RingOwn(d, snaps) /\ RingReady(d, text \o rows)
      BY <2>1, <3>1, <3>3, RingUpdateOwn
    <3> HIDE DEF d
    <3> QED
      BY <2>10, <3>2, <3>4
  <2>18. CASE PublishPrompt
    <3> DEFINE e == Refer(ring, ArrayOf(ring))
               kvEntry == Refer(kv, KVText(kv))
               s == Snapshot(kvEntry, e, None)
    <3>1. Keeps(kvEntry, e, None) /\ request.pc = "prefill" /\ request' = request
      BY <1>3, <2>18 DEF PublishPrompt, At
    <3>2. text' = text /\ snaps' = snaps \cup {s}
          /\ ring' = Collected([e EXCEPT !.keys = ring.keys], RingReferences(snaps \cup {s}))
      BY <3>1 DEF Keeps
    <3>3. s.ring.keys = e.keys /\ s.ring.offset = e.offset /\ s.ring.idx = e.idx /\ s.text = text
      BY DEF Snapshot
    <3>4. RingReady(ring, text) /\ RingOwn(ring, snaps) /\ RingShape(ring)
      BY <2>3, <2>4, <3>1 DEF RingOwn, RingServes
    <3> HIDE DEF s, kvEntry
    <3>5. /\ RingShape(e) /\ Likewise(ring, e) /\ Keeping(ring.mem, e.mem, DOMAIN ring.mem)
          /\ e.keys \notin DOMAIN ring.mem /\ e.keys # Nowhere
      <4>1. ArrayOf(ring) \in Seq(Rows) /\ DOMAIN ring = {"mem", "keys", "offset", "idx"}
        BY <3>4, ArrayIsRows DEF RingShape
      <4>2. Alike(e, e, {"offset", "idx"}) /\ e.offset = ring.offset /\ e.idx = ring.idx
        BY <4>1 DEF Alike, Refer
      <4>3. /\ RingShape(e) /\ ArrayOf(e) = ArrayOf(ring) /\ Keeping(ring.mem, e.mem, DOMAIN ring.mem)
            /\ e.keys \notin DOMAIN ring.mem /\ e.keys # Nowhere
        BY <3>4, <4>1, <4>2, ReferRing
      <4> QED
        BY <4>2, <4>3 DEF Likewise
    <3> HIDE DEF e
    <3>6. RingServes(ring', snaps') /\ ring'.keys = ring.keys /\ RingReady(ring', text)
      BY <2>1, <3>2, <3>3, <3>4, <3>5, RingPublished DEF RingOwn
    <3>7. ring.keys \notin RingReferences(snaps')
      <4>1. (ring.keys = Nowhere \/ ring.keys \in DOMAIN ring.mem) /\ ring.keys \notin refs
        BY <3>4 DEF RingOwn, RingShape, Held
      <4> QED
        BY <3>2, <3>3, <3>5, <4>1 DEF RingReferences
    <3> QED
      BY <2>8, <3>1, <3>2, <3>6, <3>7 DEF RingOwn
  <2>19. CASE PublishAnswer
    <3> DEFINE kvEntry == KVState(kv)
               sidecar == IF request.sidecar.at < Len(text) THEN request.sidecar ELSE None
               s == Snapshot(kvEntry, ring, sidecar)
    <3>1. Keeps(kvEntry, ring, sidecar) /\ request.pc = "done" /\ request'.pc = "published"
      BY <2>19 DEF PublishAnswer, At, Goto, RequestInv
    <3>2. /\ text' = text /\ text # << >> /\ ~target.window /\ snaps' = snaps \cup {s}
          /\ ring' = Collected([ring EXCEPT !.keys = ring.keys], RingReferences(snaps \cup {s}))
      BY <3>1 DEF Keeps, Restorable
    <3>3. s.ring.keys = ring.keys /\ s.ring.offset = ring.offset /\ s.ring.idx = ring.idx /\ s.text = text
      BY DEF Snapshot
    <3> HIDE DEF s, kvEntry, sidecar
    <3>4. RingReady(ring, text) /\ RingServes(ring, snaps) /\ RingShape(ring) /\ Likewise(ring, ring)
      BY <2>3, <2>6, <3>1, <3>2 DEF RingServes, Likewise
    <3>5. ring.keys # Nowhere
      <4>1. Len(text) \in Nat /\ Len(text) # 0 /\ RingSize \in Nat /\ RingSize >= 1
        BY <2>1, <3>2, Elements, EmptySeq, RingSizes
      <4>2. ring.keys = Nowhere => ArrayOf(ring) = << >> /\ Len(ArrayOf(ring)) = 0
        BY DEF ArrayOf
      <4> QED
        BY <3>4, <4>1, <4>2 DEF RingReady, Ready, Straight, Rotated
    <3>6. Keeping(ring.mem, ring.mem, DOMAIN ring.mem)
      BY DEF Keeping
    <3>7. RingServes(ring', snaps') /\ RingReady(ring', text)
      BY <2>1, <3>2, <3>3, <3>4, <3>5, <3>6, RingPublished
    <3> QED
      BY <2>8, <3>1, <3>2, <3>7
  <2>20. ~CaptureSidecar
    BY <1>3 DEF CaptureSidecar
  <2>21. ASSUME NEW block \in Blocks, Start(block)
         PROVE  RingInv'
    <3>1. UNCHANGED <<text, ring, snaps>> /\ request.pc = "prefill" /\ request'.pc = "draft"
      BY <2>21 DEF Start, At, RequestInv
    <3> QED
      BY <2>11, <3>1
  <2>22. ASSUME NEW size \in Sizes,
                \/ Draft(size) \/ DraftNothing(size)
                \/ \E branches \in 1 .. 2 : DraftBranches(size, branches)
         PROVE  RingInv'
    <3>1. /\ UNCHANGED <<text, ring, snaps>> /\ request.pc = "draft" /\ request'.pc = "verify"
          /\ request'.block = request.block
      BY <2>22 DEF Draft, DraftNothing, DraftBranches, Goto, At, RequestInv
    <3> QED
      BY <2>11, <3>1
  <2>23. ASSUME NEW size \in Sizes, NEW accepted \in 0 .. size - 1, Verified(size, accepted, "restore"),
                request.pc = "verify", NEW c, RingOwn(c, snaps), Likewise(ring, c),
                NEW d, RingOwn(d, snaps), Likewise(RingUpdate(c, Block(size, accepted + 1)), d),
                ring' = Collected(d, refs)
         PROVE  RingInv'
    <3> DEFINE rows == Block(size, accepted + 1)
               f == RingUpdate(c, rows)
    <3>1. size \in Nat \ {0} /\ accepted + 1 \in 0 .. size
      BY <2>1, SizesAre
    <3>2. rows \in Seq(Rows) /\ Len(rows) = size
      BY <2>1, <3>1, BlockIs
    <3>3. /\ HasRead' = text \o rows /\ snaps' = snaps
          /\ request'.pc = "restore" /\ request'.size = size /\ request'.block = request.block
      <4>1. /\ request'.id = request.id /\ request'.pc = "restore" /\ request'.size = size
            /\ request'.accepted = accepted /\ text' = text /\ snaps' = snaps
            /\ request'.block = request.block
        BY <2>23 DEF Verified, RequestInv
      <4> QED
        BY <4>1 DEF HasRead, At, Block
    <3>4. Likewise(f, d)
      BY <2>23
    <3> HIDE DEF rows
    <3>5. RingLegible(c, text) /\ (~windowed_block => RingReady(c, text))
      BY <2>5, <2>23, ReadyIsLegible, LikewiseReads
    <3>6. rows # << >>
      BY <3>1, <3>2, EmptySeq
    <3>7. /\ RingReady(c, text) => RingReady(f, text \o rows)
          /\ Len(rows) > 1 => /\ RingStraight(f, text \o rows, RingSize + Len(rows) - 1)
                              /\ f.idx = Len(ArrayOf(f))
      BY <2>1, <2>23, <3>2, <3>5, <3>6, RingUpdateOwn
    <3> HIDE DEF f
    <3> DEFINE e == Collected(d, refs)
    <3>8. RingServes(e, snaps) /\ e.keys = d.keys /\ Likewise(d, e)
      BY <2>23, RingServed DEF RingOwn
    <3> HIDE DEF e
    <3>9. ring' = e
      BY <2>23 DEF e
    <3>10. /\ ArrayOf(ring') = ArrayOf(f) /\ ring'.offset = f.offset /\ ring'.idx = f.idx
      BY <3>4, <3>8, <3>9 DEF Likewise
    <3>11. RingServes(ring', snaps') /\ ring'.keys \notin RingReferences(snaps')
      BY <2>23, <3>3, <3>8, <3>9 DEF RingOwn
    <3>12. size > 1 => /\ RingStraight(ring', text \o rows, RingSize + size - 1)
                       /\ ring'.idx = Len(ArrayOf(ring'))
      BY <3>2, <3>7, <3>10 DEF RingStraight
    <3>13. ~windowed_block => RingReady(ring', text \o rows)
      BY <3>5, <3>7, <3>10 DEF RingReady
    <3>14. ~(size > 1) => size = 1
      BY <3>1
    <3>15. ~Ending' /\ ~(size > 1) => ~windowed_block /\ ~Cut'
      BY <1>1, <3>3, <3>14 DEF Ending, Cut, At
    <3> QED
      BY <1>1, <3>3, <3>11, <3>12, <3>13, <3>15 DEF RingInv, RingServes, At
  <2>24. ASSUME NEW size \in Sizes, NEW accepted \in 0 .. size - 1
         PROVE  Block(size, accepted + 1) \in Seq(Rows) /\ Block(size, accepted + 1) # << >>
    <3>1. size \in Nat \ {0} /\ accepted + 1 \in 0 .. size
      BY <2>1, SizesAre
    <3>2. Block(size, accepted + 1) \in Seq(Rows) /\ Len(Block(size, accepted + 1)) = size
      BY <2>1, <3>1, BlockIs
    <3> QED
      BY <3>1, <3>2, EmptySeq
  <2>25. ASSUME request.pc = "verify", NEW c, Likewise(ring, c)
         PROVE  RingLegible(c, text)
    BY <2>5, <2>25, ReadyIsLegible, LikewiseReads
  <2>26. ASSUME NEW size \in Sizes, NEW accepted \in 0 .. size - 1, Verify(size, accepted)
         PROVE  RingInv'
    <3> DEFINE rows == Block(size, accepted + 1)
               d == RingUpdate(ring, rows)
    <3>1. /\ Verified(size, accepted, "restore") /\ request.pc = "verify"
          /\ ring' = Collected(d, refs)
      BY <1>3, <2>26 DEF Verify, At, Forward, ForwardQwen, ForwardGemma4, Become
    <3>2. RingOwn(ring, snaps) /\ Likewise(ring, ring) /\ Likewise(d, d)
      BY <2>3, <3>1 DEF Likewise
    <3>3. RingOwn(d, snaps)
      BY <2>1, <2>24, <2>25, <3>1, <3>2, RingUpdateOwn
    <3> QED
      BY <2>23, <3>1, <3>2, <3>3
  <2>27. ASSUME NEW size \in Sizes, NEW n \in 1 .. 2, NEW accepted \in [1 .. n -> 0 .. size - 1],
                VerifyBatch(size, accepted)
         PROVE  RingInv'
    <3> DEFINE best == CHOOSE i \in 1 .. Len(accepted) : \A j \in 1 .. Len(accepted) :
                         accepted[j] <= accepted[i] /\ (accepted[j] = accepted[i] => i <= j)
               a == accepted[best]
               rows == Block(size, a + 1)
               c == Repeated(ring, Len(accepted))
               f == RingUpdate(c, rows)
               d == Copy(f)
    <3>1. size \in Nat
      BY <2>1, SizesAre
    <3>2. a \in 0 .. size - 1
      BY <3>1, BestAccepted
    <3>3. Verified(size, a, "restore") /\ request.pc = "verify" /\ ring' = Collected(d, refs)
      BY <1>3, <2>27 DEF VerifyBatch, At, Become
    <3> HIDE DEF best, a
    <3>4. RingOwn(c, snaps) /\ Likewise(ring, c)
      <4>1. RingOwn(ring, snaps) /\ Likewise(ring, ring)
        BY <2>3, <3>3 DEF Likewise
      <4> QED
        BY <4>1, RingCopied DEF Repeated
    <3> HIDE DEF c
    <3>5. RingOwn(f, snaps)
      BY <2>1, <2>24, <2>25, <3>2, <3>3, <3>4, RingUpdateOwn
    <3>6. RingOwn(d, snaps) /\ Likewise(f, d)
      <4> HIDE DEF f, d
      <4> QED
        BY <3>5, RingCopied DEF d
    <3> HIDE DEF d
    <3> QED
      BY <2>23, <3>2, <3>3, <3>4, <3>6

  <2>28. CASE Restore
    <3> DEFINE size == request.size
               a == request.accepted
               b == Block(size, a + 1)
               u == text \o FirstN(b, a + 1)
               length == Len(text) + a + 1
               d == RestoredRing(length)
    <3>1. /\ request.pc = "restore" /\ size \in Nat /\ a \in 0 .. size - 1
          /\ Committed(a + 1) /\ ring' = Collected(d, refs) /\ size \in Sizes
      BY <2>28 DEF Restore, At, RequestInv, Become
    <3>2. a + 1 \in 0 .. size /\ a \in Nat /\ size >= 1
      BY <3>1
    <3>3. /\ b \in Seq(Rows) /\ Len(b) = size /\ FirstN(b, a + 1) = NextRows(a + 1)
          /\ a + 1 = size => b = NextRows(a + 1)
      BY <2>1, <3>1, <3>2, BlockIs
    <3>4. /\ text' = u /\ snaps' = snaps /\ request'.pc \in {"draft", "done"}
          /\ request'.block = request.block
          /\ request'.pc = "draft" => request.left > a + 1
      BY <3>3, <3>1 DEF Committed, RequestInv
    <3>5. HasRead = text \o b
      BY <3>1 DEF HasRead, At
    <3>6. windowed_block /\ size = 1 => request'.pc = "done"
      BY <2>1, <3>1, <3>2, <3>4, SizesAre
    <3> HIDE DEF b
    <3>7. /\ u \in Seq(Rows) /\ Len(u) = Len(text) + (a + 1)
          /\ Begins(text \o b, u, Len(u))
      BY <2>1, <3>2, <3>3, BeginsBoth
    <3>8. text \o b \in Seq(Rows) /\ Len(text \o b) = Len(text) + size /\ Len(text) \in Nat
      BY <2>1, <3>3, Joined, Elements
    <3>9. length = Len(u) /\ Len(u) \in Nat
      BY <3>2, <3>7, <3>8
    <3>10. a + 1 = size => u = text \o b
      BY <3>3
    <3>11. /\ size > 1 => /\ RingStraight(ring, text \o b, RingSize + size - 1)
                          /\ ring.idx = Len(ArrayOf(ring))
           /\ ~(size > 1) /\ ~windowed_block => RingReady(ring, text \o b)
      BY <2>7, <3>1, <3>5
    <3>12. RingOwn(ring, snaps) /\ RingShape(ring) /\ RingKeeps(ring.mem, snaps)
           /\ DOMAIN ring = {"mem", "keys", "offset", "idx"} /\ RingSize \in Nat
      BY <2>3, <3>1, RingSizes DEF RingOwn, RingServes, RingShape
    <3> HIDE DEF u, d, length, size, a
    <3>13. CASE windowed_block /\ size = 1
      <4>1. target.model # "gemma4"
        BY <2>2, <3>13
      <4>2. d = ring \/ d = RingTrim(ring, ring.offset - length)
        BY <4>1 DEF d, RestoredRing
      <4>3. DOMAIN d = DOMAIN ring /\ d.mem = ring.mem /\ d.keys = ring.keys
        BY <3>12, <4>2 DEF RingTrim
      <4>4. RingServes(d, snaps) /\ d.keys \notin refs
        BY <3>12, <4>3 DEF RingOwn, RingServes, RingShape, Held
      <4>5. RingServes(ring', snaps) /\ ring'.keys \notin refs
        <5> DEFINE e == Collected(d, refs)
        <5>1. RingServes(e, snaps) /\ e.keys = d.keys
          BY <4>4, RingServed
        <5> HIDE DEF e
        <5>2. ring' = e
          BY <3>1 DEF e
        <5> QED
          BY <4>4, <5>1, <5>2
      <4>6. Ending' /\ request'.pc = "done"
        BY <1>1, <3>4, <3>6, <3>13 DEF Ending, Cut, At
      <4> QED
        BY <3>4, <4>5, <4>6 DEF RingInv, RingServes, At
    <3>14. CASE ~(windowed_block /\ size = 1) /\ a + 1 = size
      <4>1. RingReady(ring, text \o b)
        <5>1. CASE size > 1
          <6>1. RingSize + size - 1 \in Int /\ RingSize \in Int /\ RingSize + size - 1 >= RingSize
            BY <3>1, <3>12, <5>1
          <6>2. RingStraight(ring, text \o b, RingSize)
            BY <3>11, <5>1, <6>1, StraightWeakened DEF RingStraight
          <6> QED
            BY <3>11, <5>1, <6>2 DEF RingReady, RingStraight, Ready, Settled
        <5>2. CASE ~(size > 1)
          <6>1. size = 1
            BY <3>1, <3>2, <5>2
          <6> QED
            BY <3>11, <3>14, <5>2, <6>1
        <5> QED
          BY <5>1, <5>2
      <4>2. ring.offset = Len(u)
        BY <3>10, <3>14, <4>1 DEF RingReady, Ready, Straight, Rotated
      <4>3. d = ring
        BY <3>9, <4>2 DEF d, RestoredRing
      <4> QED
        BY <2>10, <3>1, <3>4, <3>10, <3>12, <3>14, <4>1, <4>3
    <3>15. CASE a + 1 # size
      <4> DEFINE t == text \o b
                 w == RingSize + size - 1
      <4>1. size > 1 /\ Len(u) < Len(t) /\ Len(t) - Len(u) = size - (a + 1)
        BY <3>1, <3>2, <3>7, <3>8, <3>15
      <4>2. RingStraight(ring, t, w) /\ ring.idx = Len(ArrayOf(ring)) /\ w \in Int
        BY <3>1, <3>11, <3>12, <4>1
      <4>3. RingSize <= w - (Len(t) - Len(u))
        BY <3>1, <3>2, <3>12, <4>1
      <4>4. t \in Seq(Rows) /\ Begins(t, u, Len(u)) /\ Len(t) \in Nat
        BY <3>1, <3>7, <3>8
      <4> HIDE DEF t, w
      <4>5. ring.offset = Len(t)
        BY <4>2 DEF RingStraight, Straight
      <4>6. ~(ring.offset - length <= 0)
        BY <3>9, <4>1, <4>4, <4>5
      <4>7. CASE target.model = "gemma4"
        <5>1. d = RingTrimRecent(ring, ring.offset - Len(u))
          BY <3>9, <4>6, <4>7 DEF d, RestoredRing
        <5>2. /\ RingShape(d) /\ Keeping(ring.mem, d.mem, DOMAIN ring.mem) /\ d.keys \notin DOMAIN ring.mem
              /\ RingReady(d, u)
          BY <3>7, <3>12, <4>1, <4>2, <4>3, <4>4, <5>1, RingTrimRecentEffect
        <5>3. refs \subseteq DOMAIN ring.mem
          BY <3>12, RingKeptOn
        <5>4. Keeping(ring.mem, d.mem, refs) /\ d.keys \notin refs
          BY <5>2, <5>3 DEF Keeping
        <5>5. RingOwn(d, snaps)
          BY <3>12, <5>2, <5>4, RingAnew
        <5> QED
          BY <2>10, <3>1, <3>4, <5>2, <5>5
      <4>8. CASE target.model # "gemma4"
        <5>1. d = RingTrim(ring, ring.offset - Len(u))
          BY <3>9, <4>6, <4>8 DEF d, RestoredRing
        <5>2. RingShape(d) /\ d.mem = ring.mem /\ d.keys = ring.keys /\ RingStraight(d, u, RingSize)
          BY <3>7, <3>12, <4>2, <4>3, <4>4, <5>1, RingTrimEffect
        <5>3. RingServes(d, snaps) /\ d.keys \notin refs /\ RingLegible(d, u)
          BY <3>12, <5>2 DEF RingOwn, RingServes, RingLegible, RingStraight, Legible
        <5> DEFINE e == Collected(d, refs)
        <5>4. RingServes(e, snaps) /\ e.keys = d.keys /\ Likewise(d, e)
          BY <5>3, RingServed
        <5> HIDE DEF e
        <5>5. ring' = e
          BY <3>1 DEF e
        <5>6. RingOwn(ring', snaps') /\ RingLegible(ring', text')
          BY <3>4, <5>3, <5>4, <5>5, LikewiseReads DEF RingOwn
        <5>7. later_block
          <6>1. size <= request.block
            BY <2>1, <3>1, SizesAre
          <6> QED
            BY <2>1, <2>2, <3>1, <3>4, <4>1, <4>8, <6>1
        <5> QED
          BY <2>9, <3>4, <5>6, <5>7
      <4> QED
        BY <4>7, <4>8
    <3> QED
      BY <3>13, <3>14, <3>15
  <2>29. ASSUME NEW size \in Sizes, NEW path \in Paths(size)
         PROVE  ~VerifyTree(size, path)
    BY <1>3, <2>2 DEF VerifyTree, SupportsTreeCache
  <2> QED
    BY <2>12, <2>13, <2>14, <2>15, <2>16, <2>17, <2>18, <2>19, <2>20, <2>21, <2>22, <2>26, <2>27,
       <2>28, <2>29 DEF Next, Cycle
<1> QED
  BY <1>2, <1>3


-----------------------------------------------------------------------------
(* All of it, always. *)

LEMMA TInvFirst == Init => TInv
<1> SUFFICES ASSUME Init
             PROVE  TInv
  OBVIOUS
<1>1. /\ target \in Targets /\ request = NoRequest /\ text = << >> /\ snaps = {}
      /\ kv = EmptyKV /\ ring = EmptyRing /\ rec = EmptyRec /\ full = EmptyFull
  BY DEF Init
<1>2. request.pc = "none" /\ HasRead = << >> /\ text \in Seq(Rows)
  BY <1>1 DEF NoRequest, HasRead, At
<1>3. RequestInv
  BY <1>1, <1>2 DEF RequestInv, NoRequest, At
<1>4. SnapsInv
  BY <1>1 DEF SnapsInv
<1>5. Memory(<< >>)
  BY FS_EmptySet DEF Memory
<1>6. KVServes(kv, << >>, {})
  BY <1>1, <1>5 DEF EmptyKV, KVServes, KVShape, Held, KVReads, ArrayOf, Begins, KVPrivate, KVReferences, KVKeeps
<1>7. KVInv
  BY <1>1, <1>2, <1>6 DEF KVInv, At
<1>8. RingShape(ring) /\ RingReady(ring, << >>)
  BY <1>1, <1>5 DEF EmptyRing, RingShape, Held, RingReady, Ready, Straight, Settled, ArrayOf
<1>9. RingInv
  BY <1>1, <1>2, <1>8 DEF RingInv, RingKeeps, RingReferences, At, Cut
<1>10. RecInv
  BY <1>1, <1>2, EmptyRecReads DEF RecInv, RecShape, At
<1>11. FullInv
  <2>1. full.offset = 0 /\ Len(text) = 0 /\ FirstN(text, full.offset) = << >>
    BY <1>1, NoRows, EmptyFirst DEF EmptyFull
  <2> QED
    BY <1>1, <2>1, EmptyFullReads DEF FullInv
<1> QED
  BY <1>3, <1>4, <1>7, <1>9, <1>10, <1>11 DEF TInv

LEMMA TInvStep == TInv /\ [Next]_vars => TInv'
<1>1. ASSUME TInv, Next
      PROVE  TInv'
  <2>1. RequestInv /\ SnapsInv /\ KVInv /\ RingInv /\ RecInv /\ FullInv
    BY <1>1 DEF TInv
  <2>2. RequestInv'
    BY <1>1, <2>1, RequestStep
  <2>3. SnapsInv'
    BY <1>1, <2>1, SnapsStep
  <2>4. KVInv'
    BY <1>1, <2>1, KVStep
  <2>5. RingInv'
    BY <1>1, <2>1, RingStep
  <2>6. RecInv'
    BY <1>1, <2>1, RecStep
  <2>7. FullInv'
    BY <1>1, <2>1, <2>2, FullStep
  <2> QED
    BY <2>2, <2>3, <2>4, <2>5, <2>6, <2>7 DEF TInv
<1>2. ASSUME TInv, UNCHANGED vars
      PROVE  TInv'
  <2>1. RequestInv'
    BY <1>2 DEF vars, TInv, RequestInv, Sizes, SidecarInv, RecReads, HasRec, HasRing, At
  <2>2. SnapsInv'
    BY <1>2 DEF vars, TInv, SnapsInv, SidecarInv, RecReads, HasKV, HasRec, HasRing
  <2>3. HasRead' = HasRead
    BY <1>2 DEF vars, HasRead, Block, At
  <2>4. KVInv'
    BY <1>2, <2>3 DEF vars, TInv, KVInv, HasKV, At
  <2>5. RingInv'
    BY <1>2, <2>3 DEF vars, TInv, RingInv, HasRing, Cut, Ending, At
  <2>6. RecInv'
    BY <1>2, <2>3 DEF vars, TInv, RecInv, HasRec, Block, At
  <2>7. FullInv'
    BY <1>2 DEF vars, TInv, FullInv
  <2> QED
    BY <2>1, <2>2, <2>4, <2>5, <2>6, <2>7 DEF TInv
<1> QED
  BY <1>1, <1>2

LEMMA AlwaysStands == Spec => []TInv
<1> QED
  BY TInvFirst, TInvStep, PTL DEF Spec

\* A snapshot kept has the text of its tokens.
LEMMA SnapshotsStand == TInv => SnapshotsKeepTheirText
<1> SUFFICES ASSUME TInv, NEW s \in snaps
             PROVE  /\ HasKV => kv.mem[s.kv] = s.text
                    /\ HasRing =>
                         \A n \in 1 .. MaxChunk :
                           Reads([mem |-> ring.mem, keys |-> s.ring.keys,
                                  offset |-> s.ring.offset, idx |-> s.ring.idx], s.text, Noise(n))
                    /\ HasRec => RecReads(s.state, s.conv, s.text)
                    /\ s.sidecar.at > 0 =>
                         RecReads(s.sidecar.state, s.sidecar.conv, FirstN(s.text, s.sidecar.at))
  BY DEF SnapshotsKeepTheirText
<1>1. HasKV => kv.mem[s.kv] = s.text
  BY DEF TInv, KVInv, KVServes, KVKeeps
<1>2. /\ s.text \in Seq(Rows) /\ (HasRec => RecReads(s.state, s.conv, s.text))
      /\ s.sidecar.at > 0 => RecReads(s.sidecar.state, s.sidecar.conv, FirstN(s.text, s.sidecar.at))
  BY DEF TInv, SnapsInv, SidecarInv
<1>3. ASSUME HasRing, NEW n \in 1 .. MaxChunk
      PROVE  Reads([mem |-> ring.mem, keys |-> s.ring.keys,
                    offset |-> s.ring.offset, idx |-> s.ring.idx], s.text, Noise(n))
  <2> DEFINE c == [mem |-> ring.mem, keys |-> s.ring.keys, offset |-> s.ring.offset, idx |-> s.ring.idx]
             rows == Noise(n)
  <2>1. /\ Memory(ring.mem) /\ s.ring.keys \in DOMAIN ring.mem
        /\ Ready(ring.mem[s.ring.keys], s.ring.offset, s.ring.idx, s.text)
    BY <1>3 DEF TInv, RingInv, RingShape, Held, RingKeeps
  <2>2. s.ring.keys # Nowhere
    BY <2>1 DEF Memory, Nowhere
  <2>3. /\ DOMAIN c = {"mem", "keys", "offset", "idx"} /\ c.mem = ring.mem /\ c.keys = s.ring.keys
        /\ c.offset = s.ring.offset /\ c.idx = s.ring.idx
    OBVIOUS
  <2> HIDE DEF c
  <2>4. RingShape(c) /\ RingReady(c, s.text)
    BY <2>1, <2>2, <2>3 DEF RingShape, Held, RingReady, ArrayOf
  <2>5. rows \in Seq(Rows)
    <3>1. Served /\ n \in Nat
      BY ServedNow DEF TInv
    <3> QED
      BY <3>1, NoiseIs
  <2> HIDE DEF rows
  <2>6. Reads(c, s.text, rows)
    BY <1>2, <2>4, <2>5, ReadyIsLegible, RingReads
  <2> QED
    BY <2>6 DEF c, rows
<1> QED
  BY <1>1, <1>2, <1>3

\* What is decoded on the arrays a snapshot shares with a request, written in
\* place in a ring, trimmed, cloned, freed or read back from disk, leaves every
\* snapshot kept the state after its tokens: for any sizes of array and ring,
\* any prompts, blocks and answers, and any number of requests and snapshots.
THEOREM SnapshotsStandAlways == Spec => []SnapshotsKeepTheirText
<1> QED
  BY AlwaysStands, SnapshotsStand, PTL

LEMMA WindowedFirst == Init => UnreadInv /\ WindowedInv
<1> SUFFICES ASSUME Init
             PROVE  UnreadInv /\ WindowedInv
  OBVIOUS
<1>1. text = << >> /\ full.offset = 0 /\ windowed = EmptyWindowed
  BY DEF Init, EmptyFull
<1>2. FirstN(text, full.offset) = << >>
  BY <1>1, NoRows, EmptyFirst
<1> QED
  BY <1>1, <1>2, EmptyWindowedReads DEF UnreadInv, WindowedInv

LEMMA WindowedNext ==
  Roomy /\ TInv /\ TInv' /\ UnreadInv /\ WindowedInv /\ [Next]_vars => UnreadInv' /\ WindowedInv'
<1>1. ASSUME Roomy, TInv, TInv', UnreadInv, WindowedInv, Next
      PROVE  UnreadInv' /\ WindowedInv'
  <2>1. RequestInv /\ RequestInv' /\ FullInv
    BY <1>1 DEF TInv
  <2>2. UnreadInv'
    BY <1>1, <2>1, UnreadStep
  <2>3. WindowedInv'
    BY <1>1, <2>1, WindowedStep
  <2> QED
    BY <2>2, <2>3
<1>2. ASSUME UnreadInv, WindowedInv, UNCHANGED vars
      PROVE  UnreadInv' /\ WindowedInv'
  BY <1>2 DEF vars, UnreadInv, WindowedInv, At
<1> QED
  BY <1>1, <1>2

\* What the caches stand for before a pass.
LEMMA CachesStand == TInv /\ WindowedInv => CachesReadTheText
<1> SUFFICES ASSUME TInv, WindowedInv, request.pc \in {"prefill", "draft", "verify"}
             PROVE  /\ HasKV => KVText(kv) = text
                    /\ HasRec => RecReads(rec.state, rec.conv, text)
                    /\ HasRing =>
                         \A n \in IF At("prefill") THEN 1 .. MaxChunk ELSE Sizes :
                           request.left # 1 => Reads(ring, text, NextRows(n))
                    /\ FullText(full) = FirstN(text, full.offset)
                    /\ LET read == FirstN(text, windowed.offset) IN
                       /\ windowed.rows = IF Len(read) <= Sink + Window THEN read
                                          ELSE FirstN(read, Sink) \o LastN(read, Window)
                       /\ \A query \in windowed.offset + 1 .. windowed.offset + Max(Blocks) :
                            DraftAttends(windowed, query)
                              = Range(SubSeq(read, Max({0, query - Sliding}) + 1, Len(read)))
  BY DEF CachesReadTheText
<1>1. RequestInv /\ KVInv /\ RingInv /\ RecInv /\ FullInv
  BY DEF TInv
<1>2. Served /\ text \in Seq(Rows) /\ Len(text) \in Nat /\ request.block \in Nat /\ request.left \in Nat
  BY <1>1, ServedNow, Elements DEF Served
<1>3. request.pc # "restore" /\ HasRead = text
  BY DEF HasRead, At
<1>4. HasKV => KVText(kv) = text
  <2> SUFFICES ASSUME HasKV
               PROVE  KVText(kv) = text
    OBVIOUS
  <2>1. KVShape(kv) /\ kv.offset = Len(text) /\ Begins(ArrayOf(kv), text, Len(text))
    BY <1>1, <1>3 DEF KVInv, KVServes, KVReads
  <2>2. ArrayOf(kv) \in Seq(Rows)
    BY <2>1, ArrayIsRows DEF KVShape
  <2> QED
    BY <1>2, <2>1, <2>2, BeginsCut DEF KVText
<1>5. HasRec => RecReads(rec.state, rec.conv, text)
  BY <1>1, <1>3 DEF RecInv, At
<1>6. ASSUME HasRing, NEW n \in IF At("prefill") THEN 1 .. MaxChunk ELSE Sizes, request.left # 1
      PROVE  Reads(ring, text, NextRows(n))
  <2> DEFINE rows == NextRows(n)
  <2>1. n \in Nat /\ (n = 1 /\ request.pc # "prefill" => request.block = 1)
    <3>1. CASE At("prefill")
      BY <1>6, <3>1 DEF At
    <3>2. CASE ~At("prefill")
      <4>1. n \in Sizes
        BY <1>6, <3>2
      <4> QED
        BY <1>2, <1>6, <4>1, SizesAre
    <3> QED
      BY <3>1, <3>2
  <2>2. rows \in Seq(Rows) /\ Len(rows) = n
    BY <1>2, <2>1, NextRowsAre
  <2>3. RingShape(ring) /\ (IF Cut THEN RingLegible(ring, text) ELSE RingReady(ring, text))
    BY <1>1, <1>3, <1>6 DEF RingInv, Ending, At
  <2>4. RingLegible(ring, text)
    BY <2>3, ReadyIsLegible
  <2>5. Len(rows) = 1 => RingReady(ring, text)
    BY <1>2, <2>1, <2>2, <2>3 DEF Cut
  <2> HIDE DEF rows
  <2>6. Reads(ring, text, rows)
    BY <1>2, <2>2, <2>3, <2>4, <2>5, RingReads
  <2> QED
    BY <2>6 DEF rows
<1> DEFINE read == FirstN(text, full.offset)
<1>7. read \in Seq(Rows) /\ Len(read) = full.offset /\ full.offset \in Nat
  BY <1>1, <1>2, FirstRows DEF FullInv
<1>8. FullText(full) = read
  <2>1. FullShape(full) /\ full.length = Len(read) /\ Begins(ArrayOf(full), read, Len(read))
    BY <1>1 DEF FullInv, FullReads
  <2>2. ArrayOf(full) \in Seq(Rows)
    BY <2>1, ArrayIsRows DEF FullShape
  <2> HIDE DEF read
  <2> QED
    BY <1>7, <2>1, <2>2, BeginsCut DEF FullText
<1>9. windowed.offset = full.offset /\ WindowedReads(windowed, read)
  BY DEF WindowedInv
<1> HIDE DEF read
<1>10. windowed.rows = IF Len(read) <= Sink + Window THEN read ELSE FirstN(read, Sink) \o LastN(read, Window)
  BY <1>7, <1>9, WindowedRead
<1>11. ASSUME NEW query \in full.offset + 1 .. full.offset + Max(Blocks)
       PROVE  DraftAttends(windowed, query) = Range(SubSeq(read, Max({0, query - Sliding}) + 1, Len(read)))
  <2>1. query \in Int /\ query > Len(read)
    BY <1>7
  <2> QED
    BY <1>7, <1>9, <2>1, WindowedAttends
<1> QED
  BY <1>4, <1>5, <1>6, <1>8, <1>9, <1>10, <1>11 DEF read

\* Before every pass whose outcome is used, each cache of the target has read
\* the committed text, no more, no less and in its order, and those of the
\* draft model the part of it they were given: for any sizes and any prompts,
\* blocks and answers of which no block is longer than the draft's window, or
\* whose sink is no longer than one token.
THEOREM CachesStandAlways == Roomy /\ Spec => []CachesReadTheText
<1>1. Init => TInv /\ UnreadInv /\ WindowedInv
  BY TInvFirst, WindowedFirst
<1> DEFINE All == TInv /\ UnreadInv /\ WindowedInv
<1>2. Init => All
  BY <1>1
<1>3. Roomy /\ All /\ [Next]_vars => All'
  BY TInvStep, WindowedNext
<1>4. All => CachesReadTheText
  BY CachesStand
<1> HIDE DEF All
<1>5. CASE Roomy
  <2>1. All /\ [Next]_vars => All'
    BY <1>3, <1>5
  <2> QED
    BY <1>2, <1>4, <2>1, PTL DEF Spec
<1> QED
  BY <1>5

=============================================================================
