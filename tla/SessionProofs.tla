----------------------------- MODULE SessionProofs -----------------------------
(***************************************************************************)
(* One request to the engine, for every target, draft, prompt and option:  *)
(* what is handed out, whichever loop decodes, is the target's own greedy  *)
(* continuation.                                                           *)
(***************************************************************************)
EXTENDS Session, FiniteSetTheorems, SequenceTheorems, TLAPS

(* Numbers and lists *)

\* A set of natural numbers that is not empty has a smallest one.
LEMMA Smallest ==
  ASSUME NEW K \in SUBSET Nat, K # {}
  PROVE  \E k \in K : \A j \in K : k <= j
<1> DEFINE R == OpToRel(<, Nat)
<1>1. IsWellFoundedOn(R, Nat)
  BY NatLessThanWellFounded
<1>2. \A j, k \in Nat : j < k => <<j, k>> \in R
  BY DEF OpToRel
<1>3. \E k \in K : \A j \in K : <<j, k>> \notin R
  <2> HIDE DEF R
  <2> QED
    BY <1>1, WFMin
<1>4. PICK k \in K : \A j \in K : <<j, k>> \notin R
  BY <1>3
<1>5. ASSUME NEW j \in K PROVE k <= j
  <2>1. j \in Nat /\ k \in Nat /\ ~(j < k)
    BY <1>2, <1>4
  <2> HIDE DEF R
  <2> QED
    BY <2>1
<1> QED
  BY <1>5

LEMMA ElementsOfTail ==
  ASSUME NEW S, NEW s \in Seq(S), s # << >>
  PROVE  /\ Head(s) \in S /\ Tail(s) \in Seq(S)
         /\ ToSet(s) = {Head(s)} \cup ToSet(Tail(s))
<1> DEFINE rest == Tail(s)
<1>1. DOMAIN s = 1 .. Len(s) /\ Len(s) \in Nat
  BY LenProperties
<1>2. /\ Head(s) \in S /\ rest \in Seq(S) /\ Len(rest) = Len(s) - 1
      /\ \A a \in 1 .. Len(rest) : rest[a] = s[a + 1]
  BY HeadTailProperties
<1>3. Len(s) # 0
  BY EmptySeq
<1>4. Head(s) = s[1]
  BY <1>1, <1>3
<1>5. DOMAIN rest = 1 .. Len(rest) /\ DOMAIN rest = 1 .. Len(s) - 1
  BY <1>2, LenProperties
<1> HIDE DEF rest
<1>6. \A a \in DOMAIN rest : a + 1 \in DOMAIN s /\ rest[a] = s[a + 1]
  BY <1>1, <1>2, <1>5
<1>7. \A a \in DOMAIN s : a = 1 \/ (a - 1 \in DOMAIN rest /\ s[a] = rest[a - 1])
  <2> SUFFICES ASSUME NEW a \in DOMAIN s, a # 1
               PROVE  a - 1 \in DOMAIN rest /\ s[a] = rest[a - 1]
    OBVIOUS
  <2>1. a - 1 \in 1 .. Len(s) - 1 /\ (a - 1) + 1 = a
    BY <1>1
  <2>2. rest[a - 1] = s[(a - 1) + 1]
    BY <1>5, <1>6, <2>1
  <2> QED
    BY <1>5, <2>1, <2>2
<1>8. 1 \in DOMAIN s
  BY <1>1, <1>3
<1>9. ToSet(s) = {Head(s)} \cup ToSet(rest)
  BY <1>4, <1>6, <1>7, <1>8 DEF ToSet
<1> QED
  BY <1>2, <1>9 DEF rest

(* Bounds *)

LEMMA LargestOf ==
  ASSUME NEW N \in Nat, NEW K \in SUBSET (0 .. N), K # {}
  PROVE  Max(K) \in K /\ \A k \in K : k <= Max(K)
<1> DEFINE J == {N - k : k \in K}
<1>1. J \in SUBSET Nat /\ J # {}
  <2>1. PICK k \in K : TRUE
    OBVIOUS
  <2>2. N - k \in J
    BY <2>1
  <2>3. ASSUME NEW i \in K PROVE N - i \in Nat
    <3>1. i \in 0 .. N
      OBVIOUS
    <3> QED
      BY <3>1
  <2> QED
    BY <2>2, <2>3
<1>2. PICK j \in J : \A i \in J : j <= i
  <2> HIDE DEF J
  <2> QED
    BY <1>1, Smallest
<1>3. PICK m \in K : j = N - m
  BY <1>2
<1>4. ASSUME NEW k \in K PROVE m >= k
  <2>1. N - m <= N - k
    BY <1>2, <1>3
  <2> QED
    BY <2>1
<1> HIDE DEF J
<1>5. \E x \in K : \A k \in K : x >= k
  BY <1>4
<1>6. Max(K) \in K /\ \A k \in K : Max(K) >= k
  BY <1>5 DEF Max
<1> QED
  <2>1. ASSUME NEW k \in K PROVE k <= Max(K)
    BY <1>6
  <2> QED
    BY <1>6, <2>1


LEMMA MinMax ==
  ASSUME NEW a \in Int, NEW b \in Int, NEW c \in Int
  PROVE  /\ Max({a, b}) = (IF a >= b THEN a ELSE b)
         /\ Min({a, b}) = (IF a <= b THEN a ELSE b)
         /\ Min({a, b, c}) \in {a, b, c}
         /\ Min({a, b, c}) <= a /\ Min({a, b, c}) <= b /\ Min({a, b, c}) <= c
<1>1. \E x \in {a, b} : \A y \in {a, b} : x >= y
  OBVIOUS
<1>2. \E x \in {a, b} : \A y \in {a, b} : x <= y
  OBVIOUS
<1>3. \E x \in {a, b, c} : \A y \in {a, b, c} : x <= y
  OBVIOUS
<1>4. Max({a, b}) \in {a, b} /\ \A y \in {a, b} : Max({a, b}) >= y
  BY <1>1 DEF Max
<1>5. Min({a, b}) \in {a, b} /\ \A y \in {a, b} : Min({a, b}) <= y
  BY <1>2 DEF Min
<1>6. Min({a, b, c}) \in {a, b, c} /\ \A y \in {a, b, c} : Min({a, b, c}) <= y
  BY <1>3 DEF Min
<1> QED
  BY <1>4, <1>5, <1>6

LEMMA MinMaxTwo ==
  ASSUME NEW a \in Int, NEW b \in Int
  PROVE  /\ Max({a, b}) = (IF a >= b THEN a ELSE b)
         /\ Min({a, b}) = (IF a <= b THEN a ELSE b)
<1> QED
  BY MinMax

LEMMA AtLeastOne ==
  ASSUME NEW m \in Int
  PROVE  Max({1, m}) = (IF m >= 1 THEN m ELSE 1)
<1> DEFINE a == 1
<1>1. a \in Int /\ a = 1
  OBVIOUS
<1> HIDE DEF a
<1>2. Max({a, m}) = IF a >= m THEN a ELSE m
  BY <1>1, MinMaxTwo
<1> QED
  BY <1>1, <1>2

LEMMA SmallestOf ==
  ASSUME NEW K \in SUBSET Nat, K # {}
  PROVE  Min(K) \in K /\ \A k \in K : Min(K) <= k
<1>1. \E x \in K : \A k \in K : x <= k
  BY Smallest
<1> QED
  BY <1>1 DEF Min

-----------------------------------------------------------------------------
(* The target's text *)

\* One run's continuation is long enough for whatever a block may reach.
Reach == run \in Runs /\ greedy \in Continuations

LEMMA Continuation ==
  ASSUME Reach
  PROVE  /\ greedy \in Seq(Token) /\ Len(greedy) \in Nat
         /\ run.max \in Nat /\ run.cap \in Nat /\ Len(greedy) >= run.max + FullBlock
         /\ \A i \in 1 .. Len(greedy) : greedy[i] \in Token \ Suppressed
<1>1. /\ greedy \in Seq(Token \ Suppressed) /\ run.max \in Nat /\ run.cap \in Nat
      /\ Len(greedy) >= run.max + FullBlock
  BY ContinuationAssumption DEF Reach
<1>2. greedy \in Seq(Token)
  <2>1. Token \ Suppressed \subseteq Token
    OBVIOUS
  <2> QED
    BY <1>1, <2>1, SeqMonotonic
<1> QED
  BY <1>1, <1>2, LenProperties, ElementOfSeq

LEMMA PromptFacts ==
  /\ Prompt \in Seq(Token) /\ Len(Prompt) \in Nat \ {0} /\ Prompt[1] \in Token
  /\ SubSeq(Prompt, 1, Len(Prompt)) = Prompt
<1>1. Prompt \in Seq(Token) /\ Prompt # << >>
  BY PromptAssumption
<1>2. Len(Prompt) \in Nat \ {0}
  BY <1>1, EmptySeq
<1> QED
  BY <1>1, <1>2, ElementOfSeq, SubSeqFull

\* A part of a sequence.
LEMMA PartOf ==
  ASSUME NEW S, NEW s \in Seq(S), NEW m \in Nat, NEW n \in Nat, m <= n, n <= Len(s)
  PROVE  /\ SubSeq(s, m + 1, n) \in Seq(S)
         /\ Len(SubSeq(s, m + 1, n)) = n - m
         /\ \A i \in 1 .. n - m : SubSeq(s, m + 1, n)[i] = s[m + i]
<1>1. \A i \in m + 1 .. n : s[i] \in S
  <2>1. Len(s) \in Nat
    BY LenProperties
  <2> QED
    BY <2>1, ElementOfSeq
<1>2. /\ SubSeq(s, m + 1, n) \in Seq(S)
      /\ Len(SubSeq(s, m + 1, n)) = IF m + 1 <= n THEN n - (m + 1) + 1 ELSE 0
      /\ \A i \in 1 .. n - (m + 1) + 1 : SubSeq(s, m + 1, n)[i] = s[m + 1 + i - 1]
  BY <1>1, SubSeqProperties
<1>3. n - (m + 1) + 1 = n - m /\ \A i \in Nat : m + 1 + i - 1 = m + i
  OBVIOUS
<1>4. Len(SubSeq(s, m + 1, n)) = n - m
  BY <1>2
<1>5. \A i \in 1 .. n - m : SubSeq(s, m + 1, n)[i] = s[m + i]
  BY <1>2, <1>3
<1> QED
  BY <1>2, <1>4, <1>5

LEMMA StartOf ==
  ASSUME NEW S, NEW s \in Seq(S), NEW n \in Nat, n <= Len(s)
  PROVE  /\ SubSeq(s, 1, n) \in Seq(S)
         /\ Len(SubSeq(s, 1, n)) = n
         /\ \A i \in 1 .. n : SubSeq(s, 1, n)[i] = s[i]
<1>1. /\ SubSeq(s, 0 + 1, n) \in Seq(S)
      /\ Len(SubSeq(s, 0 + 1, n)) = n - 0
      /\ \A i \in 1 .. n - 0 : SubSeq(s, 0 + 1, n)[i] = s[0 + i]
  BY PartOf
<1> QED
  BY <1>1

\* Sequences that are the same from one to the end are the same.
LEMMA PartsAgree ==
  ASSUME NEW S, NEW s \in Seq(S), NEW t \in Seq(S), NEW m \in Nat, NEW k \in Nat,
         k <= Len(t), m + k <= Len(s),
         \A i \in 1 .. k : t[i] = s[m + i]
  PROVE  SubSeq(t, 1, k) = SubSeq(s, m + 1, m + k)
<1>1. /\ SubSeq(t, 1, k) \in Seq(S) /\ Len(SubSeq(t, 1, k)) = k
      /\ \A i \in 1 .. k : SubSeq(t, 1, k)[i] = t[i]
  BY StartOf
<1>2. /\ SubSeq(s, m + 1, m + k) \in Seq(S) /\ Len(SubSeq(s, m + 1, m + k)) = m + k - m
      /\ \A i \in 1 .. m + k - m : SubSeq(s, m + 1, m + k)[i] = s[m + i]
  BY PartOf
<1>3. m + k - m = k
  OBVIOUS

<1>4. \A i \in 1 .. k : SubSeq(t, 1, k)[i] = SubSeq(s, m + 1, m + k)[i]
  BY <1>1, <1>2, <1>3
<1> QED
  BY <1>1, <1>2, <1>3, <1>4, SeqEqual

LEMMA TextFacts ==
  ASSUME Reach, NEW n \in Nat, n <= Len(greedy)
  PROVE  /\ Text(n) \in Seq(Token) /\ Len(Text(n)) = Len(Prompt) + n
         /\ Text(0) = Prompt
<1>1. SubSeq(greedy, 1, n) \in Seq(Token) /\ Len(SubSeq(greedy, 1, n)) = n
  BY Continuation, StartOf
<1>2. SubSeq(greedy, 1, 0) = << >>
  BY SubSeqEmpty
<1> QED
  BY <1>1, <1>2, PromptFacts, ConcatProperties, ConcatEmptySeq DEF Text

\* The text grows by its own continuation.
LEMMA TextGrows ==
  ASSUME Reach, NEW m \in Nat, NEW n \in Nat, m <= n, n <= Len(greedy)
  PROVE  Text(m) \o SubSeq(greedy, m + 1, n) = Text(n)
<1> DEFINE a == SubSeq(greedy, 1, m)
           b == SubSeq(greedy, m + 1, n)
<1>1. a \in Seq(Token) /\ b \in Seq(Token)
  BY Continuation, StartOf, PartOf
<1>2. a \o b = SubSeq(greedy, 1, n)
  <2>1. greedy \in Seq(Token) /\ Len(greedy) \in Nat
    BY Continuation
  <2>2. 1 \in 1 .. Len(greedy) + 1 /\ m \in 1 - 1 .. Len(greedy) /\ n \in m .. Len(greedy)
    BY <2>1
  <2> QED
    BY <2>1, <2>2, ConcatAdjacentSubSeq
<1> HIDE DEF a, b
<1>3. (Prompt \o a) \o b = Prompt \o (a \o b)
  BY <1>1, PromptFacts, ConcatAssociative
<1> QED
  BY <1>2, <1>3 DEF Text, a, b

\* The text cut where it was shorter.
LEMMA TextCut ==
  ASSUME Reach, NEW m \in Nat, NEW n \in Nat, m <= n, n <= Len(greedy),
         NEW t \in Seq(Token)
  PROVE  SubSeq(Text(n) \o t, 1, Len(Prompt) + m) = Text(m)
<1>1. /\ Text(n) \in Seq(Token) /\ Len(Text(n)) = Len(Prompt) + n
      /\ Text(m) \in Seq(Token) /\ Len(Text(m)) = Len(Prompt) + m
  BY Continuation, TextFacts
<1>2. SubSeq(greedy, m + 1, n) \in Seq(Token)
  BY Continuation, PartOf
<1>3. Text(n) \o t = Text(m) \o (SubSeq(greedy, m + 1, n) \o t)
  <2>1. Text(n) = Text(m) \o SubSeq(greedy, m + 1, n)
    BY TextGrows
  <2> DEFINE a == Text(m)
             b == SubSeq(greedy, m + 1, n)
  <2>2. a \in Seq(Token) /\ b \in Seq(Token)
    BY <1>1, <1>2
  <2>3. (a \o b) \o t = a \o (b \o t)
    <3> HIDE DEF a, b
    <3> QED
      BY <2>2, ConcatAssociative
  <2> QED
    BY <2>1, <2>3
<1>4. SubSeq(greedy, m + 1, n) \o t \in Seq(Token)
  BY <1>2, ConcatProperties
<1>5. SubSeq(Text(m) \o (SubSeq(greedy, m + 1, n) \o t), 1, Len(Text(m)))
        = SubSeq(Text(m), 1, Len(Text(m)))
  <2>1. 1 \in 1 .. Len(Text(m)) /\ Len(Text(m)) \in 1 .. Len(Text(m))
    BY <1>1, PromptFacts
  <2> QED
    BY <1>1, <1>4, <2>1, SubSeqOfConcat1
<1> QED
  BY <1>1, <1>3, <1>5, SubSeqFull

-----------------------------------------------------------------------------
(* What is accepted is the target's own text *)

\* The caches hold the text after n tokens of the continuation.
Reads(c, n) == c.kv = Text(n) /\ c.rec = Text(n)

\* After a part of its own continuation the target answers the next of it.
LEMMA HonestAnswer ==
  ASSUME Reach, NEW c, NEW m \in Nat, Reads(c, m),
         NEW tokens \in Seq(Token), NEW i \in 1 .. Len(tokens), m + i < Len(greedy),
         \A j \in 1 .. i : tokens[j] = greedy[m + j], NEW wrong
  PROVE  Posterior(c, tokens, wrong)[i] = greedy[m + i + 1]
<1> DEFINE before == SubSeq(tokens, 1, i)
<1>1. Len(tokens) \in Nat /\ i \in Nat /\ i <= Len(tokens)
  BY LenProperties
<1>2. Len(greedy) \in Nat /\ greedy \in Seq(Token)
  BY Continuation
<1>3. before = SubSeq(greedy, m + 1, m + i)
  BY <1>1, <1>2, PartsAgree
<1>4. Text(m) \o before = Text(m + i)
  <2>1. m + i \in Nat /\ m <= m + i /\ m + i <= Len(greedy)
    BY <1>1, <1>2
  <2> QED
    BY <1>3, <2>1, TextGrows
<1>5. Len(c.kv) + i - Len(Prompt) = m + i
  <2>1. Len(c.kv) = Len(Prompt) + m
    BY <1>1, <1>2, TextFacts DEF Reads
  <2> QED
    BY <1>1, <2>1, PromptFacts
<1>6. Posterior(c, tokens, wrong)[i] =
        LET n == Len(c.kv) + i - Len(Prompt)
        IN IF c.kv \o before = Text(n) /\ c.rec \o before = Text(n)
           THEN greedy[n + 1] ELSE wrong
  BY <1>1 DEF Posterior
<1> HIDE DEF before
<1> QED
  BY <1>4, <1>5, <1>6 DEF Reads

Follows(tokens, m, i) == \A j \in 1 .. i : tokens[j] = greedy[m + j]

LEMMA AnswerGoesOn ==
  ASSUME Reach, NEW c, NEW m \in Nat, Reads(c, m),
         NEW tokens \in Seq(Token), NEW i \in 1 .. Len(tokens), m + i < Len(greedy),
         Follows(tokens, m, i), NEW wrong
  PROVE  Posterior(c, tokens, wrong)[i] = greedy[m + i + 1]
<1>1. \A j \in 1 .. i : tokens[j] = greedy[m + j]
  BY DEF Follows
<1> QED
  BY <1>1, HonestAnswer

LEMMA AnswersKnown ==
  ASSUME Reach, NEW c, NEW tokens \in Seq(Token), NEW wrong \in Token \ Suppressed,
         NEW m \in Nat, Reads(c, m), m + Len(tokens) < Len(greedy)
  PROVE  /\ DOMAIN Posterior(c, tokens, wrong) = 1 .. Len(tokens)
         /\ \A i \in 1 .. Len(tokens) : Posterior(c, tokens, wrong)[i] \in Token
<1>1. DOMAIN Posterior(c, tokens, wrong) = 1 .. Len(tokens)
  BY DEF Posterior
<1>2. ASSUME NEW i \in 1 .. Len(tokens)
      PROVE  Posterior(c, tokens, wrong)[i] \in Token
  <2>1. Len(tokens) \in Nat /\ Len(greedy) \in Nat /\ i \in Nat /\ i <= Len(tokens)
    BY Continuation, LenProperties
  <2>2. Len(c.kv) = Len(Prompt) + m
    BY <2>1, TextFacts DEF Reads
  <2>3. Posterior(c, tokens, wrong)[i] \in {greedy[Len(c.kv) + i - Len(Prompt) + 1], wrong}
    BY <2>1 DEF Posterior
  <2>4. Len(c.kv) + i - Len(Prompt) + 1 = m + i + 1 /\ m + i + 1 \in 1 .. Len(greedy)
    BY <2>1, <2>2, PromptFacts
  <2>5. greedy[m + i + 1] \in Token
    BY <2>4, Continuation
  <2> QED
    BY <2>3, <2>4, <2>5
<1> QED
  BY <1>1, <1>2

\* A run of tokens, each the answer to those before it, is the continuation.
LEMMA AgreedIsGreedy ==
  ASSUME Reach, NEW m \in Nat, NEW tokens, NEW k \in Nat \ {0},
         tokens[1] = greedy[m + 1],
         \A i \in 1 .. k - 1 : (\A j \in 1 .. i : tokens[j] = greedy[m + j])
                                 => tokens[i + 1] = greedy[m + i + 1]
  PROVE  \A i \in 1 .. k : tokens[i] = greedy[m + i]
<1> DEFINE Wrong == {i \in 1 .. k : tokens[i] # greedy[m + i]}
<1> SUFFICES ASSUME Wrong # {} PROVE FALSE
  OBVIOUS
<1>1. PICK w \in Wrong : \A i \in Wrong : w <= i
  <2>1. Wrong \in SUBSET Nat
    OBVIOUS
  <2> HIDE DEF Wrong
  <2> QED
    BY <2>1, Smallest
<1>2. w \in 1 .. k /\ tokens[w] # greedy[m + w]
  OBVIOUS
<1>3. w # 1
  BY <1>2
<1>4. w - 1 \in 1 .. k - 1 /\ w - 1 + 1 = w /\ m + (w - 1) + 1 = m + w
  BY <1>2, <1>3
<1>5. ASSUME NEW j \in 1 .. w - 1 PROVE tokens[j] = greedy[m + j]
  <2>1. j \in 1 .. k /\ ~(w <= j)
    BY <1>2
  <2> QED
    BY <1>1, <2>1
<1>6. tokens[w - 1 + 1] = greedy[m + (w - 1) + 1]
  BY <1>4, <1>5
<1> QED
  BY <1>2, <1>4, <1>6

LEMMA AcceptedLength ==
  ASSUME NEW drafted, NEW posterior, Len(drafted) \in Nat
  PROVE  LET a == AcceptanceLength(drafted, posterior)
         IN a \in 0 .. Len(drafted) /\ \A i \in 1 .. a : drafted[i] = posterior[i]
<1> DEFINE K == {n \in 0 .. Len(drafted) : \A i \in 1 .. n : drafted[i] = posterior[i]}
<1>1. 0 \in K /\ K \in SUBSET (0 .. Len(drafted))
  OBVIOUS
<1>2. Max(K) \in K
  <2> HIDE DEF K
  <2> QED
    BY <1>1, LargestOf
<1>3. AcceptanceLength(drafted, posterior) = Max(K)
  BY DEF AcceptanceLength
<1> HIDE DEF AcceptanceLength
<1> QED
  BY <1>2, <1>3

Caches == [kv : Seq(Token), rec : Seq(Token),
           saved : [armed : BOOLEAN, rec : Seq(Token)], tape : Seq(Token)]

LEMMA ForwardArmed ==
  ASSUME NEW c \in Caches, NEW tokens \in Seq(Token)
  PROVE  /\ Arm(c).kv = c.kv /\ Arm(c).rec = c.rec
         /\ LET f == Forward(Arm(c), tokens)
            IN /\ f.kv = c.kv \o tokens /\ f.rec = c.rec \o tokens
               /\ f.saved = [armed |-> TRUE, rec |-> c.rec] /\ f.tape = tokens
<1>1. PICK k \in Seq(Token), r \in Seq(Token), s \in [armed : BOOLEAN, rec : Seq(Token)],
           t \in Seq(Token) : c = [kv |-> k, rec |-> r, saved |-> s, tape |-> t]
  BY DEF Caches
<1>2. Arm(c) = [kv |-> c.kv, rec |-> c.rec, saved |-> [armed |-> TRUE, rec |-> c.rec],
                tape |-> << >>]
  <2> DEFINE x == [armed |-> TRUE, rec |-> c.rec]
             d == [c EXCEPT !.saved = x]
  <2>1. Arm(c) = [d EXCEPT !.tape = << >>]
    BY DEF Arm
  <2>2. c.kv = k /\ c.rec = r
    BY <1>1
  <2> HIDE DEF x
  <2>3. d = [kv |-> k, rec |-> r, saved |-> x, tape |-> t]
    BY <1>1
  <2> HIDE DEF d
  <2>4. [d EXCEPT !.tape = << >>] = [kv |-> k, rec |-> r, saved |-> x, tape |-> << >>]
    BY <2>3
  <2> QED
    BY <2>1, <2>2, <2>4 DEF x
<1> QED
  BY <1>2 DEF Forward

\* One verify pass over a block that starts with the target's own next token:
\* it commits the target's own text, leaves the caches with exactly that, and
\* knows the token after it.
LEMMA VerifiedBlock ==
  ASSUME Reach, NEW c \in Caches, NEW m \in Nat, Reads(c, m),
         NEW tokens \in Seq(Token), tokens # << >>, tokens[1] = greedy[m + 1],
         m + Len(tokens) < Len(greedy), NEW wrong \in Token \ Suppressed
  PROVE  LET posterior == Posterior(Arm(c), tokens, wrong)
             a == AcceptanceLength(Tail(tokens), posterior)
             kept == Restore(Forward(Arm(c), tokens), Len(Prompt) + m + 1 + a, a, Len(tokens) - 1)
         IN /\ a \in 0 .. Len(tokens) - 1
            /\ SubSeq(tokens, 1, 1 + a) = SubSeq(greedy, m + 1, m + 1 + a)
            /\ posterior[a + 1] = greedy[m + a + 2]
            /\ kept = [kv |-> Text(m + 1 + a), rec |-> Text(m + 1 + a),
                       saved |-> NoCheckpoint, tape |-> << >>]
<1> DEFINE posterior == Posterior(Arm(c), tokens, wrong)
           a == AcceptanceLength(Tail(tokens), posterior)
           size == Len(tokens)
           f == Forward(Arm(c), tokens)
           goal == Len(Prompt) + m + 1 + a
<1>1. size \in Nat \ {0} /\ Len(greedy) \in Nat /\ greedy \in Seq(Token) /\ Len(Prompt) \in Nat
  BY Continuation, EmptySeq, PromptFacts
<1>2. /\ Len(Tail(tokens)) = size - 1
      /\ \A i \in 1 .. size - 1 : Tail(tokens)[i] = tokens[i + 1]
  BY HeadTailProperties
<1>3. a \in 0 .. size - 1 /\ \A i \in 1 .. a : tokens[i + 1] = posterior[i]
  <2>1. Len(Tail(tokens)) \in Nat
    BY <1>1, <1>2
  <2>2. a \in 0 .. Len(Tail(tokens)) /\ \A i \in 1 .. a : Tail(tokens)[i] = posterior[i]
    BY <2>1, AcceptedLength
  <2> HIDE DEF a, posterior
  <2> QED
    BY <1>1, <1>2, <2>2
<1>4. Reads(Arm(c), m)
  BY ForwardArmed DEF Reads
<1>5. ASSUME NEW i \in 1 .. size, \A j \in 1 .. i : tokens[j] = greedy[m + j]
      PROVE  posterior[i] = greedy[m + i + 1]
  <2>1. m + i < Len(greedy)
    BY <1>1
  <2> QED
    BY <1>4, <1>5, <2>1, HonestAnswer
<1> HIDE DEF posterior, a
<1>6. \A i \in 1 .. a + 1 : tokens[i] = greedy[m + i]
  <2>1. ASSUME NEW i \in 1 .. (a + 1) - 1, \A j \in 1 .. i : tokens[j] = greedy[m + j]
        PROVE  tokens[i + 1] = greedy[m + i + 1]
    <3>1. i \in 1 .. size /\ i \in 1 .. a
      BY <1>1, <1>3
    <3> QED
      BY <1>3, <1>5, <2>1, <3>1
  <2>2. a + 1 \in Nat \ {0}
    BY <1>3
  <2> QED
    BY <2>1, <2>2, AgreedIsGreedy
<1>7. posterior[a + 1] = greedy[m + a + 2]
  <2>1. a + 1 \in 1 .. size /\ m + (a + 1) + 1 = m + a + 2
    BY <1>1, <1>3
  <2> QED
    BY <1>5, <1>6, <2>1
<1>8. SubSeq(tokens, 1, 1 + a) = SubSeq(greedy, m + 1, m + 1 + a)
  <2>1. 1 + a \in Nat /\ 1 + a <= size /\ m + (1 + a) <= Len(greedy) /\ 1 + a = a + 1
    BY <1>1, <1>3
  <2>2. SubSeq(tokens, 1, 1 + a) = SubSeq(greedy, m + 1, m + (1 + a))
    <3>1. \A i \in 1 .. 1 + a : tokens[i] = greedy[m + i]
      BY <1>6, <2>1
    <3> DEFINE k == 1 + a
    <3> HIDE DEF k
    <3>2. k \in Nat /\ k <= Len(tokens) /\ m + k <= Len(greedy)
          /\ \A i \in 1 .. k : tokens[i] = greedy[m + i]
      BY <2>1, <3>1 DEF k
    <3>3. SubSeq(tokens, 1, k) = SubSeq(greedy, m + 1, m + k)
      BY <1>1, <3>2, PartsAgree
    <3> QED
      BY <3>3 DEF k
  <2>3. m + (1 + a) = m + 1 + a
    BY <1>3
  <2> QED
    BY <2>2, <2>3
<1>9. /\ f.kv = Text(m) \o tokens /\ f.rec = Text(m) \o tokens
      /\ f.saved = [armed |-> TRUE, rec |-> Text(m)] /\ f.tape = tokens
  <2>1. /\ f.kv = c.kv \o tokens /\ f.rec = c.rec \o tokens
        /\ f.saved = [armed |-> TRUE, rec |-> c.rec] /\ f.tape = tokens
    BY ForwardArmed
  <2> HIDE DEF f
  <2> QED
    BY <2>1 DEF Reads
<1> HIDE DEF f
<1>10. Text(m) \in Seq(Token) /\ Len(Text(m)) = Len(Prompt) + m /\ Len(f.kv) = Len(Prompt) + m + size
  <2>1. Text(m) \in Seq(Token) /\ Len(Text(m)) = Len(Prompt) + m
    BY <1>1, TextFacts
  <2> QED
    <3>1. Len(Text(m) \o tokens) = Len(Text(m)) + Len(tokens)
      BY <2>1, ConcatProperties
    <3> QED
      BY <1>9, <2>1, <3>1
<1>11. m + 1 + a \in Nat /\ m <= m + 1 + a /\ m + 1 + a <= Len(greedy)
       /\ goal = Len(Text(m)) + (1 + a)
  BY <1>1, <1>3, <1>10
\* The text with the accepted part of the block.
<1>12. Text(m) \o SubSeq(tokens, 1, 1 + a) = Text(m + 1 + a)
  BY <1>8, <1>11, TextGrows
<1>13. 1 + a = size => SubSeq(tokens, 1, 1 + a) = tokens
  BY SubSeqFull
<1>14. (IF Len(f.kv) > goal THEN SubSeq(f.kv, 1, goal) ELSE f.kv) = Text(m + 1 + a)
  <2>1. CASE 1 + a = size
    <3>1. ~(Len(f.kv) > goal)
      BY <1>1, <1>3, <1>10, <2>1
    <3> QED
      BY <1>9, <1>12, <1>13, <2>1, <3>1
  <2>2. CASE 1 + a < size
    <3>1. Len(f.kv) > goal
      BY <1>1, <1>3, <1>10, <2>2
    <3>2. tokens = SubSeq(tokens, 1, 1 + a) \o SubSeq(tokens, 1 + a + 1, size)
      <4>1. 1 \in 1 .. Len(tokens) + 1 /\ 1 + a \in 1 - 1 .. Len(tokens) /\ size \in 1 + a .. Len(tokens)
        BY <1>1, <1>3
      <4>2. SubSeq(tokens, 1, 1 + a) \o SubSeq(tokens, 1 + a + 1, size) = SubSeq(tokens, 1, size)
        BY <4>1, ConcatAdjacentSubSeq
      <4> QED
        BY <4>2, SubSeqFull
    <3> DEFINE p == SubSeq(tokens, 1, 1 + a)
               r == SubSeq(tokens, 1 + a + 1, size)
    <3>3. p \in Seq(Token) /\ r \in Seq(Token)
      <4>1. 1 + a \in Nat /\ 1 + a <= size /\ size \in Nat
        BY <1>1, <1>3
      <4> QED
        BY <4>1, StartOf, PartOf
    <3>4. f.kv = Text(m + 1 + a) \o r
      <4>1. Text(m) \o p = Text(m + 1 + a) /\ f.kv = Text(m) \o (p \o r)
        BY <1>9, <1>12, <3>2
      <4> DEFINE x == Text(m)
      <4> HIDE DEF p, r, x
      <4>2. (x \o p) \o r = x \o (p \o r)
        <5>1. x \in Seq(Token)
          BY <1>10 DEF x
        <5> QED
          BY <3>3, <5>1, ConcatAssociative
      <4> QED
        BY <4>1, <4>2 DEF x
    <3> HIDE DEF r
    <3>5. SubSeq(Text(m + 1 + a) \o r, 1, Len(Prompt) + (m + 1 + a)) = Text(m + 1 + a)
      BY <1>11, <3>3, TextCut
    <3>6. Len(Prompt) + (m + 1 + a) = goal
      BY <1>1, <1>3
    <3> QED
      BY <3>1, <3>4, <3>5, <3>6
  <2> QED
    BY <1>1, <1>3, <2>1, <2>2
<1>15. (IF a = size - 1 THEN f.rec ELSE Rollback(f, a)) = Text(m + 1 + a)
  <2>1. CASE a = size - 1
    <3>1. 1 + a = size
      BY <1>1, <2>1
    <3> QED
      BY <1>9, <1>12, <1>13, <2>1, <3>1
  <2>2. CASE a # size - 1
    <3>1. Rollback(f, a) = Text(m) \o SubSeq(tokens, 1, a + 1)
      <4>1. f.saved.armed /\ f.saved.rec = Text(m) /\ f.tape = tokens
        BY <1>9
      <4> QED
        BY <4>1 DEF Rollback
    <3>2. a + 1 = 1 + a
      BY <1>3
    <3> QED
      BY <1>12, <2>2, <3>1, <3>2
  <2> QED
    BY <2>1, <2>2
<1>16. Restore(f, goal, a, size - 1)
         = [kv |-> Text(m + 1 + a), rec |-> Text(m + 1 + a),
            saved |-> NoCheckpoint, tape |-> << >>]
  BY <1>14, <1>15 DEF Restore
<1> QED
  BY <1>3, <1>7, <1>8, <1>16 DEF posterior, a, f

-----------------------------------------------------------------------------
(* Trees *)

\* The slots of a tree that is at most n deep, each as its path from the root.
TreeOf(slots, n) ==
  /\ slots \in Seq(Seq(Token)) /\ << >> \in Range(slots)
  /\ \A p \in Range(slots) : Len(p) <= n /\ (p # << >> => Front(p) \in Range(slots))

LEMMA SlotPaths ==
  ASSUME NEW slots, NEW n \in Nat, TreeOf(slots, n), NEW p \in Range(slots)
  PROVE  /\ p \in Seq(Token) /\ Len(p) \in 0 .. n
         /\ \E s \in DOMAIN slots : slots[s] = p
         /\ \A k \in 0 .. Len(p) : SubSeq(p, 1, k) \in Range(slots)
<1>1. \E s \in DOMAIN slots : slots[s] = p
  BY DEF Range
<1>2. slots \in Seq(Seq(Token)) /\ Len(p) <= n
  BY DEF TreeOf
<1>3. p \in Seq(Token)
  BY <1>1, <1>2, LenProperties, ElementOfSeq
<1>4. Len(p) \in 0 .. n
  BY <1>2, <1>3, LenProperties
<1>5. \A k \in 0 .. Len(p) : SubSeq(p, 1, k) \in Range(slots)
  <2> DEFINE Missing == {k \in 0 .. Len(p) : SubSeq(p, 1, k) \notin Range(slots)}
  <2> SUFFICES ASSUME Missing # {} PROVE FALSE
    OBVIOUS
  <2> DEFINE k == Max(Missing)
  <2>1. k \in Missing /\ \A i \in Missing : i <= k
    <3>1. Missing \in SUBSET (0 .. Len(p)) /\ Len(p) \in Nat
      BY <1>4
    <3> HIDE DEF Missing
    <3> QED
      BY <3>1, LargestOf
  <2> HIDE DEF k
  <2>2. k \in 0 .. Len(p) /\ SubSeq(p, 1, k) \notin Range(slots)
    BY <2>1
  <2>3. k # Len(p)
    BY <1>3, <2>2, SubSeqFull
  <2>4. k + 1 \in 0 .. Len(p) /\ k \in Nat /\ Len(p) \in Nat
    BY <1>4, <2>2, <2>3
  <2>5. SubSeq(p, 1, k + 1) \in Range(slots)
    <3>1. ~(k + 1 <= k)
      BY <2>4
    <3> QED
      BY <2>1, <2>4, <3>1
  <2> DEFINE q == SubSeq(p, 1, k + 1)
  <2>6. q \in Seq(Token) /\ Len(q) = k + 1
    <3>1. k + 1 \in Nat /\ k + 1 <= Len(p)
      BY <2>4
    <3> QED
      BY <1>3, <3>1, StartOf
  <2>7. q # << >>
    BY <2>4, <2>6, EmptySeq
  <2>8. Front(q) = SubSeq(p, 1, k)
    <3>1. Front(q) = SubSeq(q, 1, k)
      <4>1. Len(q) - 1 = k
        BY <2>4, <2>6
      <4> QED
        BY <4>1 DEF Front
    <3>2. k = 0 => SubSeq(q, 1, k) = << >> /\ SubSeq(p, 1, k) = << >>
      BY SubSeqEmpty
    <3>3. ASSUME k # 0 PROVE SubSeq(q, 1, k) = SubSeq(p, 1, k)
      <4>1. /\ 1 \in 1 .. Len(p) /\ k + 1 \in 1 .. Len(p) /\ 1 \in 1 .. (k + 1) - 1 + 1
            /\ k \in 1 .. (k + 1) - 1 + 1
        BY <2>4, <3>3
      <4>2. SubSeq(SubSeq(p, 1, k + 1), 1, k) = SubSeq(p, 1 + 1 - 1, 1 + k - 1)
        BY <1>3, <4>1, SubSeqOfSubSeq
      <4>3. 1 + 1 - 1 = 1 /\ 1 + k - 1 = k
        BY <2>4
      <4> QED
        BY <4>2, <4>3
    <3> QED
      BY <3>1, <3>2, <3>3
  <2> HIDE DEF q, Missing
  <2>9. Front(q) \in Range(slots)
    BY <2>5, <2>7 DEF TreeOf, q
  <2> QED
    BY <2>2, <2>8, <2>9
<1> QED
  BY <1>1, <1>3, <1>4, <1>5

\* The tokens of a path below the first.
LEMMA Below1 ==
  ASSUME NEW S, NEW first \in S, NEW p \in Seq(S)
  PROVE  /\ <<first>> \o p \in Seq(S) /\ Len(<<first>> \o p) = Len(p) + 1
         /\ (<<first>> \o p)[1] = first
         /\ \A i \in 1 .. Len(p) : (<<first>> \o p)[i + 1] = p[i]
<1>1. <<first>> \in Seq(S) /\ Len(<<first>>) = 1 /\ <<first>>[1] = first
  OBVIOUS
<1>2. Len(p) \in Nat
  BY LenProperties
<1> DEFINE f == <<first>>
<1>3. /\ f \o p \in Seq(S) /\ Len(f \o p) = Len(f) + Len(p)
      /\ \A i \in 1 .. Len(f) + Len(p) : (f \o p)[i] = IF i <= Len(f) THEN f[i] ELSE p[i - Len(f)]
  <2> HIDE DEF f
  <2> QED
    BY <1>1, ConcatProperties DEF f
<1>4. Len(f) = 1 /\ f[1] = first
  BY <1>1
<1> HIDE DEF f
<1>5. ASSUME NEW i \in 1 .. Len(p) PROVE (f \o p)[i + 1] = p[i]
  <2>1. i + 1 \in 1 .. Len(f) + Len(p) /\ ~(i + 1 <= Len(f)) /\ i + 1 - Len(f) = i
    BY <1>2, <1>4
  <2> QED
    BY <1>3, <2>1
<1>6. (f \o p)[1] = first
  <2>1. 1 \in 1 .. Len(f) + Len(p) /\ 1 <= Len(f)
    BY <1>2, <1>4
  <2> QED
    BY <1>3, <1>4, <2>1
<1>7. Len(f \o p) = Len(p) + 1
  BY <1>2, <1>3, <1>4
<1> QED
  BY <1>3, <1>5, <1>6, <1>7 DEF f

\* What the target answers along the paths of a tree, and what its slots hold.
AnswersOf(answer, c, slots, first, wrong) ==
  \A p \in Range(slots) : answer[p] = Last(Posterior(c, <<first>> \o p, wrong))
TokensOf(tokens, slots, first) ==
  \A s \in DOMAIN slots : tokens[s] = IF slots[s] = << >> THEN first ELSE Last(slots[s])
Along(tokens, at, k) ==
  DOMAIN at = 1 .. Len(k) /\ \A i \in 1 .. Len(k) : tokens[at[i]] = k[i]

\* The accepted path, below the first token, is the target's text, and the answer
\* at its end the token after it.
GreedyPath(slots, answer, m, first) ==
  LET path == AcceptedPath(slots, answer)
  IN /\ path \in Range(slots)
     /\ <<first>> \o path = SubSeq(greedy, m + 1, m + 1 + Len(path))
     /\ answer[path] = greedy[m + Len(path) + 2]

\* One verify pass over a tree below the target's own next token: the longest
\* path that agrees is the target's own text.
LEMMA VerifiedPath ==
  ASSUME Reach, NEW c, NEW m \in Nat, Reads(c, m), NEW slots, NEW n \in Nat, TreeOf(slots, n),
         m + n + 1 < Len(greedy), NEW wrong,
         NEW first \in Token, first = greedy[m + 1],
         NEW answer, AnswersOf(answer, c, slots, first, wrong)
  PROVE  GreedyPath(slots, answer, m, first)
<1> DEFINE agreed == {p \in Range(slots) :
                        \A i \in 1 .. Len(p) : p[i] = answer[SubSeq(p, 1, i - 1)]}
           path == AcceptedPath(slots, answer)
<1>1. path \in agreed
  <2>1. << >> \in agreed
    <3>1. << >> \in Range(slots) /\ Len(<< >>) = 0
      BY EmptySeq DEF TreeOf
    <3> QED
      BY <3>1
  <2>2. \A p \in agreed : Len(p) \in 0 .. n
    BY SlotPaths
  <2> DEFINE sizes == {Len(p) : p \in agreed}
  <2>3. sizes \in SUBSET (0 .. n) /\ sizes # {}
    <3> HIDE DEF agreed
    <3> QED
      BY <2>1, <2>2
  <2>4. Max(sizes) \in sizes /\ \A k \in sizes : k <= Max(sizes)
    <3> HIDE DEF sizes
    <3> QED
      BY <2>3, LargestOf
  <2>5. \E p \in agreed : \A q \in agreed : Len(q) <= Len(p)
    <3> HIDE DEF agreed
    <3>1. PICK p \in agreed : Len(p) = Max(sizes)
      BY <2>4
    <3>2. ASSUME NEW q \in agreed PROVE Len(q) <= Len(p)
      <4>1. Len(q) \in sizes
        OBVIOUS
      <4> QED
        BY <2>4, <3>1, <4>1
    <3> QED
      BY <3>2
  <2>6. path = CHOOSE p \in agreed : \A q \in agreed : Len(q) <= Len(p)
    BY DEF AcceptedPath
  <2> HIDE DEF agreed, path
  <2> QED
    BY <2>5, <2>6
<1>2. path \in Range(slots) /\ \A i \in 1 .. Len(path) : path[i] = answer[SubSeq(path, 1, i - 1)]
  <2> HIDE DEF path
  <2> QED
    BY <1>1
<1> HIDE DEF path, agreed
<1>3. /\ path \in Seq(Token) /\ Len(path) \in 0 .. n
      /\ \A k \in 0 .. Len(path) : SubSeq(path, 1, k) \in Range(slots)
  BY <1>2, SlotPaths
<1>4. Len(path) \in Nat /\ Len(greedy) \in Nat /\ greedy \in Seq(Token)
  BY <1>3, Continuation
<1> DEFINE tokens == <<first>> \o path
<1>5. /\ tokens \in Seq(Token) /\ Len(tokens) = Len(path) + 1 /\ tokens[1] = first
      /\ \A i \in 1 .. Len(path) : tokens[i + 1] = path[i]
  BY <1>3, Below1
<1> HIDE DEF tokens
\* The target's answer after the first k tokens of the path.
<1>6. ASSUME NEW k \in 0 .. Len(path), \A j \in 1 .. k + 1 : tokens[j] = greedy[m + j]
      PROVE  answer[SubSeq(path, 1, k)] = greedy[m + k + 2]
  <2> DEFINE q == SubSeq(path, 1, k)
             asked == <<first>> \o q
  <2>1. k \in Nat /\ k <= Len(path)
    BY <1>4
  <2>2. q \in Seq(Token) /\ Len(q) = k /\ \A i \in 1 .. k : q[i] = path[i]
    BY <1>3, <2>1, StartOf
  <2>3. q \in Range(slots)
    BY <1>3
  <2> HIDE DEF q
  <2>4. /\ asked \in Seq(Token) /\ Len(asked) = k + 1 /\ asked[1] = first
        /\ \A i \in 1 .. k : asked[i + 1] = q[i]
    BY <2>2, Below1
  <2>5. answer[q] = Last(Posterior(c, asked, wrong))
    BY <2>3 DEF AnswersOf
  <2> HIDE DEF asked
  <2>6. ASSUME NEW j \in 1 .. k + 1 PROVE asked[j] = greedy[m + j]
    <3>1. CASE j = 1
      BY <2>4, <3>1
    <3>2. CASE j # 1
      <4>1. j - 1 \in 1 .. k /\ j - 1 + 1 = j /\ j - 1 \in 1 .. Len(path)
        BY <2>1, <3>2
      <4>2. asked[j] = q[j - 1] /\ q[j - 1] = path[j - 1] /\ path[j - 1] = tokens[j]
        BY <1>5, <2>2, <2>4, <4>1
      <4> QED
        BY <1>6, <4>2
    <3> QED
      BY <3>1, <3>2
  <2>7. Posterior(c, asked, wrong)[k + 1] = greedy[m + (k + 1) + 1]
    <3> DEFINE i == k + 1
    <3>1. i \in 1 .. Len(asked) /\ m + i < Len(greedy) /\ Follows(asked, m, i)
      BY <1>3, <1>4, <2>1, <2>4, <2>6 DEF Follows
    <3> HIDE DEF i
    <3>2. Posterior(c, asked, wrong)[i] = greedy[m + i + 1]
      <4>1. asked \in Seq(Token) /\ m \in Nat /\ Reads(c, m) /\ Reach
        BY <2>4
      <4> QED
        BY <3>1, <4>1, AnswerGoesOn
    <3> QED
      BY <3>2 DEF i
  <2>8. Last(Posterior(c, asked, wrong)) = Posterior(c, asked, wrong)[k + 1]
    <3>1. Posterior(c, asked, wrong) = [i \in 1 .. k + 1 |-> Posterior(c, asked, wrong)[i]]
      BY <2>4 DEF Posterior
    <3> DEFINE P == Posterior(c, asked, wrong)
    <3> HIDE DEF P
    <3>2. k + 1 \in Nat /\ P = [i \in 1 .. k + 1 |-> P[i]]
      BY <2>1, <3>1 DEF P
    <3>3. Len(P) = k + 1
      BY <3>2
    <3> QED
      BY <3>3 DEF Last, P
  <2>9. m + (k + 1) + 1 = m + k + 2
    BY <2>1
  <2> QED
    BY <2>5, <2>7, <2>8, <2>9 DEF q
<1>7. \A i \in 1 .. Len(path) + 1 : tokens[i] = greedy[m + i]
  <2> DEFINE size == Len(path) + 1
  <2>0. size \in Nat \ {0} /\ size - 1 = Len(path)
    BY <1>4
  <2> HIDE DEF size
  <2>1. ASSUME NEW i \in 1 .. size - 1, \A j \in 1 .. i : tokens[j] = greedy[m + j]
        PROVE  tokens[i + 1] = greedy[m + i + 1]
    <3>1. i \in 1 .. Len(path) /\ i - 1 \in 0 .. Len(path) /\ i - 1 + 1 = i
          /\ m + (i - 1) + 2 = m + i + 1
      BY <1>4, <2>0
    <3>2. tokens[i + 1] = path[i] /\ path[i] = answer[SubSeq(path, 1, i - 1)]
      BY <1>2, <1>5, <3>1
    <3>3. answer[SubSeq(path, 1, i - 1)] = greedy[m + (i - 1) + 2]
      BY <1>6, <2>1, <3>1
    <3> QED
      BY <3>1, <3>2, <3>3
  <2>2. \A i \in 1 .. size : tokens[i] = greedy[m + i]
    <3>1. tokens[1] = greedy[m + 1]
      BY <1>5
    <3> QED
      BY <2>0, <2>1, <3>1, AgreedIsGreedy
  <2> QED
    BY <2>2 DEF size
<1>8. answer[path] = greedy[m + Len(path) + 2]
  <2>1. Len(path) \in 0 .. Len(path) /\ SubSeq(path, 1, Len(path)) = path
    BY <1>3, <1>4, SubSeqFull
  <2> QED
    BY <1>6, <1>7, <2>1
<1>9. tokens = SubSeq(greedy, m + 1, m + 1 + Len(path))
  <2> DEFINE k == Len(path) + 1
  <2>1. k \in Nat /\ k = Len(tokens) /\ m + k <= Len(greedy) /\ m + k = m + 1 + Len(path)
    BY <1>3, <1>4, <1>5
  <2>2. \A i \in 1 .. k : tokens[i] = greedy[m + i]
    BY <1>7
  <2> HIDE DEF k
  <2>3. SubSeq(tokens, 1, k) = SubSeq(greedy, m + 1, m + k)
    BY <1>4, <1>5, <2>1, <2>2, PartsAgree
  <2>4. SubSeq(tokens, 1, k) = tokens
    BY <1>5, <2>1, SubSeqFull
  <2> QED
    BY <2>1, <2>3, <2>4
<1> QED
  BY <1>2, <1>8, <1>9 DEF path, tokens, GreedyPath

\* The slots of a path of the tree hold its tokens.
LEMMA KeptSlots ==
  ASSUME NEW slots, NEW n \in Nat, TreeOf(slots, n), NEW path \in Range(slots), NEW first \in Token,
         NEW tokens, TokensOf(tokens, slots, first)
  PROVE  LET at == SlotsOf(slots, path)
         IN /\ DOMAIN at = 1 .. Len(path) + 1 /\ Along(tokens, at, <<first>> \o path)
            /\ \A i \in 1 .. Len(path) + 1 : /\ at[i] \in DOMAIN slots
                                             /\ slots[at[i]] = SubSeq(path, 1, i - 1)
                                             /\ Len(slots[at[i]]) = i - 1
<1> DEFINE at == SlotsOf(slots, path)
<1>1. /\ path \in Seq(Token) /\ Len(path) \in Nat
      /\ \A k \in 0 .. Len(path) : SubSeq(path, 1, k) \in Range(slots)
  BY SlotPaths
<1>2. DOMAIN at = 1 .. Len(path) + 1
  BY DEF SlotsOf
<1>3. ASSUME NEW i \in 1 .. Len(path) + 1
      PROVE  /\ at[i] \in DOMAIN slots /\ slots[at[i]] = SubSeq(path, 1, i - 1)
             /\ SubSeq(path, 1, i - 1) \in Seq(Token) /\ Len(SubSeq(path, 1, i - 1)) = i - 1
  <2>1. i - 1 \in 0 .. Len(path) /\ i - 1 \in Nat /\ i - 1 <= Len(path)
    BY <1>1
  <2>2. \E s \in DOMAIN slots : slots[s] = SubSeq(path, 1, i - 1)
    <3>1. SubSeq(path, 1, i - 1) \in Range(slots)
      BY <1>1, <2>1
    <3> QED
      BY <3>1, SlotPaths
  <2>3. at[i] = CHOOSE s \in DOMAIN slots : slots[s] = SubSeq(path, 1, i - 1)
    BY DEF SlotsOf
  <2>4. at[i] \in DOMAIN slots /\ slots[at[i]] = SubSeq(path, 1, i - 1)
    <3> HIDE DEF at
    <3> QED
      BY <2>2, <2>3
  <2> QED
    BY <1>1, <2>1, <2>4, StartOf
<1> HIDE DEF at
<1>4. ASSUME NEW i \in 1 .. Len(path) + 1
      PROVE  tokens[at[i]] = IF i = 1 THEN first ELSE path[i - 1]
  <2> DEFINE q == SubSeq(path, 1, i - 1)
  <2>1. at[i] \in DOMAIN slots /\ slots[at[i]] = q /\ q \in Seq(Token) /\ Len(q) = i - 1
    BY <1>3
  <2>2. i = 1 => q = << >>
    BY SubSeqEmpty
  <2>3. ASSUME i # 1 PROVE q # << >> /\ Last(q) = path[i - 1]
    <3>1. i - 1 \in Nat /\ i - 1 <= Len(path) /\ i - 1 \in 1 .. i - 1
      BY <1>1, <2>3
    <3>2. q[i - 1] = path[i - 1]
      BY <1>1, <3>1, StartOf
    <3> HIDE DEF q
    <3>3. q # << >>
      BY <2>1, <3>1, EmptySeq
    <3> QED
      BY <2>1, <3>2, <3>3 DEF Last
  <2> HIDE DEF q
  <2> QED
    BY <2>1, <2>2, <2>3 DEF TokensOf
<1>5. ASSUME NEW i \in 1 .. Len(path) + 1 PROVE tokens[at[i]] = (<<first>> \o path)[i]
  <2> DEFINE both == <<first>> \o path
  <2>1. both[1] = first /\ \A j \in 1 .. Len(path) : both[j + 1] = path[j]
    BY <1>1, Below1
  <2> HIDE DEF both
  <2>2. CASE i = 1
    BY <1>4, <2>1, <2>2 DEF both
  <2>3. CASE i # 1
    <3>1. i - 1 \in 1 .. Len(path) /\ i - 1 + 1 = i
      BY <1>1, <2>3
    <3>2. both[i] = path[i - 1]
      BY <2>1, <3>1
    <3> QED
      BY <1>4, <2>3, <3>2 DEF both
  <2> QED
    BY <2>2, <2>3
<1>6. Along(tokens, at, <<first>> \o path)
  <2>1. Len(<<first>> \o path) = Len(path) + 1
    BY <1>1, Below1
  <2> QED
    BY <1>2, <1>5, <2>1 DEF Along
<1> QED
  BY <1>2, <1>3, <1>6 DEF at

-----------------------------------------------------------------------------
(* The invariant *)

Sources == {"none", "dflash", "copyspec"}
Blocks == [len : Nat, source : Sources, tokens : Seq(Token), staged : Token,
           todo : Seq(Token), committed : Seq(Token), accepted : Nat, next : Token]
Plans == [len : Nat, staged : Token, tokens : Seq(Token), source : Sources]
Sessions == [restored : Nat, boundary : Nat, publish : BOOLEAN, frozen : Seq(Nat),
             sidecar : [at : Nat, rec : Seq(Token), row : Seq(Token)], collect : BOOLEAN]

Reading == {"chunks", "prompt", "tail", "complete"}
Loop == {"cycle", "verify", "record", "prefetch", "emit"}

\* The tokens of the continuation the caches hold, and those handed out.
Held == start - Len(Prompt)
Done == Len(generated)

Typed ==
  /\ Reach /\ active \in BOOLEAN /\ unskipped \in BOOLEAN
  /\ session \in Sessions /\ cache \in Caches /\ block \in Blocks /\ prefetched \in Plans
  /\ stream \in Seq(Token) /\ generated \in Seq(Token) /\ index \in Seq(Token)
  /\ start \in Nat /\ Held \in Nat /\ staged \in Token /\ hidden \in Seq(Nat)

\* Which loop is where.
Places ==
  /\ pc \in {"open", "first", "snapshot", "token", "step"} \cup Reading \cup Loop
              \cup DOMAIN Endings \cup {"finished", "closed", "raised"}
  /\ run.mode = "target" => pc \notin {"first", "snapshot"} \cup Reading \cup Loop
  /\ pc \in {"token", "step"} => run.mode = "target"
  /\ pc \in {"record", "prefetch"} => run.mode = "dflash"
  /\ pc = "prefetch" => ~run.profile

\* What is handed out is a part of the continuation; only the very first token is
\* handed out before it is counted.
Output ==
  /\ stream = SubSeq(greedy, 1, Len(stream)) /\ generated = SubSeq(greedy, 1, Done)
  /\ Done <= Limit
  /\ IF unskipped THEN Done = 0 /\ Len(stream) = 1 /\ run.max > 0 /\ run.mode # "target"
     ELSE Len(stream) = Done

Fresh ==
  pc \in {"open", "first"} \cup Reading =>
    /\ Done = 0 /\ ~unskipped /\ Held = 0 /\ block = NoBlock /\ prefetched = NoDraft

\* The prefill: the caches hold a part of the prompt, and after the seam all of it
\* up to the boundary.
PromptRead ==
  /\ pc = "open" => row = << >>
  /\ pc \in Reading =>
    LET n == Len(cache.kv) IN
    /\ session.boundary <= Len(Prompt) /\ session.restored <= session.boundary
    /\ n <= Len(Prompt) /\ cache.saved = NoCheckpoint
    /\ cache.kv = SubSeq(Prompt, 1, n) /\ cache.rec = SubSeq(Prompt, 1, n)
    /\ row \in {<< >>, cache.kv} /\ (hidden = << >> \/ Len(hidden) = Len(Prompt))
    /\ pc = "chunks" => IF session.restored < session.boundary
                        THEN n < session.boundary ELSE n = session.boundary
    /\ pc \in {"prompt", "tail"} => n = session.boundary
    /\ pc = "complete" => n = Len(Prompt)

\* From the first token on, the caches and the logits are of one text.
TextRead ==
  pc \in {"first", "snapshot"} \cup Loop =>
    /\ Held <= run.max /\ Reads(cache, Held) /\ row = Text(Held)
    /\ cache.saved = NoCheckpoint

NoStop(n) == \A i \in 1 .. n : greedy[i] \notin Stop

Between ==
  /\ pc \in {"first", "cycle", "verify", "snapshot"} => Held = Done
  /\ pc \in {"first", "cycle", "verify"} => staged = greedy[Held + 1] /\ NoStop(Held)

\* A block on its way to verification begins with the staged token, and neither
\* it nor a path of its tree reaches past the limit.
Planned ==
  pc = "verify" =>
    /\ block.len \in 1 .. FullBlock /\ Done + block.len <= run.max
    /\ run.mode = "dflash" => block.staged = staged /\ Len(block.tokens) = block.len - 1
    /\ run.mode = "ddtree" =>
         /\ \A c \in candidates : /\ c.ids \in Seq(Token) /\ c.ids # << >>
                                  /\ c.ids[1] = staged /\ Len(c.ids) <= block.len
         /\ tree # << >> => TreeOf(tree, block.len - 1)

\* What a verified block has committed, and what of it is still to be handed out.
Committed ==
  pc \in {"record", "prefetch", "emit"} =>
    LET size == Len(block.committed) IN
    /\ size \in 1 .. FullBlock /\ size <= Held
    /\ block.committed = SubSeq(greedy, Held - size + 1, Held)
    /\ Held - size <= Done /\ Done <= Held /\ (pc # "emit" => Done = Held - size)
    /\ block.todo = SubSeq(greedy, Done + 1, Held)
    /\ block.next = greedy[Held + 1] /\ NoStop(Held - size)

\* A draft made ahead is for the block that comes next.
Ahead ==
  /\ pc \in {"verify", "record", "prefetch"} \/ run.profile \/ run.mode # "dflash"
       => prefetched = NoDraft
  /\ pc \in {"cycle", "emit"} /\ prefetched # NoDraft =>
       /\ Held < run.max /\ prefetched.len > 1
       /\ prefetched.len = BlockLength(policy, Held)
       /\ Len(prefetched.tokens) = prefetched.len - 1
       /\ prefetched.staged = greedy[Held + 1]

\* The target alone.
Alone ==
  /\ pc = "token" => /\ Done < Limit /\ Reads(cache, Done) /\ cache.saved = NoCheckpoint
                     /\ staged = greedy[Done + 1] /\ NoStop(Done)
  /\ pc = "step" => /\ Done > 0 /\ Reads(cache, Done - 1) /\ cache.saved = NoCheckpoint
                    /\ staged = greedy[Done] /\ NoStop(Done - 1)

\* It comes to its end only where greedy decoding does.
EndsRight ==
  pc \in {"snapshot", "ending"} =>
    Len(stream) = Limit \/ \E i \in 1 .. Len(stream) : stream[i] \in Stop

DecodeInv ==
  /\ Typed /\ Places /\ Output /\ Fresh /\ PromptRead /\ TextRead /\ Between
  /\ Planned /\ Committed /\ Ahead /\ Alone /\ EndsRight

-----------------------------------------------------------------------------
(* The prefill keeps it *)

LEMMA Constants ==
  /\ NoBlock \in Blocks /\ NoDraft \in Plans /\ NoSidecar \in [at : Nat, rec : Seq(Token), row : Seq(Token)]
  /\ ColdCache \in Caches /\ NoSession \in Sessions /\ << >> \in Seq(Token) /\ << >> \in Seq(Nat)
<1>1. << >> \in Seq(Token) /\ << >> \in Seq(Nat)
  OBVIOUS
<1>2. NoBlock \in Blocks /\ NoDraft \in Plans
  BY <1>1, PromptFacts DEF NoBlock, NoDraft, Blocks, Plans, Sources
<1>3. NoSidecar \in [at : Nat, rec : Seq(Token), row : Seq(Token)]
  BY <1>1 DEF NoSidecar
<1>4. ColdCache \in Caches
  BY <1>1 DEF ColdCache, NoCheckpoint, Caches
<1>5. NoSession \in Sessions
  BY <1>1, <1>3 DEF NoSession, Sessions
<1> QED
  BY <1>1, <1>2, <1>3, <1>4, <1>5

\* A pass over caches without a checkpoint.
LEMMA ForwardPlain ==
  ASSUME NEW c \in Caches, c.saved = NoCheckpoint, NEW tokens \in Seq(Token)
  PROVE  LET f == Forward(c, tokens)
         IN /\ f \in Caches /\ f.saved = NoCheckpoint
            /\ f.kv = c.kv \o tokens /\ f.rec = c.rec \o tokens
<1>1. PICK k \in Seq(Token), r \in Seq(Token), s \in [armed : BOOLEAN, rec : Seq(Token)],
           t \in Seq(Token) : c = [kv |-> k, rec |-> r, saved |-> s, tape |-> t]
  BY DEF Caches
<1>2. c.saved = s /\ c.kv = k /\ c.rec = r /\ c.tape = t /\ ~c.saved.armed
  BY <1>1 DEF NoCheckpoint
<1> DEFINE kt == k \o tokens
           rt == r \o tokens
<1>3. kt \in Seq(Token) /\ rt \in Seq(Token)
  BY ConcatProperties
<1>4. c.kv \o tokens = kt /\ c.rec \o tokens = rt
  BY <1>2
<1> HIDE DEF kt, rt
<1> DEFINE d == [c EXCEPT !.kv = kt]
           e == [d EXCEPT !.rec = rt]
<1>5. d = [kv |-> kt, rec |-> r, saved |-> s, tape |-> t]
  BY <1>1
<1>6. e = [kv |-> kt, rec |-> rt, saved |-> s, tape |-> t]
  <2> HIDE DEF d
  <2> QED
    BY <1>5
<1>7. Forward(c, tokens) = [e EXCEPT !.tape = t]
  <2>1. d.rec = c.rec /\ e.tape = t
    <3>1. d.rec = r
      <4> HIDE DEF d
      <4> QED
        BY <1>5
    <3>2. e.tape = t
      <4> HIDE DEF e
      <4> QED
        BY <1>6
    <3> QED
      BY <1>2, <3>1, <3>2
  <2> QED
    BY <1>2, <1>4, <2>1 DEF Forward
<1>8. Forward(c, tokens) = [kv |-> kt, rec |-> rt, saved |-> s, tape |-> t]
  <2> HIDE DEF e
  <2> QED
    BY <1>6, <1>7
<1> QED
  BY <1>2, <1>3, <1>4, <1>8 DEF Caches

\* What reading the prompt from one position to another does.
LEMMA Fed ==
  ASSUME Typed, NEW from \in Nat, NEW to \in Nat, from <= to, to <= Len(Prompt), Feed(from, to),
         cache.kv = SubSeq(Prompt, 1, from), cache.rec = SubSeq(Prompt, 1, from),
         cache.saved = NoCheckpoint, hidden = << >> \/ Len(hidden) = Len(Prompt)
  PROVE  /\ cache' \in Caches /\ cache'.saved = NoCheckpoint /\ Len(cache'.kv) = to
         /\ cache'.kv = SubSeq(Prompt, 1, to) /\ cache'.rec = SubSeq(Prompt, 1, to)
         /\ row' = cache'.kv /\ hidden' \in Seq(Nat) /\ Len(hidden') = Len(Prompt)
<1> DEFINE part == SubSeq(Prompt, from + 1, to)
<1>1. /\ Prompt \in Seq(Token) /\ Len(Prompt) \in Nat
      /\ part \in Seq(Token)
      /\ SubSeq(Prompt, 1, to) \in Seq(Token) /\ Len(SubSeq(Prompt, 1, to)) = to
  BY PromptFacts, PartOf, StartOf
<1>2. SubSeq(Prompt, 1, from) \o part = SubSeq(Prompt, 1, to)
  <2>1. 1 \in 1 .. Len(Prompt) + 1 /\ from \in 1 - 1 .. Len(Prompt) /\ to \in from .. Len(Prompt)
    BY <1>1
  <2> QED
    BY <1>1, <2>1, ConcatAdjacentSubSeq
<1> HIDE DEF part
<1>3. cache' = Forward(cache, part) /\ row' = cache'.kv
  BY DEF Feed, part
<1>4. /\ cache' \in Caches /\ cache'.saved = NoCheckpoint
      /\ cache'.kv = cache.kv \o part /\ cache'.rec = cache.rec \o part
  BY <1>1, <1>3, ForwardPlain DEF Typed
<1>5. hidden' \in Seq(Nat) /\ Len(hidden') = Len(Prompt)
  <2> DEFINE H(i) == IF i \in from + 1 .. to THEN i ELSE IF hidden = << >> THEN 0 ELSE hidden[i]
  <2>1. hidden' = [i \in 1 .. Len(Prompt) |-> H(i)]
    BY DEF Feed
  <2>2. hidden = << >> \/ Len(hidden) = Len(Prompt)
    OBVIOUS
  <2>3. ASSUME NEW i \in 1 .. Len(Prompt) PROVE H(i) \in Nat
    BY <1>1, <2>2, <2>3, LenProperties, ElementOfSeq DEF Typed
  <2> HIDE DEF H
  <2> QED
    BY <1>1, <2>1, <2>3, IsASeq
<1> QED
  BY <1>1, <1>2, <1>3, <1>4, <1>5

\* While the prompt is read nothing is decoded.
LEMMA StillFresh ==
  ASSUME DecodeInv, pc \in {"open"} \cup Reading, UNCHANGED <<request, decoding>>,
         session' \in Sessions, cache' \in Caches, staged' \in Token, hidden' \in Seq(Nat),
         run.mode # "target",
         pc' \in {"first", "closing", "raising"} \cup Reading
  PROVE  /\ Typed' /\ Places' /\ Output' /\ Fresh' /\ Planned' /\ Committed' /\ Ahead'
         /\ Alone' /\ EndsRight'
         /\ Held' = 0 /\ Done' = 0 /\ NoStop(0)' /\ Text(0)' = Prompt
<1>1. /\ run' = run /\ greedy' = greedy /\ active' = active /\ block' = block
      /\ stream' = stream /\ generated' = generated /\ unskipped' = unskipped
      /\ start' = start /\ prefetched' = prefetched /\ index' = index /\ policy' = policy
      /\ candidates' = candidates /\ tree' = tree
  BY DEF request, decoding, emitted, steering, drafts, proposed
<1>2. Typed'
  BY <1>1 DEF DecodeInv, Typed, Reach, Held
<1>3. Places'
  BY <1>1 DEF DecodeInv, Places, Reading, Loop, Endings
<1>4. Output'
  BY <1>1 DEF DecodeInv, Output, Done, Limit
<1>5. Fresh'
  BY <1>1 DEF DecodeInv, Fresh, Done, Held
<1>6. Held' = 0 /\ Done' = 0
  BY <1>1 DEF DecodeInv, Fresh, Done, Held
<1>7. Planned' /\ Committed' /\ EndsRight' /\ Alone'
  BY DEF Planned, Committed, EndsRight, Alone, Reading
<1>8. Ahead'
  BY <1>1 DEF DecodeInv, Ahead, Fresh, Reading
<1>9. Text(0)' = Prompt
  <2>1. Text(0)' = Text(0)
    BY <1>1 DEF Text
  <2>2. Text(0) = Prompt
    BY TextFacts, Continuation DEF DecodeInv, Typed
  <2> QED
    BY <2>1, <2>2
<1> QED
  BY <1>2, <1>3, <1>4, <1>5, <1>6, <1>7, <1>8, <1>9 DEF NoStop

LEMMA OpenKeeps ==
  ASSUME DecodeInv, Open
  PROVE  DecodeInv'
<1>1. Restored \in 0 .. Boundary /\ Boundary \in 0 .. Len(Prompt) /\ run.mode # "target"
  BY RunAssumption, PromptFacts DEF DecodeInv, Typed, Reach, Open, Boundary, Restored
<1> DEFINE b == Boundary
           n == Restored
           part == SubSeq(Prompt, 1, n)
<1>2. /\ b \in Nat /\ n \in Nat /\ b <= Len(Prompt) /\ n <= b
      /\ part \in Seq(Token) /\ Len(part) = n
  <2>1. b \in Nat /\ n \in Nat /\ b <= Len(Prompt) /\ n <= b /\ n <= Len(Prompt)
    BY <1>1, PromptFacts
  <2> HIDE DEF n, b
  <2> QED
    BY <2>1, PromptFacts, StartOf
<1>3. session' \in Sessions /\ session'.boundary = b /\ session'.restored = n
  <2>1. PublishesPrompt \in BOOLEAN
    BY RunAssumption DEF PublishesPrompt, DecodeInv, Typed, Reach
  <2>2. session' = [NoSession EXCEPT !.restored = n, !.boundary = b, !.publish = PublishesPrompt]
    BY DEF Open
  <2> HIDE DEF n, b
  <2>3. session' = [restored |-> n, boundary |-> b, publish |-> PublishesPrompt,
                    frozen |-> << >>, sidecar |-> NoSidecar, collect |-> FALSE]
    BY <2>2 DEF NoSession
  <2> QED
    BY <1>2, <2>1, <2>3, Constants DEF Sessions
<1>4. cache' = [kv |-> part, rec |-> part, saved |-> NoCheckpoint, tape |-> << >>]
  <2>1. cache' = [ColdCache EXCEPT !.kv = part, !.rec = part]
    BY DEF Open
  <2> HIDE DEF part
  <2> QED
    BY <2>1 DEF ColdCache
<1>5. hidden' \in Seq(Nat) /\ (hidden' = << >> \/ Len(hidden') = Len(Prompt))
  <2> DEFINE H(i) == IF i \in run.hit.features THEN i ELSE 0
  <2>1. hidden' = IF n = 0 THEN << >> ELSE [i \in 1 .. Len(Prompt) |-> H(i)]
    BY DEF Open
  <2>2. \A i \in 1 .. Len(Prompt) : H(i) \in Nat
    OBVIOUS
  <2> HIDE DEF H, n
  <2>3. [i \in 1 .. Len(Prompt) |-> H(i)] \in Seq(Nat)
    BY <2>2, PromptFacts, IsASeq
  <2> QED
    BY <2>1, <2>3, PromptFacts
<1> HIDE DEF b, n, part
<1>6. /\ pc' = "chunks" /\ UNCHANGED <<request, row, staged, published, decoding>>
      /\ pc = "open"
  BY DEF Open
<1>7. cache' \in Caches
  BY <1>2, <1>4, Constants DEF Caches, NoCheckpoint
<1>8. /\ Typed' /\ Places' /\ Output' /\ Fresh' /\ Planned' /\ Committed' /\ Ahead'
      /\ Alone' /\ EndsRight'
  <2>1. staged' \in Token
    BY <1>6 DEF DecodeInv, Typed
  <2> QED
    BY <1>1, <1>3, <1>5, <1>6, <1>7, <2>1, StillFresh DEF Reading
<1>9. PromptRead'
  <2>1. cache'.kv = part /\ cache'.rec = part /\ cache'.saved = NoCheckpoint
    BY <1>4
  <2>2. row' = << >>
    BY <1>6 DEF DecodeInv, PromptRead
  <2> QED
    BY <1>2, <1>3, <1>5, <1>6, <2>1, <2>2 DEF PromptRead, part
<1>10. TextRead' /\ Between'
  BY <1>6 DEF TextRead, Between, Loop
<1> QED
  BY <1>8, <1>9, <1>10 DEF DecodeInv

\* The caches read on from where they are, and the features follow them.
ReadsOn ==
  LET n == Len(cache'.kv) IN
  /\ Len(cache.kv) <= n /\ n <= Len(Prompt) /\ Feed(Len(cache.kv), n)
  /\ cache'.kv = SubSeq(Prompt, 1, n) /\ cache'.rec = SubSeq(Prompt, 1, n) /\ row' = cache'.kv

LEMMA ChunkKeeps ==
  ASSUME DecodeInv, Chunk
  PROVE  /\ DecodeInv' /\ ReadsOn
         /\ Len(cache'.kv) = Min({Len(cache.kv) + Step, session.boundary - 1})
<1> DEFINE from == Len(cache.kv)
           to == Min({from + Step, session.boundary - 1})
<1>1. /\ pc = "chunks" /\ from < session.boundary - 1 /\ Feed(from, to)
      /\ pc' \in {"chunks", "closing"} /\ UNCHANGED <<fixed, staged, decoding>>
  BY DEF Chunk, Resume
<1>2. /\ session.boundary <= Len(Prompt) /\ session.restored <= session.boundary
      /\ from <= Len(Prompt) /\ cache.saved = NoCheckpoint
      /\ cache.kv = SubSeq(Prompt, 1, from) /\ cache.rec = SubSeq(Prompt, 1, from)
      /\ hidden = << >> \/ Len(hidden) = Len(Prompt)
      /\ IF session.restored < session.boundary
         THEN from < session.boundary ELSE from = session.boundary
  BY <1>1 DEF DecodeInv, PromptRead, Reading
<1>3. from \in Nat /\ session.boundary \in Nat /\ session.restored \in Nat /\ Len(Prompt) \in Nat
  <2>1. cache.kv \in Seq(Token) /\ session.boundary \in Nat /\ session.restored \in Nat
    BY DEF DecodeInv, Typed, Caches, Sessions
  <2> QED
    BY <2>1, LenProperties, PromptFacts
<1>4. to \in Nat /\ from <= to /\ to < session.boundary
  <2>1. to = IF from + Step <= session.boundary - 1 THEN from + Step ELSE session.boundary - 1
    <3>1. from + Step \in Int /\ session.boundary - 1 \in Int
      BY <1>3, StepAssumption
    <3> DEFINE x == from + Step
               y == session.boundary - 1
    <3>2. x \in Int /\ y \in Int
      BY <3>1
    <3> HIDE DEF x, y
    <3>3. Min({x, y}) = IF x <= y THEN x ELSE y
      BY <3>2, MinMax
    <3> QED
      BY <3>3 DEF x, y
  <2> HIDE DEF from, to
  <2> QED
    BY <1>1, <1>3, <2>1, StepAssumption
<1> HIDE DEF from, to
<1>5. /\ cache' \in Caches /\ cache'.saved = NoCheckpoint /\ Len(cache'.kv) = to
      /\ cache'.kv = SubSeq(Prompt, 1, to) /\ cache'.rec = SubSeq(Prompt, 1, to)
      /\ row' = cache'.kv /\ hidden' \in Seq(Nat) /\ Len(hidden') = Len(Prompt)
  <2>1. to <= Len(Prompt)
    BY <1>2, <1>3, <1>4
  <2> QED
    BY <1>1, <1>2, <1>3, <1>4, <2>1, Fed DEF DecodeInv
<1>6. /\ session' = session /\ staged' = staged /\ UNCHANGED <<request, decoding>>
      /\ run.mode # "target"
  BY <1>1 DEF fixed, DecodeInv, Places, Reading
<1>7. /\ Typed' /\ Places' /\ Output' /\ Fresh' /\ Planned' /\ Committed' /\ Ahead'
      /\ Alone' /\ EndsRight'
  <2>1. session \in Sessions /\ staged \in Token
    BY DEF DecodeInv, Typed
  <2> QED
    BY <1>1, <1>5, <1>6, <2>1, StillFresh DEF Reading
<1>8. PromptRead'
  BY <1>1, <1>2, <1>3, <1>4, <1>5, <1>6 DEF PromptRead, Reading
<1>9. TextRead' /\ Between'
  BY <1>1 DEF TextRead, Between, Loop
<1>10. ReadsOn
  BY <1>1, <1>2, <1>3, <1>4, <1>5 DEF ReadsOn, from
<1>11. to = Min({Len(cache.kv) + Step, session.boundary - 1})
  BY DEF to, from
<1> QED
  BY <1>5, <1>7, <1>8, <1>9, <1>10, <1>11 DEF DecodeInv

LEMMA SeamKeeps ==
  ASSUME DecodeInv, Seam
  PROVE  /\ DecodeInv'
         /\ IF session.restored < session.boundary THEN ReadsOn ELSE UNCHANGED <<cache, hidden>>
<1> DEFINE b == session.boundary
           n == Len(cache.kv)
<1>1. /\ pc = "chunks" /\ n >= b - 1 /\ pc' \in {"prompt", "closing"}
      /\ UNCHANGED <<fixed, staged, decoding>>
  BY DEF Seam, Resume
<1>2. /\ b <= Len(Prompt) /\ session.restored <= b
      /\ n <= Len(Prompt) /\ cache.saved = NoCheckpoint
      /\ cache.kv = SubSeq(Prompt, 1, n) /\ cache.rec = SubSeq(Prompt, 1, n)
      /\ hidden = << >> \/ Len(hidden) = Len(Prompt)
      /\ IF session.restored < b THEN n < b ELSE n = b
  BY <1>1 DEF DecodeInv, PromptRead, Reading
<1>3. n \in Nat /\ b \in Nat /\ session.restored \in Nat /\ Len(Prompt) \in Nat
  <2>1. cache.kv \in Seq(Token) /\ session.boundary \in Nat /\ session.restored \in Nat
    BY DEF DecodeInv, Typed, Caches, Sessions
  <2> QED
    BY <2>1, LenProperties, PromptFacts
<1>4. /\ cache' \in Caches /\ cache'.saved = NoCheckpoint /\ Len(cache'.kv) = b
      /\ cache'.kv = SubSeq(Prompt, 1, b) /\ cache'.rec = SubSeq(Prompt, 1, b)
      /\ row' \in {<< >>, cache'.kv} /\ hidden' \in Seq(Nat)
      /\ hidden' = << >> \/ Len(hidden') = Len(Prompt)
      /\ IF session.restored < b THEN ReadsOn ELSE UNCHANGED <<cache, hidden>>
  <2>1. CASE session.restored < b
    <3> DEFINE from == b - 1
    <3>1. Feed(from, b) /\ from \in Nat /\ from = n /\ from <= b
      BY <1>1, <1>2, <1>3, <2>1 DEF Seam
    <3>2. n = Len(cache.kv)
      OBVIOUS
    <3> HIDE DEF n, b, from
    <3>3. /\ cache' \in Caches /\ cache'.saved = NoCheckpoint /\ Len(cache'.kv) = b
          /\ cache'.kv = SubSeq(Prompt, 1, b) /\ cache'.rec = SubSeq(Prompt, 1, b)
          /\ row' = cache'.kv /\ hidden' \in Seq(Nat) /\ Len(hidden') = Len(Prompt)
      BY <1>2, <1>3, <3>1, Fed DEF DecodeInv
    <3> QED
      BY <1>2, <2>1, <3>1, <3>2, <3>3 DEF ReadsOn
  <2>2. CASE ~(session.restored < b)
    <3>1. /\ n = b /\ cache' = cache /\ hidden' = hidden
          /\ row' \in {<< >>, SubSeq(Prompt, 1, b)}
      BY <1>2, <2>2 DEF Seam
    <3> QED
      BY <1>2, <2>2, <3>1 DEF DecodeInv, Typed
  <2> QED
    BY <2>1, <2>2
<1>5. /\ session' = session /\ staged' = staged /\ UNCHANGED <<request, decoding>>
      /\ run.mode # "target"
  BY <1>1 DEF fixed, DecodeInv, Places, Reading
<1>6. /\ Typed' /\ Places' /\ Output' /\ Fresh' /\ Planned' /\ Committed' /\ Ahead'
      /\ Alone' /\ EndsRight'
  <2>1. session \in Sessions /\ staged \in Token
    BY DEF DecodeInv, Typed
  <2> QED
    BY <1>1, <1>4, <1>5, <2>1, StillFresh DEF Reading
<1> HIDE DEF n
<1>7. PromptRead'
  BY <1>1, <1>2, <1>3, <1>4, <1>5 DEF PromptRead, Reading
<1>8. TextRead' /\ Between'
  BY <1>1 DEF TextRead, Between, Loop
<1> QED
  BY <1>4, <1>6, <1>7, <1>8 DEF DecodeInv

LEMMA PublishPromptKeeps ==
  ASSUME DecodeInv, PublishPrompt
  PROVE  DecodeInv' /\ session'.restored = session.restored
<1>1. /\ pc = "prompt" /\ pc' \in {"tail", "closing", "raising"}
      /\ UNCHANGED <<request, prefilled, staged, decoding>>
      /\ run.mode # "target"
  BY DEF PublishPrompt, Resume, DecodeInv, Places, Reading
<1>2. /\ session' \in Sessions /\ session'.boundary = session.boundary
      /\ session'.restored = session.restored
  <2> DEFINE taken == [at |-> session.boundary, rec |-> cache.rec, row |-> row]
  <2>1. session' = session \/ session' = [session EXCEPT !.sidecar = taken]
    BY DEF PublishPrompt
  <2>2. taken \in [at : Nat, rec : Seq(Token), row : Seq(Token)]
    <3>1. /\ session.boundary \in Nat /\ cache.rec \in Seq(Token) /\ cache.kv \in Seq(Token)
      BY DEF DecodeInv, Typed, Sessions, Caches
    <3>2. row \in {<< >>, cache.kv}
      BY <1>1 DEF DecodeInv, PromptRead, Reading
    <3> QED
      BY <3>1, <3>2, Constants
  <2>3. session \in Sessions
    BY DEF DecodeInv, Typed
  <2> HIDE DEF taken
  <2> QED
    BY <2>1, <2>2, <2>3 DEF Sessions
<1>3. cache' = cache /\ hidden' = hidden /\ row' = row
  BY <1>1 DEF prefilled
<1>4. /\ Typed' /\ Places' /\ Output' /\ Fresh' /\ Planned' /\ Committed' /\ Ahead'
      /\ Alone' /\ EndsRight'
  <2>1. staged' \in Token /\ cache' \in Caches /\ hidden' \in Seq(Nat)
    BY <1>1, <1>3 DEF DecodeInv, Typed
  <2> QED
    BY <1>1, <1>2, <2>1, StillFresh DEF Reading
<1>5. PromptRead'
  BY <1>1, <1>2, <1>3 DEF DecodeInv, PromptRead, Reading
<1>6. TextRead' /\ Between'
  BY <1>1 DEF TextRead, Between, Loop
<1> QED
  BY <1>2, <1>4, <1>5, <1>6 DEF DecodeInv

LEMMA PrefillTailKeeps ==
  ASSUME DecodeInv, PrefillTail
  PROVE  DecodeInv' /\ (ReadsOn \/ UNCHANGED <<cache, hidden>>)
<1> DEFINE b == session.boundary
<1>1. /\ pc = "tail" /\ pc' \in {"complete", "closing"}
      /\ UNCHANGED <<fixed, staged, decoding>>
  BY DEF PrefillTail, Resume
<1>2. /\ b <= Len(Prompt) /\ session.restored <= b /\ cache.saved = NoCheckpoint
      /\ Len(cache.kv) = b /\ row \in {<< >>, cache.kv}
      /\ cache.kv = SubSeq(Prompt, 1, b) /\ cache.rec = SubSeq(Prompt, 1, b)
      /\ hidden = << >> \/ Len(hidden) = Len(Prompt)
  BY <1>1 DEF DecodeInv, PromptRead, Reading
<1>3. b \in Nat /\ Len(Prompt) \in Nat /\ SubSeq(Prompt, 1, Len(Prompt)) = Prompt
  BY PromptFacts DEF DecodeInv, Typed, Sessions
<1>4. /\ cache' \in Caches /\ cache'.saved = NoCheckpoint /\ Len(cache'.kv) = Len(Prompt)
      /\ cache'.kv = SubSeq(Prompt, 1, Len(Prompt)) /\ cache'.rec = SubSeq(Prompt, 1, Len(Prompt))
      /\ row' \in {<< >>, cache'.kv} /\ hidden' \in Seq(Nat)
      /\ hidden' = << >> \/ Len(hidden') = Len(Prompt)
      /\ ReadsOn \/ UNCHANGED <<cache, hidden>>
  <2>1. CASE b < Len(Prompt)
    <3>1. Feed(b, Len(Prompt))
      BY <2>1 DEF PrefillTail
    <3> HIDE DEF b
    <3>2. /\ cache' \in Caches /\ cache'.saved = NoCheckpoint /\ Len(cache'.kv) = Len(Prompt)
          /\ cache'.kv = SubSeq(Prompt, 1, Len(Prompt))
          /\ cache'.rec = SubSeq(Prompt, 1, Len(Prompt))
          /\ row' = cache'.kv /\ hidden' \in Seq(Nat) /\ Len(hidden') = Len(Prompt)
      BY <1>2, <1>3, <2>1, <3>1, Fed DEF DecodeInv
    <3> QED
      BY <1>2, <1>3, <2>1, <3>1, <3>2 DEF ReadsOn
  <2>2. CASE b = Len(Prompt)
    <3>1. cache' = cache /\ hidden' = hidden /\ row' = row
      BY <1>3, <2>2 DEF PrefillTail, prefilled
    <3> QED
      BY <1>2, <2>2, <3>1 DEF DecodeInv, Typed
  <2> QED
    BY <1>2, <1>3, <2>1, <2>2
<1>5. /\ session' = session /\ staged' = staged /\ UNCHANGED <<request, decoding>>
      /\ run.mode # "target"
  BY <1>1 DEF fixed, DecodeInv, Places, Reading
<1>6. /\ Typed' /\ Places' /\ Output' /\ Fresh' /\ Planned' /\ Committed' /\ Ahead'
      /\ Alone' /\ EndsRight'
  <2>1. session \in Sessions /\ staged \in Token
    BY DEF DecodeInv, Typed
  <2> QED
    BY <1>1, <1>4, <1>5, <2>1, StillFresh DEF Reading
<1>7. PromptRead'
  BY <1>1, <1>2, <1>3, <1>4, <1>5 DEF PromptRead, Reading
<1>8. TextRead' /\ Between'
  BY <1>1 DEF TextRead, Between, Loop
<1> QED
  BY <1>4, <1>6, <1>7, <1>8 DEF DecodeInv

LEMMA CompleteKeeps ==
  ASSUME DecodeInv, Complete
  PROVE  DecodeInv'
<1>1. /\ pc = "complete" /\ pc' \in {"first", "closing", "raising"}
      /\ UNCHANGED <<request, prefilled, decoding>> /\ run.mode # "target"
  BY DEF Complete, Resume, DecodeInv, Places, Reading
<1>2. /\ cache.saved = NoCheckpoint /\ row \in {<< >>, Prompt}
      /\ cache.kv = Prompt /\ cache.rec = Prompt
  BY <1>1, PromptFacts DEF DecodeInv, PromptRead, Reading
<1>3. session' \in Sessions
  <2>1. session \in Sessions /\ hidden \in Seq(Nat)
    BY DEF DecodeInv, Typed
  <2>2. PICK f \in Seq(Nat) : session' = [session EXCEPT !.frozen = f]
    BY <2>1, Constants DEF Complete
  <2> QED
    BY <2>1, <2>2 DEF Sessions
<1>4. /\ staged' \in Token
      /\ pc' = "first" => row = Prompt /\ staged' = greedy[1]
  <2>1. greedy[1] \in Token
    BY Continuation, BlockAssumption DEF DecodeInv, Typed
  <2> QED
    BY <1>2, <2>1 DEF Complete, DecodeInv, Typed
<1>5. cache' = cache /\ hidden' = hidden /\ row' = row
  BY <1>1 DEF prefilled
<1>6. /\ Typed' /\ Places' /\ Output' /\ Fresh' /\ Planned' /\ Committed' /\ Ahead'
      /\ Alone' /\ EndsRight'
      /\ Held' = 0 /\ Done' = 0 /\ NoStop(0)' /\ Text(0)' = Prompt
  <2>1. cache' \in Caches /\ hidden' \in Seq(Nat)
    BY <1>5 DEF DecodeInv, Typed
  <2> QED
    BY <1>1, <1>3, <1>4, <2>1, StillFresh DEF Reading
<1>7. PromptRead'
  BY <1>1 DEF PromptRead, Reading
<1>8. run' = run /\ greedy' = greedy /\ run.max \in Nat
  BY <1>1, Continuation DEF request, DecodeInv, Typed
<1>9. TextRead'
  <2>1. Held' <= run'.max
    BY <1>6, <1>8
  <2>2. Reads(cache, 0)' /\ Text(0)' = Prompt
    BY <1>2, <1>5, <1>6 DEF Reads
  <2>3. Text(Held)' = Text(0)' /\ Reads(cache, Held)'
    <3>1. Text(Held)' = Text(0)'
      BY <1>6 DEF Text
    <3> QED
      BY <2>2, <3>1 DEF Reads
  <2> QED
    BY <1>1, <1>2, <1>4, <1>5, <2>1, <2>2, <2>3 DEF TextRead, Loop
<1>10. Between'
  <2>1. NoStop(Held)'
    BY <1>6 DEF NoStop
  <2> QED
    BY <1>1, <1>4, <1>6, <1>8, <2>1 DEF Between
<1> QED
  BY <1>6, <1>7, <1>9, <1>10 DEF DecodeInv

-----------------------------------------------------------------------------
(* The target alone keeps it *)

LEMMA LimitFacts ==
  ASSUME Typed
  PROVE  /\ Limit \in Nat /\ Limit < Len(greedy) + 1 /\ Len(greedy) \in Nat
         /\ run.max <= Limit /\ (run.mode # "target" => Limit = run.max)
         /\ run.max + 1 <= Len(greedy) /\ run.max \in Nat
         /\ (run.max > 0 => Limit = run.max) /\ (Limit # run.max => Limit = 1)
  BY Continuation, BlockAssumption DEF Typed, Limit

\* Everything handed out is the target's own.
LEMMA OutputFacts ==
  ASSUME Typed, Output
  PROVE  /\ Done \in Nat /\ Done <= Len(greedy) /\ Len(stream) \in Nat
         /\ Len(stream) <= Limit /\ Len(stream) >= Done
         /\ \A i \in 1 .. Len(stream) : stream[i] = greedy[i]
<1>1. Done \in Nat /\ Len(stream) \in Nat
  BY LenProperties DEF Typed, Done
<1>2. Limit \in Nat /\ Limit <= Len(greedy) /\ (run.max > 0 => Limit = run.max) /\ run.max \in Nat
      /\ Len(greedy) \in Nat
  BY LimitFacts
<1>3. Len(stream) <= Limit /\ Len(stream) >= Done
  <2>1. /\ Done <= Limit
        /\ (unskipped => Done = 0 /\ Len(stream) = 1 /\ run.max > 0)
        /\ (~unskipped => Len(stream) = Done)
    BY DEF Output
  <2>2. CASE unskipped
    <3>1. Len(stream) = 1 /\ Done = 0 /\ Limit = run.max /\ run.max > 0
      BY <1>2, <2>1, <2>2
    <3> QED
      BY <1>2, <3>1
  <2>3. CASE ~unskipped
    <3>1. Len(stream) = Done /\ Done <= Limit
      BY <2>1, <2>3
    <3> QED
      BY <1>1, <3>1
  <2> QED
    BY <2>2, <2>3
<1>4. \A i \in 1 .. Len(stream) : stream[i] = greedy[i]
  <2> DEFINE n == Len(stream)
  <2>1. greedy \in Seq(Token) /\ n \in Nat /\ n <= Len(greedy) /\ stream = SubSeq(greedy, 1, n)
    <3>1. greedy \in Seq(Token) /\ stream = SubSeq(greedy, 1, n)
      BY Continuation DEF Typed, Output
    <3> QED
      BY <1>1, <1>2, <1>3, <3>1
  <2> HIDE DEF n
  <2>2. \A i \in 1 .. n : SubSeq(greedy, 1, n)[i] = greedy[i]
    BY <2>1, StartOf
  <2>3. \A i \in 1 .. n : stream[i] = greedy[i]
    BY <2>1, <2>2
  <2> QED
    BY <2>3 DEF n
<1>5. Done <= Len(greedy)
  BY <1>1, <1>2, <1>3
<1> QED
  BY <1>1, <1>3, <1>4, <1>5

\* One more token of the continuation.
LEMMA OneMore ==
  ASSUME Reach, NEW s, NEW n \in Nat, n < Len(greedy), s = SubSeq(greedy, 1, n)
  PROVE  /\ Append(s, greedy[n + 1]) = SubSeq(greedy, 1, n + 1)
         /\ Append(s, greedy[n + 1]) \in Seq(Token) /\ Len(Append(s, greedy[n + 1])) = n + 1
<1>1. greedy \in Seq(Token) /\ Len(greedy) \in Nat /\ n + 1 \in 1 .. Len(greedy)
      /\ 1 \in 1 .. Len(greedy)
  BY Continuation
<1>2. s \in Seq(Token) /\ Len(s) = n
  BY <1>1, StartOf
<1>3. greedy[n + 1] \in Token
  BY <1>1, ElementOfSeq
<1>4. SubSeq(greedy, 1, n + 1) = SubSeq(greedy, 1, n) \o <<greedy[n + 1]>>
  <2> DEFINE k == n + 1
  <2>1. k \in 1 .. Len(greedy) /\ k - 1 = n
    BY <1>1
  <2> HIDE DEF k
  <2>2. SubSeq(greedy, 1, k) = SubSeq(greedy, 1, k - 1) \o <<greedy[k]>>
    BY <1>1, <2>1, SubSeqRecursiveSecond
  <2>3. SubSeq(greedy, 1, k) = SubSeq(greedy, 1, n) \o <<greedy[k]>>
    BY <2>1, <2>2
  <2> QED
    BY <2>3 DEF k
<1> QED
  BY <1>2, <1>3, <1>4, AppendIsConcat, AppendProperties

LEMMA TargetPrefillKeeps ==
  ASSUME DecodeInv, TargetPrefill
  PROVE  DecodeInv'
<1>1. /\ pc = "open" /\ run.mode = "target" /\ pc' \in {"token", "closing"}
      /\ cache' = Forward(ColdCache, Prompt) /\ staged' = greedy[1]
      /\ UNCHANGED <<fixed, hidden, published, decoding>>
  BY DEF TargetPrefill, Resume
<1>2. /\ run' = run /\ greedy' = greedy /\ active' = active /\ session' = session /\ block' = block
      /\ stream' = stream /\ generated' = generated /\ unskipped' = unskipped
      /\ start' = start /\ prefetched' = prefetched /\ index' = index /\ hidden' = hidden
  BY <1>1 DEF fixed, request, decoding, emitted, steering, drafts
<1>3. /\ cache' \in Caches /\ cache'.saved = NoCheckpoint
      /\ cache'.kv = Prompt /\ cache'.rec = Prompt
  <2>1. ColdCache \in Caches /\ ColdCache.saved = NoCheckpoint
        /\ ColdCache.kv = << >> /\ ColdCache.rec = << >>
    BY Constants DEF ColdCache
  <2>2. << >> \o Prompt = Prompt
    BY PromptFacts, ConcatEmptySeq
  <2> QED
    BY <1>1, <2>1, <2>2, PromptFacts, ForwardPlain
<1>4. Done = 0 /\ ~unskipped /\ Held = 0 /\ prefetched = NoDraft
  BY <1>1 DEF DecodeInv, Fresh
<1>5. Typed'
  <2>1. staged' \in Token
    BY <1>1, Continuation, BlockAssumption DEF DecodeInv, Typed
  <2> QED
    BY <1>2, <1>3, <2>1 DEF DecodeInv, Typed, Reach, Held
<1>6. Places' /\ Fresh' /\ PromptRead' /\ TextRead' /\ Between' /\ Planned' /\ Committed'
      /\ EndsRight'
  BY <1>1, <1>2 DEF Places, Fresh, PromptRead, TextRead, Between, Planned, Committed, EndsRight,
     Loop, Reading, Endings
<1>7. Output' /\ Ahead'
  BY <1>1, <1>2, <1>4 DEF DecodeInv, Output, Ahead, Done, Limit
<1>8. Alone'
  <2>1. Text(0)' = Prompt
    BY <1>2, TextFacts, Continuation DEF Text, DecodeInv, Typed
  <2>2. Done' = 0 /\ Limit' = Limit
    BY <1>2, <1>4 DEF Done, Limit
  <2>3. Reads(cache, Done)'
    <3>1. Text(Done)' = Text(0)'
      BY <2>2 DEF Text
    <3> QED
      BY <1>3, <2>1, <3>1 DEF Reads
  <2>4. Limit > 0
    BY <1>1, LimitFacts DEF DecodeInv, Limit
  <2> QED
    BY <1>1, <1>2, <1>3, <2>2, <2>3, <2>4 DEF Alone, NoStop
<1> QED
  BY <1>5, <1>6, <1>7, <1>8 DEF DecodeInv

LEMMA TargetTokenKeeps ==
  ASSUME DecodeInv, TargetToken
  PROVE  DecodeInv'
<1>1. /\ pc = "token" /\ run.mode = "target" /\ pc' \in {"step", "closing"}
      /\ stream' = Append(stream, staged) /\ generated' = Append(generated, staged)
      /\ UNCHANGED <<fixed, prefilled, staged, published, block, unskipped, start, chunks, copyOff,
                     steering, drafts, proposed>>
  BY DEF TargetToken, Resume, DecodeInv, Places
<1>2. /\ run' = run /\ greedy' = greedy /\ active' = active /\ session' = session /\ block' = block
      /\ unskipped' = unskipped /\ staged' = staged
      /\ start' = start /\ prefetched' = prefetched /\ index' = index
      /\ hidden' = hidden /\ cache' = cache
  BY <1>1 DEF fixed, request, prefilled, steering, drafts
<1>3. /\ Done < Limit /\ Reads(cache, Done) /\ cache.saved = NoCheckpoint
      /\ staged = greedy[Done + 1] /\ NoStop(Done)
      /\ ~unskipped /\ Len(stream) = Done
      /\ stream = SubSeq(greedy, 1, Done) /\ generated = SubSeq(greedy, 1, Done)
  BY <1>1 DEF DecodeInv, Alone, Output
<1>4. Done \in Nat /\ Limit \in Nat /\ Done < Len(greedy)
  BY <1>3, OutputFacts, LimitFacts DEF DecodeInv
<1>5. /\ stream' = SubSeq(greedy, 1, Done + 1) /\ generated' = SubSeq(greedy, 1, Done + 1)
      /\ stream' \in Seq(Token) /\ generated' \in Seq(Token)
      /\ Len(stream') = Done + 1 /\ Len(generated') = Done + 1
  BY <1>1, <1>3, <1>4, OneMore DEF DecodeInv, Typed
<1>6. Done' = Done + 1 /\ Limit' = Limit
  BY <1>2, <1>5 DEF Done, Limit
<1>7. Typed'
  BY <1>2, <1>5 DEF DecodeInv, Typed, Reach, Held
<1>8. Places' /\ Fresh' /\ PromptRead' /\ TextRead' /\ Between' /\ Planned' /\ Committed'
      /\ EndsRight'
  BY <1>1, <1>2 DEF Places, Fresh, PromptRead, TextRead, Between, Planned, Committed, EndsRight,
     Loop, Reading, Endings
<1>9. Output'
  BY <1>1, <1>2, <1>3, <1>4, <1>5, <1>6 DEF Output
<1>10. Ahead'
  BY <1>1, <1>2 DEF DecodeInv, Ahead
<1>11. Alone'
  <2>1. Done' - 1 = Done /\ Done' > 0
    BY <1>4, <1>6
  <2>2. Reads(cache, Done - 1)'
    BY <1>2, <1>3, <2>1 DEF Reads, Text
  <2>3. NoStop(Done - 1)'
    BY <1>2, <1>3, <2>1 DEF NoStop
  <2> QED
    BY <1>1, <1>2, <1>3, <1>6, <2>1, <2>2, <2>3 DEF Alone
<1> QED
  BY <1>7, <1>8, <1>9, <1>10, <1>11 DEF DecodeInv

LEMMA TargetStepKeeps ==
  ASSUME DecodeInv, TargetStep
  PROVE  DecodeInv'
<1>1. /\ pc = "step" /\ run.mode = "target" /\ pc' \in {"token", "ending", "closing"}
      /\ UNCHANGED <<fixed, hidden, published, decoding>>
  BY DEF TargetStep, DecodeInv, Places
<1>2. /\ run' = run /\ greedy' = greedy /\ active' = active /\ session' = session /\ block' = block
      /\ unskipped' = unskipped /\ stream' = stream /\ generated' = generated
      /\ start' = start /\ prefetched' = prefetched /\ index' = index /\ hidden' = hidden
  BY <1>1 DEF fixed, request, emitted, decoding, steering, drafts
<1>3. /\ Done > 0 /\ Reads(cache, Done - 1) /\ cache.saved = NoCheckpoint
      /\ staged = greedy[Done] /\ NoStop(Done - 1)
      /\ ~unskipped /\ Len(stream) = Done /\ Done <= Limit
  BY <1>1 DEF DecodeInv, Alone, Output
<1>4. /\ Done \in Nat /\ Limit \in Nat /\ Done <= Len(greedy) /\ Len(greedy) \in Nat
      /\ run.max \in Nat /\ run.max + 1 <= Len(greedy) /\ (run.max > 0 => Limit = run.max)
      /\ (Limit # run.max => Limit = 1) /\ run.max <= Limit
      /\ \A i \in 1 .. Len(stream) : stream[i] = greedy[i]
  BY OutputFacts, LimitFacts DEF DecodeInv
<1>5. Done' = Done /\ Limit' = Limit
  BY <1>2 DEF Done, Limit
<1>6. Places' /\ Fresh' /\ PromptRead' /\ TextRead' /\ Between' /\ Planned' /\ Committed'
  BY <1>1, <1>2 DEF Places, Fresh, PromptRead, TextRead, Between, Planned, Committed,
     Loop, Reading, Endings
<1>7. Output' /\ Ahead'
  BY <1>1, <1>2, <1>5 DEF DecodeInv, Output, Ahead, Done
<1>8. CASE Done < run.max /\ staged \notin Stop
  <2> DEFINE tokens == <<staged>>
  <2>1. PICK wrong \in Token \ Suppressed : staged' = Posterior(cache, tokens, wrong)[1]
    BY <1>8 DEF TargetStep, Done
  <2>2. cache' = Forward(cache, tokens) /\ pc' = "token"
    BY <1>8 DEF TargetStep, Done
  <2> DEFINE m == Done - 1
  <2>3. m \in Nat /\ m + 1 = Done /\ m + 1 < Len(greedy) /\ Reads(cache, m)
    BY <1>3, <1>4, <1>8
  <2>4. tokens \in Seq(Token) /\ Len(tokens) = 1 /\ tokens[1] = greedy[m + 1]
    BY <1>3, <2>3 DEF DecodeInv, Typed
  <2> HIDE DEF tokens, m
  <2>5. staged' = greedy[Done + 1]
    <3>1. Posterior(cache, tokens, wrong)[1] = greedy[m + 1 + 1]
      <4> DEFINE i == 1
      <4>1. i \in 1 .. Len(tokens) /\ m + i < Len(greedy)
            /\ \A j \in 1 .. i : tokens[j] = greedy[m + j]
        BY <2>3, <2>4
      <4>2. Reach
        BY DEF DecodeInv, Typed
      <4> HIDE DEF i
      <4>3. Posterior(cache, tokens, wrong)[i] = greedy[m + i + 1]
        <5>1. m \in Nat /\ Reads(cache, m) /\ tokens \in Seq(Token)
          BY <2>3, <2>4
        <5> QED
          BY <4>1, <4>2, <5>1, HonestAnswer
      <4> QED
        BY <4>3 DEF i
    <3> QED
      BY <2>1, <2>3, <3>1
  <2>6. tokens = SubSeq(greedy, m + 1, Done)
    <3>1. SubSeq(tokens, 1, 1) = SubSeq(greedy, m + 1, m + 1)
      <4>1. \A i \in 1 .. 1 : tokens[i] = greedy[m + i]
        BY <2>4
      <4> QED
        BY <1>4, <2>3, <2>4, <4>1, PartsAgree, Continuation DEF DecodeInv, Typed
    <3>2. SubSeq(tokens, 1, 1) = tokens
      BY <2>4, SubSeqFull
    <3> QED
      BY <2>3, <3>1, <3>2
  <2>7. Text(m) \o tokens = Text(Done)
    <3>1. m <= Done
      BY <2>3
    <3> QED
      BY <1>4, <2>3, <2>6, <3>1, TextGrows DEF DecodeInv, Typed
  <2>8. /\ cache' \in Caches /\ cache'.saved = NoCheckpoint
        /\ cache'.kv = Text(Done) /\ cache'.rec = Text(Done)
    BY <1>3, <2>2, <2>3, <2>4, <2>7, ForwardPlain DEF Reads, DecodeInv, Typed
  <2>9. Typed'
    <3>1. staged' \in Token
      BY <1>4, <1>8, <2>5, Continuation DEF DecodeInv, Typed
    <3> QED
      BY <1>2, <2>8, <3>1 DEF DecodeInv, Typed, Reach, Held
  <2>10. Alone'
    <3>1. Reads(cache, Done)'
      BY <1>2, <1>5, <2>8 DEF Reads, Text
    <3>2. NoStop(Done)
      <4>1. \A i \in 1 .. Done : i \in 1 .. Done - 1 \/ i = Done
        BY <1>4
      <4> QED
        BY <1>3, <1>8, <4>1 DEF NoStop
    <3>3. NoStop(Done)'
      BY <1>2, <1>5, <3>2 DEF NoStop
    <3>4. Done < Limit
      BY <1>4, <1>8
    <3> QED
      BY <1>2, <1>5, <2>2, <2>5, <2>8, <3>1, <3>3, <3>4 DEF Alone
  <2>11. EndsRight'
    BY <2>2 DEF EndsRight
  <2> QED
    BY <1>6, <1>7, <2>9, <2>10, <2>11 DEF DecodeInv
<1>9. CASE ~(Done < run.max /\ staged \notin Stop)
  <2>1. staged' = staged /\ cache' = cache /\ pc' \in {"ending", "closing"}
    BY <1>9 DEF TargetStep, Done
  <2>2. Typed' /\ Alone'
    BY <1>2, <2>1 DEF DecodeInv, Typed, Reach, Held, Alone
  <2>3.
        Len(stream) = Limit \/ \E i \in 1 .. Len(stream) : stream[i] \in Stop
    <3>1. CASE staged \in Stop
      <4>1. Done \in 1 .. Len(stream) /\ stream[Done] \in Stop
        BY <1>3, <1>4, <3>1
      <4> QED
        BY <4>1
    <3>2. CASE ~(Done < run.max)
      <4>1. Done = Limit
        BY <1>3, <1>4, <3>2
      <4> QED
        BY <1>3, <4>1
    <3> QED
      BY <1>9, <3>1, <3>2
  <2>4. EndsRight'
    BY <1>1, <1>2, <1>5, <2>3 DEF EndsRight
  <2> QED
    BY <1>6, <1>7, <2>2, <2>4 DEF DecodeInv
<1> QED
  BY <1>8, <1>9

-----------------------------------------------------------------------------
(* The linear loop keeps it *)

LEMMA MinThree ==
  ASSUME NEW a \in Int, NEW b \in Int, NEW c \in Int, 1 <= a, 1 <= b, 1 <= c
  PROVE  /\ Max({1, Min({a, b, c})}) = Min({a, b, c})
         /\ Min({a, b, c}) <= a /\ Min({a, b, c}) <= c /\ Min({a, b, c}) \in Nat \ {0}
<1> DEFINE m == Min({a, b, c})
<1>1. m \in {a, b, c} /\ m <= a /\ m <= b /\ m <= c
  BY MinMax
<1> HIDE DEF m
<1>2. m \in Nat \ {0}
  BY <1>1
<1>3. Max({1, m}) = m
  BY <1>2, AtLeastOne
<1> QED
  BY <1>1, <1>2, <1>3 DEF m

\* No block reaches past the limit.
LEMMA BlockFits ==
  ASSUME Typed, NEW p, NEW done \in Nat, done < run.max
  PROVE  BlockLength(p, done) \in 1 .. FullBlock /\ done + BlockLength(p, done) <= run.max
<1> DEFINE a == FullBlock
           b == Adaptive!BlockLimit(p)
           c == run.max - done
<1>1. a \in Int /\ b \in Int /\ c \in Int /\ 1 <= a /\ 1 <= b /\ 1 <= c
  BY LimitFacts, BlockAssumption DEF Adaptive!BlockLimit
<1>2. BlockLength(p, done) = Max({1, Min({a, b, c})})
  BY DEF BlockLength
<1> HIDE DEF a, b, c
<1>3. /\ BlockLength(p, done) \in Nat \ {0} /\ BlockLength(p, done) <= a
      /\ BlockLength(p, done) <= c
  BY <1>1, <1>2, MinThree
<1> QED
  BY <1>3, LimitFacts, BlockAssumption DEF a, c

LEMMA VerifyFits ==
  ASSUME Typed, NEW len \in Nat \ {0}
  PROVE  VerifyCount(len) \in 1 .. len
<1>1. run.cap \in Nat
  BY Continuation DEF Typed
<1> DEFINE cap == run.cap
           m == Min({len, cap})
<1>2. m = IF len <= cap THEN len ELSE cap
  <2>1. len \in Int /\ cap \in Int
    BY <1>1
  <2> HIDE DEF cap
  <2> QED
    BY <2>1, MinMaxTwo
<1>3. m \in Nat /\ m <= len
  <2>1. cap \in Nat
    BY <1>1
  <2> HIDE DEF m, cap
  <2> QED
    BY <1>2, <2>1
<1>4. VerifyCount(len) = Max({1, m})
  BY DEF VerifyCount
<1> HIDE DEF m
<1>5. Max({1, m}) = IF m >= 1 THEN m ELSE 1
  BY <1>3, AtLeastOne
<1> QED
  BY <1>3, <1>4, <1>5

\* A copied draft is as long as asked.
LEMMA CopiedDraft ==
  ASSUME NEW tokens \in Seq(Token), NEW first, NEW count \in Nat, NEW prompt, NEW forbidden,
         NEW d \in Copy!DraftAfter(prompt, tokens, first, count, forbidden)
  PROVE  d \in Seq(Token) /\ Len(d) = count
<1> DEFINE found == Copy!Occurrences(tokens, first)
           at == Min(found)
           copy == SubSeq(tokens, at + 1, at + count)
           given == /\ Len(prompt) > CopyWindow /\ count > 0 /\ found # {}
                    /\ Len(tokens) - at >= count
                    /\ ToSet(copy) \cap forbidden = {}
<1>1. /\ d = SubSeq(tokens, at + 1, at + count) /\ found # {} /\ Len(tokens) - at >= count
  <2>1. d \in IF given THEN {copy} ELSE {}
    BY DEF Copy!DraftAfter, Copy!Min, Min, Copy!ToSet, ToSet
  <2>2. given
    <3> HIDE DEF given, copy
    <3> QED
      BY <2>1
  <2>3. d = copy
    <3> HIDE DEF given, copy
    <3> QED
      BY <2>1, <2>2
  <2> QED
    BY <2>2, <2>3
<1> HIDE DEF copy, given
<1>2. found \in SUBSET Nat /\ Len(tokens) \in Nat
  BY WindowAssumption, LenProperties DEF Copy!Occurrences
<1>3. at \in Nat
  <2> HIDE DEF found
  <2> QED
    BY <1>1, <1>2, SmallestOf
<1> HIDE DEF at, found
<1>4. at + count \in Nat /\ at <= at + count /\ at + count <= Len(tokens) /\ at + count - at = count
  BY <1>1, <1>2, <1>3
<1> DEFINE to == at + count
<1>5. d = SubSeq(tokens, at + 1, to) /\ to \in Nat /\ at <= to /\ to <= Len(tokens) /\ to - at = count
  <2>1. to = at + count
    OBVIOUS
  <2>2. d = SubSeq(tokens, at + 1, to)
    BY <1>1
  <2> HIDE DEF to
  <2> QED
    BY <1>3, <1>4, <2>1, <2>2
<1> HIDE DEF to
<1> QED
  BY <1>3, <1>5, PartOf

LEMMA DraftedBlock ==
  ASSUME index \in Seq(Token), NEW first \in Token, NEW len \in Nat, len > 1, NEW g,
         NEW d \in Drafts(first, len, index, g)
  PROVE  d \in Plans /\ d.len = len /\ d.staged = first /\ Len(d.tokens) = len - 1
<1> DEFINE copies == CopyDrafts(first, len, index, g)
<1>0. len - 1 \in Nat
  OBVIOUS
<1>1. CASE copies # {}
  <2>1. PICK c \in copies :
          d = [len |-> len, staged |-> first, tokens |-> c, source |-> "copyspec"]
    BY <1>1 DEF Drafts
  <2>2. c \in Copy!DraftAfter(Prompt, index, first, len - 1, Suppressed)
    BY DEF CopyDrafts
  <2>3. c \in Seq(Token) /\ Len(c) = len - 1
    BY <1>0, <2>2, CopiedDraft
  <2> QED
    BY <2>1, <2>3 DEF Plans, Sources
<1>2. CASE copies = {}
  <2>1. PICK c \in [1 .. len - 1 -> Token \ Suppressed] :
          d = [len |-> len, staged |-> first, tokens |-> c, source |-> "dflash"]
    BY <1>2 DEF Drafts
  <2>2. c \in Seq(Token) /\ Len(c) = len - 1
    <3> DEFINE k == len - 1
    <3>1. k \in Nat /\ c \in [1 .. k -> Token \ Suppressed]
      BY <1>0
    <3> HIDE DEF k
    <3>2. c \in Seq(Token) /\ Len(c) = k
      BY <3>1
    <3> QED
      BY <3>2 DEF k
  <2> QED
    BY <2>1, <2>2 DEF Plans, Sources
<1> QED
  BY <1>1, <1>2

\* A block that goes to verification.
LEMMA Begun ==
  ASSUME DecodeInv, NEW d \in Plans, Begin(d), pc = "cycle", run.mode = "dflash",
         d.len \in 1 .. FullBlock, Done + d.len <= run.max,
         d.staged = staged, Len(d.tokens) = d.len - 1,
         prefetched' = NoDraft
  PROVE  DecodeInv'
<1>1. /\ pc' = "verify" /\ UNCHANGED <<fixed, emitted, verified, steering, staged, published>>
      /\ block' = [NoBlock EXCEPT !.len = d.len, !.staged = d.staged,
                                  !.tokens = d.tokens, !.source = d.source]
  BY DEF Begin
<1>2. /\ run' = run /\ greedy' = greedy /\ active' = active /\ session' = session
      /\ stream' = stream /\ generated' = generated /\ unskipped' = unskipped
      /\ start' = start /\ index' = index /\ hidden' = hidden /\ policy' = policy
      /\ cache' = cache /\ row' = row /\ staged' = staged
  BY <1>1 DEF fixed, request, emitted, verified, steering
<1>3. block' = [len |-> d.len, source |-> d.source, tokens |-> d.tokens, staged |-> d.staged,
                todo |-> << >>, committed |-> << >>, accepted |-> 0, next |-> Prompt[1]]
  BY <1>1 DEF NoBlock
<1>4. Typed'
  <2>1. block' \in Blocks
    BY <1>3, Constants, PromptFacts DEF Blocks, Plans
  <2> QED
    BY <1>2, <2>1, Constants DEF DecodeInv, Typed, Reach, Held
<1>5. Places' /\ Fresh' /\ PromptRead' /\ Committed' /\ Alone' /\ EndsRight'
  BY <1>1, <1>2 DEF Places, Fresh, PromptRead, Committed, Alone, EndsRight, Loop, Reading,
     Endings
<1>6. Output'
  BY <1>2 DEF DecodeInv, Output, Done, Limit
<1>7. TextRead'
  BY <1>1, <1>2 DEF DecodeInv, TextRead, Reads, Text, Held, Loop
<1>8. Between'
  BY <1>1, <1>2 DEF DecodeInv, Between, Held, Done, NoStop
<1>9. Planned'
  BY <1>1, <1>2, <1>3 DEF Planned, Done
<1>10. Ahead'
  BY <1>1 DEF Ahead
<1> QED
  BY <1>4, <1>5, <1>6, <1>7, <1>8, <1>9, <1>10 DEF DecodeInv

LEMMA BeginPlainKeeps ==
  ASSUME DecodeInv, BeginPlain, run.mode = "dflash"
  PROVE  DecodeInv'
<1> DEFINE d == [NoDraft EXCEPT !.len = 1, !.staged = staged]
<1>1. /\ pc = "cycle" /\ Done < run.max /\ BlockLength(policy, Done) = 1
      /\ Begin(d) /\ prefetched' = prefetched
  BY DEF BeginPlain, drafts, Done
<1>2. d = [len |-> 1, staged |-> staged, tokens |-> << >>, source |-> "none"]
  <2> DEFINE e == [NoDraft EXCEPT !.len = 1]
  <2>1. e = [len |-> 1, staged |-> Prompt[1], tokens |-> << >>, source |-> "none"]
    BY DEF NoDraft
  <2>2. d = [e EXCEPT !.staged = staged]
    OBVIOUS
  <2> HIDE DEF e, d
  <2> QED
    BY <2>1, <2>2
<1>3. d \in Plans /\ d.len = 1 /\ d.staged = staged /\ Len(d.tokens) = d.len - 1
  <2>1. staged \in Token /\ << >> \in Seq(Token) /\ Len(<< >>) = 0
    BY DEF DecodeInv, Typed
  <2> HIDE DEF d
  <2> QED
    BY <1>2, <2>1 DEF Plans, Sources
<1>4. prefetched = NoDraft
  <2>1. Held = Done
    BY <1>1 DEF DecodeInv, Between
  <2> QED
    BY <1>1, <2>1 DEF DecodeInv, Ahead
<1>5. d.len \in 1 .. FullBlock /\ Done + d.len <= run.max
  <2>1. Done \in Nat /\ run.max \in Nat
    BY OutputFacts, LimitFacts DEF DecodeInv
  <2> HIDE DEF d
  <2> QED
    BY <1>1, <1>3, <2>1, BlockAssumption
<1> HIDE DEF d
<1> QED
  BY <1>1, <1>3, <1>4, <1>5, Begun

LEMMA BeginPrefetchedKeeps ==
  ASSUME DecodeInv, BeginPrefetched, run.mode = "dflash"
  PROVE  DecodeInv'
<1>1. /\ pc = "cycle" /\ Done < run.max /\ prefetched # NoDraft
      /\ prefetched.len = BlockLength(policy, Done) /\ Begin(prefetched) /\ prefetched' = NoDraft
  BY DEF BeginPrefetched, Done
<1>2. /\ prefetched \in Plans /\ prefetched.staged = staged
      /\ Len(prefetched.tokens) = prefetched.len - 1
  BY <1>1 DEF DecodeInv, Typed, Ahead, Between
<1>3. prefetched.len \in 1 .. FullBlock /\ Done + prefetched.len <= run.max
  BY <1>1, OutputFacts, BlockFits DEF DecodeInv
<1> QED
  BY <1>1, <1>2, <1>3, Begun

LEMMA BeginDraftedKeeps ==
  ASSUME DecodeInv, BeginDrafted, run.mode = "dflash"
  PROVE  DecodeInv'
<1> DEFINE len == BlockLength(policy, Done)
<1>1. /\ pc = "cycle" /\ Done < run.max /\ len > 1
      /\ \E d \in Drafts(staged, len, index, gate) : Begin(d)
      /\ prefetched' = IF run.profile THEN prefetched ELSE NoDraft
  BY DEF BeginDrafted, Done
<1>2. PICK d \in Drafts(staged, len, index, gate) : Begin(d)
  BY <1>1
<1>3. len \in 1 .. FullBlock /\ Done + len <= run.max
  BY <1>1, OutputFacts, BlockFits DEF DecodeInv
<1>4. d \in Plans /\ d.len = len /\ d.staged = staged /\ Len(d.tokens) = len - 1
  <2>1. len \in Nat
    BY <1>3, BlockAssumption
  <2> HIDE DEF len
  <2> QED
    BY <1>1, <2>1, DraftedBlock DEF DecodeInv, Typed
<1>5. prefetched' = NoDraft
  BY <1>1 DEF DecodeInv, Ahead
<1> HIDE DEF len
<1> QED
  BY <1>1, <1>2, <1>3, <1>4, <1>5, Begun


\* What a verify pass commits, in any of the loops: a part of the continuation.
Commits(size, committed) ==
  /\ UNCHANGED <<request, session, stream, generated, unskipped, prefetched, staged>>
  /\ index' \in Seq(Token) /\ hidden' \in Seq(Nat) /\ start' = start + size
  /\ cache' \in Caches /\ cache'.saved = NoCheckpoint /\ Reads(cache', Held + size)
  /\ row' = Text(Held + size)
  /\ committed = SubSeq(greedy, Held + 1, Held + size)
  /\ block' \in Blocks /\ block'.committed = committed /\ block'.todo = committed
  /\ block'.next = greedy[Held + size + 1]
  /\ \/ run.mode = "dflash" /\ pc' = "record"
     \/ run.mode = "ddtree" /\ pc' = "emit"

LEMMA CommitKeeps ==
  ASSUME DecodeInv, pc = "verify", NEW size \in 1 .. FullBlock, Done + size <= run.max,
         NEW committed, Commits(size, committed)
  PROVE  DecodeInv' /\ start < start'
<1>1. /\ run' = run /\ greedy' = greedy /\ active' = active /\ session' = session
      /\ stream' = stream /\ generated' = generated /\ unskipped' = unskipped
      /\ prefetched' = prefetched /\ staged' = staged
  BY DEF Commits, request
<1>0. PICK m \in Nat : m = Held
  BY DEF DecodeInv, Typed
<1>2. /\ size \in Nat /\ Done = m /\ m + size <= run.max /\ NoStop(m)
      /\ run.max \in Nat /\ Len(greedy) \in Nat /\ run.max + 1 <= Len(greedy)
  <2>1. Done = m /\ NoStop(m)
    BY <1>0 DEF DecodeInv, Between
  <2> QED
    BY <2>1, LimitFacts, BlockAssumption DEF DecodeInv
<1>3. /\ index' \in Seq(Token) /\ hidden' \in Seq(Nat) /\ cache' \in Caches /\ block' \in Blocks
      /\ cache'.saved = NoCheckpoint /\ Reads(cache', m + size) /\ row' = Text(m + size)
      /\ committed = SubSeq(greedy, m + 1, m + size)
      /\ block'.committed = committed /\ block'.todo = committed
      /\ block'.next = greedy[m + size + 1]
      /\ pc' \in {"record", "emit"} /\ (pc' = "record" => run.mode = "dflash")
      /\ run.mode # "target"
  BY <1>0 DEF Commits
<1>4. Held' = m + size /\ Held' \in Nat /\ start' \in Nat
  <2>1. start \in Nat /\ Len(Prompt) \in Nat /\ start - Len(Prompt) = m
    BY <1>0, PromptFacts DEF DecodeInv, Typed, Held
  <2>2. start' = start + size /\ Held' = start' - Len(Prompt)
    BY DEF Commits, Held
  <2> QED
    BY <1>2, <2>1, <2>2
<1>5. Done' = m /\ Limit' = Limit
  BY <1>1, <1>2 DEF Done, Limit
<1>6. Typed'
  BY <1>1, <1>3, <1>4 DEF DecodeInv, Typed, Reach
<1>7. Places' /\ Fresh' /\ PromptRead' /\ Between' /\ Planned' /\ Alone' /\ EndsRight'
  BY <1>1, <1>3 DEF Places, Fresh, PromptRead, Between, Planned, Alone, EndsRight, Loop, Reading,
     Endings
<1>8. Output'
  BY <1>1, <1>5 DEF DecodeInv, Output, Done
<1>9. TextRead'
  <2>1. Text(m + size)' = Text(m + size)
    BY <1>1 DEF Text
  <2>2. Text(Held)' = Text(m + size)
    BY <1>4, <2>1 DEF Text
  <2> QED
    BY <1>1, <1>2, <1>3, <1>4, <2>2 DEF TextRead, Reads
<1>10. Committed'
  <2>1. Len(committed) = size
    <3> DEFINE n == m + size
    <3>1. n \in Nat /\ m <= n /\ n <= Len(greedy) /\ n - m = size /\ greedy \in Seq(Token)
      BY <1>2, Continuation DEF DecodeInv, Typed
    <3>2. committed = SubSeq(greedy, m + 1, n)
      BY <1>3
    <3> HIDE DEF n
    <3> QED
      BY <3>1, <3>2, PartOf
  <2>2. Held' - size = m /\ m + size + 1 = Held' + 1 /\ size <= Held'
    BY <1>2, <1>4
  <2>3. NoStop(m)'
    BY <1>1, <1>2 DEF NoStop
  <2>4. /\ block'.committed = SubSeq(greedy, Held' - size + 1, Held')
        /\ block'.todo = SubSeq(greedy, Done' + 1, Held')
        /\ block'.next = greedy[Held' + 1]
    BY <1>3, <1>4, <1>5, <2>2
  <2>5. Held' - size <= Done' /\ Done' <= Held' /\ Done' = Held' - size
    BY <1>2, <1>4, <1>5
  <2>6. NoStop(Held - size)'
    BY <2>2, <2>3 DEF NoStop
  <2>7. Len(block'.committed) = size
    BY <1>3, <2>1
  <2> QED
    BY <1>1, <2>2, <2>4, <2>5, <2>6, <2>7 DEF Committed
<1>11. Ahead'
  BY <1>1, <1>3 DEF DecodeInv, Ahead
<1>12. start < start'
  <2>1. start \in Nat /\ start' = start + size
    BY DEF DecodeInv, Typed, Commits
  <2> QED
    BY <1>2, <2>1
<1> QED
  BY <1>6, <1>7, <1>8, <1>9, <1>10, <1>11, <1>12 DEF DecodeInv

\* One pass over a block that begins with the staged token and is no longer than
\* planned: what it commits, and what the caches hold after it.
LEMMA PassCommits ==
  ASSUME DecodeInv, pc = "verify", NEW tokens \in Seq(Token), tokens # << >>,
         tokens[1] = staged, Len(tokens) <= block.len, NEW wrong \in Token \ Suppressed
  PROVE  LET posterior == Posterior(Arm(cache), tokens, wrong)
             a == AcceptanceLength(Tail(tokens), posterior)
             committed == SubSeq(tokens, 1, 1 + a)
             to == start + Len(committed)
             kept == Restore(Forward(Arm(cache), tokens), to, a, Len(tokens) - 1)
         IN /\ a \in Nat /\ 1 + a \in 1 .. FullBlock /\ Done + (1 + a) <= run.max
            /\ committed \in Seq(Token) /\ Len(committed) = 1 + a
            /\ committed = SubSeq(greedy, Held + 1, Held + (1 + a))
            /\ posterior[a + 1] = greedy[Held + (1 + a) + 1] /\ posterior[a + 1] \in Token
            /\ kept \in Caches /\ kept.saved = NoCheckpoint /\ Reads(kept, Held + (1 + a))
            /\ cache.kv \o committed = Text(Held + (1 + a))
            /\ Positions(start, to) \in Seq(Nat)
<1> DEFINE posterior == Posterior(Arm(cache), tokens, wrong)
           a == AcceptanceLength(Tail(tokens), posterior)
           committed == SubSeq(tokens, 1, 1 + a)
           next == posterior[a + 1]
           to == start + Len(committed)
           m == Held
\* The block that is verified.
<1>4. /\ cache \in Caches /\ staged \in Token /\ m \in Nat /\ Reads(cache, m)
      /\ block.len \in 1 .. FullBlock /\ m + block.len <= run.max /\ Done = m
      /\ tokens[1] = greedy[m + 1]
  BY DEF DecodeInv, Typed, Planned, TextRead, Between, Loop
<1>5. /\ run.max \in Nat /\ Len(greedy) \in Nat /\ run.max + 1 <= Len(greedy) /\ FullBlock \in Nat
      /\ block.len \in Nat \ {0} /\ Len(tokens) \in Nat \ {0}
  BY <1>4, LimitFacts, BlockAssumption, EmptySeq DEF DecodeInv
<1> HIDE DEF m
<1>9. m + Len(tokens) < Len(greedy)
  BY <1>4, <1>5
<1> DEFINE goal == Len(Prompt) + m + 1 + a
           last == Len(tokens) - 1
           kept == Restore(Forward(Arm(cache), tokens), goal, a, last)
<1>10. /\ a \in 0 .. Len(tokens) - 1
       /\ committed = SubSeq(greedy, m + 1, m + 1 + a)
       /\ next = greedy[m + a + 2]
       /\ kept = [kv |-> Text(m + 1 + a), rec |-> Text(m + 1 + a),
                  saved |-> NoCheckpoint, tape |-> << >>]
  BY <1>4, <1>9, VerifiedBlock DEF DecodeInv, Typed
<1> HIDE DEF a, posterior
<1> DEFINE size == 1 + a
<1>11. /\ a \in Nat /\ size \in 1 .. FullBlock /\ m + size <= run.max /\ size \in Nat
       /\ m + 1 + a = m + size /\ m + a + 2 = m + size + 1
       /\ m + size \in Nat /\ m + size <= Len(greedy) /\ m + size + 1 \in 1 .. Len(greedy)
  <2>1. /\ a \in Nat /\ size \in 1 .. FullBlock /\ m + size <= run.max /\ size \in Nat
        /\ m \in Nat /\ run.max \in Nat /\ Len(greedy) \in Nat /\ run.max + 1 <= Len(greedy)
    BY <1>4, <1>5, <1>10
  <2>2. m + 1 + a = m + size /\ m + a + 2 = m + size + 1
    BY <2>1
  <2> HIDE DEF size
  <2> QED
    BY <2>1, <2>2
<1>12. committed \in Seq(Token) /\ Len(committed) = size
  <2>1. size <= Len(tokens)
    BY <1>5, <1>10
  <2> HIDE DEF size
  <2>2. SubSeq(tokens, 1, size) \in Seq(Token) /\ Len(SubSeq(tokens, 1, size)) = size
    BY <1>11, <2>1, StartOf
  <2> QED
    BY <2>2 DEF size
<1>13. to = goal /\ start \in Nat /\ to \in Nat /\ to - start \in Nat
  <2>1. to = start + size
    BY <1>12
  <2>2. start = Len(Prompt) + m /\ start \in Nat /\ Len(Prompt) \in Nat
    BY PromptFacts DEF m, Held, DecodeInv, Typed
  <2> QED
    BY <1>11, <2>1, <2>2
<1> HIDE DEF committed, next, to
<1>14. /\ kept = [kv |-> Text(m + size), rec |-> Text(m + size),
                   saved |-> NoCheckpoint, tape |-> << >>]
       /\ Text(m + size) \in Seq(Token)
  <2> HIDE DEF kept, size
  <2> QED
    BY <1>10, <1>11, TextFacts DEF DecodeInv, Typed
<1> HIDE DEF kept, goal, last
<1>15. kept \in Caches /\ kept.saved = NoCheckpoint /\ Reads(kept, m + size)
  BY <1>14, Constants DEF Caches, NoCheckpoint, Reads
<1>16. cache.kv \o committed = Text(m + size)
  <2>1. cache.kv \o committed = Text(m) \o SubSeq(greedy, m + 1, m + size)
    BY <1>4, <1>10, <1>11 DEF Reads
  <2>2. m \in Nat /\ m + size \in Nat /\ m <= m + size /\ m + size <= Len(greedy)
    BY <1>4, <1>11
  <2> HIDE DEF size
  <2> QED
    BY <2>1, <2>2, TextGrows DEF DecodeInv, Typed
<1>17. next = greedy[m + size + 1] /\ next \in Token
  <2>1. greedy[m + size + 1] \in Token
    BY <1>11, Continuation DEF DecodeInv, Typed
  <2> QED
    BY <1>10, <1>11, <2>1
<1>18. Positions(start, to) \in Seq(Nat)
  <2>1. \A i \in 1 .. to - start : start + i \in Nat
    BY <1>13
  <2> QED
    BY <1>13, <2>1, IsASeq DEF Positions
<1>19. committed = SubSeq(greedy, m + 1, m + size) /\ Done + size <= run.max
  BY <1>4, <1>10, <1>11
<1>20. kept = Restore(Forward(Arm(cache), tokens), to, a, Len(tokens) - 1)
  BY <1>13 DEF kept, last
<1> HIDE DEF size
<1>21. /\ a \in Nat /\ size \in 1 .. FullBlock /\ Done + size <= run.max
       /\ committed \in Seq(Token) /\ Len(committed) = size
       /\ committed = SubSeq(greedy, m + 1, m + size)
       /\ next = greedy[m + size + 1] /\ next \in Token
       /\ kept \in Caches /\ kept.saved = NoCheckpoint /\ Reads(kept, m + size)
       /\ cache.kv \o committed = Text(m + size)
       /\ Positions(start, to) \in Seq(Nat)
  BY <1>11, <1>12, <1>15, <1>16, <1>17, <1>18, <1>19
<1>22. size = 1 + a
  BY DEF size
<1> QED
  BY <1>20, <1>21, <1>22 DEF m, committed, next, to, a, posterior

LEMMA VerifyKeeps ==
  ASSUME DecodeInv, Verify, run.mode = "dflash"
  PROVE  DecodeInv' /\ start < start'
<1> DEFINE count == VerifyCount(block.len)
           rest == SubSeq(block.tokens, 1, count - 1)
           tokens == <<block.staged>> \o rest
<1>1. /\ pc = "verify" /\ pc' = "record"
      /\ UNCHANGED <<fixed, emitted, steering, drafts, staged, published>>
  BY DEF Verify
<1>2. PICK wrong \in Token \ Suppressed :
        LET posterior == Posterior(Arm(cache), tokens, wrong)
            accepted == AcceptanceLength(Tail(tokens), posterior)
            committed == SubSeq(tokens, 1, 1 + accepted)
        IN /\ start' = start + Len(committed)
           /\ hidden' = Positions(start, start + Len(committed))
           /\ row' = cache.kv \o SubSeq(tokens, 1, accepted + 1)
           /\ cache' = Restore(Forward(Arm(cache), tokens), start', accepted,
                               Max({0, count - 1}))
           /\ block' = [block EXCEPT !.todo = committed, !.committed = committed,
                                     !.tokens = << >>, !.accepted = accepted,
                                     !.next = posterior[accepted + 1]]
  BY DEF Verify
<1> DEFINE posterior == Posterior(Arm(cache), tokens, wrong)
           a == AcceptanceLength(Tail(tokens), posterior)
           committed == SubSeq(tokens, 1, 1 + a)
           next == posterior[a + 1]
           to == start + Len(committed)
           kept == Restore(Forward(Arm(cache), tokens), to, a, Len(tokens) - 1)
<1>3. /\ start' = to /\ hidden' = Positions(start, to)
      /\ row' = cache.kv \o SubSeq(tokens, 1, a + 1)
      /\ cache' = Restore(Forward(Arm(cache), tokens), start', a, Max({0, count - 1}))
      /\ block' = [block EXCEPT !.todo = committed, !.committed = committed,
                                !.tokens = << >>, !.accepted = a, !.next = next]
  BY <1>2
<1>4. /\ block \in Blocks /\ staged \in Token
      /\ block.len \in Nat \ {0} /\ block.staged = staged /\ Len(block.tokens) = block.len - 1
  BY <1>1, BlockAssumption DEF DecodeInv, Typed, Planned
<1>5. count \in 1 .. block.len
  BY <1>4, VerifyFits DEF DecodeInv
<1>6. rest \in Seq(Token) /\ Len(rest) = count - 1
  <2> DEFINE k == count - 1
  <2>1. k \in Nat /\ k <= Len(block.tokens) /\ block.tokens \in Seq(Token)
    BY <1>4, <1>5 DEF Blocks
  <2> HIDE DEF k
  <2>2. SubSeq(block.tokens, 1, k) \in Seq(Token) /\ Len(SubSeq(block.tokens, 1, k)) = k
    BY <2>1, StartOf
  <2> QED
    BY <2>2 DEF k
<1>7. /\ tokens \in Seq(Token) /\ tokens # << >> /\ tokens[1] = staged
      /\ Len(tokens) = count /\ Len(tokens) <= block.len
  <2> DEFINE first == block.staged
  <2>1. first \in Token /\ first = staged
    BY <1>4
  <2>2. count \in Nat \ {0} /\ count <= block.len
    BY <1>4, <1>5
  <2> HIDE DEF rest, first, count
  <2>3. /\ <<first>> \o rest \in Seq(Token) /\ Len(<<first>> \o rest) = Len(rest) + 1
        /\ (<<first>> \o rest)[1] = first
    BY <1>6, <2>1, Below1
  <2>4. Len(<<first>> \o rest) = count
    BY <1>6, <2>2, <2>3
  <2>5. <<first>> \o rest # << >>
    BY <2>2, <2>4, EmptySeq
  <2> QED
    BY <2>1, <2>2, <2>3, <2>4, <2>5 DEF first
<1> HIDE DEF tokens, count, rest
<1>8. /\ a \in Nat /\ 1 + a \in 1 .. FullBlock /\ Done + (1 + a) <= run.max
      /\ committed \in Seq(Token) /\ Len(committed) = 1 + a
      /\ committed = SubSeq(greedy, Held + 1, Held + (1 + a))
      /\ next = greedy[Held + (1 + a) + 1] /\ next \in Token
      /\ kept \in Caches /\ kept.saved = NoCheckpoint /\ Reads(kept, Held + (1 + a))
      /\ cache.kv \o committed = Text(Held + (1 + a))
      /\ Positions(start, to) \in Seq(Nat)
  BY <1>1, <1>7, PassCommits
<1> DEFINE size == 1 + a
           drafted == Max({0, count - 1})
<1> HIDE DEF a, posterior
<1>9. SubSeq(tokens, 1, a + 1) = committed
  <2>1. a + 1 = 1 + a
    BY <1>8
  <2> QED
    BY <2>1
<1>10. drafted = Len(tokens) - 1
  <2> DEFINE x == 0
             y == count - 1
  <2>1. x \in Int /\ y \in Int /\ x <= y /\ y = Len(tokens) - 1
    BY <1>4, <1>5, <1>7
  <2> HIDE DEF x, y
  <2>2. Max({x, y}) = IF x >= y THEN x ELSE y
    BY <2>1, MinMaxTwo
  <2>3. Max({x, y}) = y
    BY <2>1, <2>2
  <2> QED
    BY <2>1, <2>3 DEF x, y
<1>11. cache' = kept
  <2>1. cache' = Restore(Forward(Arm(cache), tokens), to, a, drafted)
    BY <1>3
  <2> HIDE DEF to, drafted
  <2> QED
    BY <1>10, <2>1
<1> HIDE DEF committed, next, to, kept, drafted
<1>12. /\ block' \in Blocks /\ block'.committed = committed /\ block'.todo = committed
       /\ block'.next = next
  BY <1>3, <1>4, <1>8, Constants DEF Blocks
<1>13. start' = start + size
  BY <1>3, <1>8 DEF to
<1>14. row' = Text(Held + size)
  BY <1>3, <1>8, <1>9
<1>15. /\ UNCHANGED <<request, session, stream, generated, unskipped, prefetched, staged>>
       /\ index' \in Seq(Token) /\ hidden' \in Seq(Nat)
  BY <1>1, <1>3, <1>8 DEF fixed, emitted, steering, drafts, DecodeInv, Typed
<1>16. Commits(size, committed)
  BY <1>1, <1>8, <1>11, <1>12, <1>13, <1>14, <1>15 DEF Commits
<1>17. size \in 1 .. FullBlock /\ Done + size <= run.max
  BY <1>8
<1> HIDE DEF size
<1> QED
  BY <1>1, <1>16, <1>17, CommitKeeps

LEMMA RecordKeeps ==
  ASSUME DecodeInv, Record, run.mode = "dflash"
  PROVE  DecodeInv'
<1>1. /\ pc = "record" /\ pc' \in {"emit", "prefetch"} /\ index' = index \o block.committed
      /\ UNCHANGED <<fixed, block, emitted, verified, drafts, staged, published>>
      /\ pc' = "prefetch" => ~run.profile
  BY DEF Record
<1>2. /\ run' = run /\ greedy' = greedy /\ active' = active /\ session' = session
      /\ stream' = stream /\ generated' = generated /\ unskipped' = unskipped
      /\ start' = start /\ hidden' = hidden /\ block' = block
      /\ cache' = cache /\ row' = row /\ staged' = staged /\ prefetched' = prefetched
  BY <1>1 DEF fixed, request, emitted, verified, drafts
<1>3. Typed'
  <2>1. index' \in Seq(Token)
    BY <1>1, ConcatProperties DEF DecodeInv, Typed, Blocks
  <2> QED
    BY <1>2, <2>1 DEF DecodeInv, Typed, Reach, Held
<1>4. Places' /\ Fresh' /\ PromptRead' /\ Between' /\ Planned' /\ Alone' /\ EndsRight'
  BY <1>1, <1>2 DEF Places, Fresh, PromptRead, Between, Planned, Alone, EndsRight, Loop, Reading,
     Endings
<1>5. Output'
  BY <1>2 DEF DecodeInv, Output, Done, Limit
<1>6. TextRead'
  BY <1>1, <1>2 DEF DecodeInv, TextRead, Reads, Text, Held, Loop
<1>7. Committed'
  BY <1>1, <1>2 DEF DecodeInv, Committed, Held, Done, NoStop
<1>8. Ahead'
  BY <1>1, <1>2 DEF DecodeInv, Ahead
<1> QED
  BY <1>3, <1>4, <1>5, <1>6, <1>7, <1>8 DEF DecodeInv

LEMMA PrefetchKeeps ==
  ASSUME DecodeInv, Prefetch, run.mode = "dflash"
  PROVE  DecodeInv'
<1> DEFINE len == BlockLength(policy, Held)
<1>1. /\ pc = "prefetch" /\ pc' = "emit"
      /\ UNCHANGED <<fixed, block, emitted, verified, steering, staged, published>>
  BY DEF Prefetch
<1>2. /\ run' = run /\ greedy' = greedy /\ active' = active /\ session' = session
      /\ stream' = stream /\ generated' = generated /\ unskipped' = unskipped
      /\ start' = start /\ hidden' = hidden /\ block' = block /\ policy' = policy
      /\ cache' = cache /\ row' = row /\ staged' = staged /\ index' = index
  BY <1>1 DEF fixed, request, emitted, verified, steering
<1>3. /\ Done + Len(block.committed) = Held /\ Held \in Nat
      /\ block.next = greedy[Held + 1] /\ block.next \in Token
  <2>1. Len(block.committed) \in Nat /\ Held \in Nat /\ Done = Held - Len(block.committed)
        /\ block.next = greedy[Held + 1] /\ block.next \in Token
    BY <1>1, BlockAssumption DEF DecodeInv, Committed, Typed, Blocks
  <2> QED
    BY <2>1
<1>4. IF run.max > Held /\ len > 1
      THEN prefetched' \in Drafts(block.next, len, index, gate)
      ELSE prefetched' = NoDraft
  BY <1>3 DEF Prefetch, Done
<1>5. /\ prefetched' \in Plans
      /\ prefetched' # NoDraft => /\ Held < run.max /\ prefetched'.len > 1 /\ prefetched'.len = len
                                  /\ Len(prefetched'.tokens) = prefetched'.len - 1
                                  /\ prefetched'.staged = greedy[Held + 1]
  <2>1. CASE run.max > Held /\ len > 1
    <3>1. len \in 1 .. FullBlock /\ Held < run.max
      <4>1. Held < run.max
        BY <1>3, <2>1, LimitFacts DEF DecodeInv
      <4> QED
        BY <1>3, <4>1, BlockFits DEF DecodeInv
    <3>2. len \in Nat /\ prefetched' \in Drafts(block.next, len, index, gate)
      BY <1>4, <2>1, <3>1, BlockAssumption
    <3> HIDE DEF len
    <3>3. prefetched' \in Plans /\ prefetched'.len = len /\ prefetched'.staged = block.next
          /\ Len(prefetched'.tokens) = len - 1
      BY <1>3, <2>1, <3>2, DraftedBlock DEF DecodeInv, Typed
    <3> QED
      BY <1>3, <2>1, <3>1, <3>3
  <2>2. CASE ~(run.max > Held /\ len > 1)
    BY <1>4, <2>2, Constants
  <2> QED
    BY <2>1, <2>2
<1>6. Typed'
  BY <1>2, <1>5 DEF DecodeInv, Typed, Reach, Held
<1>7. Places' /\ Fresh' /\ PromptRead' /\ Between' /\ Planned' /\ Alone' /\ EndsRight'
  BY <1>1, <1>2 DEF Places, Fresh, PromptRead, Between, Planned, Alone, EndsRight, Loop, Reading,
     Endings
<1>8. Output'
  BY <1>2 DEF DecodeInv, Output, Done, Limit
<1>9. TextRead'
  BY <1>1, <1>2 DEF DecodeInv, TextRead, Reads, Text, Held, Loop
<1>10. Committed'
  BY <1>1, <1>2 DEF DecodeInv, Committed, Held, Done, NoStop
<1>11. Ahead'
  <2>1. prefetched = NoDraft /\ run.mode = "dflash"
    BY <1>1 DEF DecodeInv, Ahead
  <2>2. run.profile => prefetched' = NoDraft
    BY <1>1 DEF DecodeInv, Places
  <2> HIDE DEF len
  <2>3. len' = len
    BY <1>2 DEF len, Held, BlockLength
  <2>4. Held' = Held
    BY <1>2 DEF Held
  <2> QED
    BY <1>1, <1>2, <1>5, <2>1, <2>2, <2>3, <2>4 DEF Ahead, len
<1> QED
  BY <1>6, <1>7, <1>8, <1>9, <1>10, <1>11 DEF DecodeInv


-----------------------------------------------------------------------------
(* Handing out keeps it *)

LEMMA YieldFirstKeeps ==
  ASSUME DecodeInv, YieldFirst
  PROVE  DecodeInv'
<1>1. /\ pc = "first" /\ session' = [session EXCEPT !.collect = ShouldCollect]
      /\ UNCHANGED <<request, block, generated, verified, steering, drafts, staged, published>>
      /\ pc' \in {"cycle", "closing", "snapshot"}
  BY DEF YieldFirst, Resume
<1>2. /\ run' = run /\ greedy' = greedy /\ active' = active /\ generated' = generated
      /\ start' = start /\ hidden' = hidden /\ block' = block
      /\ cache' = cache /\ row' = row /\ staged' = staged /\ prefetched' = prefetched
      /\ index' = index /\ policy' = policy
  BY <1>1 DEF request, verified, drafts, steering
<1>3. /\ Done = 0 /\ ~unskipped /\ Held = 0 /\ Len(stream) = 0 /\ prefetched = NoDraft
      /\ run.mode # "target" /\ staged = greedy[1] /\ NoStop(0) /\ stream \in Seq(Token)
  BY <1>1 DEF DecodeInv, Fresh, Output, Between, Places, Typed
<1>4. /\ run.max \in Nat /\ Limit = run.max /\ Len(greedy) \in Nat /\ run.max + 1 <= Len(greedy)
  BY <1>3, LimitFacts DEF DecodeInv
<1>5. Done' = 0 /\ Held' = 0 /\ Limit' = Limit
  BY <1>2, <1>3 DEF Done, Held, Limit
<1>6. ASSUME run.max > 0
      PROVE  Output' /\ unskipped' \in BOOLEAN /\ stream' \in Seq(Token) /\ EndsRight'
  <2>1. stream' = <<staged>> /\ unskipped' = TRUE /\ pc' \in {"cycle", "closing"}
    BY <1>6 DEF YieldFirst, Resume
  <2>2. /\ stream' = SubSeq(greedy, 1, 1) /\ stream' \in Seq(Token) /\ Len(stream') = 1
    <3> DEFINE n == 0
    <3>1. n \in Nat /\ n < Len(greedy) /\ << >> = SubSeq(greedy, 1, n) /\ Reach
      BY <1>4, SubSeqEmpty DEF DecodeInv, Typed
    <3>2. n + 1 = 1
      OBVIOUS
    <3> HIDE DEF n
    <3>3. /\ Append(<< >>, greedy[n + 1]) = SubSeq(greedy, 1, n + 1)
          /\ Append(<< >>, greedy[n + 1]) \in Seq(Token) /\ Len(Append(<< >>, greedy[n + 1])) = n + 1
      BY <3>1, OneMore
    <3>4. Append(<< >>, greedy[1]) = <<greedy[1]>>
      OBVIOUS
    <3> QED
      BY <1>3, <2>1, <3>2, <3>3, <3>4
  <2>3. Output'
    BY <1>2, <1>3, <1>4, <1>5, <1>6, <2>1, <2>2 DEF DecodeInv, Output, Done
  <2>4. unskipped' \in BOOLEAN /\ stream' \in Seq(Token) /\ EndsRight'
    BY <2>1, <2>2 DEF EndsRight
  <2> QED
    BY <2>3, <2>4
<1>7. ASSUME ~(run.max > 0)
      PROVE  Output' /\ unskipped' \in BOOLEAN /\ stream' \in Seq(Token) /\ EndsRight'
  <2>1. stream' = stream /\ unskipped' = unskipped /\ pc' = "snapshot"
    BY <1>7 DEF YieldFirst
  <2>2. Output'
    BY <1>2, <1>5, <2>1 DEF DecodeInv, Output, Done
  <2>3. EndsRight'
    <3>1. Len(stream') = Limit'
      BY <1>3, <1>4, <1>5, <1>7, <2>1
    <3> QED
      BY <3>1 DEF EndsRight
  <2> QED
    BY <2>1, <2>2, <2>3 DEF DecodeInv, Typed
<1>8. Output' /\ unskipped' \in BOOLEAN /\ stream' \in Seq(Token) /\ EndsRight'
  BY <1>6, <1>7
<1>9. Typed'
  <2>1. session' \in Sessions
    <3>1. ShouldCollect \in BOOLEAN /\ session \in Sessions
      BY RunAssumption DEF ShouldCollect, DecodeInv, Typed, Reach
    <3>2. PICK c \in BOOLEAN : session' = [session EXCEPT !.collect = c]
      BY <1>1, <3>1
    <3> QED
      BY <3>1, <3>2 DEF Sessions
  <2> QED
    BY <1>2, <1>8, <2>1 DEF DecodeInv, Typed, Reach, Held
<1>10. Places' /\ Fresh' /\ PromptRead' /\ Planned' /\ Committed' /\ Alone'
  BY <1>1, <1>2, <1>3 DEF DecodeInv, Places, Fresh, PromptRead, Planned, Committed, Alone,
     Loop, Reading, Endings
<1>11. TextRead'
  BY <1>1, <1>2 DEF DecodeInv, TextRead, Reads, Text, Held, Loop
<1>12. Between'
  BY <1>1, <1>2 DEF DecodeInv, Between, Held, Done, NoStop
<1>13. Ahead'
  BY <1>2, <1>3 DEF Ahead
<1> QED
  BY <1>8, <1>9, <1>10, <1>11, <1>12, <1>13 DEF DecodeInv

LEMMA EmitKeeps ==
  ASSUME DecodeInv, Emit
  PROVE  DecodeInv'
<1>1. /\ pc = "emit" /\ pc' \in {"emit", "closing"} /\ block.todo # << >> /\ Done < run.max
      /\ generated' = Append(generated, Head(block.todo))
      /\ block' = [block EXCEPT !.todo = Tail(@)] /\ unskipped' = FALSE
      /\ stream' = IF unskipped THEN stream ELSE Append(stream, Head(block.todo))
      /\ UNCHANGED <<fixed, verified, steering, drafts, staged, published>>
  BY DEF Emit, Resume, Done
<1>2. /\ run' = run /\ greedy' = greedy /\ active' = active /\ session' = session
      /\ start' = start /\ hidden' = hidden /\ policy' = policy /\ index' = index
      /\ cache' = cache /\ row' = row /\ staged' = staged /\ prefetched' = prefetched
  BY <1>1 DEF fixed, request, verified, steering, drafts
<1>0. PICK n \in Nat, m \in Nat : n = Done /\ m = Held
  BY OutputFacts DEF DecodeInv, Typed
<1>3. /\ n <= m /\ m <= run.max /\ block.todo = SubSeq(greedy, n + 1, m)
      /\ m - Len(block.committed) <= n /\ run.mode # "target" /\ block \in Blocks
      /\ generated = SubSeq(greedy, 1, n)
  BY <1>0, <1>1 DEF DecodeInv, Committed, TextRead, Loop, Places, Typed, Output
<1>4. /\ Limit = run.max /\ run.max \in Nat /\ Len(greedy) \in Nat /\ run.max + 1 <= Len(greedy)
      /\ greedy \in Seq(Token) /\ Reach
  BY <1>3, LimitFacts, Continuation DEF DecodeInv, Typed
<1>5. /\ n < m /\ Head(block.todo) = greedy[n + 1]
      /\ Tail(block.todo) = SubSeq(greedy, n + 2, m) /\ Tail(block.todo) \in Seq(Token)
  <2>1. n # m
    <3>1. SubSeq(greedy, m + 1, m) = << >>
      BY <1>4, SubSeqEmpty
    <3> QED
      BY <1>1, <1>3, <3>1
  <2>2. n < m /\ n + 1 \in 1 .. Len(greedy) /\ m \in n + 1 .. Len(greedy)
    BY <1>3, <1>4, <2>1
  <2> DEFINE k == n + 1
  <2>3. k + 1 = n + 2
    OBVIOUS
  <2>4. Head(SubSeq(greedy, k, m)) = greedy[k] /\ Tail(SubSeq(greedy, k, m)) = SubSeq(greedy, k + 1, m)
    <3>1. k \in 1 .. Len(greedy) /\ m \in k .. Len(greedy)
      BY <2>2
    <3> HIDE DEF k
    <3> QED
      BY <1>4, <3>1, HeadTailOfSubSeq
  <2>5. block.todo \in Seq(Token)
    BY <1>3 DEF Blocks
  <2>6. Tail(block.todo) \in Seq(Token)
    BY <1>1, <2>5, ElementsOfTail
  <2> QED
    BY <1>3, <2>2, <2>3, <2>4, <2>6
<1>6. /\ generated' = SubSeq(greedy, 1, n + 1) /\ generated' \in Seq(Token) /\ Len(generated') = n + 1
  <2>1. n < Len(greedy)
    BY <1>3, <1>4, <1>5
  <2> QED
    BY <1>1, <1>3, <1>4, <1>5, <2>1, OneMore
<1>7. /\ stream' = SubSeq(greedy, 1, n + 1) /\ stream' \in Seq(Token) /\ Len(stream') = n + 1
  <2>1. CASE unskipped
    <3>1. n = 0 /\ Len(stream) = 1 /\ stream = SubSeq(greedy, 1, Len(stream)) /\ stream \in Seq(Token)
      BY <1>0, <2>1 DEF DecodeInv, Output, Typed
    <3> QED
      BY <1>1, <2>1, <3>1
  <2>2. CASE ~unskipped
    <3>1. Len(stream) = n /\ stream = SubSeq(greedy, 1, n)
      BY <1>0, <2>2 DEF DecodeInv, Output
    <3>2. n < Len(greedy)
      BY <1>3, <1>4, <1>5
    <3> QED
      BY <1>1, <1>4, <1>5, <2>2, <3>1, <3>2, OneMore
  <2> QED
    BY <2>1, <2>2
<1>8. Done' = n + 1 /\ Held' = m /\ Limit' = Limit
  BY <1>0, <1>2, <1>6 DEF Done, Held, Limit
<1>9. /\ block' \in Blocks /\ block'.todo = SubSeq(greedy, n + 2, m)
      /\ block'.committed = block.committed /\ block'.next = block.next
  <2> DEFINE rest == Tail(block.todo)
  <2>1. block' = [block EXCEPT !.todo = rest] /\ rest \in Seq(Token) /\ rest = SubSeq(greedy, n + 2, m)
    BY <1>1, <1>5
  <2> HIDE DEF rest
  <2> QED
    BY <1>3, <2>1 DEF Blocks
<1>10. Typed'
  BY <1>1, <1>2, <1>6, <1>7, <1>9 DEF DecodeInv, Typed, Reach, Held
<1>11. Places' /\ Fresh' /\ PromptRead' /\ Between' /\ Planned' /\ Alone' /\ EndsRight'
  BY <1>1, <1>2 DEF DecodeInv, Places, Fresh, PromptRead, Between, Planned, Alone, EndsRight,
     Loop, Reading, Endings
<1>12. Output'
  <2>1. n + 1 <= Limit
    BY <1>3, <1>4, <1>5
  <2> QED
    BY <1>1, <1>2, <1>6, <1>7, <1>8, <2>1 DEF Output
<1>13. TextRead'
  BY <1>1, <1>2 DEF DecodeInv, TextRead, Reads, Text, Held, Loop
<1>14. Committed'
  <2>0. PICK size \in Nat : size = Len(block.committed)
    BY <1>3, LenProperties DEF Blocks
  <2>1. /\ size \in 1 .. FullBlock /\ size <= m
        /\ block.committed = SubSeq(greedy, m - size + 1, m)
        /\ m - size <= n /\ block.next = greedy[m + 1] /\ NoStop(m - size)
    BY <1>0, <1>1, <2>0 DEF DecodeInv, Committed
  <2>2. Len(block'.committed) = size /\ n + 1 + 1 = n + 2
    BY <1>9, <2>0
  <2>4. m - size <= n + 1 /\ n + 1 <= m
    BY <1>5, <2>1
  <2>5. NoStop(m - size)'
    BY <1>2, <2>1 DEF NoStop
  <2>6. block'.committed = SubSeq(greedy', m - size + 1, m) /\ block'.next = greedy'[m + 1]
        /\ block'.todo = SubSeq(greedy', (n + 1) + 1, m)
    BY <1>2, <1>9, <2>1, <2>2
  <2> QED
    BY <1>1, <1>8, <2>1, <2>2, <2>4, <2>5, <2>6 DEF Committed, NoStop
<1>15. Ahead'
  BY <1>1, <1>2 DEF DecodeInv, Ahead, Held, BlockLength
<1> QED
  BY <1>10, <1>11, <1>12, <1>13, <1>14, <1>15 DEF DecodeInv


LEMMA EndCycleKeeps ==
  ASSUME DecodeInv, EndCycle
  PROVE  DecodeInv'
<1>1. /\ pc = "emit" /\ pc' \in {"snapshot", "cycle"} /\ block' = NoBlock
      /\ block.todo = << >> \/ Done >= run.max
      /\ UNCHANGED <<fixed, emitted, verified, steering, drafts, published>>
  BY DEF EndCycle, Done
<1>2. /\ run' = run /\ greedy' = greedy /\ active' = active /\ session' = session
      /\ stream' = stream /\ generated' = generated /\ unskipped' = unskipped
      /\ start' = start /\ hidden' = hidden /\ policy' = policy /\ index' = index
      /\ cache' = cache /\ row' = row /\ prefetched' = prefetched
  BY <1>1 DEF fixed, request, emitted, verified, steering, drafts
<1>0. PICK n \in Nat, m \in Nat, size \in Nat :
        n = Done /\ m = Held /\ size = Len(block.committed)
  BY OutputFacts, LenProperties DEF DecodeInv, Typed, Blocks
<1>3. /\ n <= m /\ m <= run.max /\ block.todo = SubSeq(greedy, n + 1, m)
      /\ size \in 1 .. FullBlock /\ size <= m
      /\ block.committed = SubSeq(greedy, m - size + 1, m)
      /\ run.mode # "target" /\ block \in Blocks /\ block.next = greedy[m + 1] /\ NoStop(m - size)
  BY <1>0, <1>1 DEF DecodeInv, Committed, TextRead, Loop, Places, Typed
<1>4. /\ run.max \in Nat /\ Len(greedy) \in Nat /\ run.max + 1 <= Len(greedy)
      /\ greedy \in Seq(Token)
  BY LimitFacts, Continuation DEF DecodeInv, Typed
<1>5. n = m
  <2>1. CASE Done >= run.max
    BY <1>0, <1>3, <1>4, <2>1
  <2>2. CASE block.todo = << >>
    <3>1. Len(SubSeq(greedy, n + 1, m)) = m - n
      <4>1. m <= Len(greedy)
        BY <1>3, <1>4
      <4> QED
        BY <1>3, <1>4, <4>1, PartOf
    <3>2. Len(block.todo) = 0
      BY <2>2
    <3>3. m - n = 0
      BY <1>3, <3>1, <3>2
    <3> QED
      BY <3>3
  <2> QED
    BY <1>1, <2>1, <2>2
\* The tokens of the block, as tokens of the continuation.
<1>6. \A i \in 1 .. size : block.committed[i] = greedy[m - size + i]
  <2> DEFINE k == m - size
  <2>1. k \in Nat /\ k <= m /\ m <= Len(greedy) /\ m - k = size
    BY <1>3, <1>4
  <2>2. block.committed = SubSeq(greedy, k + 1, m)
    BY <1>3
  <2> HIDE DEF k
  <2>3. \A i \in 1 .. m - k : SubSeq(greedy, k + 1, m)[i] = greedy[k + i]
    BY <1>4, <2>1, PartOf
  <2>4. \A i \in 1 .. size : block.committed[i] = greedy[k + i]
    BY <2>1, <2>2, <2>3
  <2> QED
    BY <2>4 DEF k
<1>7. ~unskipped /\ Len(stream) = m /\ \A i \in 1 .. m : stream[i] = greedy[i]
  <2>1. Done # 0
    BY <1>0, <1>3, <1>5, BlockAssumption
  <2>2. ~unskipped /\ Len(stream) = m
    BY <1>0, <1>5, <2>1 DEF DecodeInv, Output
  <2> QED
    BY <2>2, OutputFacts DEF DecodeInv
<1>8. Done' = m /\ Held' = m /\ Limit' = Limit
  BY <1>0, <1>2, <1>5 DEF Done, Held, Limit
<1>9. CASE ToSet(block.committed) \cap Stop # {}
  <2>1. pc' = "snapshot" /\ staged' = staged
    BY <1>9 DEF EndCycle
  <2>2. \E i \in 1 .. Len(stream') : stream'[i] \in Stop
    <3>1. PICK i \in DOMAIN block.committed : block.committed[i] \in Stop
      BY <1>9 DEF ToSet
    <3>2. i \in 1 .. size
      BY <1>0, <1>3, LenProperties DEF Blocks
    <3>3. m - size + i \in 1 .. m
      BY <1>3, <3>2
    <3>4. stream[m - size + i] \in Stop
      BY <1>6, <1>7, <3>1, <3>2, <3>3
    <3> QED
      BY <1>2, <1>7, <3>3, <3>4
  <2>3. EndsRight'
    BY <2>2 DEF EndsRight
  <2>4. Typed'
    BY <1>1, <1>2, <2>1, Constants DEF DecodeInv, Typed, Reach, Held
  <2>5. Places' /\ Fresh' /\ PromptRead' /\ Planned' /\ Committed' /\ Alone'
    BY <1>1, <1>2, <1>3, <2>1 DEF Places, Fresh, PromptRead, Planned, Committed, Alone, Loop,
       Reading, Endings
  <2>6. Output'
    BY <1>2 DEF DecodeInv, Output, Done, Limit
  <2>7. TextRead'
    BY <1>1, <1>2 DEF DecodeInv, TextRead, Reads, Text, Held, Loop
  <2>8. Between'
    BY <1>8, <2>1 DEF Between
  <2>9. Ahead'
    BY <1>1, <1>2, <2>1 DEF DecodeInv, Ahead
  <2> QED
    BY <2>3, <2>4, <2>5, <2>6, <2>7, <2>8, <2>9 DEF DecodeInv
<1>10. CASE ToSet(block.committed) \cap Stop = {}
  <2>1. pc' = "cycle" /\ staged' = block.next
    BY <1>10 DEF EndCycle
  <2>2. NoStop(m)
    <3>1. ASSUME NEW i \in 1 .. m PROVE greedy[i] \notin Stop
      <4>1. CASE i <= m - size
        <5>1. i \in 1 .. m - size
          BY <1>3, <4>1
        <5> QED
          BY <1>3, <5>1 DEF NoStop
      <4>2. CASE ~(i <= m - size)
        <5> DEFINE j == i - (m - size)
        <5>1. j \in 1 .. size /\ m - size + j = i
          BY <1>3, <4>2
        <5> HIDE DEF j
        <5>2. block.committed[j] = greedy[i]
          BY <1>6, <5>1
        <5>3. j \in DOMAIN block.committed
          BY <1>0, <1>3, <5>1, LenProperties DEF Blocks
        <5>4. block.committed[j] \in ToSet(block.committed)
          BY <5>3 DEF ToSet
        <5> QED
          BY <1>10, <5>2, <5>4
      <4> QED
        BY <4>1, <4>2
    <3> QED
      BY <3>1 DEF NoStop
  <2>3. EndsRight'
    BY <2>1 DEF EndsRight
  <2>4. Typed'
    <3>1. staged' \in Token
      BY <1>3, <2>1 DEF Blocks
    <3> QED
      BY <1>1, <1>2, <3>1, Constants DEF DecodeInv, Typed, Reach, Held
  <2>5. Places' /\ Fresh' /\ PromptRead' /\ Planned' /\ Committed' /\ Alone'
    BY <1>1, <1>2, <1>3, <2>1 DEF Places, Fresh, PromptRead, Planned, Committed, Alone, Loop,
       Reading, Endings
  <2>6. Output'
    BY <1>2 DEF DecodeInv, Output, Done, Limit
  <2>7. TextRead'
    BY <1>1, <1>2 DEF DecodeInv, TextRead, Reads, Text, Held, Loop
  <2>8. Between'
    <3>1. NoStop(m)'
      BY <1>2, <2>2 DEF NoStop
    <3>2. NoStop(Held)'
      BY <1>8, <3>1 DEF NoStop
    <3> QED
      BY <1>2, <1>3, <1>8, <2>1, <3>2 DEF Between
  <2>9. Ahead'
    BY <1>1, <1>2, <2>1 DEF DecodeInv, Ahead, Held, BlockLength
  <2> QED
    BY <2>3, <2>4, <2>5, <2>6, <2>7, <2>8, <2>9 DEF DecodeInv
<1> QED
  BY <1>9, <1>10

LEMMA LimitReachedKeeps ==
  ASSUME DecodeInv, LimitReached
  PROVE  DecodeInv'
<1>1. /\ pc = "cycle" /\ pc' = "snapshot" /\ Done >= run.max
      /\ UNCHANGED <<fixed, block, emitted, verified, steering, drafts, staged, published>>
  BY DEF LimitReached, Done
<1>2. /\ run' = run /\ greedy' = greedy /\ active' = active /\ session' = session
      /\ stream' = stream /\ generated' = generated /\ unskipped' = unskipped
      /\ start' = start /\ hidden' = hidden /\ policy' = policy /\ index' = index
      /\ cache' = cache /\ row' = row /\ prefetched' = prefetched /\ staged' = staged
      /\ block' = block
  BY <1>1 DEF fixed, request, emitted, verified, steering, drafts
<1>3. Len(stream) = Limit
  <2>1. /\ run.mode # "target" /\ Limit = run.max /\ run.max \in Nat /\ Done \in Nat /\ Done <= Limit
    BY <1>1, LimitFacts, OutputFacts DEF DecodeInv, Places, Loop, Output
  <2>2. ~unskipped
    <3>1. unskipped => Done = 0 /\ run.max > 0
      BY DEF DecodeInv, Output
    <3> QED
      BY <1>1, <2>1, <3>1
  <2>3. Len(stream) = Done
    BY <2>2 DEF DecodeInv, Output
  <2> QED
    BY <1>1, <2>1, <2>3
<1>4. EndsRight'
  BY <1>2, <1>3 DEF EndsRight, Limit
<1>5. Typed'
  BY <1>2 DEF DecodeInv, Typed, Reach, Held
<1>6. Places' /\ Fresh' /\ PromptRead' /\ Planned' /\ Committed' /\ Alone'
  BY <1>1, <1>2 DEF DecodeInv, Places, Fresh, PromptRead, Planned, Committed, Alone, Loop,
     Reading, Endings
<1>7. Output'
  BY <1>2 DEF DecodeInv, Output, Done, Limit
<1>8. TextRead'
  BY <1>1, <1>2 DEF DecodeInv, TextRead, Reads, Text, Held, Loop
<1>9. Between' /\ Ahead'
  BY <1>1, <1>2 DEF DecodeInv, Between, Ahead, Held, Done
<1> QED
  BY <1>4, <1>5, <1>6, <1>7, <1>8, <1>9 DEF DecodeInv

LEMMA PublishSnapshotKeeps ==
  ASSUME DecodeInv, PublishSnapshot
  PROVE  DecodeInv'
<1>1. /\ pc = "snapshot" /\ pc' \in {"ending", "closing"}
      /\ UNCHANGED <<fixed, block, emitted, verified, steering, drafts, staged>>
  BY DEF PublishSnapshot
<1>2. /\ run' = run /\ greedy' = greedy /\ active' = active /\ session' = session
      /\ stream' = stream /\ generated' = generated /\ unskipped' = unskipped
      /\ start' = start /\ hidden' = hidden /\ policy' = policy /\ index' = index
      /\ cache' = cache /\ row' = row /\ prefetched' = prefetched /\ staged' = staged
      /\ block' = block
  BY <1>1 DEF fixed, request, emitted, verified, steering, drafts
<1>3. EndsRight'
  BY <1>1, <1>2 DEF DecodeInv, EndsRight, Limit
<1>4. Typed'
  BY <1>2 DEF DecodeInv, Typed, Reach, Held
<1>5. Places' /\ Fresh' /\ PromptRead' /\ TextRead' /\ Between' /\ Planned' /\ Committed' /\ Alone'
  BY <1>1, <1>2 DEF Places, Fresh, PromptRead, TextRead, Between, Planned, Committed, Alone, Loop,
     Reading, Endings
<1>6. Output' /\ Ahead'
  BY <1>1, <1>2 DEF DecodeInv, Output, Ahead, Done, Limit
<1> QED
  BY <1>3, <1>4, <1>5, <1>6 DEF DecodeInv

LEMMA CloseKeeps ==
  ASSUME DecodeInv, Close
  PROVE  DecodeInv'
<1>1. /\ pc' \in {"finished", "closed", "raised"} /\ cache' = ColdCache
      /\ UNCHANGED <<fixed, block, emitted, start, hidden, chunks, copyOff, row, steering,
                     drafts, staged, published>>
  BY DEF Close, Endings
<1>2. /\ run' = run /\ greedy' = greedy /\ active' = active /\ session' = session
      /\ stream' = stream /\ generated' = generated /\ unskipped' = unskipped
      /\ index' = index /\ prefetched' = prefetched
  BY <1>1 DEF fixed, request, emitted, steering, drafts
<1>3. Typed'
  BY <1>1, <1>2, Constants DEF DecodeInv, Typed, Reach, Held
<1>4. Places' /\ Fresh' /\ PromptRead' /\ TextRead' /\ Between' /\ Planned' /\ Committed' /\ Alone'
      /\ EndsRight'
  BY <1>1, <1>2 DEF Places, Fresh, PromptRead, TextRead, Between, Planned, Committed, Alone, Loop,
     Reading, Endings, EndsRight
<1>5. Output' /\ Ahead'
  BY <1>1, <1>2 DEF DecodeInv, Output, Ahead, Done, Limit
<1> QED
  BY <1>3, <1>4, <1>5 DEF DecodeInv

\* A manager that is closed meanwhile changes nothing of the text.
LEMMA RetireKeeps ==
  ASSUME DecodeInv, Retire
  PROVE  DecodeInv'
<1>1. /\ active' = FALSE
      /\ UNCHANGED <<run, greedy, session, pc, prefilled, staged, published, decoding>>
  BY DEF Retire
<1>2. /\ run' = run /\ greedy' = greedy /\ session' = session /\ pc' = pc
      /\ stream' = stream /\ generated' = generated /\ unskipped' = unskipped
      /\ start' = start /\ hidden' = hidden /\ policy' = policy /\ index' = index
      /\ cache' = cache /\ row' = row /\ prefetched' = prefetched /\ staged' = staged
      /\ block' = block /\ candidates' = candidates /\ tree' = tree
  BY <1>1 DEF prefilled, decoding, emitted, steering, drafts, proposed
<1>3. Typed'
  BY <1>1, <1>2 DEF DecodeInv, Typed, Reach, Held
<1>4. Places' /\ Fresh' /\ PromptRead'
  BY <1>2 DEF DecodeInv, Places, Fresh, PromptRead, Done, Held
<1>5. TextRead' /\ Between' /\ Alone'
  BY <1>2 DEF DecodeInv, TextRead, Between, Alone, Reads, Text, Done, Held, NoStop, Limit
<1>6. Planned' /\ Committed'
  BY <1>2 DEF DecodeInv, Planned, Committed, TreeOf, Done, Held, NoStop
<1>7. Output' /\ Ahead' /\ EndsRight'
  BY <1>2 DEF DecodeInv, Output, Ahead, EndsRight, Done, Held, Limit, BlockLength
<1> QED
  BY <1>3, <1>4, <1>5, <1>6, <1>7 DEF DecodeInv


-----------------------------------------------------------------------------
(* The tree loop keeps it *)

LEMMA TreeBlockFits ==
  ASSUME Typed, Done \in Nat, Done < run.max
  PROVE  TreeBlockLength \in 1 .. FullBlock /\ Done + TreeBlockLength <= run.max
<1> DEFINE a == TreeBlock
           b == run.max - Done
           m == Min({a, b})
<1>1. a \in Int /\ b \in Int /\ 1 <= a /\ a <= FullBlock /\ 1 <= b /\ FullBlock \in Nat
  BY LimitFacts, BlockAssumption, TreeAssumption
<1>2. TreeBlockLength = Max({1, m})
  BY DEF TreeBlockLength, Done
<1> HIDE DEF a, b
<1>3. m = IF a <= b THEN a ELSE b
  BY <1>1, MinMaxTwo
<1> HIDE DEF m
<1>4. m \in Int /\ 1 <= m /\ m <= FullBlock /\ m <= b
  BY <1>1, <1>3
<1>5. Max({1, m}) = m
  BY <1>4, AtLeastOne
<1> QED
  BY <1>2, <1>4, <1>5, LimitFacts DEF b

\* The rows of a batch: each begins with the staged token.
Rows == [ids : Seq(Token), source : {"greedy", "branch", "copyspec"}]
Staged(rows) == \A r \in rows : r \in Rows /\ r.ids # << >> /\ r.ids[1] = staged

LEMMA TruncatedRows ==
  ASSUME NEW rows, Staged(rows), NEW len \in Nat \ {0}
  PROVE  Staged(Truncated(rows, len)) /\ \A r \in Truncated(rows, len) : Len(r.ids) <= len
<1> SUFFICES ASSUME NEW r \in rows,
                    NEW q, q = [r EXCEPT !.ids = SubSeq(r.ids, 1, Min({len, Len(r.ids)}))]
             PROVE  q \in Rows /\ q.ids # << >> /\ q.ids[1] = staged /\ Len(q.ids) <= len
  BY DEF Truncated, Staged
<1>1. r \in Rows /\ r.ids \in Seq(Token) /\ r.ids # << >> /\ r.ids[1] = staged
  BY DEF Staged, Rows
<1> DEFINE size == Len(r.ids)
           n == Min({len, size})
           ids == SubSeq(r.ids, 1, n)
<1>2. size \in Nat \ {0}
  BY <1>1, EmptySeq
<1>3. n \in Nat \ {0} /\ n <= size /\ n <= len
  <2>1. len \in Int /\ size \in Int
    BY <1>2
  <2> HIDE DEF size
  <2>2. n = IF len <= size THEN len ELSE size
    BY <2>1, MinMaxTwo
  <2> HIDE DEF n
  <2> QED
    BY <1>2, <2>2
<1> HIDE DEF n
<1>4. ids \in Seq(Token) /\ Len(ids) = n /\ \A i \in 1 .. n : ids[i] = r.ids[i]
  BY <1>1, <1>3, StartOf
<1>5. ids[1] = staged /\ ids # << >>
  <2>1. 1 \in 1 .. n
    BY <1>3
  <2>2. ids[1] = r.ids[1]
    BY <1>4, <2>1
  <2>3. Len(<< >>) = 0
    OBVIOUS
  <2> HIDE DEF ids
  <2>4. ids # << >>
    BY <1>3, <1>4, <2>3
  <2> QED
    BY <1>1, <2>2, <2>4
<1>6. q = [r EXCEPT !.ids = ids]
  BY DEF n
<1> HIDE DEF ids
<1>7. q \in Rows /\ q.ids = ids
  BY <1>1, <1>4, <1>6 DEF Rows
<1> QED
  BY <1>3, <1>4, <1>5, <1>7

\* What is launched, as a batch or as a tree, is fit to be verified.
Launched(rows, slots, source) ==
  /\ Launch(rows, slots, source) /\ source \in Sources /\ run.mode = "ddtree"
  /\ Staged(rows) /\ \A r \in rows : Len(r.ids) <= TreeBlockLength
  /\ slots # << >> => TreeOf(slots, TreeBlockLength - 1)

LEMMA LaunchKeeps ==
  ASSUME DecodeInv, NEW rows, NEW slots, NEW source, Launched(rows, slots, source)
  PROVE  DecodeInv'
<1>1. /\ pc = "cycle" /\ pc' = "verify" /\ Done < run.max /\ run.mode = "ddtree"
      /\ block' = [NoBlock EXCEPT !.len = TreeBlockLength, !.staged = staged, !.source = source]
      /\ candidates' = rows /\ tree' = slots /\ source \in Sources
      /\ UNCHANGED <<fixed, emitted, verified, steering, prefetched, staged, published>>
  BY DEF Launched, Launch, Done
<1>2. /\ run' = run /\ greedy' = greedy /\ active' = active /\ session' = session
      /\ stream' = stream /\ generated' = generated /\ unskipped' = unskipped
      /\ start' = start /\ hidden' = hidden /\ policy' = policy /\ index' = index
      /\ cache' = cache /\ row' = row /\ prefetched' = prefetched /\ staged' = staged
  BY <1>1 DEF fixed, request, emitted, verified, steering
<1>3. /\ TreeBlockLength \in 1 .. FullBlock /\ Done + TreeBlockLength <= run.max
      /\ TreeBlockLength \in Nat
  BY <1>1, TreeBlockFits, OutputFacts, BlockAssumption DEF DecodeInv
<1>4. block' = [len |-> TreeBlockLength, source |-> source, tokens |-> << >>, staged |-> staged,
                todo |-> << >>, committed |-> << >>, accepted |-> 0, next |-> Prompt[1]]
  <2> DEFINE n == TreeBlockLength
             d == [NoBlock EXCEPT !.len = n]
             e == [d EXCEPT !.staged = staged]
  <2>1. d = [len |-> n, source |-> "none", tokens |-> << >>, staged |-> Prompt[1],
             todo |-> << >>, committed |-> << >>, accepted |-> 0, next |-> Prompt[1]]
    BY DEF NoBlock
  <2>2. block' = [e EXCEPT !.source = source]
    BY <1>1
  <2> HIDE DEF d, n
  <2>3. e = [len |-> n, source |-> "none", tokens |-> << >>, staged |-> staged,
             todo |-> << >>, committed |-> << >>, accepted |-> 0, next |-> Prompt[1]]
    BY <2>1
  <2> HIDE DEF e
  <2>4. block' = [len |-> n, source |-> source, tokens |-> << >>, staged |-> staged,
                  todo |-> << >>, committed |-> << >>, accepted |-> 0, next |-> Prompt[1]]
    BY <2>2, <2>3
  <2> QED
    BY <2>4 DEF n
<1>5. Typed'
  <2>1. block' \in Blocks
    BY <1>1, <1>3, <1>4, Constants, PromptFacts DEF Blocks, DecodeInv, Typed
  <2> QED
    BY <1>2, <2>1 DEF DecodeInv, Typed, Reach, Held
<1>6. Places' /\ Fresh' /\ PromptRead' /\ Committed' /\ Alone' /\ EndsRight'
  BY <1>1, <1>2 DEF Places, Fresh, PromptRead, Committed, Alone, EndsRight, Loop, Reading,
     Endings
<1>7. Output'
  BY <1>2 DEF DecodeInv, Output, Done, Limit
<1>8. TextRead'
  BY <1>1, <1>2 DEF DecodeInv, TextRead, Reads, Text, Held, Loop
<1>9. Between'
  BY <1>1, <1>2 DEF DecodeInv, Between, Held, Done, NoStop
<1>10. Planned'
  <2>1. block'.len = TreeBlockLength
    BY <1>4
  <2>2. \A c \in rows : /\ c.ids \in Seq(Token) /\ c.ids # << >>
                        /\ c.ids[1] = staged /\ Len(c.ids) <= TreeBlockLength
    BY DEF Launched, Staged, Rows
  <2>3. slots # << >> => TreeOf(slots, TreeBlockLength - 1)
    BY DEF Launched
  <2>4. \A c \in candidates' : /\ c.ids \in Seq(Token) /\ c.ids # << >>
                               /\ c.ids[1] = staged' /\ Len(c.ids) <= block'.len
    BY <1>1, <1>2, <2>1, <2>2
  <2>5. tree' # << >> => TreeOf(tree', block'.len - 1)
    BY <1>1, <2>1, <2>3
  <2>6. block'.len \in 1 .. FullBlock /\ Done' + block'.len <= run'.max /\ run'.mode = "ddtree"
    BY <1>1, <1>2, <1>3, <2>1 DEF Done
  <2> QED
    BY <2>4, <2>5, <2>6 DEF Planned, TreeOf
<1>11. Ahead'
  BY <1>1, <1>2 DEF DecodeInv, Ahead
<1> QED
  BY <1>5, <1>6, <1>7, <1>8, <1>9, <1>10, <1>11 DEF DecodeInv

LEMMA BeginSingleKeeps ==
  ASSUME DecodeInv, BeginSingle, run.mode = "ddtree"
  PROVE  DecodeInv'
<1> DEFINE r == [ids |-> <<staged>>, source |-> "greedy"]
<1>1. TreeBlockLength = 1 /\ Launch({r}, << >>, "none")
  BY DEF BeginSingle
<1>2. Staged({r}) /\ Len(r.ids) = 1
  BY DEF Staged, Rows, DecodeInv, Typed
<1> HIDE DEF r
<1>3. Launched({r}, << >>, "none")
  <2>0. Len(r.ids) = 1 /\ TreeBlockLength = 1
    BY <1>1, <1>2
  <2>1. \A q \in {r} : Len(q.ids) <= TreeBlockLength
    <3> SUFFICES Len(r.ids) <= TreeBlockLength
      OBVIOUS
    <3> QED
      BY <2>0
  <2>2. "none" \in Sources
    BY DEF Sources
  <2> QED
    BY <1>1, <1>2, <2>1, <2>2 DEF Launched
<1> QED
  BY <1>3, LaunchKeeps

\* The staged token and a draft behind it.
LEMMA StagedRow ==
  ASSUME staged \in Token, NEW d \in Seq(Token)
  PROVE  /\ <<staged>> \o d \in Seq(Token) /\ <<staged>> \o d # << >>
         /\ (<<staged>> \o d)[1] = staged /\ Len(<<staged>> \o d) = Len(d) + 1
<1> DEFINE t == staged
<1>1. t \in Token
  OBVIOUS
<1> HIDE DEF t
<1>2. /\ <<t>> \o d \in Seq(Token) /\ Len(<<t>> \o d) = Len(d) + 1 /\ (<<t>> \o d)[1] = t
  BY <1>1, Below1
<1>3. <<t>> \o d # << >>
  BY <1>2, EmptySeq, LenProperties
<1> QED
  BY <1>2, <1>3 DEF t

LEMMA BeginCopiedKeeps ==
  ASSUME DecodeInv, BeginCopied, run.mode = "ddtree"
  PROVE  DecodeInv'
<1> DEFINE count == VerifyCount(TreeBlockLength)
<1>1. /\ TreeBlockLength > 1
      /\ \E copy \in Copies :
           Launch(Truncated({[ids |-> <<staged>> \o copy, source |-> "copyspec"]}, count),
                  << >>, "copyspec")
  BY DEF BeginCopied
<1>2. PICK copy \in Copies :
        Launch(Truncated({[ids |-> <<staged>> \o copy, source |-> "copyspec"]}, count),
               << >>, "copyspec")
  BY <1>1
<1> DEFINE r == [ids |-> <<staged>> \o copy, source |-> "copyspec"]
           rows == Truncated({r}, count)
<1>3. TreeBlockLength \in Nat \ {0} /\ TreeBlockLength - 1 \in Nat
  <2>1. Done < run.max
    BY <1>2 DEF Launch, Done
  <2> QED
    BY <1>1, <2>1, TreeBlockFits, OutputFacts, BlockAssumption DEF DecodeInv
<1>4. copy \in Seq(Token)
  <2>1. copy \in Copy!DraftAfter(Prompt, index, staged, TreeBlockLength - 1, Suppressed)
    BY DEF Copies, CopyDrafts
  <2> QED
    BY <1>3, <2>1, CopiedDraft DEF DecodeInv, Typed
<1>5. Staged({r})
  <2> DEFINE ids == <<staged>> \o copy
  <2>1. ids \in Seq(Token) /\ ids # << >> /\ ids[1] = staged
    BY <1>4, StagedRow DEF DecodeInv, Typed
  <2>2. r = [ids |-> ids, source |-> "copyspec"]
    OBVIOUS
  <2> HIDE DEF ids, r
  <2> QED
    BY <2>1, <2>2 DEF Staged, Rows
<1>6. count \in Nat \ {0} /\ count <= TreeBlockLength
  <2>1. count \in 1 .. TreeBlockLength
    BY <1>3, VerifyFits DEF DecodeInv
  <2> HIDE DEF count
  <2> QED
    BY <1>3, <2>1
<1>7. Staged(rows) /\ \A q \in rows : Len(q.ids) <= TreeBlockLength
  <2> HIDE DEF r, count
  <2>1. Staged(rows) /\ \A q \in rows : Len(q.ids) <= count
    BY <1>5, <1>6, TruncatedRows
  <2>2. \A q \in rows : Len(q.ids) \in Nat
    BY <2>1, LenProperties DEF Staged, Rows
  <2> HIDE DEF rows
  <2> QED
    BY <1>3, <1>6, <2>1, <2>2
<1>8. Launched(rows, << >>, "copyspec")
  <2>1. Launch(rows, << >>, "copyspec")
    BY <1>2
  <2> HIDE DEF rows
  <2> QED
    BY <1>7, <2>1 DEF Launched, Sources
<1> HIDE DEF rows
<1> QED
  BY <1>8, LaunchKeeps

LEMMA DraftRaisesKeeps ==
  ASSUME DecodeInv, DraftRaises, run.mode = "ddtree"
  PROVE  DecodeInv'
<1>1. /\ pc = "cycle" /\ pc' = "raising"
      /\ UNCHANGED <<fixed, block, emitted, verified, steering, prefetched, staged, published,
                     proposed>>
  BY DEF DraftRaises
<1>2. /\ run' = run /\ greedy' = greedy /\ active' = active /\ session' = session
      /\ stream' = stream /\ generated' = generated /\ unskipped' = unskipped
      /\ start' = start /\ hidden' = hidden /\ block' = block /\ index' = index
      /\ cache' = cache /\ row' = row /\ prefetched' = prefetched /\ staged' = staged
  BY <1>1 DEF fixed, request, emitted, verified, steering
<1>3. Typed'
  BY <1>2 DEF DecodeInv, Typed, Reach, Held
<1>4. Places' /\ Fresh' /\ PromptRead' /\ TextRead' /\ Between' /\ Planned' /\ Committed' /\ Alone'
      /\ EndsRight'
  BY <1>1, <1>2 DEF Places, Fresh, PromptRead, TextRead, Between, Planned, Committed, Alone,
     EndsRight, Loop, Reading, Endings
<1>5. Output' /\ Ahead'
  BY <1>1, <1>2 DEF DecodeInv, Output, Ahead, Done, Limit
<1> QED
  BY <1>3, <1>4, <1>5 DEF DecodeInv


LEMMA FirstOfConcat ==
  ASSUME NEW S, NEW x \in Seq(S), x # << >>, NEW y \in Seq(S)
  PROVE  x \o y \in Seq(S) /\ x \o y # << >> /\ (x \o y)[1] = x[1]
<1>1. Len(x) \in Nat \ {0} /\ Len(y) \in Nat
  BY EmptySeq, LenProperties
<1> DEFINE z == x \o y
<1>2. /\ z \in Seq(S) /\ Len(z) = Len(x) + Len(y)
      /\ \A i \in 1 .. Len(x) + Len(y) : z[i] = IF i <= Len(x) THEN x[i] ELSE y[i - Len(x)]
  BY ConcatProperties
<1> HIDE DEF z
<1>3. Len(<< >>) = 0
  OBVIOUS
<1>4. 1 \in 1 .. Len(x) + Len(y) /\ 1 <= Len(x)
  BY <1>1
<1>5. z[1] = x[1]
  BY <1>2, <1>4
<1>6. z # << >>
  BY <1>1, <1>2, <1>3
<1> QED
  BY <1>2, <1>5, <1>6 DEF z

\* The branches of a draft begin as it does.
LEMMA BranchesStaged ==
  ASSUME staged \in Token, NEW d \in Seq(Token), NEW i \in Nat \ {0},
         NEW rows \in BranchSets(<<staged>> \o d, i)
  PROVE  Staged(rows)
<1> DEFINE ids == <<staged>> \o d
           k == Len(ids) - i - 1
           runnersUp == {Range(top) \ {ids[i + 1]} : top \in TopTokens}
           Branches(rest) == {[ids |-> SubSeq(ids, 1, i) \o <<t>> \o rest[t], source |-> "branch"] :
                                t \in DOMAIN rest}
<1>1. ids \in Seq(Token) /\ ids # << >> /\ ids[1] = staged /\ Len(ids) \in Nat
  BY StagedRow, LenProperties
<1>2. rows \in IF i >= Len(ids) THEN {{}}
               ELSE UNION {{Branches(rest) : rest \in [others -> Drafted(k)]} : others \in runnersUp}
  BY DEF BranchSets
<1>3. CASE i >= Len(ids)
  BY <1>2, <1>3 DEF Staged
<1>4. CASE ~(i >= Len(ids))
  <2>1. PICK others \in runnersUp : \E rest \in [others -> Drafted(k)] : rows = Branches(rest)
    <3> HIDE DEF ids, k, runnersUp, Branches
    <3> QED
      BY <1>2, <1>4
  <2>2. PICK rest \in [others -> Drafted(k)] : rows = Branches(rest)
    BY <2>1
  <2>3. k \in Nat
    BY <1>1, <1>4
  <2>4. others \subseteq Token
    <3>1. PICK top \in TopTokens : others = Range(top) \ {ids[i + 1]}
      OBVIOUS
    <3>2. top \in [1 .. TopWidth -> Token \ Suppressed]
      BY DEF TopTokens
    <3> QED
      BY <3>1, <3>2 DEF Range
  <2> DEFINE begun == SubSeq(ids, 1, i)
  <2>5. begun \in Seq(Token) /\ begun # << >> /\ begun[1] = staged
    <3> HIDE DEF ids
    <3>1. i <= Len(ids)
      BY <1>1, <1>4
    <3>2. begun \in Seq(Token) /\ Len(begun) = i /\ \A j \in 1 .. i : begun[j] = ids[j]
      BY <1>1, <3>1, StartOf
    <3>3. Len(<< >>) = 0 /\ 1 \in 1 .. i
      OBVIOUS
    <3> HIDE DEF begun
    <3> QED
      BY <1>1, <3>2, <3>3
  <2>6. ASSUME NEW t \in others
        PROVE  LET r == [ids |-> begun \o <<t>> \o rest[t], source |-> "branch"]
               IN r \in Rows /\ r.ids # << >> /\ r.ids[1] = staged
    <3> DEFINE after == rest[t]
    <3>1. t \in Token /\ <<t>> \in Seq(Token)
      BY <2>4
    <3>2. after \in Seq(Token)
      <4>1. after \in Drafted(k)
        OBVIOUS
      <4> HIDE DEF after, k
      <4> QED
        BY <2>3, <4>1 DEF Drafted
    <3> HIDE DEF begun, after
    <3> DEFINE more == begun \o <<t>>
    <3>3. more \in Seq(Token) /\ more # << >> /\ more[1] = staged
      BY <2>5, <3>1, FirstOfConcat
    <3> HIDE DEF more
    <3> DEFINE all == more \o after
    <3>4. all \in Seq(Token) /\ all # << >> /\ all[1] = staged
      BY <3>2, <3>3, FirstOfConcat
    <3> HIDE DEF all
    <3>5. [ids |-> all, source |-> "branch"] \in Rows
      BY <3>4 DEF Rows
    <3> QED
      BY <3>4, <3>5 DEF all, more, after
  <2>7. ASSUME NEW r \in rows
        PROVE  \E t \in others : r = [ids |-> begun \o <<t>> \o rest[t], source |-> "branch"]
    <3>1. DOMAIN rest = others
      OBVIOUS
    <3>2. rows = {[ids |-> begun \o <<t>> \o rest[t], source |-> "branch"] : t \in DOMAIN rest}
      BY <2>2
    <3> HIDE DEF begun
    <3> QED
      BY <3>1, <3>2
  <2> HIDE DEF begun
  <2>8. ASSUME NEW r \in rows PROVE r \in Rows /\ r.ids # << >> /\ r.ids[1] = staged
    BY <2>6, <2>7
  <2> QED
    BY <2>8 DEF Staged
<1> QED
  BY <1>3, <1>4

LEMMA BeginBatchKeeps ==
  ASSUME DecodeInv, BeginBatch, run.mode = "ddtree"
  PROVE  DecodeInv'
<1> DEFINE len == TreeBlockLength
           count == VerifyCount(len)
           Greedily(d) == [ids |-> <<staged>> \o d, source |-> "greedy"]
<1>1. len > 1 /\ \E d \in Drafted(len - 1) :
                   \E first \in BranchSets(<<staged>> \o d, 1),
                      second \in BranchSets(<<staged>> \o d, 2) :
                     Launch(Truncated({Greedily(d)} \cup first \cup second, count), << >>, "dflash")
  BY DEF BeginBatch
<1>0. PICK d \in Drafted(len - 1) :
        \E first \in BranchSets(<<staged>> \o d, 1), second \in BranchSets(<<staged>> \o d, 2) :
          Launch(Truncated({Greedily(d)} \cup first \cup second, count), << >>, "dflash")
  BY <1>1
<1>2. PICK first \in BranchSets(<<staged>> \o d, 1), second \in BranchSets(<<staged>> \o d, 2) :
        Launch(Truncated({Greedily(d)} \cup first \cup second, count), << >>, "dflash")
  BY <1>0
<1> DEFINE all == {Greedily(d)} \cup first \cup second
           rows == Truncated(all, count)
<1>3. len \in Nat \ {0} /\ len - 1 \in Nat
  <2>1. Done < run.max
    BY <1>2 DEF Launch, Done
  <2> QED
    BY <1>1, <2>1, TreeBlockFits, OutputFacts, BlockAssumption DEF DecodeInv
<1>4. d \in Seq(Token)
  <2> DEFINE k == len - 1
  <2>1. k \in Nat /\ d \in Drafted(k)
    BY <1>3
  <2> HIDE DEF k
  <2> QED
    BY <2>1 DEF Drafted
<1>5. Staged(all)
  <2>1. staged \in Token
    BY DEF DecodeInv, Typed
  <2>2. Staged({Greedily(d)})
    <3> DEFINE ids == <<staged>> \o d
    <3>1. ids \in Seq(Token) /\ ids # << >> /\ ids[1] = staged
      BY <1>4, <2>1, StagedRow
    <3>2. Greedily(d) = [ids |-> ids, source |-> "greedy"]
      OBVIOUS
    <3> HIDE DEF ids, Greedily
    <3> QED
      BY <3>1, <3>2 DEF Staged, Rows
  <2>3. Staged(first)
    <3> DEFINE one == 1
    <3>1. one \in Nat \ {0} /\ first \in BranchSets(<<staged>> \o d, one)
      OBVIOUS
    <3> HIDE DEF one
    <3> QED
      BY <1>4, <2>1, <3>1, BranchesStaged
  <2>4. Staged(second)
    <3> DEFINE two == 2
    <3>1. two \in Nat \ {0} /\ second \in BranchSets(<<staged>> \o d, two)
      OBVIOUS
    <3> HIDE DEF two
    <3> QED
      BY <1>4, <2>1, <3>1, BranchesStaged
  <2> HIDE DEF Greedily
  <2> QED
    BY <2>2, <2>3, <2>4 DEF Staged
<1>6. count \in Nat \ {0} /\ count <= len
  <2>1. count \in 1 .. len
    BY <1>3, VerifyFits DEF DecodeInv
  <2> HIDE DEF count, len
  <2> QED
    BY <1>3, <2>1
<1>7. Staged(rows) /\ \A q \in rows : Len(q.ids) <= len
  <2> HIDE DEF all, count
  <2>1. Staged(rows) /\ \A q \in rows : Len(q.ids) <= count
    BY <1>5, <1>6, TruncatedRows
  <2>2. \A q \in rows : Len(q.ids) \in Nat
    BY <2>1, LenProperties DEF Staged, Rows
  <2> HIDE DEF rows, len
  <2> QED
    BY <1>3, <1>6, <2>1, <2>2
<1>8. Launched(rows, << >>, "dflash")
  <2>1. Launch(rows, << >>, "dflash")
    BY <1>2
  <2> HIDE DEF rows
  <2> QED
    BY <1>7, <2>1 DEF Launched, Sources
<1> HIDE DEF rows
<1> QED
  BY <1>8, LaunchKeeps

\* The nodes that a tree may have are finitely many, and none is deeper than the
\* rows it is built from.
LEMMA NodesOfTree ==
  ASSUME NEW b \in Nat, NEW rows \in [1 .. b -> TopTokens]
  PROVE  /\ IsFiniteSet(TreeNodes(rows)) /\ Len(rows) = b
         /\ \A p \in TreeNodes(rows) : p \in Seq(Token) /\ Len(p) \in 1 .. b
         /\ \A j \in 1 .. b : rows[j][1] \in Token
<1> DEFINE F(n) == {p \in [1 .. n -> Token] : \A i \in 1 .. n : p[i] \in Range(rows[i])}
<1>1. Len(rows) = b
  OBVIOUS
<1>2. TreeNodes(rows) = UNION {F(n) : n \in 1 .. b}
  BY <1>1 DEF TreeNodes
<1>3. \A i \in 1 .. b : rows[i][1] \in Token /\ Range(rows[i]) = {rows[i][1], rows[i][2]}
  <2>1. ASSUME NEW i \in 1 .. b
        PROVE  rows[i][1] \in Token /\ Range(rows[i]) = {rows[i][1], rows[i][2]}
    <3> DEFINE top == rows[i]
    <3>1. top \in [1 .. 2 -> Token \ Suppressed]
      BY DEF TopTokens, TopWidth
    <3>2. 1 .. 2 = {1, 2}
      OBVIOUS
    <3> HIDE DEF top
    <3>3. top[1] \in Token /\ Range(top) = {top[1], top[2]}
      BY <3>1, <3>2 DEF Range
    <3> QED
      BY <3>3 DEF top
  <2> QED
    BY <2>1
<1>4. ASSUME NEW n \in 1 .. b PROVE IsFiniteSet(F(n))
  <2> DEFINE g == [p \in F(n) |-> {i \in 1 .. n : p[i] = rows[i][1]}]
  <2>1. n \in Nat /\ \A i \in 1 .. n : i \in 1 .. b
    OBVIOUS
  <2>2. ASSUME NEW p \in F(n), NEW q \in F(n), g[p] = g[q] PROVE p = q
    <3>1. {i \in 1 .. n : p[i] = rows[i][1]} = {i \in 1 .. n : q[i] = rows[i][1]}
      BY <2>2
    <3>2. /\ p \in [1 .. n -> Token] /\ q \in [1 .. n -> Token]
          /\ \A i \in 1 .. n : p[i] \in {rows[i][1], rows[i][2]} /\ q[i] \in {rows[i][1], rows[i][2]}
      BY <1>3, <2>1
    <3>3. ASSUME NEW i \in 1 .. n PROVE p[i] = q[i]
      <4>1. p[i] = rows[i][1] <=> q[i] = rows[i][1]
        BY <3>1
      <4> QED
        BY <3>2, <4>1
    <3> QED
      BY <3>2, <3>3
  <2>3. g \in [F(n) -> SUBSET (1 .. n)]
    OBVIOUS
  <2>4. g \in Injection(F(n), SUBSET (1 .. n))
    <3> HIDE DEF g, F
    <3> QED
      BY <2>2, <2>3 DEF Injection, IsInjective
  <2>5. IsFiniteSet(SUBSET (1 .. n))
    <3>1. 1 \in Int /\ n \in Int
      BY <2>1
    <3>2. IsFiniteSet(1 .. n)
      BY <3>1, FS_Interval
    <3> DEFINE some == 1 .. n
    <3>3. IsFiniteSet(some)
      BY <3>2
    <3> HIDE DEF some
    <3>4. IsFiniteSet(SUBSET some)
      BY <3>3, FS_SUBSET
    <3> QED
      BY <3>4 DEF some
  <2> HIDE DEF g, F
  <2> QED
    BY <2>4, <2>5, FS_Injection
<1>5. IsFiniteSet(UNION {F(n) : n \in 1 .. b})
  <2> DEFINE h == [n \in 1 .. b |-> F(n)]
             all == {F(n) : n \in 1 .. b}
  <2>1. h \in Surjection(1 .. b, all)
    BY DEF Surjection
  <2>2. IsFiniteSet(all)
    <3> HIDE DEF h, all
    <3> QED
      BY <2>1, FS_Interval, FS_Surjection
  <2>3. \A s \in all : IsFiniteSet(s)
    <3> HIDE DEF F
    <3> QED
      BY <1>4
  <2> HIDE DEF all
  <2>4. IsFiniteSet(UNION all)
    BY <2>2, <2>3, FS_UNION
  <2> QED
    BY <2>4 DEF all
<1>6. ASSUME NEW p \in TreeNodes(rows) PROVE p \in Seq(Token) /\ Len(p) \in 1 .. b
  <2>1. PICK n \in 1 .. b : p \in [1 .. n -> Token]
    BY <1>2
  <2> QED
    BY <2>1
<1> HIDE DEF F
<1> QED
  BY <1>1, <1>2, <1>3, <1>5, <1>6

LEMMA FlatTreeIsTree ==
  ASSUME NEW b \in Nat \ {0}, NEW rows \in [1 .. b -> TopTokens],
         NEW slots \in FlatTrees(rows, b)
  PROVE  TreeOf(slots, b)
<1> DEFINE chain == ChainSeed(rows, b)
           room == Min({b, Cardinality(TreeNodes(rows))}) - Len(chain)
<1>1. /\ Len(rows) = b /\ Cardinality(TreeNodes(rows)) \in Nat
      /\ \A p \in TreeNodes(rows) : p \in Seq(Token) /\ Len(p) \in 1 .. b
      /\ \A j \in 1 .. b : rows[j][1] \in Token
  BY NodesOfTree, FS_CardinalityType
<1>2. chain \in Seq(Seq(Token)) /\ Len(chain) = b /\ \A i \in 1 .. b : Len(chain[i]) = i
  <2>1. Min({Len(rows), b}) = b
    <3>1. b \in Int
      OBVIOUS
    <3>2. Min({b, b}) = b
      BY <3>1, MinMaxTwo
    <3> QED
      BY <1>1, <3>2
  <2>2. chain = [i \in 1 .. b |-> [j \in 1 .. i |-> rows[j][1]]]
    BY <2>1 DEF ChainSeed
  <2>3. ASSUME NEW i \in 1 .. b
        PROVE  [j \in 1 .. i |-> rows[j][1]] \in Seq(Token) /\ Len([j \in 1 .. i |-> rows[j][1]]) = i
    <3>1. i \in Nat /\ \A j \in 1 .. i : rows[j][1] \in Token
      BY <1>1
    <3> DEFINE R(j) == rows[j][1]
    <3>2. \A j \in 1 .. i : R(j) \in Token
      BY <3>1
    <3> HIDE DEF R
    <3>3. [j \in 1 .. i |-> R(j)] \in Seq(Token) /\ Len([j \in 1 .. i |-> R(j)]) = i
      BY <3>1, <3>2, IsASeq
    <3> QED
      BY <3>3 DEF R
  <2> DEFINE C(i) == [j \in 1 .. i |-> rows[j][1]]
  <2>4. chain = [i \in 1 .. b |-> C(i)] /\ \A i \in 1 .. b : C(i) \in Seq(Token) /\ Len(C(i)) = i
    BY <2>2, <2>3
  <2> HIDE DEF C, chain
  <2> QED
    BY <2>4, IsASeq
<1>3. room \in Int
  <2> DEFINE c == Cardinality(TreeNodes(rows))
  <2>1. c \in Int /\ b \in Int
    BY <1>1
  <2> HIDE DEF c
  <2>2. Min({b, c}) \in Int
    BY <2>1, MinMaxTwo
  <2> HIDE DEF chain
  <2> QED
    BY <1>2, <2>2 DEF c
<1>4. PICK more \in [1 .. room -> TreeNodes(rows)] :
        BestFirst(rows, chain \o more) /\ slots = << << >> >> \o (chain \o more)
  BY DEF FlatTrees
<1> HIDE DEF chain, room
<1>5. more \in Seq(Seq(Token)) /\ \A i \in 1 .. Len(more) : Len(more[i]) <= b
  <2>1. PICK r \in Nat : more \in [1 .. r -> TreeNodes(rows)]
    <3>1. CASE room >= 0
      BY <1>3, <3>1
    <3>2. CASE ~(room >= 0)
      <4>1. 1 .. room = 1 .. 0
        BY <1>3, <3>2
      <4> QED
        BY <4>1
    <3> QED
      BY <3>1, <3>2
  <2>2. more \in Seq(TreeNodes(rows)) /\ Len(more) = r
    BY <2>1
  <2>3. TreeNodes(rows) \subseteq Seq(Token)
    BY <1>1
  <2>4. more \in Seq(Seq(Token))
    BY <2>2, <2>3, SeqMonotonic
  <2>5. ASSUME NEW i \in 1 .. Len(more) PROVE Len(more[i]) <= b
    <3>1. more[i] \in TreeNodes(rows)
      BY <2>1, <2>2
    <3>2. Len(more[i]) \in 1 .. b
      BY <1>1, <3>1
    <3> QED
      BY <3>2
  <2> QED
    BY <2>4, <2>5
<1> DEFINE nodes == chain \o more
<1>6. /\ nodes \in Seq(Seq(Token)) /\ Len(nodes) \in Nat
      /\ \A i \in 1 .. Len(nodes) : Len(nodes[i]) <= b
  <2>1. /\ nodes \in Seq(Seq(Token)) /\ Len(nodes) = Len(chain) + Len(more)
        /\ \A i \in 1 .. Len(chain) + Len(more) :
             nodes[i] = IF i <= Len(chain) THEN chain[i] ELSE more[i - Len(chain)]
    BY <1>2, <1>5, ConcatProperties
  <2>2. Len(more) \in Nat
    BY <1>5, LenProperties
  <2> HIDE DEF nodes
  <2>3. ASSUME NEW i \in 1 .. Len(nodes) PROVE Len(nodes[i]) <= b
    <3>1. CASE i <= Len(chain)
      <4>1. nodes[i] = chain[i] /\ i \in 1 .. b
        BY <1>2, <2>1, <2>2, <3>1
      <4> QED
        BY <1>2, <4>1
    <3>2. CASE ~(i <= Len(chain))
      <4>1. i - Len(chain) \in 1 .. Len(more) /\ nodes[i] = more[i - Len(chain)]
        BY <1>2, <2>1, <2>2, <3>2
      <4> QED
        BY <1>5, <4>1
    <3> QED
      BY <3>1, <3>2
  <2> QED
    BY <1>2, <2>1, <2>2, <2>3
<1>7. BestFirst(rows, nodes) /\ slots = << << >> >> \o nodes
  BY <1>4
<1> HIDE DEF nodes
<1>8. /\ slots \in Seq(Seq(Token)) /\ Len(slots) = Len(nodes) + 1 /\ slots[1] = << >>
      /\ \A i \in 1 .. Len(nodes) : slots[i + 1] = nodes[i]
  <2> DEFINE root == << >>
             S == Seq(Token)
  <2>1. root \in S /\ nodes \in Seq(S) /\ slots = <<root>> \o nodes
    BY <1>6, <1>7
  <2> HIDE DEF root, S
  <2>2. /\ <<root>> \o nodes \in Seq(S) /\ Len(<<root>> \o nodes) = Len(nodes) + 1
        /\ (<<root>> \o nodes)[1] = root
        /\ \A i \in 1 .. Len(nodes) : (<<root>> \o nodes)[i + 1] = nodes[i]
    BY <2>1, Below1
  <2> QED
    BY <2>1, <2>2 DEF root, S
<1>9. Range(slots) = {<< >>} \cup {nodes[i] : i \in 1 .. Len(nodes)}
  <2>1. DOMAIN slots = 1 .. Len(nodes) + 1
    BY <1>8, LenProperties
  <2>2. ASSUME NEW p \in Range(slots) PROVE p = << >> \/ \E i \in 1 .. Len(nodes) : p = nodes[i]
    <3>1. PICK k \in 1 .. Len(nodes) + 1 : p = slots[k]
      BY <2>1 DEF Range
    <3>2. CASE k = 1
      BY <1>8, <3>1, <3>2
    <3>3. CASE k # 1
      <4>1. k - 1 \in 1 .. Len(nodes) /\ k - 1 + 1 = k
        BY <1>6, <3>3
      <4> QED
        BY <1>8, <3>1, <4>1
    <3> QED
      BY <3>2, <3>3
  <2>3. << >> \in Range(slots)
    <3>1. 1 \in DOMAIN slots
      BY <1>6, <2>1
    <3> QED
      BY <1>8, <3>1 DEF Range
  <2>4. ASSUME NEW i \in 1 .. Len(nodes) PROVE nodes[i] \in Range(slots)
    <3>1. i + 1 \in DOMAIN slots
      BY <1>6, <2>1
    <3> QED
      BY <1>8, <3>1 DEF Range
  <2> QED
    BY <2>2, <2>3, <2>4
<1>10. ASSUME NEW p \in Range(slots) PROVE Len(p) <= b /\ (p # << >> => Front(p) \in Range(slots))
  <2>1. CASE p = << >>
    <3>1. Len(<< >>) = 0
      OBVIOUS
    <3> QED
      BY <2>1, <3>1
  <2>2. CASE p # << >>
    <3>1. PICK k \in 1 .. Len(nodes) : p = nodes[k]
      BY <1>9, <2>2
    <3>2. k \in DOMAIN nodes
      BY <1>6, LenProperties
    <3>3. Front(nodes[k]) \in {nodes[i] : i \in 1 .. k - 1} \cup {<< >>}
      BY <1>7, <3>2 DEF BestFirst
    <3>4. \A i \in 1 .. k - 1 : i \in 1 .. Len(nodes)
      BY <1>6
    <3>5. Front(p) \in Range(slots)
      BY <1>9, <3>1, <3>3, <3>4
    <3> QED
      BY <1>6, <3>1, <3>5
  <2> QED
    BY <2>1, <2>2
<1>11. << >> \in Range(slots)
  BY <1>9
<1> QED
  BY <1>8, <1>10, <1>11 DEF TreeOf

LEMMA BeginTreeKeeps ==
  ASSUME DecodeInv, BeginTree, run.mode = "ddtree"
  PROVE  DecodeInv'
<1> DEFINE len == TreeBlockLength
           count == VerifyCount(len)
           budget == count - 1
<1>1. /\ len > 1 /\ budget > 0
      /\ \E rows \in [1 .. budget -> TopTokens] : \E slots \in FlatTrees(rows, budget) :
           Launch({}, slots, "dflash")
  BY DEF BeginTree
<1>2. PICK rows \in [1 .. budget -> TopTokens] : \E slots \in FlatTrees(rows, budget) :
           Launch({}, slots, "dflash")
  BY <1>1
<1>3. PICK slots \in FlatTrees(rows, budget) : Launch({}, slots, "dflash")
  BY <1>2
<1>4. len \in Nat \ {0}
  <2>1. Done < run.max
    BY <1>3 DEF Launch, Done
  <2> QED
    BY <1>1, <2>1, TreeBlockFits, OutputFacts, BlockAssumption DEF DecodeInv
<1>5. budget \in Nat \ {0} /\ budget <= len - 1 /\ len - 1 \in Nat
  <2>1. count \in 1 .. len
    BY <1>4, VerifyFits DEF DecodeInv
  <2> HIDE DEF count, len
  <2> QED
    BY <1>1, <1>4, <2>1
<1> HIDE DEF budget
<1>6. TreeOf(slots, budget)
  BY <1>5, FlatTreeIsTree
<1>7. TreeOf(slots, len - 1)
  <2>1. ASSUME NEW p \in Range(slots) PROVE Len(p) <= len - 1
    <3>1. Len(p) \in 0 .. budget
      BY <1>5, <1>6, SlotPaths
    <3> HIDE DEF len
    <3> QED
      BY <1>4, <1>5, <3>1
  <2> HIDE DEF len
  <2> QED
    BY <1>6, <2>1 DEF TreeOf
<1>8. Launched({}, slots, "dflash")
  BY <1>3, <1>7 DEF Launched, Sources, Staged
<1> QED
  BY <1>8, LaunchKeeps


\* A committed part of the continuation, in the words of the tree loop.
LEMMA TreeCommits ==
  ASSUME DecodeInv, pc = "verify", run.mode = "ddtree",
         NEW size \in 1 .. FullBlock, Done + size <= run.max,
         NEW committed \in Seq(Token), Len(committed) = size,
         committed = SubSeq(greedy, Held + 1, Held + size), cache.kv \o committed = Text(Held + size),
         NEW accepted \in Nat, NEW next \in Token, next = greedy[Held + size + 1],
         NEW features \in Seq(Nat), Commit(committed, accepted, next, features),
         cache' \in Caches, cache'.saved = NoCheckpoint, Reads(cache', Held + size)
  PROVE  DecodeInv' /\ start < start'
<1>1. /\ start' = start + Len(committed) /\ hidden' = features /\ row' = cache.kv \o committed
      /\ index' = index \o committed /\ pc' = "emit"
      /\ block' = [block EXCEPT !.todo = committed, !.committed = committed,
                                !.accepted = accepted, !.next = next]
      /\ UNCHANGED <<fixed, emitted, policy, gate, drafts, staged, published>>
  BY DEF Commit
<1>2. /\ block' \in Blocks /\ block'.committed = committed /\ block'.todo = committed
      /\ block'.next = next
  <2>1. block \in Blocks
    BY DEF DecodeInv, Typed
  <2> QED
    BY <1>1, <2>1 DEF Blocks
<1>3. index' \in Seq(Token)
  BY <1>1, ConcatProperties DEF DecodeInv, Typed
<1>4. UNCHANGED <<request, session, stream, generated, unskipped, prefetched, staged>>
  BY <1>1 DEF fixed, emitted, drafts
<1>5. Commits(size, committed)
  BY <1>1, <1>2, <1>3, <1>4 DEF Commits
<1> QED
  BY <1>5, CommitKeeps

LEMMA VerifyBatchKeeps ==
  ASSUME DecodeInv, VerifyBatch, run.mode = "ddtree"
  PROVE  DecodeInv' /\ start < start'
<1>1. PICK wrong \in Token \ Suppressed :
        \E best \in Best({Result(c, wrong) : c \in candidates}) :
          LET committed == SubSeq(best.ids, 1, 1 + best.accepted)
          IN /\ Commit(committed, best.accepted, best.posterior[best.accepted + 1],
                       Positions(start, start + Len(committed)))
             /\ cache' = Restore(best.cache, start', best.accepted, Len(best.ids) - 1)
  BY DEF VerifyBatch
<1>2. PICK best \in Best({Result(c, wrong) : c \in candidates}) :
        LET committed == SubSeq(best.ids, 1, 1 + best.accepted)
        IN /\ Commit(committed, best.accepted, best.posterior[best.accepted + 1],
                     Positions(start, start + Len(committed)))
           /\ cache' = Restore(best.cache, start', best.accepted, Len(best.ids) - 1)
  BY <1>1
<1>3. PICK c \in candidates : best = Result(c, wrong)
  <2> DEFINE results == {Result(c, wrong) : c \in candidates}
  <2>1. best \in results
    <3> HIDE DEF results
    <3> QED
      BY <1>2 DEF Best, results
  <2> QED
    BY <2>1
<1> DEFINE tokens == c.ids
           posterior == Posterior(Arm(cache), tokens, wrong)
           a == AcceptanceLength(Tail(tokens), posterior)
           committed == SubSeq(tokens, 1, 1 + a)
           next == posterior[a + 1]
           to == start + Len(committed)
           pass == Forward(Arm(cache), tokens)
           kept == Restore(pass, to, a, Len(tokens) - 1)
<1>4. /\ best.ids = tokens /\ best.posterior = posterior /\ best.accepted = a /\ best.cache = pass
  <2> HIDE DEF posterior, a, pass
  <2>1. Result(c, wrong) = [source |-> c.source, ids |-> c.ids, posterior |-> posterior,
                            accepted |-> a, cache |-> pass]
    BY DEF Result, posterior, a, pass
  <2> QED
    BY <1>3, <2>1
<1>5. Commit(committed, a, next, Positions(start, to)) /\ start' = to
  <2> HIDE DEF posterior, a
  <2>1. Commit(committed, a, next, Positions(start, to))
    BY <1>2, <1>4
  <2> QED
    BY <2>1 DEF Commit
<1>6. cache' = kept
  <2> HIDE DEF posterior, a, pass, to
  <2> QED
    BY <1>2, <1>4, <1>5
<1>7. pc = "verify" /\ tokens \in Seq(Token) /\ tokens # << >> /\ tokens[1] = staged
      /\ Len(tokens) <= block.len
  BY DEF VerifyBatch, DecodeInv, Planned
<1>8. /\ a \in Nat /\ 1 + a \in 1 .. FullBlock /\ Done + (1 + a) <= run.max
      /\ committed \in Seq(Token) /\ Len(committed) = 1 + a
      /\ committed = SubSeq(greedy, Held + 1, Held + (1 + a))
      /\ next = greedy[Held + (1 + a) + 1] /\ next \in Token
      /\ kept \in Caches /\ kept.saved = NoCheckpoint /\ Reads(kept, Held + (1 + a))
      /\ cache.kv \o committed = Text(Held + (1 + a))
      /\ Positions(start, to) \in Seq(Nat)
  <2> HIDE DEF tokens
  <2> QED
    BY <1>7, PassCommits
<1> DEFINE size == 1 + a
           features == Positions(start, to)
<1> HIDE DEF tokens, posterior, a, committed, next, to, pass, kept
<1>9. /\ size \in 1 .. FullBlock /\ Done + size <= run.max /\ Len(committed) = size
      /\ committed = SubSeq(greedy, Held + 1, Held + size)
      /\ cache.kv \o committed = Text(Held + size)
      /\ next = greedy[Held + size + 1] /\ features \in Seq(Nat)
      /\ Commit(committed, a, next, features)
      /\ cache' \in Caches /\ cache'.saved = NoCheckpoint /\ Reads(cache', Held + size)
  <2>1. Reads(cache', Held + size)
    BY <1>6, <1>8
  <2> QED
    BY <1>5, <1>6, <1>8, <2>1
<1> HIDE DEF size, features
<1> QED
  BY <1>7, <1>8, <1>9, TreeCommits

\* Keeping the slots of a path appends its tokens to both kinds of cache.
LEMMA KeptPath ==
  ASSUME NEW c \in Caches, c.saved = NoCheckpoint, NEW tokens, NEW slots, NEW k \in Seq(Token),
         Along(tokens, slots, k)
  PROVE  LET d == KeepSlots(c, tokens, slots)
         IN d \in Caches /\ d.saved = NoCheckpoint /\ d.kv = c.kv \o k /\ d.rec = c.rec \o k
<1>1. PICK kv \in Seq(Token), r \in Seq(Token), s \in [armed : BOOLEAN, rec : Seq(Token)],
           t \in Seq(Token) : c = [kv |-> kv, rec |-> r, saved |-> s, tape |-> t]
  BY DEF Caches
<1> DEFINE x == kv \o k
           y == r \o k
           d == [c EXCEPT !.kv = x]
           e == [d EXCEPT !.rec = y]
<1>2. x \in Seq(Token) /\ y \in Seq(Token)
  BY ConcatProperties
<1>3. c.kv = kv /\ c.rec = r /\ c.saved = s
  BY <1>1
<1> HIDE DEF x, y
<1>4. d = [kv |-> x, rec |-> r, saved |-> s, tape |-> t]
  BY <1>1
<1>5. d.rec = r
  <2> HIDE DEF d
  <2> QED
    BY <1>4
<1>6. KeepSlots(c, tokens, slots) = e
  <2> DEFINE kept == [i \in DOMAIN slots |-> tokens[slots[i]]]
  <2>1. KeepSlots(c, tokens, slots) = [c EXCEPT !.kv = c.kv \o kept, !.rec = c.rec \o kept]
    BY DEF KeepSlots
  <2>2. kept = k
    <3>1. k \in [1 .. Len(k) -> Token]
      BY LenProperties
    <3> QED
      BY <3>1 DEF Along
  <2> HIDE DEF kept
  <2>3. c.kv \o kept = x /\ c.rec \o kept = y
    BY <1>3, <2>2 DEF x, y
  <2> QED
    BY <2>1, <2>3
<1>7. e = [kv |-> x, rec |-> y, saved |-> s, tape |-> t]
  <2> HIDE DEF d
  <2> QED
    BY <1>4
<1> HIDE DEF e
<1> QED
  BY <1>2, <1>3, <1>6, <1>7 DEF Caches, x, y

LEMMA VerifyTreeKeeps ==
  ASSUME DecodeInv, VerifyTree, run.mode = "ddtree"
  PROVE  DecodeInv' /\ start < start' /\ hidden' = Positions(start, start')
<1> DEFINE Answer(wrong) == [p \in Range(tree) |-> Last(Posterior(cache, <<staged>> \o p, wrong))]
           tokens == [s \in DOMAIN tree |-> IF tree[s] = << >> THEN staged ELSE Last(tree[s])]
<1>1. PICK wrong \in Token \ Suppressed :
        LET answer == Answer(wrong)
            path == AcceptedPath(tree, answer)
            slots == SlotsOf(tree, path)
        IN /\ Commit(<<staged>> \o path, Len(path), answer[path],
                     [i \in DOMAIN slots |-> start + Len(tree[slots[i]]) + 1])
           /\ cache' = KeepSlots(cache, tokens, slots)
  BY DEF VerifyTree
<1> DEFINE answer == Answer(wrong)
           path == AcceptedPath(tree, answer)
           slots == SlotsOf(tree, path)
           committed == <<staged>> \o path
           features == [i \in DOMAIN slots |-> start + Len(tree[slots[i]]) + 1]
           next == answer[path]
<1>2. /\ Commit(committed, Len(path), next, features) /\ cache' = KeepSlots(cache, tokens, slots)
      /\ pc = "verify" /\ tree # << >>
  BY <1>1 DEF VerifyTree
<1>3. /\ Reach /\ cache \in Caches /\ staged \in Token /\ Held \in Nat /\ start \in Nat
      /\ Reads(cache, Held) /\ cache.saved = NoCheckpoint
      /\ block.len \in 1 .. FullBlock /\ Held + block.len <= run.max /\ Done = Held
      /\ staged = greedy[Held + 1] /\ TreeOf(tree, block.len - 1)
  BY <1>2 DEF DecodeInv, Typed, Planned, TextRead, Between, Loop
<1>0. PICK m \in Nat, n \in Nat : m = Held /\ n = block.len - 1
  BY <1>3, BlockAssumption
<1>4. /\ TreeOf(tree, n) /\ Reads(cache, m) /\ staged = greedy[m + 1] /\ Done = m
      /\ n + 1 <= FullBlock /\ m + n + 1 <= run.max
  BY <1>0, <1>3, BlockAssumption
<1>5. /\ run.max \in Nat /\ Len(greedy) \in Nat /\ run.max + 1 <= Len(greedy) /\ FullBlock \in Nat
  BY LimitFacts, BlockAssumption DEF DecodeInv
<1>6. m + n + 1 < Len(greedy)
  BY <1>4, <1>5
<1>7. AnswersOf(answer, cache, tree, staged, wrong) /\ TokensOf(tokens, tree, staged)
  BY DEF AnswersOf, TokensOf
<1> HIDE DEF answer, tokens, Answer
<1>8. /\ path \in Range(tree) /\ committed = SubSeq(greedy, m + 1, m + 1 + Len(path))
      /\ next = greedy[m + Len(path) + 2]
  <2> DEFINE first == staged
  <2>1. first \in Token /\ first = greedy[m + 1]
    BY <1>3, <1>4
  <2>2. AnswersOf(answer, cache, tree, first, wrong)
    BY <1>7
  <2> HIDE DEF first
  <2>3. /\ path \in Range(tree)
        /\ <<first>> \o path = SubSeq(greedy, m + 1, m + 1 + Len(path))
        /\ answer[path] = greedy[m + Len(path) + 2]
    <3>1. Reach /\ m \in Nat /\ n \in Nat /\ Reads(cache, m) /\ TreeOf(tree, n)
      BY <1>3, <1>4
    <3>2. GreedyPath(tree, answer, m, first)
      BY <1>6, <2>1, <2>2, <3>1, VerifiedPath
    <3> QED
      BY <3>2 DEF GreedyPath
  <2> HIDE DEF path
  <2> QED
    BY <2>3 DEF first
<1> HIDE DEF path
<1>9. path \in Seq(Token) /\ Len(path) \in Nat /\ Len(path) <= n
  <2>1. TreeOf(tree, n) /\ path \in Range(tree) /\ n \in Nat
    BY <1>4, <1>8
  <2>2. path \in Seq(Token) /\ Len(path) \in 0 .. n
    BY <2>1, SlotPaths
  <2> QED
    BY <2>2
<1>10. /\ DOMAIN slots = 1 .. Len(path) + 1
       /\ \A i \in 1 .. Len(path) + 1 : Len(tree[slots[i]]) = i - 1
       /\ Along(tokens, slots, committed)
  <2> DEFINE first == staged
  <2>1. first \in Token
    BY <1>3
  <2> HIDE DEF first
  <2>2. TokensOf(tokens, tree, first)
    BY <1>7 DEF first
  <2> HIDE DEF first
  <2>3. /\ DOMAIN slots = 1 .. Len(path) + 1 /\ Along(tokens, slots, <<first>> \o path)
        /\ \A i \in 1 .. Len(path) + 1 : /\ slots[i] \in DOMAIN tree
                                         /\ tree[slots[i]] = SubSeq(path, 1, i - 1)
                                         /\ Len(tree[slots[i]]) = i - 1
    BY <1>4, <1>8, <2>1, <2>2, KeptSlots
  <2> HIDE DEF slots
  <2> QED
    BY <2>3 DEF first
<1> HIDE DEF slots, tokens
<1>11. committed \in Seq(Token) /\ Len(committed) = Len(path) + 1
  BY <1>3, <1>9, Below1
<1> DEFINE size == Len(path) + 1
<1>12. /\ size \in Nat /\ size \in 1 .. FullBlock /\ m + size <= run.max /\ m + size <= Len(greedy)
       /\ m + 1 + Len(path) = m + size /\ m + Len(path) + 2 = m + size + 1
       /\ m + size + 1 \in 1 .. Len(greedy)
  <2> DEFINE k == Len(path)
  <2>1. k \in Nat /\ k <= n
    BY <1>9
  <2> HIDE DEF k
  <2>2. LET z == k + 1
        IN /\ z \in Nat /\ z \in 1 .. FullBlock /\ m + z <= run.max /\ m + z <= Len(greedy)
           /\ m + 1 + k = m + z /\ m + k + 2 = m + z + 1 /\ m + z + 1 \in 1 .. Len(greedy)
    BY <1>4, <1>5, <2>1
  <2> QED
    BY <2>2 DEF k
<1>13. features \in Seq(Nat)
  <2>1. \A i \in 1 .. size : start + Len(tree[slots[i]]) + 1 \in Nat
    BY <1>3, <1>10, <1>12
  <2> DEFINE F(i) == start + Len(tree[slots[i]]) + 1
  <2>2. features = [i \in 1 .. size |-> F(i)] /\ \A i \in 1 .. size : F(i) \in Nat
    BY <1>10, <2>1
  <2> HIDE DEF F, size, features
  <2> QED
    BY <1>12, <2>2, IsASeq
<1>21. features = Positions(start, start + size)
  <2> DEFINE F(i) == start + Len(tree[slots[i]]) + 1
  <2>1. ASSUME NEW i \in 1 .. size PROVE start + Len(tree[slots[i]]) + 1 = start + i
    <3>1. Len(tree[slots[i]]) = i - 1
      BY <1>10
    <3>2. i \in Nat /\ start \in Nat
      BY <1>3, <1>12
    <3> QED
      BY <3>1, <3>2
  <2>2. features = [i \in 1 .. size |-> F(i)] /\ \A i \in 1 .. size : F(i) = start + i
    BY <1>10, <2>1
  <2>3. (start + size) - start = size
    BY <1>3, <1>12
  <2> HIDE DEF F, size, features
  <2> DEFINE to == start + size
  <2> HIDE DEF to
  <2>4. to - start = size
    BY <2>3 DEF to
  <2>5. Positions(start, to) = [i \in 1 .. to - start |-> start + i]
    BY DEF Positions
  <2>6. Positions(start, to) = [i \in 1 .. size |-> start + i]
    BY <2>4, <2>5
  <2> QED
    BY <2>2, <2>6 DEF to
<1> HIDE DEF features
<1>14. /\ committed = SubSeq(greedy, m + 1, m + size) /\ next = greedy[m + size + 1]
       /\ Len(committed) = size
  BY <1>8, <1>11, <1>12
<1>15. next \in Token
  BY <1>3, <1>12, <1>14, Continuation
<1>20. committed \in Seq(Token) /\ Along(tokens, slots, committed)
  BY <1>10, <1>11
<1> HIDE DEF committed, next
<1>16. Text(m) \o committed = Text(m + size)
  <2>1. m <= m + size /\ m + size \in Nat
    BY <1>12
  <2> HIDE DEF size
  <2> QED
    BY <1>3, <1>12, <1>14, <2>1, TextGrows
<1>17. /\ cache' \in Caches /\ cache'.saved = NoCheckpoint /\ Reads(cache', m + size)
       /\ cache.kv \o committed = Text(m + size)
  <2>1. /\ cache' \in Caches /\ cache'.saved = NoCheckpoint
        /\ cache'.kv = cache.kv \o committed /\ cache'.rec = cache.rec \o committed
    <3>1. cache' = KeepSlots(cache, tokens, slots) /\ cache \in Caches /\ cache.saved = NoCheckpoint
      BY <1>2, <1>3
    <3>2. LET d == KeepSlots(cache, tokens, slots)
          IN /\ d \in Caches /\ d.saved = NoCheckpoint
             /\ d.kv = cache.kv \o committed /\ d.rec = cache.rec \o committed
      BY <1>20, <3>1, KeptPath
    <3> QED
      BY <3>1, <3>2
  <2>2. cache.kv = Text(m) /\ cache.rec = Text(m)
    BY <1>4 DEF Reads
  <2> QED
    BY <1>16, <2>1, <2>2 DEF Reads
<1> DEFINE a == Len(path)
<1>18. a \in Nat /\ Commit(committed, a, next, features)
  BY <1>2, <1>9
<1> HIDE DEF size, a
<1>19. /\ Done + size <= run.max
       /\ committed = SubSeq(greedy, Held + 1, Held + size)
       /\ cache.kv \o committed = Text(Held + size)
       /\ next = greedy[Held + size + 1]
       /\ Reads(cache', Held + size)
  BY <1>0, <1>3, <1>12, <1>14, <1>17
<1>22. DecodeInv' /\ start < start'
  BY <1>2, <1>12, <1>13, <1>14, <1>15, <1>17, <1>18, <1>19, <1>20, TreeCommits
<1>23. start' = start + size /\ hidden' = features
  BY <1>14, <1>18 DEF Commit
<1> QED
  BY <1>21, <1>22, <1>23


-----------------------------------------------------------------------------
(* Every step keeps it *)

LEMMA DecodeInvFirst == Init => DecodeInv
<1> SUFFICES ASSUME Init PROVE DecodeInv
  OBVIOUS
<1>1. /\ run \in Runs /\ greedy \in Continuations /\ session = NoSession /\ active = TRUE
      /\ pc = "open" /\ block = NoBlock /\ stream = << >> /\ generated = << >> /\ unskipped = FALSE
      /\ start = Len(Prompt) /\ staged = Prompt[1] /\ cache = ColdCache /\ hidden = << >>
      /\ prefetched = NoDraft /\ index = Prompt /\ row = << >>
  BY DEF Init
<1>2. Reach
  BY <1>1 DEF Reach
<1>3. Done = 0 /\ Held = 0 /\ Len(stream) = 0
  BY <1>1, PromptFacts DEF Done, Held
<1>4. Typed
  BY <1>1, <1>2, <1>3, Constants, PromptFacts DEF Typed
<1>5. Places /\ Fresh /\ PromptRead /\ TextRead /\ Between /\ Planned /\ Committed /\ Alone
      /\ EndsRight
  BY <1>1, <1>3 DEF Places, Fresh, PromptRead, TextRead, Between, Planned, Committed, Alone,
     EndsRight, Loop, Reading, Endings
<1>6. Output /\ Ahead
  <2>1. SubSeq(greedy, 1, 0) = << >>
    BY SubSeqEmpty
  <2>2. Limit \in Nat
    BY <1>4, LimitFacts
  <2> QED
    BY <1>1, <1>3, <2>1, <2>2 DEF Output, Ahead
<1> QED
  BY <1>4, <1>5, <1>6 DEF DecodeInv

LEMMA PrefillKeeps ==
  ASSUME DecodeInv, Prefill
  PROVE  DecodeInv'
<1> QED
  BY OpenKeeps, ChunkKeeps, SeamKeeps, PublishPromptKeeps, PrefillTailKeeps, CompleteKeeps
     DEF Prefill

LEMMA TargetOnlyKeeps ==
  ASSUME DecodeInv, TargetOnly
  PROVE  DecodeInv'
<1> QED
  BY TargetPrefillKeeps, TargetTokenKeeps, TargetStepKeeps DEF TargetOnly

LEMMA LinearCycleKeeps ==
  ASSUME DecodeInv, LinearCycle, run.mode = "dflash"
  PROVE  DecodeInv'
<1> QED
  BY BeginPlainKeeps, BeginPrefetchedKeeps, BeginDraftedKeeps, VerifyKeeps, RecordKeeps,
     PrefetchKeeps DEF LinearCycle

LEMMA TreeCycleKeeps ==
  ASSUME DecodeInv, TreeCycle, run.mode = "ddtree"
  PROVE  DecodeInv'
<1> QED
  BY BeginSingleKeeps, BeginCopiedKeeps, BeginBatchKeeps, BeginTreeKeeps, DraftRaisesKeeps,
     VerifyBatchKeeps, VerifyTreeKeeps DEF TreeCycle

LEMMA StreamKeeps ==
  ASSUME DecodeInv, Stream
  PROVE  DecodeInv'
<1> QED
  BY YieldFirstKeeps, EmitKeeps, EndCycleKeeps, LimitReachedKeeps, PublishSnapshotKeeps, CloseKeeps
     DEF Stream

LEMMA StutterKeeps ==
  ASSUME DecodeInv, UNCHANGED treeVars
  PROVE  DecodeInv'
<1>1. /\ run' = run /\ greedy' = greedy /\ session' = session /\ pc' = pc /\ active' = active
      /\ stream' = stream /\ generated' = generated /\ unskipped' = unskipped
      /\ start' = start /\ hidden' = hidden /\ policy' = policy /\ index' = index
      /\ cache' = cache /\ row' = row /\ prefetched' = prefetched /\ staged' = staged
      /\ block' = block /\ candidates' = candidates /\ tree' = tree
  BY DEF treeVars, vars, fixed, request, emitted, verified, steering, drafts, proposed
<1>2. Typed' /\ Places' /\ Fresh' /\ PromptRead'
  BY <1>1 DEF DecodeInv, Typed, Reach, Places, Fresh, PromptRead, Done, Held
<1>3. TextRead' /\ Between' /\ Alone'
  BY <1>1 DEF DecodeInv, TextRead, Between, Alone, Reads, Text, Done, Held, NoStop, Limit
<1>4. Planned' /\ Committed'
  BY <1>1 DEF DecodeInv, Planned, Committed, TreeOf, Done, Held, NoStop
<1>5. Output' /\ Ahead' /\ EndsRight'
  BY <1>1 DEF DecodeInv, Output, Ahead, EndsRight, Done, Held, Limit, BlockLength
<1> QED
  BY <1>2, <1>3, <1>4, <1>5 DEF DecodeInv

LEMMA DecodeInvStep == DecodeInv /\ [Next]_treeVars => DecodeInv'
<1> SUFFICES ASSUME DecodeInv, Next \/ UNCHANGED treeVars PROVE DecodeInv'
  OBVIOUS
<1>1. CASE Decode
  BY <1>1, TreeCycleKeeps, LinearCycleKeeps, StreamKeeps DEF Decode
<1> QED
  BY <1>1, PrefillKeeps, TargetOnlyKeeps, RetireKeeps, StutterKeeps DEF Next, Advance

LEMMA AlwaysDecode == Spec => []DecodeInv
  BY DecodeInvFirst, DecodeInvStep, PTL DEF Spec

-----------------------------------------------------------------------------
(* What is handed out is the target's greedy continuation *)

Ended ==
  IF pc \in {"closing", "closed"} THEN "closed"
  ELSE IF pc = "finished" THEN "finished"
  ELSE IF pc \in {"raising", "raised"} THEN "failed" ELSE "no"

\* A step of greedy decoding, or none.
GreedyStep ==
  [Greedy!Next]_<<greedy, Limit, stream,
                  IF pc \in {"closing", "closed"} THEN "closed"
                  ELSE IF pc = "finished" THEN "finished"
                  ELSE IF pc \in {"raising", "raised"} THEN "failed" ELSE "no">>

LEMMA Silent ==
  ASSUME UNCHANGED <<run, greedy, stream>>,
         Ended' = Ended \/ (Ended = "no" /\ Ended' \in {"closed", "failed"})
  PROVE  GreedyStep
<1>1. Limit' = Limit
  BY DEF Limit
<1>2. CASE Ended' = Ended
  BY <1>1, <1>2 DEF GreedyStep, Ended
<1>3. CASE Ended = "no" /\ Ended' = "closed"
  <2>1. Greedy!Close
    BY <1>1, <1>3 DEF Greedy!Close, Ended
  <2> QED
    BY <2>1 DEF GreedyStep, Greedy!Next
<1>4. CASE Ended = "no" /\ Ended' = "failed"
  <2>1. Greedy!Fail
    BY <1>1, <1>4 DEF Greedy!Fail, Ended
  <2> QED
    BY <2>1 DEF GreedyStep, Greedy!Next
<1> QED
  BY <1>2, <1>3, <1>4

\* A token is handed out no further than a block after a stop token.
LEMMA HandedOut ==
  ASSUME DecodeInv, UNCHANGED <<run, greedy>>, Ended = "no", Ended' \in {"no", "closed"},
         Len(stream) < Limit, NEW n \in Nat, NoStop(n), Len(stream) - (FullBlock - 1) <= n,
         stream' = Append(stream, greedy[Len(stream) + 1])
  PROVE  GreedyStep
<1>1. Limit' = Limit
  BY DEF Limit
<1>2. ~Greedy!StoppedBefore(FullBlock - 1)
  <2> SUFFICES ASSUME NEW i \in 1 .. Len(stream) - (FullBlock - 1) PROVE stream[i] \notin Stop
    BY DEF Greedy!StoppedBefore
  <2>1. Len(stream) \in Nat /\ FullBlock \in Nat \ {0} /\ stream[i] = greedy[i]
    <3>1. Len(stream) \in Nat /\ FullBlock \in Nat \ {0}
      BY OutputFacts, BlockAssumption DEF DecodeInv
    <3>2. i \in 1 .. Len(stream)
      BY <3>1
    <3> QED
      BY <3>1, <3>2, OutputFacts DEF DecodeInv
  <2>2. i \in 1 .. n
    BY <2>1
  <2> QED
    BY <2>1, <2>2 DEF NoStop
<1>3. Greedy!Emit
  BY <1>1, <1>2 DEF Greedy!Emit, Ended
<1> QED
  BY <1>3 DEF GreedyStep, Greedy!Next

LEMMA PrefillIsGreedy ==
  ASSUME DecodeInv, Prefill \/ TargetPrefill \/ TargetStep \/ Retire \/ UNCHANGED treeVars
  PROVE  GreedyStep
<1>1. CASE Prefill
  <2>1. UNCHANGED <<run, greedy, stream>>
    BY <1>1 DEF Prefill, Open, Chunk, Seam, PublishPrompt, PrefillTail, Complete, request, fixed,
       decoding, emitted
  <2>2. pc \in {"open"} \cup Reading /\ pc' \in {"first", "closing", "raising"} \cup Reading
    BY <1>1 DEF Prefill, Open, Chunk, Seam, PublishPrompt, PrefillTail, Complete, Resume, Reading
  <2> QED
    BY <2>1, <2>2, Silent DEF Ended, Reading
<1>2. CASE TargetPrefill \/ TargetStep
  <2>1. UNCHANGED <<run, greedy, stream>>
    BY <1>2 DEF TargetPrefill, TargetStep, request, fixed, decoding, emitted
  <2>2. pc \in {"open", "step"} /\ pc' \in {"token", "ending", "closing"}
    BY <1>2 DEF TargetPrefill, TargetStep, Resume
  <2> QED
    BY <2>1, <2>2, Silent DEF Ended
<1>3. CASE Retire \/ UNCHANGED treeVars
  <2>1. UNCHANGED <<run, greedy, stream, pc>>
    BY <1>3 DEF Retire, treeVars, vars, fixed, request, decoding, emitted
  <2> QED
    BY <2>1, Silent DEF Ended
<1> QED
  BY <1>1, <1>2, <1>3

LEMMA CycleIsGreedy ==
  ASSUME LinearCycle \/ TreeCycle
  PROVE  GreedyStep
<1>1. CASE LinearCycle
  <2>1. UNCHANGED <<run, greedy, stream>> /\ pc \in Loop /\ pc' \in Loop
    BY <1>1 DEF LinearCycle, BeginPlain, BeginPrefetched, BeginDrafted, Begin, Verify, Record,
       Prefetch, fixed, request, emitted, Loop
  <2> QED
    BY <2>1, Silent DEF Ended, Loop
<1>2. CASE TreeCycle
  <2>1. /\ UNCHANGED <<run, greedy, stream>> /\ pc \in {"cycle", "verify"}
        /\ pc' \in {"verify", "emit", "raising"}
    BY <1>2 DEF TreeCycle, BeginSingle, BeginCopied, BeginBatch, BeginTree, Launch, DraftRaises,
       VerifyBatch, VerifyTree, Commit, fixed, request, emitted
  <2> QED
    BY <2>1, Silent DEF Ended
<1> QED
  BY <1>1, <1>2

LEMMA TargetTokenIsGreedy ==
  ASSUME DecodeInv, TargetToken
  PROVE  GreedyStep
<1>1. /\ pc = "token" /\ pc' \in {"step", "closing"} /\ stream' = Append(stream, staged)
      /\ run' = run /\ greedy' = greedy /\ run.mode = "target"
  BY DEF TargetToken, Resume, fixed, request, DecodeInv, Places
<1>2. /\ Done < Limit /\ staged = greedy[Done + 1] /\ NoStop(Done) /\ Len(stream) = Done
      /\ Done \in Nat /\ FullBlock \in Nat \ {0}
  BY <1>1, OutputFacts, BlockAssumption DEF DecodeInv, Alone, Output
<1>3. Len(stream) - (FullBlock - 1) <= Done
  BY <1>2
<1>4. Ended = "no" /\ Ended' \in {"no", "closed"}
  BY <1>1 DEF Ended
<1> DEFINE n == Done
<1>5. /\ n \in Nat /\ NoStop(n) /\ Len(stream) - (FullBlock - 1) <= n /\ Len(stream) < Limit
      /\ stream' = Append(stream, greedy[Len(stream) + 1])
  BY <1>1, <1>2, <1>3
<1> HIDE DEF n
<1> QED
  BY <1>1, <1>4, <1>5, HandedOut

LEMMA YieldFirstIsGreedy ==
  ASSUME DecodeInv, YieldFirst
  PROVE  GreedyStep
<1>1. /\ pc = "first" /\ run' = run /\ greedy' = greedy /\ pc' \in {"cycle", "closing", "snapshot"}
      /\ run.max \in Nat
  BY LimitFacts DEF YieldFirst, Resume, request, DecodeInv
<1>2. Ended = "no" /\ Ended' \in {"no", "closed"}
  BY <1>1 DEF Ended
<1>3. CASE run.max > 0
  <2>1. stream' = <<staged>>
    BY <1>3 DEF YieldFirst
  <2>2. /\ Len(stream) = 0 /\ stream \in Seq(Token) /\ staged = greedy[1] /\ NoStop(0)
        /\ Limit = run.max /\ FullBlock \in Nat \ {0}
    BY <1>1, <1>3, LimitFacts, BlockAssumption DEF DecodeInv, Fresh, Output, Between, Typed
  <2>3. stream' = Append(stream, greedy[Len(stream) + 1])
    <3>1. stream = << >>
      BY <2>2
    <3> QED
      BY <2>1, <2>2, <3>1
  <2> DEFINE n == 0
  <2>4. n \in Nat /\ NoStop(n) /\ Len(stream) - (FullBlock - 1) <= n /\ Len(stream) < Limit
    BY <1>1, <1>3, <2>2
  <2> HIDE DEF n
  <2> QED
    BY <1>1, <1>2, <2>3, <2>4, HandedOut
<1>4. CASE ~(run.max > 0)
  <2>1. stream' = stream
    BY <1>4 DEF YieldFirst
  <2> QED
    BY <1>1, <1>2, <2>1, Silent
<1> QED
  BY <1>3, <1>4

LEMMA EmitIsGreedy ==
  ASSUME DecodeInv, Emit
  PROVE  GreedyStep
<1>1. /\ pc = "emit" /\ pc' \in {"emit", "closing"} /\ block.todo # << >> /\ Done < run.max
      /\ stream' = IF unskipped THEN stream ELSE Append(stream, Head(block.todo))
      /\ run' = run /\ greedy' = greedy
  BY DEF Emit, Resume, Done, fixed, request
<1>2. Ended = "no" /\ Ended' \in {"no", "closed"}
  BY <1>1 DEF Ended
<1>3. CASE unskipped
  BY <1>1, <1>2, <1>3, Silent
<1>4. CASE ~unskipped
  <2>1. PICK n \in Nat, m \in Nat, size \in Nat :
          n = Done /\ m = Held /\ size = Len(block.committed)
    BY OutputFacts, LenProperties DEF DecodeInv, Typed, Blocks
  <2>2. /\ n <= m /\ m <= run.max /\ block.todo = SubSeq(greedy, n + 1, m) /\ run.mode # "target"
        /\ m - size <= n /\ size \in 1 .. FullBlock /\ size <= m /\ NoStop(m - size)
    BY <1>1, <2>1 DEF DecodeInv, Committed, TextRead, Loop, Places
  <2>3. /\ Limit = run.max /\ run.max \in Nat /\ Len(greedy) \in Nat /\ run.max + 1 <= Len(greedy)
        /\ greedy \in Seq(Token) /\ FullBlock \in Nat \ {0}
    BY <2>2, LimitFacts, Continuation, BlockAssumption DEF DecodeInv, Typed
  <2>4. n # m
    <3>1. SubSeq(greedy, m + 1, m) = << >>
      BY <2>3, SubSeqEmpty
    <3> QED
      BY <1>1, <2>2, <3>1
  <2>5. Head(block.todo) = greedy[n + 1]
    <3> DEFINE k == n + 1
    <3>1. k \in 1 .. Len(greedy) /\ m \in k .. Len(greedy)
      BY <2>2, <2>3, <2>4
    <3>2. block.todo = SubSeq(greedy, k, m)
      BY <2>2
    <3> HIDE DEF k
    <3>3. Head(SubSeq(greedy, k, m)) = greedy[k]
      BY <2>3, <3>1, HeadTailOfSubSeq
    <3> QED
      BY <3>2, <3>3 DEF k
  <2>6. Len(stream) = n
    BY <1>4, <2>1 DEF DecodeInv, Output
  <2> DEFINE z == m - size
  <2>7. /\ z \in Nat /\ NoStop(z) /\ Len(stream) - (FullBlock - 1) <= z /\ Len(stream) < Limit
        /\ stream' = Append(stream, greedy[Len(stream) + 1])
    <3>1. z \in Nat /\ n - (FullBlock - 1) <= z
      BY <2>2, <2>3, <2>4
    <3>2. stream' = Append(stream, greedy[n + 1])
      BY <1>1, <1>4, <2>5
    <3>3. n < Limit
      BY <1>1, <2>1, <2>3
    <3>4. NoStop(z)
      BY <2>2
    <3> HIDE DEF z
    <3> QED
      BY <2>6, <3>1, <3>2, <3>3, <3>4
  <2> HIDE DEF z
  <2> QED
    BY <1>1, <1>2, <2>7, HandedOut
<1> QED
  BY <1>3, <1>4

LEMMA RestIsGreedy ==
  ASSUME DecodeInv, EndCycle \/ LimitReached \/ PublishSnapshot \/ Close
  PROVE  GreedyStep
<1>1. UNCHANGED <<run, greedy, stream>>
  BY DEF EndCycle, LimitReached, PublishSnapshot, Close, fixed, request, emitted
<1>2. CASE EndCycle \/ LimitReached \/ PublishSnapshot
  <2>1. /\ pc \in {"emit", "cycle", "snapshot"}
        /\ pc' \in {"cycle", "snapshot", "ending", "closing"}
    BY <1>2 DEF EndCycle, LimitReached, PublishSnapshot
  <2> QED
    BY <1>1, <2>1, Silent DEF Ended
<1>3. CASE Close
  <2>1. \/ pc = "ending" /\ pc' = "finished"
        \/ pc = "closing" /\ pc' = "closed"
        \/ pc = "raising" /\ pc' = "raised"
    BY <1>3 DEF Close, Endings
  <2>2. CASE pc = "ending" /\ pc' = "finished"
    <3>1. Len(stream) = Limit \/ \E i \in 1 .. Len(stream) : stream[i] \in Stop
      BY <2>2 DEF DecodeInv, EndsRight
    <3>2. Len(stream) \in Nat /\ Len(stream) - 0 = Len(stream)
      BY OutputFacts DEF DecodeInv
    <3>3. Len(stream) = Limit \/ Greedy!StoppedBefore(0)
      BY <3>1, <3>2 DEF Greedy!StoppedBefore
    <3>4. Limit' = Limit
      BY <1>1 DEF Limit
    <3>5. Greedy!Finish
      BY <1>1, <2>2, <3>3, <3>4 DEF Greedy!Finish
    <3> QED
      BY <3>5 DEF GreedyStep, Greedy!Next
  <2>3. CASE pc = "closing" /\ pc' = "closed"
    BY <1>1, <2>3, Silent DEF Ended
  <2>4. CASE pc = "raising" /\ pc' = "raised"
    BY <1>1, <2>4, Silent DEF Ended
  <2> QED
    BY <2>1, <2>2, <2>3, <2>4
<1> QED
  BY <1>2, <1>3

LEMMA StepIsGreedy == DecodeInv /\ [Next]_treeVars => GreedyStep
<1> SUFFICES ASSUME DecodeInv, Next \/ UNCHANGED treeVars PROVE GreedyStep
  OBVIOUS
<1>1. CASE Prefill \/ Retire \/ UNCHANGED treeVars
  BY <1>1, PrefillIsGreedy
<1>2. CASE TargetOnly
  BY <1>2, PrefillIsGreedy, TargetTokenIsGreedy DEF TargetOnly
<1>3. CASE Decode
  BY <1>3, CycleIsGreedy, YieldFirstIsGreedy, EmitIsGreedy, RestIsGreedy DEF Decode, Stream
<1> QED
  BY <1>1, <1>2, <1>3 DEF Next, Advance

\* Whichever loop decodes, whatever is drafted, copied, made ahead, accepted and
\* rolled back, and wherever the consumer closes the stream: what it was given is
\* the target's greedy continuation, one token after the other, and the engine
\* ends by itself only at the limit or after a stop token
\* (_run_decode_events, _run_ddtree_decode_events, stream_baseline_generate).
THEOREM DecodesGreedily == Spec => ImplementsGreedy
<1>1. Init => Greedy!Init
  BY DEF Init, Greedy!Init
<1>2. DecodeInv /\ [Next]_treeVars =>
        [Greedy!Next]_<<greedy, Limit, stream,
                        IF pc \in {"closing", "closed"} THEN "closed"
                        ELSE IF pc = "finished" THEN "finished"
                        ELSE IF pc \in {"raising", "raised"} THEN "failed" ELSE "no">>
  BY StepIsGreedy DEF GreedyStep
<1> QED
  BY <1>1, <1>2, AlwaysDecode, PTL DEF Spec, ImplementsGreedy, Greedy!Spec


-----------------------------------------------------------------------------
(* What a pass leaves of its features *)

Pass == \/ run.mode = "dflash" /\ Verify
        \/ run.mode = "ddtree" /\ (VerifyBatch \/ VerifyTree)

\* A pass keeps the features of exactly the tokens it has committed.
LEMMA PassFeatures ==
  ASSUME DecodeInv, Pass
  PROVE  /\ DecodeInv' /\ pc = "verify" /\ pc' \in {"record", "emit"}
         /\ hidden' = Positions(start, start')
         /\ chunks' = IF session.collect THEN chunks \o hidden' ELSE chunks
         /\ start \in Nat /\ start' \in Nat /\ start < start' /\ Len(Prompt) <= start
         /\ UNCHANGED <<run, greedy, session, active, context, prefetched, published, generated>>
<1>1. DecodeInv' /\ start < start' /\ hidden' = Positions(start, start')
  <2>1. CASE run.mode = "dflash" /\ Verify
    <3>1. hidden' = Positions(start, start')
      BY <2>1 DEF Verify
    <3> QED
      BY <2>1, <3>1, VerifyKeeps
  <2>2. CASE run.mode = "ddtree" /\ VerifyBatch
    <3>1. hidden' = Positions(start, start')
      BY <2>2 DEF VerifyBatch, Commit
    <3> QED
      BY <2>2, <3>1, VerifyBatchKeeps
  <2>3. CASE run.mode = "ddtree" /\ VerifyTree
    BY <2>3, VerifyTreeKeeps
  <2> QED
    BY <2>1, <2>2, <2>3 DEF Pass
<1>2. /\ pc = "verify" /\ pc' \in {"record", "emit"}
      /\ chunks' = IF session.collect THEN chunks \o hidden' ELSE chunks
      /\ UNCHANGED <<run, greedy, session, active, context, prefetched, published, generated>>
  BY DEF Pass, Verify, VerifyBatch, VerifyTree, Commit, fixed, request, emitted, drafts
<1>3. /\ start \in Nat /\ start' \in Nat /\ Held \in Nat /\ Held' \in Nat
  BY <1>1 DEF DecodeInv, Typed
<1> QED
  BY <1>1, <1>2, <1>3, PromptFacts DEF Held

-----------------------------------------------------------------------------
(* The gate and the policy *)

Phases == {"none", "measure_off", "measure_on", "engaged", "dormant"}
Gated(g) == /\ DOMAIN g = {"phase", "cycles", "copies", "latch", "losses", "reset"}
            /\ g.phase \in Phases /\ g.reset \in BOOLEAN

Modes == {"none", "full", "reduced", "probe"}
Ruled(p) == /\ DOMAIN p = {"mode", "since", "burst", "probing", "lockout", "full", "probe", "accepts"}
            /\ p.mode \in Modes /\ p.lockout \in BOOLEAN

LEMMA FirstGates ==
  /\ Gated(Copy!FreshGate) /\ Copy!FreshGate.reset = FALSE
  /\ Gated(Copy!NoGate) /\ Copy!NoGate.reset = FALSE /\ Copy!NoGate.phase = "none"
  BY DEF Gated, Phases, Copy!FreshGate, Copy!NoGate

LEMMA FirstPolicies ==
  /\ Ruled(Adaptive!NoPolicy)
  /\ \A adaptive, cap, long : Ruled(Adaptive!PolicyFromRuntime(adaptive, cap, long))
<1> USE DEF Ruled, Modes, Adaptive!FreshPolicy
<1>1. Ruled(Adaptive!NoPolicy) /\ Ruled(Adaptive!FreshPolicy)
  BY DEF Adaptive!NoPolicy
<1>2. Ruled([Adaptive!FreshPolicy EXCEPT !.mode = "reduced", !.burst = LongBurst])
  OBVIOUS
<1> QED
  BY <1>1, <1>2 DEF Adaptive!PolicyFromRuntime

LEMMA Restarted ==
  ASSUME NEW g, Gated(g), NEW phase \in Phases
  PROVE  LET h == Copy!Restart(g, phase)
         IN Gated(h) /\ h.phase = phase /\ h.reset = g.reset
  BY DEF Gated, Copy!Restart

\* A phase is left with a word to the policy, or kept without one.
LEMMA GateMoves ==
  ASSUME NEW g, Gated(g), g.reset = FALSE, NEW copied, NEW slower
  PROVE  LET h == Copy!RecordCycle(g, copied, slower)
         IN /\ Gated(h) /\ (h.phase = g.phase => h.reset = FALSE)
            /\ (g.phase = "none" => h.phase = "none")
<1> DEFINE h == [g EXCEPT !.cycles = @ + 1, !.copies = IF copied THEN @ + 1 ELSE @]
           spent == [h EXCEPT !.latch = @ - 1]
<1>1. Gated(h) /\ h.phase = g.phase /\ h.reset = FALSE
  BY DEF Gated
<1>2. Gated(spent) /\ spent.phase = g.phase /\ spent.reset = FALSE
  <2> HIDE DEF h
  <2> QED
    BY <1>1 DEF Gated
<1>3. LET e == Copy!EndProbe(h, slower)
      IN Gated(e) /\ e.phase \in {"dormant", "engaged"}
  <2> HIDE DEF h
  <2> DEFINE d == Copy!Restart(h, "dormant")
             e == Copy!Restart(h, "engaged")
  <2>1. Gated(d) /\ d.phase = "dormant" /\ Gated(e) /\ e.phase = "engaged"
    BY <1>1, Restarted DEF Phases
  <2> HIDE DEF d, e
  <2>2. \A x, y : LET z == [d EXCEPT !.latch = x, !.losses = y, !.reset = TRUE]
                  IN Gated(z) /\ z.phase = "dormant"
    BY <2>1 DEF Gated
  <2>3. \A x : LET z == [e EXCEPT !.latch = x, !.losses = 0]
               IN Gated(z) /\ z.phase = "engaged"
    BY <2>1 DEF Gated
  <2>4. Copy!EndProbe(h, slower) =
          IF h.copies = 0 \/ slower
          THEN [d EXCEPT !.latch = Latch * 2 ^ Copy!Min({h.losses, BackoffCap}),
                         !.losses = @ + 1, !.reset = TRUE]
          ELSE [e EXCEPT !.latch = Latch, !.losses = 0]
    BY DEF Copy!EndProbe, d, e
  <2> DEFINE x == Latch * 2 ^ Copy!Min({h.losses, BackoffCap})
             y == d.losses + 1
             lost == [d EXCEPT !.latch = x, !.losses = y, !.reset = TRUE]
             won == [e EXCEPT !.latch = Latch, !.losses = 0]
  <2>5. Gated(lost) /\ lost.phase = "dormant"
    <3> HIDE DEF x, y
    <3> QED
      BY <2>2
  <2>6. Gated(won) /\ won.phase = "engaged"
    BY <2>3
  <2>7. Copy!EndProbe(h, slower) \in {lost, won}
    BY <2>4
  <2> HIDE DEF lost, won
  <2> QED
    BY <2>5, <2>6, <2>7
<1>4. LET o == [Copy!Restart(spent, "measure_off") EXCEPT !.reset = TRUE]
      IN Gated(o) /\ o.phase = "measure_off"
  <2> DEFINE r == Copy!Restart(spent, "measure_off")
  <2>1. Gated(r) /\ r.phase = "measure_off"
    <3> HIDE DEF spent
    <3> QED
      BY <1>2, Restarted DEF Phases
  <2> HIDE DEF r
  <2>2. LET o == [r EXCEPT !.reset = TRUE] IN Gated(o) /\ o.phase = "measure_off"
    BY <2>1 DEF Gated
  <2> QED
    BY <2>2 DEF r
<1> HIDE DEF h, spent
<1>5. /\ Gated(Copy!Restart(h, "measure_on")) /\ Copy!Restart(h, "measure_on").phase = "measure_on"
      /\ Gated(Copy!Restart(spent, "measure_off"))
      /\ Copy!Restart(spent, "measure_off").phase = "measure_off"
  BY <1>1, <1>2, Restarted DEF Phases
<1>6. Copy!RecordCycle(g, copied, slower) =
        CASE h.phase = "none" -> g
          [] h.phase = "measure_off" ->
               IF h.cycles >= ProbeOff THEN Copy!Restart(h, "measure_on") ELSE h
          [] h.phase = "measure_on" ->
               IF h.copies >= ProbeOnCopies \/ h.cycles >= ProbeOnCycles
               THEN Copy!EndProbe(h, slower) ELSE h
          [] h.phase = "engaged" ->
               IF spent.latch <= 0
               THEN [Copy!Restart(spent, "measure_off") EXCEPT !.reset = TRUE] ELSE spent
          [] h.phase = "dormant" ->
               IF spent.latch <= 0 THEN Copy!Restart(spent, "measure_off") ELSE spent
  BY DEF Copy!RecordCycle, h, spent
<1>7. h.phase \in Phases
  BY <1>1 DEF Gated
<1> DEFINE o == [Copy!Restart(spent, "measure_off") EXCEPT !.reset = TRUE]
           e == Copy!EndProbe(h, slower)
           on == Copy!Restart(h, "measure_on")
           off == Copy!Restart(spent, "measure_off")
           next == Copy!RecordCycle(g, copied, slower)
<1>8. next \in CASE h.phase = "none" -> {g}
                 [] h.phase = "measure_off" -> {on, h}
                 [] h.phase = "measure_on" -> {e, h}
                 [] h.phase = "engaged" -> {o, spent}
                 [] h.phase = "dormant" -> {off, spent}
  BY <1>6, <1>7 DEF Phases
<1> HIDE DEF o, e, on, off, next
<1> QED
  BY <1>1, <1>2, <1>3, <1>4, <1>5, <1>7, <1>8 DEF Phases, o, e, on, off, next

\* How a policy may change its mode while the gate keeps its phase.
Patient(p, q) ==
  q.mode # p.mode =>
    /\ p.mode = "probe" /\ q.mode = "reduced" => q.lockout
    /\ p.mode = "reduced" /\ p.lockout => p.since + 1 >= p.burst

LEMMA ReducedMoves ==
  ASSUME NEW p, Ruled(p), p.mode = "reduced", NEW len, NEW acceptance
  PROVE  LET q == Adaptive!RecordReduced(p, len, acceptance) IN Ruled(q) /\ Patient(p, q)
<1>1. PICK some : Adaptive!RecordReduced(p, len, acceptance) =
        LET q == [p EXCEPT !.since = p.since + 1, !.accepts = some]
        IN IF Adaptive!EarlyProbeDue(q) THEN Adaptive!EnterProbe(q, TRUE)
           ELSE IF q.since >= q.burst THEN Adaptive!EnterProbe(q, FALSE) ELSE q
  BY DEF Adaptive!RecordReduced
<1> DEFINE q == [p EXCEPT !.since = p.since + 1, !.accepts = some]
<1>2. /\ Ruled(q) /\ q.mode = "reduced" /\ q.lockout = p.lockout
      /\ q.since = p.since + 1 /\ q.burst = p.burst
  BY DEF Ruled
<1> HIDE DEF q
<1>3. ASSUME NEW early \in BOOLEAN
      PROVE  LET r == Adaptive!EnterProbe(q, early) IN Ruled(r) /\ r.mode = "probe"
  BY <1>2, <1>3 DEF Ruled, Modes, Adaptive!EnterProbe
<1>4. Adaptive!EarlyProbeDue(q) => ~p.lockout
  BY <1>2 DEF Adaptive!EarlyProbeDue
<1>5. Adaptive!RecordReduced(p, len, acceptance) =
        IF Adaptive!EarlyProbeDue(q) THEN Adaptive!EnterProbe(q, TRUE)
        ELSE IF q.since >= q.burst THEN Adaptive!EnterProbe(q, FALSE) ELSE q
  BY <1>1 DEF q
<1> DEFINE a == Adaptive!EnterProbe(q, TRUE)
           b == Adaptive!EnterProbe(q, FALSE)
<1>6. Ruled(a) /\ a.mode = "probe" /\ Ruled(b) /\ b.mode = "probe"
  BY <1>3
<1> HIDE DEF a, b
<1>7. CASE Adaptive!EarlyProbeDue(q)
  <2>1. Adaptive!RecordReduced(p, len, acceptance) = a
    BY <1>5, <1>7 DEF a
  <2> QED
    BY <1>4, <1>6, <1>7, <2>1 DEF Patient
<1>8. CASE ~Adaptive!EarlyProbeDue(q) /\ q.since >= q.burst
  <2>1. Adaptive!RecordReduced(p, len, acceptance) = b
    BY <1>5, <1>8 DEF b
  <2>2. p.since + 1 >= p.burst
    BY <1>2, <1>8
  <2> QED
    BY <1>6, <2>1, <2>2 DEF Patient
<1>9. CASE ~Adaptive!EarlyProbeDue(q) /\ ~(q.since >= q.burst)
  <2>1. Adaptive!RecordReduced(p, len, acceptance) = q
    BY <1>5, <1>9
  <2> QED
    BY <1>2, <2>1 DEF Patient
<1> QED
  BY <1>7, <1>8, <1>9

LEMMA FullMoves ==
  ASSUME NEW p, Ruled(p), NEW acceptance, NEW faster
  PROVE  LET q == Adaptive!RecordFull(p, acceptance, faster)
         IN Ruled(q) /\ Patient(p, q)
<1>1. \A l \in BOOLEAN : LET r == Adaptive!EnterReduced(l)
                         IN Ruled(r) /\ r.mode = "reduced" /\ r.lockout = l
  BY DEF Ruled, Modes, Adaptive!EnterReduced, Adaptive!FreshPolicy
<1> DEFINE full == Adaptive!KeepLast(Append(p.full, 1 + acceptance), WindowSize)
           q == [p EXCEPT !.full = full]
           probe == Append(q.probe, 1 + acceptance)
           probing == IF q.probing > 0 THEN q.probing - 1 ELSE 0
           r == [q EXCEPT !.probe = probe, !.probing = probing]
           e == Adaptive!EndProbe(r, faster)
           d == Adaptive!EnterReduced(FALSE)
           next == Adaptive!RecordFull(p, acceptance, faster)
<1>3. next =
        IF q.mode = "probe" THEN IF r.probing > 0 THEN r ELSE e
        ELSE IF Len(q.full) < WindowSize
                \/ (Adaptive!AcceptedEnough(q.full, DropAcceptance) /\ Adaptive!FastEnough(q.full))
             THEN q ELSE d
  BY DEF Adaptive!RecordFull
<1> HIDE DEF full, probe, probing
<1>4. Ruled(q) /\ q.mode = p.mode
  BY DEF Ruled
<1>5. Ruled(r) /\ r.mode = p.mode
  <2> HIDE DEF q
  <2> QED
    BY <1>4 DEF Ruled
<1>6. Ruled(e) /\ (e.mode = "full" \/ (e.mode = "reduced" /\ e.lockout))
  <2> HIDE DEF r
  <2> DEFINE f == [r EXCEPT !.mode = "full", !.since = 0, !.burst = Burst, !.probing = 0,
                            !.probe = << >>, !.accepts = << >>, !.full = << >>]
             g == Adaptive!EnterReduced(TRUE)
  <2>1. e \in {f, g}
    BY DEF Adaptive!EndProbe
  <2>2. Ruled(f) /\ f.mode = "full"
    BY <1>5 DEF Ruled, Modes
  <2>3. Ruled(g) /\ g.mode = "reduced" /\ g.lockout
    BY <1>1
  <2> HIDE DEF e, f, g
  <2> QED
    BY <2>1, <2>2, <2>3
<1>8. Ruled(d) /\ d.mode = "reduced"
  BY <1>1
<1> HIDE DEF q, r, e, d, next
<1>7. IF p.mode = "probe" THEN next \in {r, e} ELSE next \in {q, d}
  <2>1. CASE q.mode = "probe"
    <3>1. next = IF r.probing > 0 THEN r ELSE e
      BY <1>3, <2>1
    <3> QED
      BY <1>4, <2>1, <3>1
  <2>2. CASE q.mode # "probe"
    <3>1. next \in {q, d}
      BY <1>3, <2>2
    <3> QED
      BY <1>4, <2>2, <3>1
  <2> QED
    BY <2>1, <2>2
<1>9. Ruled(next)
  BY <1>4, <1>5, <1>6, <1>7, <1>8
<1>10. Patient(p, next)
  <2>1. CASE p.mode = "probe"
    BY <1>5, <1>6, <1>7, <2>1 DEF Patient
  <2>2. CASE p.mode = "reduced"
    BY <1>4, <1>7, <1>8, <2>2 DEF Patient
  <2>3. CASE p.mode \notin {"probe", "reduced"}
    BY <2>3 DEF Patient
  <2> QED
    BY <2>1, <2>2, <2>3
<1> QED
  BY <1>9, <1>10 DEF next

LEMMA PolicyMoves ==
  ASSUME NEW p, Ruled(p), NEW len, NEW acceptance, NEW faster
  PROVE  LET q == Adaptive!RecordBlock(p, len, acceptance, faster) IN Ruled(q) /\ Patient(p, q)
<1> DEFINE a == Adaptive!RecordReduced(p, len, acceptance)
           b == Adaptive!RecordFull(p, acceptance, faster)
           next == Adaptive!RecordBlock(p, len, acceptance, faster)
<1>1. next \in {p, b} \/ (p.mode = "reduced" /\ next = a)
  BY DEF Adaptive!RecordBlock
<1>2. p.mode = "reduced" => Ruled(a) /\ Patient(p, a)
  BY ReducedMoves
<1>3. Ruled(b) /\ Patient(p, b)
  BY FullMoves
<1>4. Patient(p, p)
  BY DEF Patient
<1> HIDE DEF a, b, next
<1> QED
  BY <1>1, <1>2, <1>3, <1>4 DEF next

\* When a block may be copied.
Allowed == run.copy # "off" /\ ~copyOff /\ gate.phase \notin {"measure_off", "dormant"}

\* The gate and the policy between two cycles; a request with a tree has no gate.
\* A copy that waits to be verified is still allowed.
Steered ==
  /\ Gated(gate) /\ gate.reset = FALSE /\ Ruled(policy)
  /\ run.mode = "ddtree" => gate.phase = "none"
  /\ prefetched.source = "copyspec" => Allowed
  /\ pc = "verify" /\ block.source = "copyspec" => Allowed

\* What the policy may do while the gate keeps its phase.
PolicyStep == gate'.phase = gate.phase => Patient(policy, policy')

LEMMA SteeredFirst == Init => Steered
<1> SUFFICES ASSUME Init PROVE Steered
  OBVIOUS
<1>1. pc = "open" /\ prefetched = NoDraft /\ StartDecode
  BY DEF Init
<1>2. /\ gate \in {Copy!FreshGate, Copy!NoGate} /\ (run.mode = "ddtree" => gate = Copy!NoGate)
      /\ Ruled(policy)
  BY <1>1, FirstPolicies DEF StartDecode, StartSteering
<1> QED
  BY <1>1, <1>2, FirstGates DEF Steered, NoDraft

\* Nothing but a cycle touches the gate, the policy or what is drafted.
LEMMA SteeredStill ==
  ASSUME Steered,
         run' = run /\ copyOff' = copyOff /\ gate' = gate /\ policy' = policy,
         prefetched' = prefetched \/ prefetched'.source # "copyspec",
         pc' = "verify" /\ block'.source = "copyspec" =>
           (pc = "verify" /\ block' = block) \/ Allowed
  PROVE  Steered' /\ PolicyStep
  BY DEF Steered, Allowed, PolicyStep, Patient

LEMMA CopiesAllowed ==
  ASSUME Steered, NEW first, NEW len, NEW tokens, NEW d \in Drafts(first, len, tokens, gate),
         d.source = "copyspec"
  PROVE  Allowed
<1> DEFINE copies == CopyDrafts(first, len, tokens, gate)
<1>1. copies # {}
  <2> SUFFICES ASSUME copies = {} PROVE FALSE
    OBVIOUS
  <2>1. PICK x : d = [len |-> len, staged |-> first, tokens |-> x, source |-> "dflash"]
    BY DEF Drafts
  <2> QED
    BY <2>1
<1>2. run.copy # "off" /\ ~copyOff /\ Copy!EngageCopy(gate)
  BY <1>1 DEF CopyDrafts
<1> QED
  BY <1>2 DEF Allowed, Copy!EngageCopy

LEMMA LinearSteered ==
  ASSUME DecodeInv, Steered, LinearCycle, run.mode = "dflash"
  PROVE  Steered' /\ PolicyStep
<1>1. ASSUME NEW d, Begin(d), prefetched' = prefetched \/ prefetched' = NoDraft,
             d.source = "copyspec" => Allowed
      PROVE  Steered' /\ PolicyStep
  <2>1. block' = [NoBlock EXCEPT !.len = d.len, !.staged = d.staged,
                                 !.tokens = d.tokens, !.source = d.source]
    BY <1>1 DEF Begin
  <2>2. block'.source = d.source
    BY <2>1 DEF NoBlock
  <2>3. UNCHANGED <<run, copyOff, gate, policy>>
    BY <1>1 DEF Begin, fixed, request, verified, steering
  <2> QED
    BY <1>1, <2>2, <2>3, SteeredStill DEF NoDraft
<1>2. CASE BeginPlain
  <2> DEFINE d == [NoDraft EXCEPT !.len = 1, !.staged = staged]
  <2>1. Begin(d) /\ prefetched' = prefetched
    BY <1>2 DEF BeginPlain, drafts
  <2>2. d.source # "copyspec"
    BY DEF NoDraft
  <2> HIDE DEF d
  <2> QED
    BY <1>1, <2>1, <2>2
<1>3. CASE BeginPrefetched
  BY <1>1, <1>3 DEF BeginPrefetched, Steered
<1>4. CASE BeginDrafted
  <2> DEFINE len == BlockLength(policy, Len(generated))
  <2>1. PICK d \in Drafts(staged, len, index, gate) : Begin(d)
    BY <1>4 DEF BeginDrafted
  <2>2. prefetched' = prefetched \/ prefetched' = NoDraft
    BY <1>4 DEF BeginDrafted
  <2>3. d.source = "copyspec" => Allowed
    BY <2>1, CopiesAllowed
  <2> QED
    BY <1>1, <2>1, <2>2, <2>3
<1>5. CASE Verify
  <2>1. /\ pc' = "record" /\ prefetched' = NoDraft
        /\ UNCHANGED <<run, gate, policy>>
    BY <1>5 DEF Verify, fixed, request, steering, drafts, DecodeInv, Ahead
  <2>2. prefetched'.source # "copyspec"
    BY <2>1 DEF NoDraft
  <2> QED
    BY <2>1, <2>2 DEF Steered, PolicyStep, Patient
<1>6. CASE Record
  <2>1. PICK slower \in BOOLEAN, faster \in BOOLEAN :
          LET g == IF block.len > 1
                   THEN Copy!RecordCycle(gate, block.source = "copyspec", slower)
                   ELSE gate
              p == IF g.reset /\ policy.mode # "none"
                   THEN Adaptive!PolicyFromRuntime(run.adaptive, run.cap, run.long)
                   ELSE policy
          IN /\ gate' = [g EXCEPT !.reset = FALSE]
             /\ policy' = Adaptive!RecordBlock(p, block.len, block.accepted, faster)
    BY <1>6 DEF Record
  <2> DEFINE g == IF block.len > 1
                  THEN Copy!RecordCycle(gate, block.source = "copyspec", slower)
                  ELSE gate
             fresh == Adaptive!PolicyFromRuntime(run.adaptive, run.cap, run.long)
             p == IF g.reset /\ policy.mode # "none" THEN fresh ELSE policy
  <2>2. /\ gate' = [g EXCEPT !.reset = FALSE]
        /\ policy' = Adaptive!RecordBlock(p, block.len, block.accepted, faster)
    BY <2>1
  <2>3. /\ Gated(g) /\ (g.phase = gate.phase => g.reset = FALSE)
        /\ (gate.phase = "none" => g.phase = "none")
    <3> DEFINE copied == block.source = "copyspec"
    <3>1. LET h == Copy!RecordCycle(gate, copied, slower)
          IN /\ Gated(h) /\ (h.phase = gate.phase => h.reset = FALSE)
             /\ (gate.phase = "none" => h.phase = "none")
      <4>1. Gated(gate) /\ gate.reset = FALSE
        BY DEF Steered
      <4> HIDE DEF copied
      <4> QED
        BY <4>1, GateMoves
    <3> QED
      BY <3>1 DEF Steered
  <2> HIDE DEF g
  <2>4. Gated(gate') /\ gate'.phase = g.phase /\ gate'.reset = FALSE
    BY <2>2, <2>3 DEF Gated
  <2>5. Ruled(p) /\ (gate'.phase = gate.phase => p = policy)
    <3>1. Ruled(fresh) /\ Ruled(policy)
      BY FirstPolicies DEF Steered
    <3> HIDE DEF fresh
    <3> QED
      BY <2>3, <2>4, <3>1 DEF Gated
  <2> HIDE DEF p
  <2>6. Ruled(policy') /\ Patient(p, policy')
    BY <2>2, <2>5, PolicyMoves
  <2>7. pc' # "verify" /\ prefetched' = NoDraft /\ run' = run
    BY <1>6 DEF Record, fixed, request, drafts, DecodeInv, Ahead
  <2>8. prefetched'.source # "copyspec"
    BY <2>7 DEF NoDraft
  <2> QED
    BY <2>3, <2>4, <2>5, <2>6, <2>7, <2>8 DEF Steered, PolicyStep
<1>7. CASE Prefetch
  <2> DEFINE len == BlockLength(policy, Len(generated) + Len(block.committed))
  <2>1. prefetched' \in Drafts(block.next, len, index, gate) \/ prefetched' = NoDraft
    BY <1>7 DEF Prefetch
  <2>2. prefetched'.source = "copyspec" => Allowed
    <3>1. NoDraft.source # "copyspec"
      BY DEF NoDraft
    <3> QED
      BY <2>1, <3>1, CopiesAllowed
  <2>3. pc' = "emit" /\ UNCHANGED <<run, copyOff, gate, policy>>
    BY <1>7 DEF Prefetch, fixed, request, verified, steering
  <2> QED
    BY <2>2, <2>3 DEF Steered, Allowed, PolicyStep, Patient
<1> QED
  BY <1>2, <1>3, <1>4, <1>5, <1>6, <1>7 DEF LinearCycle

LEMMA TreeSteered ==
  ASSUME DecodeInv, Steered, TreeCycle, run.mode = "ddtree"
  PROVE  Steered' /\ PolicyStep
<1>1. ASSUME NEW rows, NEW slots, NEW source, Launch(rows, slots, source),
             source = "copyspec" => Allowed
      PROVE  Steered' /\ PolicyStep
  <2>1. /\ block' = [NoBlock EXCEPT !.len = TreeBlockLength, !.staged = staged,
                                    !.source = source]
        /\ prefetched' = prefetched /\ UNCHANGED <<run, copyOff, gate, policy>>
    BY <1>1 DEF Launch, fixed, request, verified, steering
  <2>2. block'.source = source
    BY <2>1 DEF NoBlock
  <2> QED
    BY <1>1, <2>1, <2>2, SteeredStill
<1>2. CASE BeginSingle
  <2>1. Launch({[ids |-> <<staged>>, source |-> "greedy"]}, << >>, "none")
    BY <1>2 DEF BeginSingle
  <2> QED
    BY <1>1, <2>1
<1>3. CASE BeginCopied
  <2>1. PICK copy \in Copies :
          Launch(Truncated({[ids |-> <<staged>> \o copy, source |-> "copyspec"]},
                           VerifyCount(TreeBlockLength)), << >>, "copyspec")
    BY <1>3 DEF BeginCopied
  <2>2. Allowed
    <3>1. run.copy # "off" /\ ~copyOff
      BY <2>1 DEF Copies, CopyDrafts
    <3>2. gate.phase = "none"
      BY DEF Steered
    <3> QED
      BY <3>1, <3>2 DEF Allowed
  <2> QED
    BY <1>1, <2>1, <2>2
<1>4. CASE BeginBatch
  <2>1. PICK rows : Launch(rows, << >>, "dflash")
    BY <1>4 DEF BeginBatch
  <2> QED
    BY <1>1, <2>1
<1>5. CASE BeginTree
  <2>1. PICK slots : Launch({}, slots, "dflash")
    BY <1>5 DEF BeginTree
  <2> QED
    BY <1>1, <2>1
<1>6. CASE DraftRaises
  <2>1. /\ pc' = "raising" /\ prefetched' = prefetched /\ UNCHANGED <<run, copyOff, gate, policy>>
    BY <1>6 DEF DraftRaises, fixed, request, verified, steering
  <2> QED
    BY <2>1, SteeredStill
<1>7. CASE VerifyBatch \/ VerifyTree
  <2>1. /\ pc' = "emit" /\ prefetched' = NoDraft /\ UNCHANGED <<run, gate, policy>>
    BY <1>7 DEF VerifyBatch, VerifyTree, Commit, fixed, request, drafts, DecodeInv, Ahead
  <2>2. prefetched'.source # "copyspec"
    BY <2>1 DEF NoDraft
  <2> QED
    BY <2>1, <2>2 DEF Steered, PolicyStep, Patient
<1> QED
  BY <1>2, <1>3, <1>4, <1>5, <1>6, <1>7 DEF TreeCycle

LEMMA SteeredStep ==
  ASSUME DecodeInv, Steered, [Next]_treeVars
  PROVE  Steered' /\ PolicyStep
<1>1. CASE Prefill
  <2>1. /\ pc' # "verify" /\ prefetched' = prefetched /\ UNCHANGED <<run, copyOff, gate, policy>>
    BY <1>1 DEF Prefill, Open, Chunk, Seam, PublishPrompt, PrefillTail, Complete, Resume, decoding,
       steering, drafts, fixed, request
  <2> QED
    BY <2>1, SteeredStill
<1>2. CASE TargetOnly
  <2>1. /\ pc' # "verify" /\ prefetched' = prefetched /\ UNCHANGED <<run, copyOff, gate, policy>>
    BY <1>2 DEF TargetOnly, TargetPrefill, TargetToken, TargetStep, Resume, decoding,
       steering, drafts, fixed, request
  <2> QED
    BY <2>1, SteeredStill
<1>3. CASE Stream
  <2>1. /\ pc' # "verify" /\ prefetched' = prefetched /\ UNCHANGED <<run, copyOff, gate, policy>>
    BY <1>3 DEF Stream, YieldFirst, Emit, EndCycle, LimitReached, PublishSnapshot, Close, Endings,
       Resume, steering, drafts, verified, fixed, request
  <2> QED
    BY <2>1, SteeredStill
<1>4. CASE Retire \/ UNCHANGED treeVars
  <2>1. /\ pc' = pc /\ block' = block /\ prefetched' = prefetched
        /\ UNCHANGED <<run, copyOff, gate, policy>>
    BY <1>4 DEF Retire, decoding, treeVars, vars, verified, steering, drafts, fixed, request
  <2> QED
    BY <2>1, SteeredStill
<1> QED
  BY <1>1, <1>2, <1>3, <1>4, LinearSteered, TreeSteered DEF Next, Advance, Decode

\* For every window, burst and latch of the policy and the gate, every answer of
\* the wall clock and every text: a copied block is verified only while copying
\* is allowed and the gate counts it, and a probe that failed is followed by a
\* whole burst of reduced cycles.
THEOREM SteeringAgrees == Spec => GateAndPolicyAgree
<1>1. DecodeInv /\ Steered /\ [Next]_treeVars => Steered'
  BY SteeredStep
<1>2. DecodeInv /\ Steered /\ [Next]_treeVars =>
        [/\ pc' = "verify" /\ block'.source = "copyspec" =>
              run'.copy # "off" /\ ~copyOff' /\ gate'.phase \notin {"measure_off", "dormant"}
         /\ gate'.phase = gate.phase /\ policy'.mode # policy.mode =>
              /\ policy.mode = "probe" /\ policy'.mode = "reduced" => policy'.lockout
              /\ policy.mode = "reduced" /\ policy.lockout => policy.since + 1 >= policy.burst]_vars
  BY SteeredStep DEF Steered, Allowed, PolicyStep, Patient
<1> QED
  BY <1>1, <1>2, SteeredFirst, AlwaysDecode, PTL DEF Spec, GateAndPolicyAgree

-----------------------------------------------------------------------------
(* The features the draft absorbs *)

\* Where a snapshot that was restored need not have a feature, and what is known
\* of a feature that is there.
Hole(i) == /\ ~run.full /\ Sink + Window # 0
           /\ i \in Sink + 1 .. session.restored - Window
Known(i, f) == f = i \/ (f = 0 /\ Hole(i))

\* The features of what the caches have read.
Mapped == IF hidden = << >> THEN cache.kv = << >>
          ELSE \A i \in 1 .. Len(cache.kv) : Known(i, hidden[i])

\* The prefill has the features of what it has read, the draft has none yet.
FeaturesRead ==
  /\ session.restored <= Len(Prompt)
  /\ pc = "open" => hidden = << >>
  /\ pc \in {"open", "first"} \cup Reading => context = << >>
  /\ pc \in Reading => Mapped
  /\ pc = "first" => Len(hidden) = Len(Prompt) /\ \A i \in 1 .. Len(Prompt) : Known(i, hidden[i])

\* The features of the last pass follow those the draft has absorbed, or are
\* the last of them.
Pending == /\ Len(context) + Len(hidden) = start
           /\ \A i \in 1 .. Len(hidden) : Known(Len(context) + i, hidden[i])
Absorbed == Len(context) = start

\* Blocks of more than one token are drafted.
Wide == (IF run.mode = "dflash" THEN FullBlock ELSE TreeBlock) > 1

Remembered == context \in Seq(Nat) /\ \A i \in 1 .. Len(context) : Known(i, context[i])

Due ==
  /\ pc = "verify" /\ block.len > 1 => Absorbed
  /\ pc = "verify" /\ Wide /\ block.len = 1 => Held + 1 >= run.max
  /\ pc \in {"cycle", "record", "prefetch", "emit"} /\ Wide /\ Held < run.max =>
       IF prefetched = NoDraft THEN Pending ELSE Absorbed

Contexts == Remembered /\ Due

LEMMA ReadFirst == Init => FeaturesRead /\ Contexts
<1> SUFFICES ASSUME Init PROVE FeaturesRead /\ Contexts
  OBVIOUS
<1>1. /\ pc = "open" /\ hidden = << >> /\ context = << >> /\ session.restored = 0
      /\ Len(Prompt) \in Nat
  BY PromptFacts DEF Init, NoSession
<1> QED
  BY <1>1 DEF FeaturesRead, Contexts, Remembered, Due, Reading

\* Reading on: what has been read keeps its features, the rest has all of them.
LEMMA FedFeatures ==
  ASSUME DecodeInv, DecodeInv', Mapped, ReadsOn, run' = run /\ session' = session
  PROVE  Mapped'
<1> DEFINE from == Len(cache.kv)
           to == Len(cache'.kv)
           H(i) == IF i \in from + 1 .. to THEN i ELSE IF hidden = << >> THEN 0 ELSE hidden[i]
<1>1. hidden' = [i \in 1 .. Len(Prompt) |-> H(i)]
  BY DEF ReadsOn, Feed
<1>2. /\ Len(Prompt) \in Nat /\ Len(Prompt) > 0 /\ from \in Nat /\ to \in Nat
      /\ from <= to /\ to <= Len(Prompt)
  <2>1. cache.kv \in Seq(Token) /\ cache'.kv \in Seq(Token)
    BY DEF DecodeInv, Typed, Caches
  <2> QED
    BY <2>1, PromptFacts, LenProperties DEF ReadsOn
<1>3. ASSUME NEW i \in 1 .. to PROVE H(i) = i \/ (H(i) = 0 /\ Hole(i))
  <2>1. CASE i > from
    BY <1>2, <2>1
  <2>2. CASE i <= from
    <3>1. hidden # << >>
      BY <1>2, <2>2 DEF Mapped
    <3>2. Known(i, hidden[i])
      BY <1>2, <2>2, <3>1 DEF Mapped
    <3> QED
      BY <1>2, <2>2, <3>1, <3>2 DEF Known
  <2> QED
    BY <1>2, <2>1, <2>2
<1> HIDE DEF H, from, to
<1>4. ASSUME NEW i \in 1 .. to PROVE hidden'[i] = i \/ (hidden'[i] = 0 /\ Hole(i))
  BY <1>1, <1>2, <1>3
<1>5. hidden' # << >>
  BY <1>1, <1>2
<1> QED
  BY <1>4, <1>5 DEF Mapped, Known, Hole, to

LEMMA OpenRead ==
  ASSUME DecodeInv, FeaturesRead, Contexts, Open
  PROVE  FeaturesRead' /\ Contexts'
<1> DEFINE H(i) == IF i \in run.hit.features THEN i ELSE 0
           n == Restored
<1>1. /\ hidden' = IF n = 0 THEN << >> ELSE [i \in 1 .. Len(Prompt) |-> H(i)]
      /\ run' = run /\ context' = context /\ pc = "open" /\ pc' = "chunks"
  BY DEF Open, request, decoding, drafts
<1>2. DecodeInv'
  BY OpenKeeps
<1>3. session' = [NoSession EXCEPT !.restored = n, !.boundary = Boundary, !.publish = PublishesPrompt]
  BY DEF Open
<1>4. session'.restored = n
  BY <1>3 DEF NoSession
<1>5. cache' = [ColdCache EXCEPT !.kv = SubSeq(Prompt, 1, n), !.rec = SubSeq(Prompt, 1, n)]
  BY DEF Open
<1>6. cache'.kv = SubSeq(Prompt, 1, n)
  BY <1>5 DEF ColdCache
<1>7. /\ n \in Nat /\ n <= Len(Prompt)
      /\ n > 0 => n = run.hit.len /\ (run.full => 1 .. n \subseteq run.hit.features)
  <2>1. run.hit.len \in 0 .. (IF run.stable \in 1 .. Len(Prompt) THEN run.stable ELSE Len(Prompt))
    BY RunAssumption DEF DecodeInv, Typed, Reach
  <2>2. run.hit.len \in 0 .. Len(Prompt)
    BY <2>1, PromptFacts
  <2> QED
    BY <2>2, PromptFacts DEF Restored
<1>8. ASSUME NEW i \in 1 .. n PROVE H(i) = i \/ (H(i) = 0 /\ Hole(i)')
  <2> SUFFICES ASSUME i \notin run.hit.features PROVE Hole(i)'
    OBVIOUS
  <2>1. n = run.hit.len /\ ~run.full
    BY <1>7
  <2>2. ~(Sink + Window = 0 \/ i <= Sink \/ i > n - Window)
    BY <2>1, RunAssumption DEF DecodeInv, Typed, Reach
  <2>3. Sink + Window # 0 /\ i \in Sink + 1 .. n - Window
    BY <1>7, <2>2, WindowAssumption
  <2> HIDE DEF n
  <2> QED
    BY <1>1, <1>4, <2>1, <2>3 DEF Hole
<1> HIDE DEF H, n
<1>9. Mapped'
  <2>1. CASE n = 0
    <3>1. cache'.kv = << >>
      BY <1>6, <2>1
    <3> QED
      BY <1>1, <2>1, <3>1 DEF Mapped
  <2>2. CASE n # 0
    <3>1. Len(cache'.kv) = n /\ Len(Prompt) \in Nat /\ Len(Prompt) > 0
      BY <1>6, <1>7, PromptFacts, StartOf
    <3>2. hidden' = [i \in 1 .. Len(Prompt) |-> H(i)]
      BY <1>1, <2>2
    <3>3. ASSUME NEW i \in 1 .. Len(cache'.kv)
          PROVE hidden'[i] = i \/ (hidden'[i] = 0 /\ Hole(i)')
      BY <1>7, <1>8, <3>1, <3>2
    <3>4. hidden' # << >>
      BY <3>1, <3>2
    <3> QED
      BY <3>3, <3>4 DEF Mapped, Known
  <2> QED
    BY <2>1, <2>2
<1>10. context = << >>
  BY <1>1 DEF FeaturesRead
<1> QED
  BY <1>1, <1>4, <1>7, <1>9, <1>10 DEF FeaturesRead, Contexts, Remembered, Due, Reading

LEMMA CompleteRead ==
  ASSUME DecodeInv, FeaturesRead, Contexts, Complete
  PROVE  FeaturesRead' /\ Contexts'
<1>1. /\ pc = "complete" /\ pc' \in {"first", "closing", "raising"}
      /\ pc' = "first" => row # << >>
      /\ run' = run /\ context' = context /\ UNCHANGED <<cache, hidden>>
  BY DEF Complete, Resume, request, prefilled, decoding, drafts
<1>2. session'.restored = session.restored
  <2>1. PICK f : session' = [session EXCEPT !.frozen = f]
    BY DEF Complete
  <2>2. session \in Sessions
    BY DEF DecodeInv, Typed
  <2> QED
    BY <2>1, <2>2 DEF Sessions
<1>3. context = << >> /\ session.restored <= Len(Prompt)
  BY <1>1 DEF FeaturesRead, Reading
<1>4. pc' = "first" =>
        Len(hidden') = Len(Prompt) /\ \A i \in 1 .. Len(Prompt) : Known(i, hidden'[i])
  <2> SUFFICES ASSUME pc' = "first"
               PROVE  Len(hidden') = Len(Prompt) /\ \A i \in 1 .. Len(Prompt) : Known(i, hidden'[i])
    OBVIOUS
  <2>1. /\ Len(cache.kv) = Len(Prompt) /\ Len(Prompt) > 0
        /\ hidden = << >> \/ Len(hidden) = Len(Prompt)
    BY <1>1, PromptFacts DEF DecodeInv, PromptRead, Reading
  <2>2. Mapped
    BY <1>1 DEF FeaturesRead, Reading
  <2>3. hidden # << >>
    BY <2>1, <2>2, PromptFacts DEF Mapped
  <2> QED
    BY <1>1, <2>1, <2>2, <2>3 DEF Mapped
<1> QED
  BY <1>1, <1>2, <1>3, <1>4 DEF FeaturesRead, Contexts, Remembered, Due, Reading, Known, Hole

\* Only Open changes what was restored, and the draft absorbs nothing before the loop.
LEMMA PrefillRead ==
  ASSUME DecodeInv, FeaturesRead, Contexts, Prefill
  PROVE  FeaturesRead' /\ Contexts'
<1>0. DecodeInv'
  BY PrefillKeeps
<1>1. ASSUME pc \in Reading, pc' \in Reading \cup {"closing", "raising"}, pc' \in Reading => Mapped',
             session'.restored = session.restored, context' = context
      PROVE  FeaturesRead' /\ Contexts'
  <2>1. context = << >> /\ session.restored <= Len(Prompt)
    BY <1>1 DEF FeaturesRead
  <2> QED
    BY <1>1, <2>1 DEF FeaturesRead, Contexts, Remembered, Due, Reading
<1>2. ASSUME pc \in Reading, run' = run, session'.restored = session.restored,
             UNCHANGED <<cache, hidden>>
      PROVE  Mapped'
  BY <1>2 DEF FeaturesRead, Mapped, Known, Hole
<1>3. CASE Open
  BY <1>3, OpenRead
<1>4. CASE Chunk
  <2>1. /\ pc = "chunks" /\ pc' \in {"chunks", "closing"}
        /\ run' = run /\ session' = session /\ context' = context
    BY <1>4 DEF Chunk, Resume, fixed, request, decoding, drafts
  <2>2. pc' \in Reading => Mapped'
    BY <1>0, <1>4, <2>1, ChunkKeeps, FedFeatures DEF FeaturesRead, Reading
  <2> QED
    BY <1>1, <2>1, <2>2 DEF Reading
<1>5. CASE Seam
  <2>1. /\ pc = "chunks" /\ pc' \in {"prompt", "closing"}
        /\ run' = run /\ session' = session /\ context' = context
    BY <1>5 DEF Seam, Resume, fixed, request, decoding, drafts
  <2>2. ReadsOn \/ UNCHANGED <<cache, hidden>>
    BY <1>5, SeamKeeps
  <2>3. pc' \in Reading => Mapped'
    BY <1>0, <1>2, <2>1, <2>2, FedFeatures DEF FeaturesRead, Reading
  <2> QED
    BY <1>1, <2>1, <2>3 DEF Reading
<1>6. CASE PublishPrompt
  <2>1. /\ pc = "prompt" /\ pc' \in {"tail", "closing", "raising"}
        /\ run' = run /\ context' = context /\ UNCHANGED <<cache, hidden>>
    BY <1>6 DEF PublishPrompt, Resume, request, prefilled, decoding, drafts
  <2>2. session'.restored = session.restored
    BY <1>6, PublishPromptKeeps
  <2> QED
    BY <1>1, <1>2, <2>1, <2>2 DEF Reading
<1>7. CASE PrefillTail
  <2>1. /\ pc = "tail" /\ pc' \in {"complete", "closing"}
        /\ run' = run /\ session' = session /\ context' = context
    BY <1>7 DEF PrefillTail, Resume, fixed, request, decoding, drafts
  <2>2. ReadsOn \/ UNCHANGED <<cache, hidden>>
    BY <1>7, PrefillTailKeeps
  <2>3. pc' \in Reading => Mapped'
    BY <1>0, <1>2, <2>1, <2>2, FedFeatures DEF FeaturesRead, Reading
  <2> QED
    BY <1>1, <2>1, <2>3 DEF Reading
<1>8. CASE Complete
  BY <1>8, CompleteRead
<1> QED
  BY <1>3, <1>4, <1>5, <1>6, <1>7, <1>8 DEF Prefill

\* A step after the prefill that absorbs nothing.
LEMMA ContextStill ==
  ASSUME FeaturesRead, Remembered, run' = run, session'.restored = session.restored,
         context' = context, pc' \notin {"open", "first"} \cup Reading
  PROVE  FeaturesRead' /\ Remembered'
  BY DEF FeaturesRead, Remembered, Known, Hole

\* Absorbing the features of the last pass makes the context complete.
LEMMA ContextGrows ==
  ASSUME DecodeInv, FeaturesRead, Remembered, Pending, AbsorbContext, run' = run,
         session' = session, start' = start, pc' \notin {"open", "first"} \cup Reading
  PROVE  FeaturesRead' /\ Remembered' /\ Absorbed'
<1>1. /\ context \in Seq(Nat) /\ hidden \in Seq(Nat) /\ context' = context \o hidden
      /\ Len(context) + Len(hidden) = start
  BY DEF DecodeInv, Typed, Remembered, Pending, AbsorbContext
<1>2. /\ context' \in Seq(Nat) /\ Len(context') = start
      /\ Len(context) \in Nat /\ Len(hidden) \in Nat
  BY <1>1, ConcatProperties, LenProperties
<1>3. ASSUME NEW i \in 1 .. Len(context') PROVE Known(i, context'[i])
  <2>1. CASE i <= Len(context)
    <3>1. i \in 1 .. Len(context) /\ context'[i] = context[i]
      BY <1>1, <1>2, <2>1, ConcatProperties
    <3> QED
      BY <3>1 DEF Remembered
  <2>2. CASE i > Len(context)
    <3> DEFINE j == i - Len(context)
    <3>1. j \in 1 .. Len(hidden) /\ context'[i] = hidden[j] /\ Len(context) + j = i
      BY <1>1, <1>2, <2>2, ConcatProperties
    <3> HIDE DEF j
    <3> QED
      BY <3>1 DEF Pending
  <2> QED
    BY <1>2, <2>1, <2>2
<1> QED
  BY <1>1, <1>2, <1>3 DEF FeaturesRead, Remembered, Absorbed, Known, Hole

\* A block of one token is planned only where no more are wanted, or there is room
\* for no more.
LEMMA PlainBlock ==
  ASSUME Typed, NEW p, NEW done \in Nat, done < run.max, BlockLength(p, done) = 1, FullBlock > 1
  PROVE  done + 1 >= run.max
<1> DEFINE a == FullBlock
           b == Adaptive!BlockLimit(p)
           c == run.max - done
<1>1. a \in Int /\ b \in Int /\ c \in Int /\ 1 < a /\ 1 < b /\ 1 <= c
  BY LimitFacts, BlockAssumption DEF Adaptive!BlockLimit
<1>2. BlockLength(p, done) = Max({1, Min({a, b, c})})
  BY DEF BlockLength
<1> HIDE DEF a, b, c
<1>3. Min({a, b, c}) = 1
  BY <1>1, <1>2, MinThree
<1>4. c = 1
  <2>1. Min({a, b, c}) \in {a, b, c}
    BY <1>1, MinMax
  <2> QED
    BY <1>1, <1>3, <2>1
<1> QED
  BY <1>4, LimitFacts DEF c

\* A block of more than one token is drafted where blocks are wide.
LEMMA WideBlock ==
  ASSUME Typed, NEW p, NEW done \in Nat, done < run.max, BlockLength(p, done) > 1
  PROVE  FullBlock > 1
<1>1. BlockLength(p, done) \in 1 .. FullBlock
  BY BlockFits
<1> QED
  BY <1>1, BlockAssumption

LEMMA BeginContexts ==
  ASSUME DecodeInv, FeaturesRead, Contexts, run.mode = "dflash",
         BeginPlain \/ BeginPrefetched \/ BeginDrafted
  PROVE  FeaturesRead' /\ Contexts'
<1> DEFINE len == BlockLength(policy, Len(generated))
<1>1. /\ pc = "cycle" /\ Len(generated) = Done /\ Done = Held /\ Done \in Nat /\ Done < run.max
      /\ Typed
  BY LimitFacts DEF BeginPlain, BeginPrefetched, BeginDrafted, DecodeInv, Between, Done, Typed
<1>2. /\ pc' = "verify" /\ UNCHANGED <<run, session, start>>
  BY DEF BeginPlain, BeginPrefetched, BeginDrafted, Begin, fixed, request, verified
<1>3. Held' = Held
  BY <1>2 DEF Held
<1>4. ASSUME NEW d, Begin(d) PROVE block'.len = d.len
  <2>1. block' = [NoBlock EXCEPT !.len = d.len, !.staged = d.staged,
                                 !.tokens = d.tokens, !.source = d.source]
    BY <1>4 DEF Begin
  <2> QED
    BY <2>1 DEF NoBlock
<1>5. CASE BeginPlain
  <2> DEFINE d == [NoDraft EXCEPT !.len = 1, !.staged = staged]
  <2>1. Begin(d) /\ len = 1 /\ context' = context
    BY <1>5 DEF BeginPlain, drafts
  <2>2. d.len = 1
    BY DEF NoDraft
  <2> HIDE DEF d
  <2>3. block'.len = 1
    BY <1>4, <2>1, <2>2
  <2>4. FullBlock > 1 => Held + 1 >= run.max
    BY <1>1, <2>1, PlainBlock
  <2>5. FeaturesRead' /\ Remembered'
    BY <1>2, <2>1, ContextStill DEF Contexts, Reading
  <2>6. Due'
    BY <1>2, <1>3, <2>3, <2>4 DEF Due, Wide
  <2> QED
    BY <2>5, <2>6 DEF Contexts
<1>6. CASE BeginPrefetched
  <2>1. Begin(prefetched) /\ prefetched # NoDraft /\ prefetched.len = len /\ len > 1
        /\ context' = context
    BY <1>6 DEF BeginPrefetched
  <2>2. block'.len = len
    BY <1>4, <2>1
  <2>3. FullBlock > 1
    BY <1>1, <2>1, WideBlock
  <2>4. Absorbed
    BY <1>1, <2>1, <2>3 DEF Contexts, Due, Wide
  <2>5. FeaturesRead' /\ Remembered'
    BY <1>2, <2>1, ContextStill DEF Contexts, Reading
  <2>6. Due'
    BY <1>2, <2>1, <2>2, <2>4 DEF Due, Absorbed
  <2> QED
    BY <2>5, <2>6 DEF Contexts
<1>7. CASE BeginDrafted
  <2>1. PICK d \in Drafts(staged, len, index, gate) : Begin(d)
    BY <1>7 DEF BeginDrafted
  <2>2. len > 1 /\ len \in Nat /\ AbsorbContext /\ (run.profile \/ prefetched = NoDraft \/ prefetched.len # len)
    BY <1>1, <1>7, BlockFits DEF BeginDrafted
  <2> HIDE DEF len
  <2>3. d.len = len
    <3>1. index \in Seq(Token) /\ staged \in Token
      BY DEF DecodeInv, Typed
    <3> QED
      BY <2>1, <2>2, <3>1, DraftedBlock
  <2>4. FullBlock > 1
    BY <1>1, <2>2, WideBlock DEF len
  <2>5. prefetched = NoDraft
    BY <1>1, <2>2 DEF DecodeInv, Ahead, len
  <2>6. Pending
    BY <1>1, <2>4, <2>5 DEF Contexts, Due, Wide
  <2>7. FeaturesRead' /\ Remembered' /\ Absorbed'
    BY <1>2, <2>2, <2>6, ContextGrows DEF Contexts, Reading
  <2>8. Due'
    BY <1>2, <1>4, <2>1, <2>2, <2>3, <2>7 DEF Due
  <2> QED
    BY <2>7, <2>8 DEF Contexts
<1> QED
  BY <1>5, <1>6, <1>7

\* What a pass leaves is due for the next draft.
LEMMA PassContexts ==
  ASSUME DecodeInv, FeaturesRead, Contexts, Pass
  PROVE  FeaturesRead' /\ Contexts'
<1>1. /\ DecodeInv' /\ pc = "verify" /\ pc' \in {"record", "emit"}
      /\ hidden' = Positions(start, start')
      /\ start \in Nat /\ start' \in Nat /\ start < start' /\ Len(Prompt) <= start
      /\ UNCHANGED <<run, session, context, prefetched>>
  BY PassFeatures
<1>2. FeaturesRead' /\ Remembered'
  BY <1>1, ContextStill DEF Contexts, Reading
<1>3. /\ run.mode \in {"dflash", "ddtree"} /\ prefetched = NoDraft
      /\ Held = start - Len(Prompt) /\ Held' = start' - Len(Prompt) /\ Len(Prompt) \in Nat
      /\ block.len \in 1 .. FullBlock /\ FullBlock \in Nat /\ run.max \in Nat
  BY <1>1, PromptFacts, LimitFacts, BlockAssumption DEF DecodeInv, Planned, Ahead, Pass, Held
<1>4. ASSUME Wide, Held' < run.max PROVE Pending'
  <2>1. block.len > 1
    <3> SUFFICES ASSUME block.len = 1 PROVE FALSE
      BY <1>3
    <3>1. Held + 1 >= run.max
      BY <1>1, <1>4 DEF Contexts, Due
    <3> QED
      BY <1>1, <1>3, <1>4, <3>1
  <2>2. Len(context) = start
    BY <1>1, <2>1 DEF Contexts, Due, Absorbed
  <2>3. PICK a \in Nat, b \in Nat : a = start /\ b = start' /\ a < b
    BY <1>1
  <2> DEFINE k == b - a
  <2>4. k \in Nat /\ a + k = b
    <3>1. a < b
      BY <2>3
    <3>2. b - a \in Nat
      BY <3>1
    <3>3. a + (b - a) = b
      OBVIOUS
    <3> QED
      BY <3>2, <3>3
  <2>5. hidden' = [i \in 1 .. k |-> a + i]
    <3>1. Positions(a, b) = [i \in 1 .. k |-> a + i]
      BY DEF Positions
    <3>2. hidden' = Positions(a, b)
      BY <1>1, <2>3
    <3> QED
      BY <3>1, <3>2
  <2> HIDE DEF k
  <2>6. Len(hidden') = k /\ \A i \in 1 .. k : hidden'[i] = a + i
    BY <2>4, <2>5
  <2>7. context' = context /\ Len(context) = a
    BY <1>1, <2>2, <2>3
  <2> QED
    BY <2>3, <2>4, <2>6, <2>7 DEF Pending, Known
<1>5. Due'
  BY <1>1, <1>3, <1>4 DEF Due, Wide
<1> QED
  BY <1>2, <1>5 DEF Contexts

\* The rest of a cycle and the stream between cycles.
LEMMA PrefetchContexts ==
  ASSUME DecodeInv, FeaturesRead, Contexts, Prefetch
  PROVE  FeaturesRead' /\ Contexts'
<1> DEFINE done == Len(generated) + Len(block.committed)
           len == BlockLength(policy, done)
<1>1. /\ pc = "prefetch" /\ pc' = "emit" /\ UNCHANGED <<run, session, start, hidden>>
      /\ run.mode = "dflash" /\ prefetched = NoDraft
  BY DEF Prefetch, fixed, request, verified, DecodeInv, Places, Ahead
<1>2. done = Held /\ Held \in Nat /\ Held' = Held /\ Typed
  <2>1. /\ Done = Held - Len(block.committed) /\ Held \in Nat /\ Len(block.committed) \in Nat
    BY <1>1, BlockAssumption DEF DecodeInv, Typed, Committed
  <2> QED
    BY <1>1, <2>1 DEF Done, Held, DecodeInv
<1> HIDE DEF done
<1>3. CASE run.max > done /\ len > 1
  <2>1. prefetched' \in Drafts(block.next, len, index, gate) /\ AbsorbContext
    BY <1>3 DEF Prefetch, done
  <2>2. done < run.max /\ len \in Nat /\ FullBlock > 1
    <3>1. run.max \in Nat
      BY <1>2, LimitFacts
    <3> QED
      BY <1>2, <1>3, <3>1, BlockFits, WideBlock
  <2> HIDE DEF len
  <2>3. prefetched' # NoDraft
    <3>1. index \in Seq(Token) /\ block.next \in Token
      BY DEF DecodeInv, Typed, Blocks
    <3>2. prefetched'.len = len
      BY <1>3, <2>1, <2>2, <3>1, DraftedBlock
    <3> QED
      BY <1>3, <3>2 DEF NoDraft
  <2>4. Pending
    BY <1>1, <1>2, <2>2 DEF Contexts, Due, Wide
  <2>5. FeaturesRead' /\ Remembered' /\ Absorbed'
    BY <1>1, <2>1, <2>4, ContextGrows DEF Contexts, Reading
  <2> QED
    BY <1>1, <2>3, <2>5 DEF Contexts, Due
<1>4. CASE ~(run.max > done /\ len > 1)
  <2>1. prefetched' = NoDraft /\ context' = context
    BY <1>4 DEF Prefetch, done
  <2>2. FeaturesRead' /\ Remembered'
    BY <1>1, <2>1, ContextStill DEF Contexts, Reading
  <2>3. Due'
    BY <1>1, <1>2, <2>1 DEF Contexts, Due, Wide, Pending, Known, Hole
  <2> QED
    BY <2>2, <2>3 DEF Contexts
<1> QED
  BY <1>3, <1>4

\* Steps that leave the draft and the features as they are.
LEMMA DueStill ==
  ASSUME FeaturesRead, Contexts, pc \in {"cycle", "record", "prefetch", "emit"},
         pc' \notin {"open", "first", "verify"} \cup Reading,
         UNCHANGED <<run, start, hidden, context, prefetched>>,
         session' = session
  PROVE  FeaturesRead' /\ Contexts'
<1>1. FeaturesRead' /\ Remembered'
  BY ContextStill DEF Contexts
<1>2. Due'
  BY DEF Contexts, Due, Wide, Pending, Absorbed, Known, Hole, Held
<1> QED
  BY <1>1, <1>2 DEF Contexts

LEMMA YieldFirstContexts ==
  ASSUME DecodeInv, FeaturesRead, Contexts, YieldFirst
  PROVE  FeaturesRead' /\ Contexts'
<1>1. /\ pc = "first" /\ pc' \in {"cycle", "closing", "snapshot"}
      /\ UNCHANGED <<run, start, hidden, context, prefetched>>
      /\ session' = [session EXCEPT !.collect = ShouldCollect]
  BY DEF YieldFirst, Resume, request, verified, drafts
<1>2. session'.restored = session.restored
  <2>1. session \in Sessions
    BY DEF DecodeInv, Typed
  <2> QED
    BY <1>1, <2>1 DEF Sessions
<1>3. FeaturesRead' /\ Remembered'
  BY <1>1, <1>2, ContextStill DEF Contexts, Reading
<1>4. Pending'
  <2>1. /\ context = << >> /\ Len(hidden) = Len(Prompt)
        /\ \A i \in 1 .. Len(Prompt) : Known(i, hidden[i])
    BY <1>1 DEF FeaturesRead
  <2>2. start = Len(Prompt) /\ Len(Prompt) \in Nat
    BY <1>1, PromptFacts DEF DecodeInv, Fresh, Held, Typed
  <2> QED
    BY <1>1, <1>2, <2>1, <2>2 DEF Pending, Known, Hole
<1>5. prefetched' = NoDraft
  BY <1>1 DEF DecodeInv, Fresh
<1> QED
  BY <1>1, <1>3, <1>4, <1>5 DEF Contexts, Due

LEMMA StreamContexts ==
  ASSUME DecodeInv, FeaturesRead, Contexts, Stream
  PROVE  FeaturesRead' /\ Contexts'
<1>1. CASE YieldFirst
  BY <1>1, YieldFirstContexts
<1>2. CASE Emit \/ EndCycle \/ LimitReached
  <2>1. /\ pc \in {"cycle", "emit"} /\ pc' \in {"cycle", "emit", "closing", "snapshot"}
        /\ UNCHANGED <<run, start, hidden, context, prefetched>> /\ session' = session
    BY <1>2 DEF Emit, EndCycle, LimitReached, Resume, fixed, request, verified, drafts
  <2> QED
    BY <2>1, DueStill DEF Reading
<1>3. CASE PublishSnapshot \/ Close
  <2>1. /\ pc' \in {"ending", "closing", "finished", "closed", "raised"}
        /\ run' = run /\ session' = session /\ context' = context
    BY <1>3 DEF PublishSnapshot, Close, Endings, fixed, request, drafts
  <2>2. FeaturesRead' /\ Remembered'
    BY <2>1, ContextStill DEF Contexts, Reading
  <2> QED
    BY <2>1, <2>2 DEF Contexts, Due
<1> QED
  BY <1>1, <1>2, <1>3 DEF Stream

LEMMA TreeContexts ==
  ASSUME DecodeInv, FeaturesRead, Contexts, run.mode = "ddtree", TreeCycle
  PROVE  FeaturesRead' /\ Contexts'
<1> DEFINE len == TreeBlockLength
<1>1. ASSUME pc = "cycle", Len(generated) < run.max
      PROVE  /\ Held = Done /\ prefetched = NoDraft /\ len \in 1 .. FullBlock
             /\ len > 1 => TreeBlock > 1
             /\ TreeBlock > 1 /\ len = 1 => Held + 1 >= run.max
  <2> DEFINE a == TreeBlock
             b == run.max - Done
             m == Min({a, b})
  <2>1. Held = Done /\ prefetched = NoDraft /\ Done \in Nat /\ Done < run.max /\ run.max \in Nat
    BY <1>1, LimitFacts DEF DecodeInv, Between, Ahead, Typed, Done
  <2>2. a \in Int /\ b \in Int /\ 1 <= a /\ a <= FullBlock /\ 1 <= b /\ FullBlock \in Nat
    BY <2>1, BlockAssumption, TreeAssumption
  <2>3. len = Max({1, m})
    BY DEF TreeBlockLength, Done
  <2>4. len \in 1 .. FullBlock
    BY <2>1, TreeBlockFits DEF DecodeInv
  <2>5. b = 1 => Held + 1 >= run.max
    BY <2>1
  <2> HIDE DEF a, b, len
  <2>6. m = IF a <= b THEN a ELSE b
    BY <2>2, MinMaxTwo
  <2> HIDE DEF m
  <2>7. m \in Int /\ 1 <= m /\ m <= a /\ (m = 1 => a = 1 \/ b = 1)
    BY <2>2, <2>6
  <2>8. Max({1, m}) = m
    BY <2>7, AtLeastOne
  <2>9. /\ len > 1 => a > 1
        /\ a > 1 /\ len = 1 => b = 1
    BY <2>2, <2>3, <2>7, <2>8
  <2> QED
    BY <2>1, <2>4, <2>5, <2>9 DEF a
<1>2. ASSUME NEW rows, NEW slots, NEW source, Launch(rows, slots, source),
             IF len > 1 THEN AbsorbContext ELSE context' = context
      PROVE  FeaturesRead' /\ Contexts'
  <2>1. /\ pc = "cycle" /\ Len(generated) < run.max /\ pc' = "verify"
        /\ block' = [NoBlock EXCEPT !.len = len, !.staged = staged, !.source = source]
        /\ UNCHANGED <<run, session, start>>
    BY <1>2 DEF Launch, fixed, request, verified
  <2>2. block'.len = len /\ Held' = Held
    BY <2>1 DEF NoBlock, Held
  <2>3. /\ Held = Done /\ prefetched = NoDraft /\ len \in 1 .. FullBlock
        /\ len > 1 => TreeBlock > 1
        /\ TreeBlock > 1 /\ len = 1 => Held + 1 >= run.max
    BY <1>1, <2>1
  <2> HIDE DEF len
  <2>4. CASE len > 1
    <3>1. Pending
      BY <2>1, <2>3, <2>4 DEF Contexts, Due, Wide, Done
    <3>2. FeaturesRead' /\ Remembered' /\ Absorbed'
      BY <1>2, <2>1, <2>4, <3>1, ContextGrows DEF Contexts, Reading
    <3>3. Due'
      BY <2>1, <2>2, <2>3, <2>4, <3>2 DEF Due
    <3> QED
      BY <3>2, <3>3 DEF Contexts
  <2>5. CASE ~(len > 1)
    <3>1. FeaturesRead' /\ Remembered'
      BY <1>2, <2>1, <2>5, ContextStill DEF Contexts, Reading
    <3>2. len = 1
      BY <2>3, <2>5, BlockAssumption
    <3>3. Due'
      BY <2>1, <2>2, <2>3, <3>2 DEF Due, Wide
    <3> QED
      BY <3>1, <3>3 DEF Contexts
  <2> QED
    BY <2>4, <2>5
<1>3. CASE BeginSingle
  <2>1. /\ Launch({[ids |-> <<staged>>, source |-> "greedy"]}, << >>, "none")
        /\ len = 1 /\ context' = context
    BY <1>3 DEF BeginSingle
  <2> HIDE DEF len
  <2> QED
    BY <1>2, <2>1
<1>4. CASE BeginCopied
  <2>1. len > 1 /\ AbsorbContext
    BY <1>4 DEF BeginCopied
  <2>2. PICK copy \in Copies :
          Launch(Truncated({[ids |-> <<staged>> \o copy, source |-> "copyspec"]},
                           VerifyCount(TreeBlockLength)), << >>, "copyspec")
    BY <1>4 DEF BeginCopied
  <2> HIDE DEF len
  <2> QED
    BY <1>2, <2>1, <2>2
<1>5. CASE BeginBatch
  <2>1. len > 1 /\ AbsorbContext
    BY <1>5 DEF BeginBatch
  <2>2. PICK rows : Launch(rows, << >>, "dflash")
    BY <1>5 DEF BeginBatch
  <2> HIDE DEF len
  <2> QED
    BY <1>2, <2>1, <2>2
<1>6. CASE BeginTree
  <2>1. len > 1 /\ AbsorbContext
    BY <1>6 DEF BeginTree
  <2>2. PICK slots : Launch({}, slots, "dflash")
    BY <1>6 DEF BeginTree
  <2> HIDE DEF len
  <2> QED
    BY <1>2, <2>1, <2>2
<1>7. CASE DraftRaises
  <2>1. /\ pc = "cycle" /\ Len(generated) < run.max /\ len > 1 /\ pc' = "raising"
        /\ AbsorbContext \/ context' = context
        /\ UNCHANGED <<run, session, start>>
    BY <1>7 DEF DraftRaises, fixed, request, verified
  <2>2. Pending
    <3>1. Held = Done /\ prefetched = NoDraft /\ TreeBlock > 1
      BY <1>1, <2>1
    <3> QED
      BY <2>1, <3>1 DEF Contexts, Due, Wide, Done
  <2>3. FeaturesRead' /\ Remembered'
    BY <2>1, <2>2, ContextGrows, ContextStill DEF Contexts, Reading
  <2> QED
    BY <2>1, <2>3 DEF Contexts, Due
<1>8. CASE VerifyBatch \/ VerifyTree
  BY <1>8, PassContexts DEF Pass
<1> QED
  BY <1>3, <1>4, <1>5, <1>6, <1>7, <1>8 DEF TreeCycle

LEMMA ContextsStep ==
  ASSUME DecodeInv, FeaturesRead, Contexts, [Next]_treeVars
  PROVE  FeaturesRead' /\ Contexts'
<1>1. CASE TargetOnly
  <2>1. /\ pc' \in {"token", "step", "ending", "closing"}
        /\ run' = run /\ session' = session /\ context' = context
    BY <1>1 DEF TargetOnly, TargetPrefill, TargetToken, TargetStep, Resume, fixed, request,
       decoding, drafts
  <2>2. FeaturesRead' /\ Remembered'
    BY <2>1, ContextStill DEF Contexts, Reading
  <2> QED
    BY <2>1, <2>2 DEF Contexts, Due
<1>2. CASE run.mode = "dflash" /\ LinearCycle
  <2>1. CASE Verify
    BY <1>2, <2>1, PassContexts DEF Pass
  <2>2. CASE Record
    <3>1. /\ pc = "record" /\ pc' \in {"emit", "prefetch"}
          /\ UNCHANGED <<run, start, hidden, context, prefetched>> /\ session' = session
      BY <2>2 DEF Record, fixed, request, verified, drafts
    <3> QED
      BY <3>1, DueStill DEF Reading
  <2> QED
    BY <1>2, <2>1, <2>2, BeginContexts, PrefetchContexts DEF LinearCycle
<1>3. CASE Retire \/ UNCHANGED treeVars
  <2>1. /\ UNCHANGED <<run, session, pc, block, start, cache, hidden, context, prefetched>>
    BY <1>3 DEF Retire, prefilled, decoding, treeVars, vars, verified, drafts, fixed, request
  <2>2. FeaturesRead' /\ Remembered'
    BY <2>1 DEF FeaturesRead, Contexts, Remembered, Mapped, Known, Hole
  <2>3. Due'
    BY <2>1 DEF Contexts, Due, Wide, Pending, Absorbed, Known, Hole, Held
  <2> QED
    BY <2>2, <2>3 DEF Contexts
<1> QED
  BY <1>1, <1>2, <1>3, PrefillRead, TreeContexts, StreamContexts DEF Next, Advance, Decode

\* For every prompt, block, tree and restored snapshot: the draft absorbs the
\* features of every committed position once and in order, and has them all when a
\* drafted block is verified; what it misses it does not attend to.
THEOREM DraftSeesContext == Spec => []DraftContextInOrder
<1>1. DecodeInv /\ FeaturesRead /\ Contexts => DraftContextInOrder
  <2> SUFFICES ASSUME DecodeInv, FeaturesRead, Contexts PROVE DraftContextInOrder
    OBVIOUS
  <2>1. /\ context \in Seq(Nat) /\ session.restored \in Nat /\ session.restored <= Len(Prompt)
        /\ Sink \in Nat /\ Window \in Nat /\ Len(Prompt) \in Nat
    BY PromptFacts, WindowAssumption DEF Contexts, Remembered, DecodeInv, Typed, Sessions,
       FeaturesRead
  <2>2. ASSUME NEW i \in DOMAIN context, context[i] # i
        PROVE  context[i] = 0 /\ ~run.full /\ i \in Sink + 1 .. Len(Prompt) - Window
    <3>1. i \in 1 .. Len(context)
      BY <2>1, <2>2, LenProperties
    <3>2. context[i] = 0 /\ Hole(i)
      BY <2>2, <3>1 DEF Contexts, Remembered, Known
    <3> QED
      BY <2>1, <3>2 DEF Hole
  <2>3. pc = "verify" /\ block.len > 1 => Len(context) = start
    BY DEF Contexts, Due, Absorbed
  <2> QED
    BY <2>2, <2>3 DEF DraftContextInOrder
<1>2. DecodeInv /\ (FeaturesRead /\ Contexts) /\ [Next]_treeVars => (FeaturesRead /\ Contexts)'
  BY ContextsStep
<1> QED
  BY <1>1, <1>2, ReadFirst, AlwaysDecode, PTL DEF Spec

-----------------------------------------------------------------------------
(* What the published snapshots are of *)

Ends == DOMAIN Endings \cup {"finished", "closed", "raised"}

\* The features reach as far as a restore of the snapshot, or of its slice at the
\* sidecar, needs them.
Covers(s) ==
  \A i \in 1 .. Len(s.tokens) :
    \/ run.full \/ i <= Sink \/ i > Len(s.tokens) - Window
    \/ i \in s.sidecar.at - Window + 1 .. s.sidecar.at
    => i \in DOMAIN s.features

\* A snapshot of one text, with real features as far as they are needed.
OfOneText(s) ==
  LET prefix == SubSeq(s.tokens, 1, s.sidecar.at)
  IN /\ s.kv = s.tokens /\ s.rec = s.tokens /\ s.row = s.tokens
     /\ s.sidecar.rec = prefix /\ s.sidecar.row = prefix
     /\ \A i \in DOMAIN s.features : s.features[i] = i
     /\ Covers(s)

Described ==
  \A s \in published :
    /\ OfOneText(s)
    /\ IF s.kind = "generation" THEN s.tokens = Text(Done) /\ pc \in Ends
       ELSE IsPrefix(s.tokens, Prompt)

\* What is set aside for the snapshot of the answer: the sidecar is of the prompt
\* up to the boundary, the features frozen are the prompt's, the chunks those of
\* the tokens committed.
Sidecar ==
  LET at == session.sidecar.at IN
  /\ at \in {0, session.boundary} /\ at <= Len(Prompt) /\ (at > 0 => session.restored <= at)
  /\ session.sidecar.rec = SubSeq(Prompt, 1, at) /\ session.sidecar.row = SubSeq(Prompt, 1, at)

SetAside ==
  /\ Sidecar
  /\ session.frozen # << >> =>
       Len(session.frozen) = Len(Prompt) /\ \A i \in 1 .. Len(Prompt) : Known(i, session.frozen[i])
  /\ session.publish => session.boundary > 0
  /\ pc \in Reading => session.restored <= Len(cache.kv)
  /\ pc = "prompt" /\ session.restored < session.boundary => row = cache.kv

Generating == Loop \cup {"snapshot"}
Collected ==
  /\ pc \in {"open", "first"} \cup Reading => chunks = << >>
  /\ pc \in Generating =>
       chunks = IF session.collect THEN Positions(Len(Prompt), start) ELSE << >>

\* The positions a snapshot has features for: those it needs, and none that the
\* snapshot it was built on did not need.
LEMMA CoveredFacts ==
  ASSUME NEW total \in Nat, NEW b \in Nat, b <= total, session.restored \in Nat,
         session.restored <= total, b > 0 => session.restored <= b
  PROVE  /\ Covered(total, b) \subseteq 1 .. total
         /\ \A i \in Covered(total, b) : ~Hole(i)
         /\ \A i \in 1 .. total :
              run.full \/ i <= Sink \/ i > total - Window \/ i \in b - Window + 1 .. b
              => i \in Covered(total, b)
<1>1. Sink \in Nat /\ Window \in Nat
  BY WindowAssumption
<1> DEFINE short == total - Window
           back == Max({0, b - Window})
           tail == IF b = 0 THEN short ELSE Min({short, back})
           all == run.full \/ Sink + Window = 0 \/ total <= Sink + Window \/ tail <= Sink
<1>2. Covered(total, b) = IF all THEN 1 .. total ELSE 1 .. Sink \cup tail + 1 .. total
  BY DEF Covered
<1>3. /\ tail \in Int /\ tail <= short /\ (b = 0 => tail = short)
      /\ b > 0 => (tail = short \/ tail = b - Window \/ (tail = 0 /\ b - Window <= 0))
      /\ b > 0 => (tail <= b - Window \/ tail <= 0)
  <2>1. short \in Int /\ b - Window \in Int
    BY <1>1
  <2>2. back = IF 0 >= b - Window THEN 0 ELSE b - Window
    <3> DEFINE x == b - Window
               z == 0
    <3>1. x \in Int /\ z \in Int
      BY <2>1
    <3> HIDE DEF x, z
    <3>2. Max({z, x}) = IF z >= x THEN z ELSE x
      BY <3>1, MinMaxTwo
    <3> QED
      BY <3>2 DEF x, z
  <2>3. back \in Int
    BY <2>1, <2>2
  <2> HIDE DEF short, back
  <2>4. Min({short, back}) = IF short <= back THEN short ELSE back
    BY <2>1, <2>3, MinMaxTwo
  <2> QED
    BY <1>1, <2>1, <2>2, <2>3, <2>4
<1> HIDE DEF tail
<1>4. \A i \in Covered(total, b) : i \in 1 .. total
  BY <1>1, <1>2, <1>3
<1>5. ASSUME NEW i \in Covered(total, b), Hole(i) PROVE FALSE
  <2>1. ~run.full /\ Sink + Window # 0 /\ i > Sink /\ i <= session.restored - Window /\ i \in Int
    BY <1>1, <1>5 DEF Hole
  <2>2. i <= short
    BY <1>1, <2>1
  <2>3. ~(total <= Sink + Window)
    BY <1>1, <2>1, <2>2
  <2>4. i <= tail
    <3>1. CASE b = 0
      BY <1>3, <2>2, <3>1
    <3>2. CASE b > 0
      BY <1>1, <1>3, <2>1, <2>2, <3>2
    <3> QED
      BY <3>1, <3>2
  <2>5. i \notin tail + 1 .. total /\ i \notin 1 .. Sink
    BY <1>1, <1>3, <2>1, <2>4
  <2>6. ~(tail <= Sink)
    BY <1>1, <1>3, <2>1, <2>4
  <2> QED
    BY <1>2, <1>5, <2>1, <2>3, <2>5, <2>6
<1>6. ASSUME NEW i \in 1 .. total,
             run.full \/ i <= Sink \/ i > total - Window \/ i \in b - Window + 1 .. b
      PROVE  i \in Covered(total, b)
  <2>1. CASE all
    BY <1>2, <2>1
  <2>2. CASE ~all
    <3>1. i <= Sink \/ i > tail
      BY <1>1, <1>3, <1>6, <2>2
    <3> QED
      BY <1>1, <1>2, <1>3, <2>2, <3>1
  <2> QED
    BY <2>1, <2>2
<1> QED
  BY <1>4, <1>5, <1>6

KnownAll(features, n) == \A i \in 1 .. n : Known(i, features[i])
SidecarOf(sidecar, tokens) ==
  /\ sidecar.at \in Nat /\ sidecar.at <= Len(tokens)
  /\ sidecar.at > 0 => session.restored <= sidecar.at
  /\ sidecar.rec = SubSeq(tokens, 1, sidecar.at) /\ sidecar.row = SubSeq(tokens, 1, sidecar.at)

\* A snapshot of caches, logits and features of one text is of that text.
LEMMA SnapshotOf ==
  ASSUME NEW kind, NEW tokens, Len(tokens) \in Nat, NEW c, c.kv = tokens /\ c.rec = tokens,
         NEW features, KnownAll(features, Len(tokens)),
         NEW sidecar, SidecarOf(sidecar, tokens),
         session.restored \in Nat, session.restored <= Len(tokens)
  PROVE  LET s == Snapshot(kind, tokens, c, tokens, features, sidecar)
         IN OfOneText(s) /\ s.kind = kind /\ s.tokens = tokens
<1> DEFINE s == Snapshot(kind, tokens, c, tokens, features, sidecar)
           n == Len(tokens)
           at == sidecar.at
           kept == Covered(n, at)
<1>1. /\ s.kind = kind /\ s.tokens = tokens /\ s.kv = tokens /\ s.rec = tokens /\ s.row = tokens
      /\ s.features = [i \in kept |-> features[i]] /\ s.sidecar = sidecar
  BY DEF Snapshot
<1>2. n \in Nat /\ at \in Nat /\ at <= n /\ session.restored \in Nat /\ session.restored <= n
      /\ (at > 0 => session.restored <= at)
  BY DEF SidecarOf
<1>3. \A i \in 1 .. n : Known(i, features[i])
  BY DEF KnownAll
<1>4. s.sidecar.rec = SubSeq(s.tokens, 1, s.sidecar.at) /\ s.sidecar.row = SubSeq(s.tokens, 1, s.sidecar.at)
  BY <1>1 DEF SidecarOf
<1>5. n = Len(s.tokens) /\ at = s.sidecar.at
  BY <1>1
<1> HIDE DEF s, n, at
<1>6. /\ kept \subseteq 1 .. n /\ \A i \in kept : ~Hole(i)
      /\ \A i \in 1 .. n :
           run.full \/ i <= Sink \/ i > n - Window \/ i \in at - Window + 1 .. at => i \in kept
  BY <1>2, CoveredFacts
<1> HIDE DEF kept
<1>7. DOMAIN s.features = kept /\ \A i \in kept : s.features[i] = i
  <2>1. DOMAIN s.features = kept /\ \A i \in kept : s.features[i] = features[i]
    BY <1>1
  <2>2. \A i \in kept : features[i] = i
    BY <1>3, <1>6 DEF Known
  <2> QED
    BY <2>1, <2>2
<1>8. Covers(s)
  BY <1>5, <1>6, <1>7 DEF Covers
<1> QED
  BY <1>1, <1>4, <1>7, <1>8 DEF OfOneText, s

\* The snapshots that are there stay what they are while the tokens handed out do.
LEMMA DescribedStill ==
  ASSUME Described, run' = run /\ greedy' = greedy, published' = published,
         pc \in Ends => pc' \in Ends /\ generated' = generated
  PROVE  Described'
<1>1. ASSUME NEW s \in published PROVE OfOneText(s)' <=> OfOneText(s)
  BY DEF OfOneText, Covers
<1>2. ASSUME NEW s \in published, s.kind = "generation" PROVE s.tokens = Text(Done)' /\ pc' \in Ends
  <2>1. s.tokens = Text(Done) /\ pc \in Ends
    BY <1>2 DEF Described
  <2> QED
    BY <2>1 DEF Text, Done
<1> QED
  BY <1>1, <1>2 DEF Described

\* One more, of the prompt or of all that was handed out.
LEMMA DescribedMore ==
  ASSUME Described, run' = run /\ greedy' = greedy, pc \notin Ends,
         NEW s, OfOneText(s), Publish(s),
         IF s.kind = "generation" THEN s.tokens = Text(Done) /\ generated' = generated /\ pc' \in Ends
         ELSE IsPrefix(s.tokens, Prompt)
  PROVE  Described'
<1>1. published' = published \/ published' = published \cup {s}
  BY DEF Publish
<1>2. ASSUME NEW x PROVE OfOneText(x)' <=> OfOneText(x)
  BY DEF OfOneText, Covers
<1>3. ASSUME NEW x \in published PROVE OfOneText(x) /\ x.kind # "generation" /\ IsPrefix(x.tokens, Prompt)
  BY DEF Described
<1>4. Text(Done)' = Text(Done) \/ generated' # generated
  BY DEF Text, Done
<1> QED
  BY <1>1, <1>2, <1>3, <1>4 DEF Described

LEMMA PositionsAre ==
  ASSUME NEW a \in Nat, NEW b \in Nat, a <= b
  PROVE  /\ Positions(a, b) \in Seq(Nat) /\ Len(Positions(a, b)) = b - a
         /\ \A i \in 1 .. b - a : Positions(a, b)[i] = a + i
<1> DEFINE k == b - a
<1>1. k \in Nat
  OBVIOUS
<1>2. Positions(a, b) = [i \in 1 .. k |-> a + i]
  BY DEF Positions
<1> HIDE DEF k
<1>3. \A i \in 1 .. k : a + i \in Nat
  BY <1>1
<1>4. /\ Positions(a, b) \in Seq(Nat) /\ Len(Positions(a, b)) = k
      /\ \A i \in 1 .. k : Positions(a, b)[i] = a + i
  BY <1>1, <1>2, <1>3, IsASeq
<1> QED
  BY <1>4 DEF k

LEMMA PositionsJoin ==
  ASSUME NEW a \in Nat, NEW b \in Nat, NEW c \in Nat, a <= b, b <= c
  PROVE  Positions(a, b) \o Positions(b, c) = Positions(a, c)
<1> DEFINE p == Positions(a, b)
           q == Positions(b, c)
           r == Positions(a, c)
<1>1. /\ p \in Seq(Nat) /\ q \in Seq(Nat) /\ r \in Seq(Nat)
      /\ Len(p) = b - a /\ Len(q) = c - b /\ Len(r) = c - a
      /\ \A i \in 1 .. b - a : p[i] = a + i
      /\ \A i \in 1 .. c - b : q[i] = b + i
      /\ \A i \in 1 .. c - a : r[i] = a + i
  <2>1. /\ p \in Seq(Nat) /\ Len(p) = b - a
        /\ \A i \in 1 .. b - a : p[i] = a + i
    BY PositionsAre
  <2>2. /\ q \in Seq(Nat) /\ Len(q) = c - b
        /\ \A i \in 1 .. c - b : q[i] = b + i
    BY PositionsAre
  <2>3. /\ r \in Seq(Nat) /\ Len(r) = c - a
        /\ \A i \in 1 .. c - a : r[i] = a + i
    <3>1. a <= c
      OBVIOUS
    <3> QED
      BY <3>1, PositionsAre
  <2> QED
    BY <2>1, <2>2, <2>3
<1> HIDE DEF p, q, r
<1>2. p \o q = r
  <2> DEFINE z == p \o q
  <2>1. /\ z \in Seq(Nat) /\ Len(z) = Len(p) + Len(q)
        /\ \A i \in 1 .. Len(p) + Len(q) : z[i] = IF i <= Len(p) THEN p[i] ELSE q[i - Len(p)]
    BY <1>1, ConcatProperties
  <2>2. Len(p) + Len(q) = c - a
    BY <1>1
  <2> HIDE DEF z
  <2>3. ASSUME NEW i \in 1 .. c - a PROVE z[i] = r[i]
    <3>1. CASE i <= b - a
      BY <1>1, <2>1, <2>2, <3>1
    <3>2. CASE i > b - a
      <4> DEFINE j == i - (b - a)
      <4>1. j \in 1 .. c - b /\ b + j = a + i
        BY <3>2
      <4>2. z[i] = q[j]
        BY <1>1, <2>1, <2>2, <3>2
      <4> HIDE DEF j
      <4> QED
        BY <1>1, <4>1, <4>2
    <3> QED
      BY <3>1, <3>2
  <2>4. z = r
    BY <1>1, <2>1, <2>2, <2>3, SeqEqual
  <2> QED
    BY <2>4 DEF z
<1> QED
  BY <1>2 DEF p, q, r

LEMMA DescribedFirst == Init => SetAside /\ Collected /\ Described
<1> SUFFICES ASSUME Init PROVE SetAside /\ Collected /\ Described
  OBVIOUS
<1>1. /\ pc = "open" /\ published = {} /\ chunks = << >> /\ session = NoSession
      /\ Len(Prompt) \in Nat /\ SubSeq(Prompt, 1, 0) = << >>
  BY PromptFacts, SubSeqEmpty DEF Init
<1>2. /\ session.restored = 0 /\ session.boundary = 0 /\ session.publish = FALSE
      /\ session.frozen = << >> /\ session.sidecar = NoSidecar
  BY <1>1 DEF NoSession
<1>3. SetAside
  BY <1>1, <1>2 DEF SetAside, Sidecar, NoSidecar, Reading
<1> QED
  BY <1>1, <1>3 DEF Collected, Described, Generating, Loop

\* The session stays as it is.
LEMMA AsideStill ==
  ASSUME SetAside, run' = run, session' = session,
         pc' \in Reading => session.restored <= Len(cache'.kv),
         pc' = "prompt" /\ session.restored < session.boundary => row' = cache'.kv
  PROVE  SetAside'
  BY DEF SetAside, Sidecar, Known, Hole

LEMMA OpenDescribed ==
  ASSUME DecodeInv, Collected, Described, Open
  PROVE  SetAside' /\ Collected' /\ Described'
<1>1. /\ pc = "open" /\ pc' = "chunks" /\ UNCHANGED <<run, greedy, published, chunks>>
      /\ session' = [NoSession EXCEPT !.restored = Restored, !.boundary = Boundary,
                                      !.publish = PublishesPrompt]
      /\ cache' = [ColdCache EXCEPT !.kv = SubSeq(Prompt, 1, Restored),
                                    !.rec = SubSeq(Prompt, 1, Restored)]
  BY DEF Open, request, decoding
<1>2. /\ session'.restored = Restored /\ session'.boundary = Boundary
      /\ session'.publish = PublishesPrompt /\ session'.frozen = << >>
      /\ session'.sidecar = NoSidecar
  BY <1>1 DEF NoSession
<1>3. cache'.kv = SubSeq(Prompt, 1, Restored)
  BY <1>1 DEF ColdCache
<1>4. Restored \in 0 .. Len(Prompt) /\ Len(Prompt) \in Nat \ {0}
  <2>1. Restored \in 0 .. Boundary /\ Boundary \in 0 .. Len(Prompt)
    BY RunAssumption, PromptFacts DEF DecodeInv, Typed, Reach, Open, Boundary, Restored
  <2> HIDE DEF Restored, Boundary
  <2> QED
    BY <2>1, PromptFacts
<1>5. Len(cache'.kv) = Restored
  <2>1. PICK n \in Nat : n = Restored
    BY <1>4
  <2> QED
    BY <1>3, <1>4, <2>1, PromptFacts, StartOf
<1>6. PublishesPrompt => Boundary > 0
  BY <1>4 DEF PublishesPrompt, Boundary
<1>7. Sidecar'
  <2>1. SubSeq(Prompt, 1, 0) = << >>
    BY SubSeqEmpty
  <2> QED
    BY <1>2, <1>4, <2>1 DEF Sidecar, NoSidecar
<1>8. SetAside'
  BY <1>1, <1>2, <1>4, <1>5, <1>6, <1>7 DEF SetAside
<1>9. Collected' /\ Described'
  BY <1>1, DescribedStill DEF Collected, Reading, Generating, Loop, Ends, Endings
<1> QED
  BY <1>8, <1>9

\* A frontier that is published has been read with its logits and features.
LEMMA ChunkDescribed ==
  ASSUME DecodeInv, FeaturesRead, Contexts, SetAside, Collected, Described, Chunk
  PROVE  SetAside' /\ Collected' /\ Described'
<1>1. /\ pc = "chunks" /\ pc' \in {"chunks", "closing"}
      /\ UNCHANGED <<run, greedy, session, chunks>>
  BY DEF Chunk, Resume, fixed, request, decoding
<1>2. DecodeInv' /\ ReadsOn
  BY ChunkKeeps
<1>3. /\ session.restored \in Nat /\ session.restored <= Len(cache'.kv) /\ Len(cache'.kv) \in Nat
  <2>1. cache.kv \in Seq(Token) /\ cache'.kv \in Seq(Token) /\ session.restored \in Nat
    BY <1>2 DEF DecodeInv, Typed, Caches, Sessions
  <2>2. session.restored <= Len(cache.kv)
    BY <1>1 DEF SetAside, Reading
  <2> QED
    BY <1>2, <2>1, <2>2, LenProperties DEF ReadsOn
<1>4. SetAside' /\ Collected'
  BY <1>1, <1>3, AsideStill DEF Collected, Reading, Generating, Loop
<1> DEFINE to == Min({Len(cache.kv) + Step, session.boundary - 1})
           s == Snapshot("frontier", SubSeq(Prompt, 1, to), cache', row', hidden', NoSidecar)
<1>5. Publish(s) \/ published' = published
  BY DEF Chunk
<1>6. to = Len(cache'.kv)
  BY ChunkKeeps
<1> HIDE DEF to
<1>7. PICK t : /\ t = SubSeq(Prompt, 1, to) /\ t = cache'.kv /\ t = cache'.rec /\ t = row'
               /\ to = Len(t)
  BY <1>2, <1>6 DEF ReadsOn
<1>8. OfOneText(s) /\ s.kind = "frontier" /\ s.tokens = t
  <2> DEFINE x == Snapshot("frontier", t, cache', t, hidden', NoSidecar)
  <2>1. x = s
    BY <1>7
  <2>2. SidecarOf(NoSidecar, t)
    <3>1. /\ NoSidecar.at = 0 /\ NoSidecar.rec = << >> /\ NoSidecar.row = << >>
      BY DEF NoSidecar
    <3>2. SubSeq(t, 1, 0) = << >>
      BY SubSeqEmpty
    <3>3. 0 <= Len(t)
      BY <1>3, <1>7
    <3> QED
      BY <3>1, <3>2, <3>3 DEF SidecarOf
  <2>3. KnownAll(hidden', Len(t))
    <3>1. Mapped'
      BY <1>1, <1>2, FedFeatures DEF FeaturesRead, Reading
    <3> QED
      BY <1>1, <1>7, <3>1 DEF Mapped, Known, Hole, KnownAll
  <2>4. Len(t) \in Nat /\ session.restored \in Nat /\ session.restored <= Len(t)
    BY <1>3, <1>7
  <2> HIDE DEF s
  <2>5. OfOneText(x) /\ x.kind = "frontier" /\ x.tokens = t
    <3>1. PICK k, c, f, d : k = "frontier" /\ c = cache' /\ f = hidden' /\ d = NoSidecar
      OBVIOUS
    <3>2. /\ c.kv = t /\ c.rec = t /\ KnownAll(f, Len(t)) /\ SidecarOf(d, t)
          /\ x = Snapshot(k, t, c, t, f, d)
      BY <1>7, <2>2, <2>3, <3>1
    <3> HIDE DEF x
    <3>3. OfOneText(x) /\ x.kind = k /\ x.tokens = t
      BY <2>4, <3>2, SnapshotOf
    <3> QED
      BY <3>1, <3>3
  <2> QED
    BY <2>1, <2>5
<1> HIDE DEF s
<1>9. IsPrefix(t, Prompt)
  BY <1>2, <1>6, <1>7 DEF ReadsOn, IsPrefix
<1>10. Described'
  <2>1. pc \notin Ends
    BY <1>1 DEF Ends, Endings
  <2> QED
    BY <1>1, <1>5, <1>8, <1>9, <2>1, DescribedMore, DescribedStill
<1> QED
  BY <1>4, <1>10

LEMMA PublishPromptDescribed ==
  ASSUME DecodeInv, FeaturesRead, SetAside, Collected, Described, PublishPrompt
  PROVE  SetAside' /\ Collected' /\ Described'
<1> DEFINE t == SubSeq(Prompt, 1, session.boundary)
           s == Snapshot("prefill", t, cache, row, hidden, NoSidecar)
           taken == [at |-> session.boundary, rec |-> cache.rec, row |-> row]
<1>1. /\ pc = "prompt" /\ pc' \in {"tail", "closing", "raising"}
      /\ UNCHANGED <<run, greedy, chunks, cache, hidden, row>>
      /\ \/ session' = session
         \/ row # << >> /\ session' = [session EXCEPT !.sidecar = taken]
      /\ published' = published \/ (session.publish /\ ~Exact /\ Publish(s))
  BY DEF PublishPrompt, Resume, request, prefilled, decoding
<1>2. /\ session \in Sessions /\ session.boundary \in Nat /\ session.restored \in Nat
      /\ cache.kv \in Seq(Token)
  BY DEF DecodeInv, Typed, Sessions, Caches
<1>3. /\ Len(cache.kv) = session.boundary /\ cache.kv = t /\ cache.rec = t /\ row \in {<< >>, t}
      /\ session.boundary <= Len(Prompt) /\ session.restored <= session.boundary
  <2>1. Len(cache.kv) = session.boundary
    BY <1>1 DEF DecodeInv, PromptRead, Reading
  <2> QED
    BY <1>1, <2>1 DEF DecodeInv, PromptRead, Reading
<1>4. SetAside'
  <2>1. CASE session' = session
    BY <1>1, <2>1, AsideStill DEF SetAside, Reading
  <2>2. CASE row # << >> /\ session' = [session EXCEPT !.sidecar = taken]
    <3>1. /\ session'.restored = session.restored /\ session'.boundary = session.boundary
          /\ session'.publish = session.publish /\ session'.frozen = session.frozen
          /\ session'.sidecar = taken
      BY <1>2, <2>2 DEF Sessions
    <3>2. taken.at = session.boundary /\ taken.rec = t /\ taken.row = t
      BY <1>3, <2>2
    <3>3. Sidecar'
      BY <1>3, <3>1, <3>2 DEF Sidecar
    <3> HIDE DEF taken, t, s
    <3> QED
      BY <1>1, <3>1, <3>3 DEF SetAside, Known, Hole, Reading
  <2> QED
    BY <1>1, <2>1, <2>2
<1>5. Collected'
  BY <1>1 DEF Collected, Reading, Generating, Loop
<1>6. pc \notin Ends
  BY <1>1 DEF Ends, Endings
<1> HIDE DEF taken
<1>7. CASE session.publish /\ ~Exact /\ Publish(s)
  <2>1. session.restored < session.boundary
    BY <1>2, <1>3, <1>7 DEF Exact, SetAside
  <2>2. row = t
    BY <1>1, <1>3, <2>1 DEF SetAside
  <2>3. hidden # << >> /\ Mapped
    <3>1. Mapped
      BY <1>1 DEF FeaturesRead, Reading
    <3>2. cache.kv # << >>
      BY <1>2, <1>3, <2>1
    <3> QED
      BY <3>1, <3>2 DEF Mapped
  <2> HIDE DEF t
  <2>4. KnownAll(hidden, Len(t))
    BY <1>3, <2>3 DEF Mapped, KnownAll
  <2>5. SidecarOf(NoSidecar, t)
    <3>1. /\ NoSidecar.at = 0 /\ NoSidecar.rec = << >> /\ NoSidecar.row = << >>
      BY DEF NoSidecar
    <3>2. SubSeq(t, 1, 0) = << >>
      BY SubSeqEmpty
    <3>3. 0 <= Len(t)
      BY <1>2, <1>3
    <3> QED
      BY <3>1, <3>2, <3>3 DEF SidecarOf
  <2>6. Len(t) \in Nat /\ session.restored <= Len(t)
    BY <1>2, <1>3
  <2>7. OfOneText(s) /\ s.kind = "prefill" /\ s.tokens = t
    <3>1. PICK k, d : k = "prefill" /\ d = NoSidecar
      OBVIOUS
    <3>2. s = Snapshot(k, t, cache, t, hidden, d)
      BY <2>2, <3>1
    <3> HIDE DEF s
    <3>3. OfOneText(s) /\ s.kind = k /\ s.tokens = t
      BY <1>2, <1>3, <2>4, <2>5, <2>6, <3>1, <3>2, SnapshotOf
    <3> QED
      BY <3>1, <3>3
  <2> HIDE DEF s
  <2>8. IsPrefix(t, Prompt)
    <3>1. /\ SubSeq(t, 1, Len(t)) = t /\ Len(t) <= Len(Prompt)
          /\ t = SubSeq(Prompt, 1, Len(t))
      <4>1. Len(t) = session.boundary /\ t \in Seq(Token)
        BY <1>2, <1>3
      <4> QED
        BY <1>3, <4>1, SubSeqFull DEF t
    <3> QED
      BY <3>1 DEF IsPrefix
  <2>9. Described'
    BY <1>1, <1>6, <1>7, <2>7, <2>8, DescribedMore
  <2> QED
    BY <1>4, <1>5, <2>9
<1>8. CASE published' = published
  BY <1>1, <1>4, <1>5, <1>6, <1>8, DescribedStill
<1> QED
  BY <1>1, <1>7, <1>8

LEMMA PrefillDescribed ==
  ASSUME DecodeInv, FeaturesRead, Contexts, SetAside, Collected, Described, Prefill
  PROVE  SetAside' /\ Collected' /\ Described'
<1>1. ASSUME NEW next, pc \in Reading, pc' \in {next, "closing", "raising"},
             UNCHANGED <<run, greedy, chunks, published>>, next \in {"prompt", "complete", "first"}
      PROVE  Collected' /\ Described'
  <2>1. pc \notin Ends
    BY <1>1 DEF Reading, Ends, Endings
  <2> QED
    BY <1>1, <2>1, DescribedStill DEF Collected, Reading, Generating, Loop
<1>2. CASE Seam
  <2>1. /\ pc = "chunks" /\ pc' \in {"prompt", "closing"}
        /\ session' = session /\ UNCHANGED <<run, greedy, chunks, published>>
    BY <1>2 DEF Seam, Resume, fixed, request, decoding
  <2>2. IF session.restored < session.boundary THEN ReadsOn ELSE UNCHANGED <<cache, hidden>>
    BY <1>2, SeamKeeps
  <2>3. session.restored <= Len(cache'.kv)
    <3>1. cache.kv \in Seq(Token) /\ cache'.kv \in Seq(Token) /\ session.restored \in Nat
      BY <1>2, SeamKeeps DEF DecodeInv, Typed, Caches, Sessions
    <3>2. session.restored <= Len(cache.kv)
      BY <2>1 DEF SetAside, Reading
    <3> QED
      BY <2>2, <3>1, <3>2, LenProperties DEF ReadsOn
  <2>4. SetAside'
    BY <2>1, <2>2, <2>3, AsideStill DEF ReadsOn
  <2> QED
    BY <1>1, <2>1, <2>4 DEF Reading
<1>3. CASE PrefillTail
  <2>1. /\ pc = "tail" /\ pc' \in {"complete", "closing"}
        /\ session' = session /\ UNCHANGED <<run, greedy, chunks, published>>
    BY <1>3 DEF PrefillTail, Resume, fixed, request, decoding
  <2>2. ReadsOn \/ UNCHANGED <<cache, hidden>>
    BY <1>3, PrefillTailKeeps
  <2>3. session.restored <= Len(cache'.kv)
    <3>1. cache.kv \in Seq(Token) /\ cache'.kv \in Seq(Token) /\ session.restored \in Nat
      BY <1>3, PrefillTailKeeps DEF DecodeInv, Typed, Caches, Sessions
    <3>2. session.restored <= Len(cache.kv)
      BY <2>1 DEF SetAside, Reading
    <3> QED
      BY <2>2, <3>1, <3>2, LenProperties DEF ReadsOn
  <2>4. SetAside'
    BY <2>1, <2>3, AsideStill
  <2> QED
    BY <1>1, <2>1, <2>4 DEF Reading
<1>4. CASE Complete
  <2>1. /\ pc = "complete" /\ pc' \in {"first", "closing", "raising"}
        /\ UNCHANGED <<run, greedy, chunks, published, cache, hidden>>
        /\ session' = [session EXCEPT !.frozen = IF ShouldCollect THEN hidden ELSE << >>]
    BY <1>4 DEF Complete, Resume, request, prefilled, decoding
  <2>2. /\ session'.restored = session.restored /\ session'.boundary = session.boundary
        /\ session'.publish = session.publish /\ session'.sidecar = session.sidecar
        /\ session'.frozen \in {<< >>, hidden}
    <3>1. session \in Sessions
      BY DEF DecodeInv, Typed
    <3> QED
      BY <2>1, <3>1 DEF Sessions
  <2>3. hidden # << >> =>
          Len(hidden) = Len(Prompt) /\ \A i \in 1 .. Len(Prompt) : Known(i, hidden[i])
    <3>1. Len(cache.kv) = Len(Prompt) /\ (hidden = << >> \/ Len(hidden) = Len(Prompt))
      BY <2>1 DEF DecodeInv, PromptRead, Reading
    <3>2. Mapped
      BY <2>1 DEF FeaturesRead, Reading
    <3> QED
      BY <3>1, <3>2 DEF Mapped
  <2>4. Sidecar'
    BY <2>2 DEF SetAside, Sidecar
  <2>5. session'.frozen # << >> =>
          /\ Len(session'.frozen) = Len(Prompt)
          /\ \A i \in 1 .. Len(Prompt) : Known(i, session'.frozen[i])
    BY <2>2, <2>3
  <2>6. SetAside'
    BY <2>1, <2>2, <2>4, <2>5 DEF SetAside, Known, Hole, Reading
  <2> QED
    BY <1>1, <2>1, <2>6 DEF Reading
<1> QED
  BY <1>2, <1>3, <1>4, OpenDescribed, ChunkDescribed, PublishPromptDescribed DEF Prefill

\* A part of the prompt is the same part of any text it begins.
LEMMA PromptPart ==
  ASSUME NEW t \in Seq(Token), NEW n \in Nat, n <= Len(Prompt)
  PROVE  SubSeq(Prompt \o t, 1, n) = SubSeq(Prompt, 1, n)
<1> DEFINE z == Prompt \o t
<1>1. Prompt \in Seq(Token) /\ Len(Prompt) \in Nat /\ Len(t) \in Nat
  BY PromptFacts, LenProperties
<1>2. /\ z \in Seq(Token) /\ Len(z) = Len(Prompt) + Len(t)
      /\ \A i \in 1 .. Len(Prompt) : z[i] = Prompt[i]
  BY <1>1, ConcatProperties
<1> HIDE DEF z
<1>3. n <= Len(z)
  BY <1>1, <1>2
<1>4. \A i \in 1 .. n : Prompt[i] = z[0 + i]
  BY <1>1, <1>2
<1>5. SubSeq(Prompt, 1, n) = SubSeq(z, 0 + 1, 0 + n)
  BY <1>1, <1>2, <1>3, <1>4, PartsAgree
<1> QED
  BY <1>5 DEF z

\* The snapshot of the answer is of all that was handed out.
LEMMA PublishSnapshotDescribed ==
  ASSUME DecodeInv, FeaturesRead, SetAside, Collected, Described, PublishSnapshot
  PROVE  Described'
<1> DEFINE t == Prompt \o generated
           features == session.frozen \o chunks
           s == Snapshot("generation", t, cache, row, features, session.sidecar)
<1>1. /\ pc = "snapshot" /\ pc' \in {"ending", "closing"}
      /\ UNCHANGED <<run, greedy, generated>>
      /\ \/ published' = published
         \/ session.frozen # << >> /\ chunks # << >> /\ Publish(s)
  BY DEF PublishSnapshot, fixed, request, emitted
<1>2. pc \notin Ends /\ pc' \in Ends
  BY <1>1 DEF Ends, Endings
<1>3. CASE published' = published
  BY <1>1, <1>2, <1>3, DescribedStill
<1>4. CASE session.frozen # << >> /\ chunks # << >> /\ Publish(s)
  <2>1. PICK m \in Nat : m = Done /\ m = Held /\ start = Len(Prompt) + m /\ m <= Len(greedy)
    <3>1. Done \in Nat /\ Done <= Len(greedy) /\ Held = Done /\ start \in Nat
      BY <1>1, OutputFacts DEF DecodeInv, Between, Typed
    <3> QED
      BY <3>1, PromptFacts DEF Held
  <2>2. /\ generated = SubSeq(greedy, 1, m) /\ generated \in Seq(Token)
        /\ cache.kv = Text(m) /\ cache.rec = Text(m) /\ row = Text(m)
    BY <1>1, <2>1 DEF DecodeInv, Output, Typed, TextRead, Reads
  <2>3. t = Text(m) /\ Len(t) = start
    <3>1. t = Text(m)
      BY <2>2 DEF Text
    <3> QED
      BY <2>1, <3>1, TextFacts DEF DecodeInv, Typed
  <2>4. SidecarOf(session.sidecar, t)
    <3>1. PICK n \in Nat : /\ n = session.sidecar.at /\ n <= Len(Prompt)
                           /\ (n > 0 => session.restored <= n)
                           /\ session.sidecar.rec = SubSeq(Prompt, 1, n)
                           /\ session.sidecar.row = SubSeq(Prompt, 1, n)
      BY DEF DecodeInv, Typed, Sessions, SetAside, Sidecar
    <3>2. SubSeq(t, 1, n) = SubSeq(Prompt, 1, n)
      BY <2>2, <3>1, PromptPart
    <3>3. n <= Len(t)
      BY <2>1, <2>3, <3>1, PromptFacts
    <3> HIDE DEF t
    <3> QED
      BY <3>1, <3>2, <3>3 DEF SidecarOf
  <2>5. KnownAll(features, Len(t))
    <3> DEFINE a == session.frozen
               l == Len(Prompt)
    <3>1. /\ l \in Nat /\ a \in Seq(Nat) /\ Len(a) = l /\ \A i \in 1 .. l : Known(i, a[i])
      BY <1>4, PromptFacts DEF SetAside, DecodeInv, Typed, Sessions
    <3>2. chunks = Positions(l, start)
      BY <1>1, <1>4 DEF Collected, Generating
    <3>3. l <= start /\ start \in Nat /\ start = l + m
      BY <2>1, PromptFacts
    <3> HIDE DEF a, l
    <3>4. /\ chunks \in Seq(Nat) /\ Len(chunks) = start - l
          /\ \A i \in 1 .. start - l : chunks[i] = l + i
      BY <3>1, <3>2, <3>3, PositionsAre
    <3>5. features = a \o chunks
      BY DEF a
    <3> HIDE DEF features
    <3>6. \A i \in 1 .. l + (start - l) : features[i] = IF i <= l THEN a[i] ELSE chunks[i - l]
      BY <3>1, <3>4, <3>5, ConcatProperties
    <3>7. ASSUME NEW i \in 1 .. start PROVE Known(i, features[i])
      <4>1. CASE i <= l
        <5>1. i \in 1 .. l /\ i \in 1 .. l + (start - l)
          BY <3>1, <3>3, <4>1
        <5>2. features[i] = a[i]
          BY <3>6, <4>1, <5>1
        <5> QED
          BY <3>1, <5>1, <5>2
      <4>2. CASE i > l
        <5> DEFINE j == i - l
        <5>1. j \in 1 .. start - l /\ l + j = i
          BY <3>1, <3>3, <4>2
        <5>2. features[i] = chunks[j]
          BY <3>1, <3>3, <3>6, <4>2
        <5> HIDE DEF j
        <5> QED
          BY <3>4, <5>1, <5>2 DEF Known
      <4> QED
        BY <3>1, <3>3, <4>1, <4>2
    <3> QED
      BY <2>3, <3>7 DEF KnownAll
  <2>6. session.restored \in Nat /\ session.restored <= Len(t) /\ Len(t) \in Nat
    <3>1. session.restored \in Nat /\ session.restored <= Len(Prompt) /\ Len(Prompt) \in Nat
      BY PromptFacts DEF FeaturesRead, DecodeInv, Typed, Sessions
    <3> QED
      BY <2>1, <2>3, <3>1
  <2> HIDE DEF t, features
  <2>7. OfOneText(s) /\ s.kind = "generation" /\ s.tokens = t
    <3>1. PICK k, d : k = "generation" /\ d = session.sidecar
      OBVIOUS
    <3>2. s = Snapshot(k, t, cache, t, features, d)
      BY <2>2, <2>3, <3>1
    <3>3. cache.kv = t /\ cache.rec = t
      BY <2>2, <2>3
    <3> HIDE DEF s
    <3>4. OfOneText(s) /\ s.kind = k /\ s.tokens = t
      BY <2>4, <2>5, <2>6, <3>1, <3>2, <3>3, SnapshotOf
    <3> QED
      BY <3>1, <3>4
  <2> HIDE DEF s
  <2>8. s.tokens = Text(Done)
    BY <2>1, <2>3, <2>7
  <2> QED
    BY <1>1, <1>2, <1>4, <2>7, <2>8, DescribedMore
<1> QED
  BY <1>1, <1>3, <1>4

LEMMA YieldFirstDescribed ==
  ASSUME DecodeInv, SetAside, Collected, Described, YieldFirst
  PROVE  SetAside' /\ Collected' /\ Described'
<1>1. /\ pc = "first" /\ pc' \in {"cycle", "closing", "snapshot"}
      /\ UNCHANGED <<run, greedy, start, chunks, published>>
      /\ session' = [session EXCEPT !.collect = ShouldCollect]
  BY DEF YieldFirst, Resume, request, verified
<1>2. /\ session'.restored = session.restored /\ session'.boundary = session.boundary
      /\ session'.publish = session.publish /\ session'.sidecar = session.sidecar
      /\ session'.frozen = session.frozen
  <2>1. session \in Sessions
    BY DEF DecodeInv, Typed
  <2> QED
    BY <1>1, <2>1 DEF Sessions
<1>3. SetAside'
  BY <1>1, <1>2 DEF SetAside, Sidecar, Known, Hole, Reading
<1>4. Collected'
  <2>1. chunks = << >> /\ start = Len(Prompt) /\ Len(Prompt) \in Nat
    BY <1>1, PromptFacts DEF Collected, DecodeInv, Fresh, Held, Typed
  <2>2. Positions(start, start) = << >>
    <3>1. Positions(start, start) \in Seq(Nat) /\ Len(Positions(start, start)) = start - start
      BY <2>1, PositionsAre
    <3>2. Len(Positions(start, start)) = 0
      BY <2>1, <3>1
    <3> QED
      BY <3>1, <3>2, EmptySeq
  <2> QED
    BY <1>1, <2>1, <2>2 DEF Collected, Reading
<1>5. Described'
  BY <1>1, DescribedStill DEF Ends, Endings
<1> QED
  BY <1>3, <1>4, <1>5

\* Steps that hand out, steer or draft.
LEMMA StillDescribed ==
  ASSUME SetAside, Collected, Described, UNCHANGED <<run, greedy, session, start, chunks, published>>,
         pc \notin Ends \/ generated' = generated, pc \in Ends => pc' \in Ends,
         pc' \notin {"open", "first"} \cup Reading, pc' \in Generating => pc \in Generating
  PROVE  SetAside' /\ Collected' /\ Described'
<1>1. SetAside'
  BY AsideStill DEF Reading
<1>2. Collected'
  BY DEF Collected
<1> QED
  BY <1>1, <1>2, DescribedStill

LEMMA PassDescribed ==
  ASSUME DecodeInv, SetAside, Collected, Described, Pass
  PROVE  SetAside' /\ Collected' /\ Described'
<1>1. /\ pc = "verify" /\ pc' \in {"record", "emit"} /\ hidden' = Positions(start, start')
      /\ chunks' = IF session.collect THEN chunks \o hidden' ELSE chunks
      /\ start \in Nat /\ start' \in Nat /\ start < start' /\ Len(Prompt) <= start
      /\ UNCHANGED <<run, greedy, session, published>>
  BY PassFeatures
<1>2. SetAside' /\ Described'
  BY <1>1, AsideStill, DescribedStill DEF Reading, Ends, Endings
<1>3. Collected'
  <2>1. chunks = IF session.collect THEN Positions(Len(Prompt), start) ELSE << >>
    BY <1>1 DEF Collected, Generating, Loop
  <2>2. Positions(Len(Prompt), start) \o Positions(start, start') = Positions(Len(Prompt), start')
    <3>1. Len(Prompt) \in Nat /\ start <= start'
      BY <1>1, PromptFacts
    <3> QED
      BY <1>1, <3>1, PositionsJoin
  <2> QED
    BY <1>1, <2>1, <2>2 DEF Collected, Reading
<1> QED
  BY <1>2, <1>3

LEMMA DescribedStep ==
  ASSUME DecodeInv, FeaturesRead, Contexts, SetAside, Collected, Described, [Next]_treeVars
  PROVE  SetAside' /\ Collected' /\ Described'
<1>1. CASE TargetOnly
  <2>1. /\ pc \in {"open", "token", "step"} /\ pc' \in {"token", "step", "ending", "closing"}
        /\ UNCHANGED <<run, greedy, session, start, chunks, published>>
    BY <1>1 DEF TargetOnly, TargetPrefill, TargetToken, TargetStep, Resume, fixed, request, decoding
  <2> QED
    BY <2>1, StillDescribed DEF Reading, Generating, Loop, Ends, Endings
<1>2. CASE run.mode = "dflash" /\ LinearCycle /\ ~Verify
  <2>1. /\ pc \in Loop /\ pc' \in Loop
        /\ UNCHANGED <<run, greedy, session, start, chunks, published>>
    BY <1>2 DEF LinearCycle, BeginPlain, BeginPrefetched, BeginDrafted, Begin, Record, Prefetch,
       fixed, request, verified, Loop
  <2> QED
    BY <2>1, StillDescribed DEF Reading, Generating, Loop, Ends, Endings
<1>3. CASE run.mode = "ddtree" /\ TreeCycle /\ ~(VerifyBatch \/ VerifyTree)
  <2>1. /\ pc = "cycle" /\ pc' \in {"verify", "raising"}
        /\ UNCHANGED <<run, greedy, session, start, chunks, published>>
    BY <1>3 DEF TreeCycle, BeginSingle, BeginCopied, BeginBatch, BeginTree, Launch, DraftRaises,
       fixed, request, verified
  <2> QED
    BY <2>1, StillDescribed DEF Reading, Generating, Loop, Ends, Endings
<1>4. CASE Emit \/ EndCycle \/ LimitReached
  <2>1. /\ pc \in {"cycle", "emit"} /\ pc' \in {"cycle", "emit", "closing", "snapshot"}
        /\ UNCHANGED <<run, greedy, session, start, chunks, published>>
    BY <1>4 DEF Emit, EndCycle, LimitReached, Resume, fixed, request, verified
  <2> QED
    BY <2>1, StillDescribed DEF Reading, Generating, Loop, Ends, Endings
<1>5. CASE PublishSnapshot
  <2>1. /\ pc' \in {"ending", "closing"} /\ run' = run /\ session' = session
    BY <1>5 DEF PublishSnapshot, fixed, request
  <2>2. SetAside' /\ Collected'
    BY <2>1, AsideStill DEF Collected, Reading, Generating, Loop
  <2> QED
    BY <1>5, <2>2, PublishSnapshotDescribed
<1>6. CASE Close
  <2>1. /\ pc' \in {"finished", "closed", "raised"}
        /\ UNCHANGED <<run, greedy, session, start, chunks, published, generated>>
    BY <1>6 DEF Close, Endings, fixed, request, emitted
  <2> QED
    BY <2>1, StillDescribed DEF Reading, Generating, Loop, Ends, Endings
<1>7. CASE Retire \/ UNCHANGED treeVars
  <2>1. UNCHANGED <<run, greedy, session, pc, cache, row, start, chunks, published, generated>>
    BY <1>7 DEF Retire, prefilled, decoding, treeVars, vars, emitted, verified, fixed, request
  <2>2. SetAside'
    BY <2>1 DEF SetAside, Sidecar, Known, Hole
  <2>3. Collected'
    BY <2>1 DEF Collected
  <2> QED
    BY <2>1, <2>2, <2>3, DescribedStill
<1> QED
  BY <1>1, <1>2, <1>3, <1>4, <1>5, <1>6, <1>7, PrefillDescribed, PassDescribed, YieldFirstDescribed
     DEF Next, Advance, Decode, Stream, Pass

\* For every prompt, hit, sink, window and stride, every draft and every moment at
\* which the cache manager may close: a published snapshot is of one text, and its
\* features are real and reach as far as a restore of it needs them.
THEOREM SnapshotsAreOfOneText == Spec => []SnapshotDescribesStream
<1>1. Described => SnapshotDescribesStream
  BY DEF Described, OfOneText, Covers, SnapshotDescribesStream, Done
<1>2. DecodeInv /\ (FeaturesRead /\ Contexts /\ SetAside /\ Collected /\ Described) /\ [Next]_treeVars
        => (FeaturesRead /\ Contexts /\ SetAside /\ Collected /\ Described)'
  BY ContextsStep, DescribedStep
<1> QED
  BY <1>1, <1>2, ReadFirst, DescribedFirst, AlwaysDecode, PTL DEF Spec

-----------------------------------------------------------------------------
(* A finished request leaves something for the next one *)

Served == run.mode # "target" /\ active /\ run.supports /\ run.publish # "none"
Collects == run.max > 0 /\ ShouldCollect

\* The places after the snapshot of the prompt.
Later == {"tail", "complete", "first", "ending", "finished"} \cup Generating

Kept ==
  Served =>
    /\ pc \in Reading => session.publish = ~Collects
    /\ pc \in Later => Collects \/ published # {} \/ session.restored = session.boundary
    /\ Collects =>
         /\ pc \in {"first"} \cup Generating => session.frozen # << >>
         /\ pc \in Generating => session.collect
         /\ pc = "snapshot" => Held > 0
         /\ pc \in {"ending", "finished"} => published # {}

\* Nothing is taken out of what was published.
LEMMA KeptStill ==
  ASSUME Kept, run' = run, active' = active, session' = session,
         published \subseteq published',
         pc' \in Reading => pc \in Reading, pc' \in Later => pc \in Later,
         pc' \in {"first"} \cup Generating => pc \in Generating,
         pc' = "snapshot" /\ Collects => Held' > 0,
         pc' \in {"ending", "finished"} => pc \in {"ending", "finished"}
  PROVE  Kept'
<1>1. (Served' <=> Served) /\ (Collects' <=> Collects)
  BY DEF Served, Collects, ShouldCollect
<1>2. published # {} => published' # {}
  OBVIOUS
<1> QED
  BY <1>1, <1>2 DEF Kept, Generating, Loop

LEMMA PrefillKept ==
  ASSUME DecodeInv, FeaturesRead, Kept, Prefill
  PROVE  Kept'
<1>1. run' = run /\ active' = active
  BY DEF Prefill, Open, Chunk, Seam, PublishPrompt, PrefillTail, Complete, fixed, request
<1>2. (Served' <=> Served) /\ (Collects' <=> Collects)
  BY <1>1 DEF Served, Collects, ShouldCollect
<1>3. CASE Open
  <2>1. /\ pc' = "chunks"
        /\ session' = [NoSession EXCEPT !.restored = Restored, !.boundary = Boundary,
                                        !.publish = PublishesPrompt]
    BY <1>3 DEF Open
  <2>2. session'.publish = PublishesPrompt
    BY <2>1 DEF NoSession
  <2>3. Served => PublishesPrompt = ~Collects
    BY DEF Served, Collects, PublishesPrompt
  <2> QED
    BY <1>2, <2>1, <2>2, <2>3 DEF Kept, Later, Generating, Loop
<1>4. CASE Chunk \/ Seam
  <2>1. /\ pc = "chunks" /\ pc' \in {"chunks", "prompt", "closing"} /\ session' = session
    BY <1>4 DEF Chunk, Seam, Resume, fixed
  <2> QED
    BY <1>2, <2>1 DEF Kept, Reading, Later, Generating, Loop
<1>5. CASE PublishPrompt
  <2> DEFINE s == Snapshot("prefill", SubSeq(Prompt, 1, session.boundary), cache, row, hidden,
                           NoSidecar)
             taken == [at |-> session.boundary, rec |-> cache.rec, row |-> row]
  <2>1. /\ pc = "prompt" /\ pc' \in {"tail", "closing", "raising"}
        /\ session' = session \/ session' = [session EXCEPT !.sidecar = taken]
        /\ pc' = "tail" => IF session.publish /\ ~Exact THEN Publish(s) ELSE published' = published
    BY <1>5 DEF PublishPrompt, Resume
  <2>2. /\ session'.restored = session.restored /\ session'.boundary = session.boundary
        /\ session'.publish = session.publish
    <3>1. session \in Sessions
      BY DEF DecodeInv, Typed
    <3> HIDE DEF taken
    <3> QED
      BY <2>1, <3>1 DEF Sessions
  <2>3. Served /\ pc' = "tail" => Collects \/ published' # {} \/ session.restored = session.boundary
    <3> SUFFICES ASSUME Served, pc' = "tail", ~Collects
                 PROVE  published' # {} \/ session.restored = session.boundary
      OBVIOUS
    <3>1. session.publish
      BY <2>1 DEF Kept, Reading
    <3>2. CASE Exact
      BY <3>2 DEF Exact
    <3>3. CASE ~Exact
      <4> HIDE DEF s
      <4>1. published' = published \cup {s}
        BY <2>1, <3>1, <3>3 DEF Publish, Served
      <4> QED
        BY <4>1
    <3> QED
      BY <3>2, <3>3
  <2> QED
    BY <1>2, <2>1, <2>2, <2>3 DEF Kept, Reading, Later, Generating, Loop
<1>6. CASE PrefillTail
  <2>1. /\ pc = "tail" /\ pc' \in {"complete", "closing"} /\ session' = session
        /\ published' = published
    BY <1>6 DEF PrefillTail, Resume, fixed
  <2> QED
    BY <1>2, <2>1 DEF Kept, Reading, Later, Generating, Loop
<1>7. CASE Complete
  <2>1. /\ pc = "complete" /\ pc' \in {"first", "closing", "raising"} /\ published' = published
        /\ session' = [session EXCEPT !.frozen = IF ShouldCollect THEN hidden ELSE << >>]
    BY <1>7 DEF Complete, Resume
  <2>2. /\ session'.restored = session.restored /\ session'.boundary = session.boundary
        /\ session'.frozen = IF ShouldCollect THEN hidden ELSE << >>
    <3>1. session \in Sessions
      BY DEF DecodeInv, Typed
    <3> QED
      BY <2>1, <3>1 DEF Sessions
  <2>3. hidden # << >>
    <3>1. Len(cache.kv) = Len(Prompt) /\ Len(Prompt) > 0
      BY <2>1, PromptFacts DEF DecodeInv, PromptRead, Reading
    <3>2. Mapped
      BY <2>1 DEF FeaturesRead, Reading
    <3> QED
      BY <3>1, <3>2, PromptFacts DEF Mapped
  <2> QED
    BY <1>2, <2>1, <2>2, <2>3 DEF Kept, Reading, Later, Generating, Loop, Collects
<1> QED
  BY <1>3, <1>4, <1>5, <1>6, <1>7 DEF Prefill

\* A request whose answer is collected publishes it.
LEMMA StreamKept ==
  ASSUME DecodeInv, Collected, Kept, Stream
  PROVE  Kept'
<1>1. run' = run /\ active' = active
  BY DEF Stream, YieldFirst, Emit, EndCycle, LimitReached, PublishSnapshot, Close, fixed, request
<1>2. (Served' <=> Served) /\ (Collects' <=> Collects)
  BY <1>1 DEF Served, Collects, ShouldCollect
<1>3. CASE YieldFirst
  <2>1. /\ pc = "first" /\ pc' \in {"cycle", "closing", "snapshot"} /\ published' = published
        /\ pc' = "snapshot" => ~(run.max > 0)
        /\ session' = [session EXCEPT !.collect = ShouldCollect]
    BY <1>3 DEF YieldFirst, Resume
  <2>2. /\ session'.restored = session.restored /\ session'.boundary = session.boundary
        /\ session'.frozen = session.frozen /\ session'.collect = ShouldCollect
    <3>1. session \in Sessions
      BY DEF DecodeInv, Typed
    <3> QED
      BY <2>1, <3>1 DEF Sessions
  <2> QED
    BY <1>2, <2>1, <2>2 DEF Kept, Reading, Later, Generating, Loop, Collects
<1>4. CASE Emit \/ EndCycle \/ LimitReached
  <2>1. /\ pc \in {"emit", "cycle"} /\ pc' \in {"cycle", "emit", "closing", "snapshot"}
        /\ session' = session /\ published' = published /\ start' = start
    BY <1>4 DEF Emit, EndCycle, LimitReached, Resume, fixed, verified
  <2>2. pc' = "snapshot" /\ Collects => Held > 0
    <3>1. CASE pc = "emit"
      <4>1. Len(block.committed) \in Nat \ {0} /\ Len(block.committed) <= Held /\ Held \in Nat
        BY <3>1, BlockAssumption DEF DecodeInv, Committed, Typed
      <4> QED
        BY <4>1
    <3>2. CASE pc = "cycle"
      <4>1. pc' = "snapshot" => Done >= run.max
        BY <1>4, <3>2 DEF Emit, EndCycle, LimitReached, Done
      <4>2. Held = Done /\ Held \in Nat /\ run.max \in Nat
        BY <3>2, LimitFacts DEF DecodeInv, Between, Typed
      <4> QED
        BY <4>1, <4>2 DEF Collects
    <3> QED
      BY <2>1, <3>1, <3>2
  <2>3. Held' = Held
    BY <2>1 DEF Held
  <2> QED
    BY <1>1, <2>1, <2>2, <2>3, KeptStill DEF Reading, Later, Generating, Loop
<1>5. CASE PublishSnapshot
  <2> DEFINE s == Snapshot("generation", Prompt \o generated, cache, row,
                           session.frozen \o chunks, session.sidecar)
             given == generated # << >> /\ ShouldCollect /\ session.frozen # << >> /\ chunks # << >>
  <2>1. /\ pc = "snapshot" /\ pc' \in {"ending", "closing"} /\ session' = session
        /\ IF given THEN Publish(s) ELSE published' = published
    BY <1>5 DEF PublishSnapshot, fixed
  <2>2. Served /\ Collects => given
    <3> SUFFICES ASSUME Served, Collects PROVE given
      OBVIOUS
    <3>1. session.frozen # << >> /\ session.collect /\ Held > 0
      BY <2>1 DEF Kept, Generating
    <3>2. generated # << >>
      <4>1. Held = Done
        BY <2>1 DEF DecodeInv, Between
      <4> QED
        BY <3>1, <4>1 DEF Done
    <3>3. chunks # << >>
      <4>1. chunks = Positions(Len(Prompt), start)
        BY <2>1, <3>1 DEF Collected, Generating
      <4>2. Len(Prompt) \in Nat /\ start \in Nat /\ Len(Prompt) <= start /\ start - Len(Prompt) > 0
        BY <3>1, PromptFacts DEF DecodeInv, Typed, Held
      <4>3. Len(chunks) = start - Len(Prompt)
        BY <4>1, <4>2, PositionsAre
      <4> QED
        BY <4>2, <4>3
    <3> QED
      BY <3>1, <3>2, <3>3 DEF Collects
  <2> HIDE DEF s, given
  <2>3. published \subseteq published' /\ (Served /\ Collects => published' # {})
    BY <2>1, <2>2 DEF Publish, Served
  <2> QED
    BY <1>2, <2>1, <2>3 DEF Kept, Reading, Later, Generating, Loop
<1>6. CASE Close
  <2>1. /\ pc \in {"ending", "closing", "raising"} /\ pc' \in {"finished", "closed", "raised"}
        /\ pc' = "finished" => pc = "ending"
        /\ session' = session /\ published' = published
    BY <1>6 DEF Close, Endings, fixed
  <2> QED
    BY <1>1, <2>1, KeptStill DEF Reading, Later, Generating, Loop
<1> QED
  BY <1>3, <1>4, <1>5, <1>6 DEF Stream

LEMMA KeptStep ==
  ASSUME DecodeInv, FeaturesRead, Collected, Kept, [Next]_treeVars
  PROVE  Kept'
<1>1. CASE TargetOnly
  <2>1. run.mode = "target" /\ run' = run
    BY <1>1 DEF TargetOnly, TargetPrefill, TargetToken, TargetStep, fixed, request, DecodeInv, Places
  <2> QED
    BY <2>1 DEF Kept, Served
<1>2. CASE run.mode \in {"dflash", "ddtree"} /\ (LinearCycle \/ TreeCycle)
  <2>1. /\ pc \in Loop /\ pc' \in Loop \cup {"raising"}
        /\ UNCHANGED <<run, active, session, published>>
    BY <1>2 DEF LinearCycle, BeginPlain, BeginPrefetched, BeginDrafted, Begin, Verify, Record,
       Prefetch, TreeCycle, BeginSingle, BeginCopied, BeginBatch, BeginTree, Launch, DraftRaises,
       VerifyBatch, VerifyTree, Commit, fixed, request, Loop
  <2> QED
    BY <2>1, KeptStill DEF Reading, Later, Generating, Loop
<1>3. CASE Retire
  BY <1>3 DEF Retire, Kept, Served
<1>4. CASE UNCHANGED treeVars
  <2>1. UNCHANGED <<run, active, session, pc, start, published>>
    BY <1>4 DEF treeVars, vars, fixed, request, verified
  <2> QED
    BY <2>1 DEF Kept, Served, Collects, ShouldCollect, Held
<1> QED
  BY <1>1, <1>2, <1>3, <1>4, PrefillKept, StreamKept DEF Next, Advance, Decode

\* For every prompt, hit and kind of request: one that comes to its end has
\* published a snapshot, unless the one it restored is all there is to publish.
THEOREM FinishedLeavesSnapshot == Spec => []FinishedRequestIsCached
<1>1. Init => Kept
  BY DEF Init, Kept, Reading, Later, Generating, Loop
<1>2. Kept => FinishedRequestIsCached
  BY DEF Kept, Served, Collects, Later, FinishedRequestIsCached
<1> DEFINE All == FeaturesRead /\ Contexts /\ SetAside /\ Collected /\ Described /\ Kept
<1>3. Init => All
  BY <1>1, ReadFirst, DescribedFirst
<1>4. DecodeInv /\ All /\ [Next]_treeVars => All'
  BY ContextsStep, DescribedStep, KeptStep
<1>5. All => FinishedRequestIsCached
  BY <1>2
<1> HIDE DEF All
<1> QED
  BY <1>3, <1>4, <1>5, AlwaysDecode, PTL DEF Spec
=============================================================================
