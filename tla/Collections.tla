----------------------------- MODULE Collections -----------------------------
(***************************************************************************)
(* Two operators on lists and byte counts, written with cardinalities      *)
(* rather than by recursion (SelectSeq, the folds): the prover knows what  *)
(* a cardinality is, and cannot unfold a recursion.                        *)
(***************************************************************************)
EXTENDS Integers, SequencesExt

\* The n-th smallest number of the finite set K.
Nth(K, n) == CHOOSE k \in K : Cardinality({j \in K : j <= k}) = n

\* The elements of s at the positions in K, in their order.
SelectAt(s, K) == [n \in 1 .. Cardinality(K) |-> s[Nth(K, n)]]

\* The sum of a function into the natural numbers: its units, counted.
Units(f) == UNION {{x} \X (1 .. f[x]) : x \in DOMAIN f}
Total(f) == Cardinality(Units(f))

==============================================================================
