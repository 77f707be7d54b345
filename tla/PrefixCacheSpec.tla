--------------------------- MODULE PrefixCacheSpec ---------------------------
(***************************************************************************)
(* What a prefix cache promises to the engine, whatever it is made of.     *)
(*                                                                         *)
(* The cache may forget any snapshot at any time.  It may never make one   *)
(* up: a snapshot it hands out is one it was given and still holds, or its *)
(* slice at the sidecar boundary, which it only cuts where the features    *)
(* the draft model reads are there; its tokens are a prefix of the         *)
(* request, its arrays fit the request, and a restore of the whole request *)
(* comes with logits.  The in-memory cache (PrefixL1), the directory of files    *)
(* that processes share (PrefixL2) and the two-level store (PrefixStore)   *)
(* are all shown to implement this specification.                          *)
(***************************************************************************)
EXTENDS Snapshots

CONSTANTS Snapshot,    \* the snapshots the engine may offer
          Request,     \* the requests it may make
          NoSnapshot   \* the answer to a request the cache cannot serve

VARIABLES held,        \* the snapshots the cache holds somewhere
          reply        \* the last answer: [req |-> ..., snap |-> ...]

\* The snapshots that may be handed out for r when s is held.
Restorable(s, r) ==
  LET slices == {SliceAtBoundary(t) : t \in {u \in {s} : u.boundary > 0 /\ u.context # "none"}}
  IN {t \in {s} \cup slices : UsableWhole(t, r) /\ Answers(t, r)}

\* What an earlier process stored may still be there.
Init == held \subseteq Snapshot /\ reply = NoSnapshot

Offer(s) ==
  /\ held' \subseteq held \cup {s}
  /\ reply' = reply

Serve(r) ==
  /\ \/ reply' = [req |-> r, snap |-> NoSnapshot]
     \/ \E s \in held : \E t \in Restorable(s, r) :
          reply' = [req |-> r, snap |-> t]
  /\ held' \subseteq held

Forget == held' \subseteq held /\ reply' = reply

Next == \/ \E s \in Snapshot : Offer(s)
        \/ \E r \in Request : Serve(r)
        \/ Forget

Spec == Init /\ [][Next]_<<held, reply>>

==============================================================================
