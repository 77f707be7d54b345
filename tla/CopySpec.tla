------------------------------- MODULE CopySpec -------------------------------
(***************************************************************************)
(* engine/copyspec.py: drafting by copying.                                *)
(*                                                                         *)
(* CopySpecIndex looks the last tokens up in everything seen so far and    *)
(* proposes what followed them there.  CopySpecAutoGate decides per cycle  *)
(* whether to use it: it measures the rate of tokens without copying, then *)
(* with it, and latches the winner for a while.  The measured rates enter  *)
(* as one bit, whether the window with copying was the slower one; the     *)
(* hash index is the set of positions it finds.                            *)
(***************************************************************************)
EXTENDS Integers, Sequences, FiniteSetsExt, SequencesExt

CONSTANTS CopyWindow,            \* COPYSPEC_WINDOW_SIZE
          ProbeOff,              \* COPYSPEC_PROBE_OFF_CYCLES
          ProbeOnCopies,         \* COPYSPEC_PROBE_ON_MIN_COPY
          ProbeOnCycles,         \* COPYSPEC_PROBE_ON_MAX_CYCLES
          Latch, BackoffCap      \* COPYSPEC_LATCH_CYCLES, COPYSPEC_BACKOFF_CAP

\* The positions after the earlier occurrences of the window that ends in staged.
Occurrences(tokens, staged) ==
  LET tail == SubSeq(tokens, Len(tokens) - CopyWindow + 2, Len(tokens)) \o <<staged>>
  IN IF Len(tokens) + 1 < CopyWindow THEN {}
     ELSE {p \in CopyWindow .. Len(tokens) - 1 :
             SubSeq(tokens, p - CopyWindow + 1, p) = tail}

\* draft_after: the copy starts at the occurrence with the most tokens after
\* it, and is given only whole and without forbidden tokens.  The answer is
\* the set of the copies: empty, or one.
DraftAfter(prompt, tokens, staged, count, forbidden) ==
  LET found == Occurrences(tokens, staged)
      copy == SubSeq(tokens, Min(found) + 1, Min(found) + count)
  IN IF /\ Len(prompt) > CopyWindow /\ count > 0 /\ found # {}
        /\ Len(tokens) - Min(found) >= count
        /\ ToSet(copy) \cap forbidden = {}
     THEN {copy} ELSE {}

-----------------------------------------------------------------------------

FreshGate == [phase |-> "measure_off", cycles |-> 0, copies |-> 0,
              latch |-> 0, losses |-> 0, reset |-> FALSE]

\* Copying without a gate, or no copying at all.
NoGate == [FreshGate EXCEPT !.phase = "none"]

EngageCopy(g) == g.phase \in {"none", "measure_on", "engaged"}

Restart(g, phase) == [g EXCEPT !.phase = phase, !.cycles = 0, !.copies = 0]

\* The end of the window with copying.
EndProbe(g, slower) ==
  IF g.copies = 0 \/ slower
  THEN [Restart(g, "dormant") EXCEPT
          !.latch = Latch * 2 ^ Min({g.losses, BackoffCap}),
          !.losses = @ + 1, !.reset = TRUE]
  ELSE [Restart(g, "engaged") EXCEPT !.latch = Latch, !.losses = 0]

\* record_cycle
RecordCycle(g, copied, slower) ==
  LET h == [g EXCEPT !.cycles = @ + 1, !.copies = IF copied THEN @ + 1 ELSE @]
      spent == [h EXCEPT !.latch = @ - 1]
  IN CASE h.phase = "none" -> g
       [] h.phase = "measure_off" ->
            IF h.cycles >= ProbeOff THEN Restart(h, "measure_on") ELSE h
       [] h.phase = "measure_on" ->
            IF h.copies >= ProbeOnCopies \/ h.cycles >= ProbeOnCycles
            THEN EndProbe(h, slower) ELSE h
       [] h.phase = "engaged" ->
            IF spent.latch <= 0
            THEN [Restart(spent, "measure_off") EXCEPT !.reset = TRUE] ELSE spent
       [] h.phase = "dormant" ->
            IF spent.latch <= 0 THEN Restart(spent, "measure_off") ELSE spent

==============================================================================
