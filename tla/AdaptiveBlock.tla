---------------------------- MODULE AdaptiveBlock ----------------------------
(***************************************************************************)
(* _AdaptiveBlockPolicy (engine/spec_epoch.py): how many tokens the next   *)
(* cycle may draft.  The policy starts at full blocks, drops to reduced    *)
(* blocks when the draft is accepted too rarely, and after a burst of      *)
(* reduced cycles probes full blocks again.                                *)
(*                                                                         *)
(* A policy is a value and every operator returns the next one.  The wall  *)
(* clock enters as one bit: whether the probe was at least as fast as the  *)
(* reduced cycles before it.  Ratios are pairs <<numerator, denominator>>. *)
(***************************************************************************)
EXTENDS Integers, Sequences, SequencesExt, FiniteSetsExt

CONSTANTS FullBlock, MinBlock,           \* full_block_tokens, min_block_tokens
          WindowSize,                    \* window_size
          Burst, LongBurst,              \* reduced_burst_cycles of the two kinds
          ProbeCycles, EarlyProbeCycles,
          EarlyMin, EarlyWindow, EarlyAcceptance,
          DropAcceptance, ResumeAcceptance, TpcThreshold

FreshPolicy ==
  [mode |-> "full", since |-> 0, burst |-> Burst, probing |-> 0,
   lockout |-> FALSE, full |-> << >>, probe |-> << >>, accepts |-> << >>]

NoPolicy == [FreshPolicy EXCEPT !.mode = "none"]

\* from_runtime: no policy without room below the block or under a verify cap.
PolicyFromRuntime(adaptive, verifyCap, longPrompt) ==
  IF ~adaptive \/ FullBlock <= MinBlock \/ verifyCap < FullBlock THEN NoPolicy
  ELSE IF longPrompt
       THEN [FreshPolicy EXCEPT !.mode = "reduced", !.burst = LongBurst]
       ELSE FreshPolicy

BlockLimit(p) == IF p.mode = "reduced" THEN MinBlock ELSE FullBlock

-----------------------------------------------------------------------------

Total(commits) == FoldFunction(+, 0, commits)
KeepLast(s, n) == SubSeq(s, IF Len(s) > n THEN Len(s) - n + 1 ELSE 1, Len(s))

\* _window_stats against the two thresholds: the share of committed tokens
\* that were drafted, and the tokens a cycle commits.
AcceptedEnough(commits, share) ==
  share[2] * (Total(commits) - Len(commits)) >= share[1] * Total(commits)
FastEnough(commits) ==
  TpcThreshold[2] * Total(commits) >= TpcThreshold[1] * Len(commits)

EnterReduced_NoLockout(lockout) == [FreshPolicy EXCEPT !.mode = "reduced"]

EnterReduced(lockout) ==
  [FreshPolicy EXCEPT !.mode = "reduced", !.lockout = lockout]

EnterProbe(p, early) ==
  [p EXCEPT !.mode = "probe", !.burst = Burst, !.probe = << >>, !.accepts = << >>,
            !.lockout = early /\ @,
            !.probing = IF early THEN EarlyProbeCycles ELSE ProbeCycles]

\* _should_probe_reduced_early
EarlyProbeDue(p) ==
  /\ ~p.lockout
  /\ p.since >= EarlyMin
  /\ Len(p.accepts) >= EarlyWindow
  /\ EarlyAcceptance[2] * Cardinality({i \in DOMAIN p.accepts : p.accepts[i]})
       >= EarlyAcceptance[1] * Len(p.accepts)

RecordReduced(p, blockLen, acceptance) ==
  LET q == [p EXCEPT
              !.since = @ + 1,
              !.accepts = KeepLast(Append(@, blockLen > 1 /\ acceptance >= blockLen - 1),
                                   EarlyWindow)]
  IN IF EarlyProbeDue(q) THEN EnterProbe(q, TRUE)
     ELSE IF q.since >= q.burst THEN EnterProbe(q, FALSE) ELSE q

\* The end of a probe: back to full blocks, or a reduced burst that may not be
\* cut short by an early probe.
EndProbe(p, faster) ==
  IF /\ AcceptedEnough(p.probe, ResumeAcceptance)
     /\ FastEnough(p.probe)
     /\ faster
  THEN [p EXCEPT !.mode = "full", !.since = 0, !.burst = Burst, !.probing = 0,
                 !.probe = << >>, !.accepts = << >>, !.full = << >>]
  ELSE EnterReduced(TRUE)

RecordFull(p, acceptance, faster) ==
  LET q == [p EXCEPT !.full = KeepLast(Append(@, 1 + acceptance), WindowSize)]
      r == [q EXCEPT !.probe = Append(@, 1 + acceptance),
                     !.probing = IF @ > 0 THEN @ - 1 ELSE 0]
      goodEnough == AcceptedEnough(q.full, DropAcceptance) /\ FastEnough(q.full)
  IN IF q.mode = "probe" THEN IF r.probing > 0 THEN r ELSE EndProbe(r, faster)
     ELSE IF Len(q.full) < WindowSize \/ goodEnough THEN q ELSE EnterReduced(FALSE)

\* record: a block cut short by the end of the request says nothing about
\* full blocks and is dropped.
RecordBlock(p, blockLen, acceptance, faster) ==
  CASE p.mode = "none" -> p
    [] p.mode = "reduced" /\ blockLen < FullBlock -> RecordReduced(p, blockLen, acceptance)
    [] p.mode # "reduced" /\ blockLen < FullBlock -> p
    [] OTHER -> RecordFull(p, acceptance, faster)

==============================================================================
