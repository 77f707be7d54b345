----------------------------- MODULE GreedyDecode -----------------------------
(***************************************************************************)
(* What decoding promises, however it is done: the tokens handed to the    *)
(* consumer are the target model's own greedy continuation of the prompt,  *)
(* one after the other, none skipped, repeated or changed.  The engine     *)
(* ends by itself only at the limit or after a stop token, and runs past a *)
(* stop token for less than a block.                                       *)
(***************************************************************************)
EXTENDS Integers, Sequences

CONSTANTS Stop,        \* the stop tokens of the request
          Overrun      \* the tokens that may follow a stop token

VARIABLES greedy,      \* the target's greedy continuation, fixed by the prompt
          limit,       \* max_new_tokens
          output,      \* what the consumer was given
          ended        \* "no", "closed" by the consumer, "finished" or "failed"

\* A stop token lies before the last n tokens of the output.
StoppedBefore(n) == \E i \in 1 .. Len(output) - n : output[i] \in Stop

Init == output = << >> /\ ended = "no"

Emit ==
  /\ ended = "no" /\ Len(output) < limit /\ ~StoppedBefore(Overrun)
  /\ output' = Append(output, greedy[Len(output) + 1])
  /\ ended' \in {"no", "closed"}
  /\ UNCHANGED <<greedy, limit>>

Finish ==
  /\ ended = "no"
  /\ Len(output) = limit \/ StoppedBefore(0)
  /\ ended' = "finished"
  /\ UNCHANGED <<greedy, limit, output>>

\* The consumer may close the stream at any time.
Close ==
  /\ ended = "no" /\ ended' = "closed"
  /\ UNCHANGED <<greedy, limit, output>>

\* The engine may raise; what it has handed out until then is right.
Fail ==
  /\ ended = "no" /\ ended' = "failed"
  /\ UNCHANGED <<greedy, limit, output>>

Next == Emit \/ Finish \/ Close \/ Fail

Spec == Init /\ [][Next]_<<greedy, limit, output, ended>>

==============================================================================
