----------------------------- MODULE ReplyPromise -----------------------------
(***************************************************************************)
(* What the server promises to the reader of one reply, whatever happens   *)
(* behind it: the tokens of the model's text one after the other, a finish *)
(* reason with the token that ends the reply and with no other, and one    *)
(* end of the reply, good or bad, after which nothing comes.  The reason   *)
(* is the engine's: a reply that stopped may be said to end at the limit,  *)
(* but only when the engine went on to the limit behind it.                *)
(***************************************************************************)
EXTENDS Integers, Sequences, SequencesExt

CONSTANTS Client, Stop,
          Overrun      \* the tokens the engine may hand out after a stop token

VARIABLES options,     \* each client's text, limit and stop word
          got,         \* the tokens it has read
          reason,      \* the finish reason it has read, or "none"
          fate         \* "open", "answered", "failed" or "left"

vars == <<options, got, reason, fate>>

\* The tokens end in a stop token or in the stop word of the request.
Stopped(o, tokens) ==
  \/ Last(tokens) \in Stop
  \/ o.word # << >> /\ IsSuffix(o.word, tokens)

\* The engine goes on to the limit: it knows no stop words, and may hand out a
\* few tokens after a stop token.
RunsOn(o) == \A n \in 1 .. o.limit :
               o.text[n] \in Stop => n # o.limit /\ n + Overrun >= o.limit

Init == /\ got = [c \in Client |-> << >>]
        /\ reason = [c \in Client |-> "none"]
        /\ fate = [c \in Client |-> "open"]

Read(c) ==
  /\ fate[c] = "open" /\ reason[c] = "none"
  /\ got' = [got EXCEPT ![c] = Append(@, options[c].text[Len(@) + 1])]
  /\ \E why \in {"none", "stop", "length"} :
       /\ why = "none" <=> ~Stopped(options[c], got'[c]) /\ Len(got'[c]) < options[c].limit
       /\ why = "stop" => Stopped(options[c], got'[c])
       /\ why = "length" => Len(got'[c]) >= options[c].limit \/ RunsOn(options[c])
       /\ reason' = [reason EXCEPT ![c] = why]
  /\ UNCHANGED <<options, fate>>

\* A reply is complete only with its finish reason.
Answer(c) ==
  /\ fate[c] = "open" /\ (reason[c] # "none" \/ options[c].limit = 0)
  /\ fate' = [fate EXCEPT ![c] = "answered"]
  /\ UNCHANGED <<options, got, reason>>

Break(c) ==
  /\ fate[c] = "open"
  /\ \E f \in {"failed", "left"} : fate' = [fate EXCEPT ![c] = f]
  /\ UNCHANGED <<options, got, reason>>

Next == \E c \in Client : Read(c) \/ Answer(c) \/ Break(c)

Spec == Init /\ [][Next]_vars

==============================================================================
