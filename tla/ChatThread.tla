------------------------------- MODULE ChatThread -------------------------------
(***************************************************************************)
(* What the chat's stored answers promise: one at a time is being written, *)
(* and an answer that has ended only ever gives way to a new one, or is    *)
(* taken away.                                                             *)
(***************************************************************************)
CONSTANT Answers

VARIABLES
  state,   \* [Answers -> what the chat holds of each]
  doomed,  \* the answers given up: their chat is being deleted, or the save of their end failed
  closed   \* the answer SKAZ closes, while it does

Ended == {"done", "failed", "cancelled", "interrupted"}

Init == state = [a \in Answers |-> "absent"]

\* A new answer is stored; the answers in gone make room for it.
Ask(a, gone) ==
  /\ state[a] = "absent"
  /\ \A b \in Answers : state[b] = "streaming" => b \in doomed
  /\ \A b \in gone : state[b] \in Ended \/ b \in doomed
  /\ state' = [b \in Answers |-> IF b = a THEN "streaming" ELSE
                                 IF b \in gone THEN "absent" ELSE state[b]]

End(a) ==
  /\ state[a] = "streaming"
  /\ \E s \in Ended : state' = [state EXCEPT ![a] = s]

\* SKAZ closes, or starts again after it was ended: of answers that have ended only the one whose
\* end is being saved while SKAZ closes can become interrupted.
Interrupt(A) ==
  /\ \A a \in A : state[a] = "streaming" \/ (a \in closed /\ state[a] # "absent")
  /\ state' = [a \in Answers |-> IF a \in A THEN "interrupted" ELSE state[a]]

\* What was being saved at that moment is saved after it.
Settle(a) ==
  /\ a \in closed /\ state[a] = "interrupted"
  /\ \E s \in Ended \cup {"streaming"} : state' = [state EXCEPT ![a] = s]

Delete == state' = [a \in Answers |-> "absent"]

Next ==
  \/ \E a \in Answers : End(a) \/ Settle(a)
  \/ \E A \in SUBSET Answers : Interrupt(A) \/ \E a \in Answers : Ask(a, A)
  \/ Delete

Spec == Init /\ [][Next]_state
===============================================================================
