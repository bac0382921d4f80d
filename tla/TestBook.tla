------------------------------ MODULE TestBook ------------------------------
(***************************************************************************)
(* What a test promises about its attempts, whatever runs at once (C-04,   *)
(* Q1 p3 M1 and M7 in study/service.py): a change is to one answer of the  *)
(* current attempt, was made for that attempt, and leaves its other        *)
(* answers alone; the total of a finished attempt is the sum of its        *)
(* scores; an earlier attempt never changes again.                         *)
(*                                                                         *)
(* StudyBlock implements this specification.                               *)
(***************************************************************************)
EXTENDS Naturals, Sequences

CONSTANTS
  Fresh,         \* attempts nobody has answered yet
  Total(_)       \* the sum of the scores of an attempt

VARIABLES
  attempts,      \* each with its answers, whether it is finished, and its total
  current        \* the number of the attempt the test shows

Init == attempts \in {<<a>> : a \in Fresh} /\ current = 1

\* A finished attempt's total follows its answers.
Summed(a) == IF a.finished THEN [a EXCEPT !.correct = Total(a)] ELSE a

Answer(q) ==
  LET new == attempts'[current].answers[q]
  IN  /\ attempts' = [attempts EXCEPT ![current] = Summed([@ EXCEPT !.answers[q] = new])]
      /\ new.of = current
      /\ UNCHANGED current

Finish ==
  /\ attempts' = [attempts EXCEPT ![current] = Summed([@ EXCEPT !.finished = TRUE])]
  /\ UNCHANGED current

Retake ==
  /\ \E a \in Fresh : attempts' = Append(attempts, a)
  /\ UNCHANGED current

Show == current' = Len(attempts) /\ UNCHANGED attempts

Next == Finish \/ Retake \/ Show \/ \E q \in DOMAIN attempts[current].answers : Answer(q)

Spec == Init /\ [][Next]_<<attempts, current>>
=============================================================================
